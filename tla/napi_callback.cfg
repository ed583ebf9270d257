\* Callbacks into native code while a scope is open.
SPECIFICATION PageSpec
CONSTANTS
  v1 = v1
  v2 = v2
  Value <- TwoValues
  NoValue = NoValue
  MaxHandle = 3
  MaxDepth = 2
  MaxListed = 2
  MaxFrames = 1
  MaxRef = 0
  MaxCount = 2
  MaxWrap = 0
  CallbackDepths <- AtAnyDepth
  Careful = TRUE
  t1 = t1
  t2 = t2
  Tab <- TwoTabs
  MaxEdit = 1
  MaxSave = 2
  MaxPage = 2
  Instances = {"napi"}
SYMMETRY ValueSymmetry
\* Native code may finish, and bounded slots may all be in use.
CHECK_DEADLOCK FALSE
INVARIANTS HandlesKeepTheirValue
