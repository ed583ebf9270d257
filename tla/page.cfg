\* Each part in turn; native code is careful and called from the root scope.
SPECIFICATION PageSpec
CONSTANTS
  v1 = v1
  v2 = v2
  Value <- TwoValues
  NoValue = NoValue
  MaxHandle = 3
  MaxDepth = 2
  MaxListed = 1
  MaxFrames = 1
  MaxRef = 1
  MaxCount = 2
  MaxWrap = 1
  CallbackDepths <- AtRoot
  Careful = TRUE
  t1 = t1
  t2 = t2
  Tab <- TwoTabs
  MaxEdit = 1
  MaxSave = 2
  MaxPage = 2
  Instances = {"napi", "page", "npm", "fs", "fd", "commands", "loader", "runner",
           "resolver", "terminal", "buffers", "objects", "scripts", "values", "env", "host",
           "events", "chain", "iterator"}
SYMMETRY ValueSymmetry
VIEW PartView
\* Native code may finish, bounded slots may all be in use, pages are closed.
CHECK_DEADLOCK FALSE
INVARIANTS PageTypeOK
INVARIANTS HandlesKeepTheirValue StrongReferencesResolve
INVARIANTS UnwrapIsOwn PendingExceptionIsKept
INVARIANTS ShellNeedsItsFiles NpmIsTrue FilesAreTrue
INVARIANTS ModulesAreTrue RunsAreClean
INVARIANTS NapiIsTrue EventsAreTrue
