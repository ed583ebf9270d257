---------------------------- MODULE NapiHandles ----------------------------
(***************************************************************************)
(* The handle table of NapiBridge (napi-bridge/index.js): how native code, *)
(* compiled to Wasm, names JavaScript values. A napi_value is an index into*)
(* handles[]; scopes, callbacks, references and wraps decide when an index *)
(* may be used again for another value.                                    *)
(*                                                                         *)
(* Handles 1 to 3 (undefined, null, global) are never freed and are left   *)
(* out: values here are those that need a slot. handleFreeList and the     *)
(* lists in handleScopes are bags, so that which freed slot is used again  *)
(* is left open; that a slot may be in a bag twice is the point. Native    *)
(* code is the environment: it closes the scopes it opens in a callback    *)
(* before it returns, and uses only handles N-API says are alive (held).   *)
(***************************************************************************)
EXTENDS Integers, Sequences

CONSTANTS
  Value,           \* JavaScript values that native code meets
  NoValue,         \* what a freed slot holds (undefined)
  MaxHandle,       \* bound: slots in handles[]
  MaxDepth,        \* bound: scopes open at once, the root scope included
  MaxListed,       \* bound: times one scope's list names a handle
  MaxFrames,       \* bound: native callbacks running at once
  MaxRef,          \* bound: references that native code holds at once
  MaxCount,        \* bound: reference count
  MaxWrap,         \* bound: calls of napi_wrap
  CallbackDepths,  \* number of open scopes at which JS may call into native
  Careful          \* does native code keep to the discipline below?

(* Careful native code refers to a handle that has no reference yet, drops  *)
(* the last count of a reference by deleting it only, does not delete the   *)
(* one that napi_wrap gave it before it removes the wrap, removes no wrap   *)
(* while it has another reference of that handle, and fetches an exception  *)
(* before it closes a scope. N-API asks for none of it. Careful code, too,  *)
(* may wrap an object without asking for a reference.                       *)
ASSUME HandlesAssumption ==
  /\ NoValue \notin Value
  /\ MaxHandle \in Nat /\ MaxDepth \in Nat \ {0} /\ MaxListed \in Nat
  /\ MaxFrames \in Nat /\ MaxRef \in Nat /\ MaxCount \in Nat \ {0}
  /\ MaxWrap \in Nat
  /\ CallbackDepths \subseteq 1 .. MaxDepth
  /\ Careful \in BOOLEAN

VARIABLES
  slot,       \* handles[]: the value at each index
  top,        \* handles.length - 4: slots ever used
  free,       \* handleFreeList: how often each handle is in it
  depth,      \* handleScopes.length
  scope,      \* handleScopes: how often each handle is in each list
  frames,     \* running callbacks: each one's temporary handle and depth
  refs,       \* refs: the count of each handle in it
  registry,   \* wrapRegistry: the wrap of each handle
  wrapOf,     \* wrapDataByObject: the wrap of each object
  finalized,  \* wraps whose finalize callback has run (isFinalized)
  wraps,      \* calls of napi_wrap so far (nextWrapId - 1)
  pending,    \* pendingExceptionHandle
  held,       \* history: handles that N-API says native code may use
  nativeRef,  \* history: references native code holds, by any number
  owner,      \* history: the object each wrap was made for
  thrown      \* history: the value of the pending exception

table == <<slot, top, free, depth, scope, frames>>
wrapping == <<registry, wrapOf, finalized, wraps, owner>>
exception == <<pending, thrown>>
vars == <<table, refs, wrapping, exception, held, nativeRef>>

Handle == 1 .. MaxHandle
Depth == 1 .. MaxDepth
Wrap == 1 .. MaxWrap

NoHandle == 0
NoWrap == 0
NoRef == -1
Absent == [handle |-> NoHandle]

(* A local handle lives as long as the scope of that level, an argument as  *)
(* long as the callback of that level.                                      *)
Holding(kind, h, v, level) ==
  [kind |-> kind, handle |-> h, value |-> v, level |-> level]

Reference(h, v, count, wrapped) ==
  [handle |-> h, value |-> v, count |-> count, wrapped |-> wrapped]

EmptyList == [h \in Handle |-> 0]

Init ==
  /\ slot = [h \in Handle |-> NoValue] /\ top = 0
  /\ free = EmptyList
  /\ depth = 1
  /\ scope = [d \in Depth |-> EmptyList]
  /\ frames = << >>
  /\ refs = [h \in Handle |-> NoRef]
  /\ registry = [h \in Handle |-> NoWrap]
  /\ wrapOf = [v \in Value |-> NoWrap]
  /\ finalized = {} /\ wraps = 0
  /\ owner = [w \in Wrap |-> NoValue]
  /\ pending = NoHandle /\ thrown = NoValue
  /\ held = {}
  /\ nativeRef = [k \in 1 .. MaxRef |-> Absent]

TypeOK ==
  /\ slot \in [Handle -> Value \cup {NoValue}]
  /\ top \in 0 .. MaxHandle
  /\ free \in [Handle -> Nat]
  /\ depth \in Depth
  /\ scope \in [Depth -> [Handle -> Nat]]
  /\ frames \in Seq([handle : Handle, depth : Depth])
  /\ refs \in [Handle -> Nat \cup {NoRef}]
  /\ registry \in [Handle -> Wrap \cup {NoWrap}]
  /\ wrapOf \in [Value -> Wrap \cup {NoWrap}]
  /\ finalized \subseteq Wrap /\ wraps \in 0 .. MaxWrap
  /\ owner \in [Wrap -> Value \cup {NoValue}]
  /\ pending \in Handle \cup {NoHandle}
  /\ thrown \in Value \cup {NoValue}
  /\ held \subseteq [kind : {"local", "argument"}, handle : Handle,
                     value : Value, level : Nat]
  /\ nativeRef \in [1 .. MaxRef ->
       [handle : Handle, value : Value, count : Nat, wrapped : BOOLEAN]
         \cup {Absent}]

-----------------------------------------------------------------------------
(* createHandle: a slot from the free list, or a new one; the current scope *)
(* is told of it.                                                           *)
MayCreate(h) ==
  /\ IF \E g \in Handle : free[g] > 0 THEN free[h] > 0 ELSE h = top + 1
  /\ scope[depth][h] < MaxListed

\* Mutant: looks at the free list and pops nothing.
CreateHandlePeeked(h, v) ==
  /\ MayCreate(h)
  /\ slot' = [slot EXCEPT ![h] = v]
  /\ top' = IF h > top THEN h ELSE top
  /\ scope' = [scope EXCEPT ![depth][h] = @ + 1]
  /\ UNCHANGED free

\* Mutant: pops a free list that may be empty.
CreateHandleUnchecked(h, v) ==
  /\ MayCreate(h)
  /\ slot' = [slot EXCEPT ![h] = v]
  /\ top' = IF h > top THEN h ELSE top
  /\ free' = [free EXCEPT ![h] = @ - 1]
  /\ scope' = [scope EXCEPT ![depth][h] = @ + 1]

CreateHandle(h, v) ==
  /\ MayCreate(h)
  /\ slot' = [slot EXCEPT ![h] = v]
  /\ top' = IF h > top THEN h ELSE top
  /\ free' = [free EXCEPT ![h] = IF @ > 0 THEN @ - 1 ELSE 0]
  /\ scope' = [scope EXCEPT ![depth][h] = @ + 1]

(* freeHandle, on a bag of handles: a handle with a reference stays.        *)
\* Mutant: frees handles that a reference keeps.
FreeHandlesAll(bag) ==
  /\ slot' = [h \in Handle |-> IF bag[h] > 0 THEN NoValue ELSE slot[h]]
  /\ free' = [h \in Handle |-> free[h] + bag[h]]

FreeHandles(bag) ==
  LET freed(h) == bag[h] > 0 /\ refs[h] = NoRef
  IN /\ slot' = [h \in Handle |-> IF freed(h) THEN NoValue ELSE slot[h]]
     /\ free' = [h \in Handle |-> IF freed(h) THEN free[h] + bag[h]
                                  ELSE free[h]]

(* Any function of the bridge that returns a value to native code.          *)
Return(v) ==
  \E h \in Handle :
    /\ CreateHandle(h, v)
    /\ held' = held \cup {Holding("local", h, v, depth)}
    /\ UNCHANGED <<depth, frames, refs, wrapping, exception, nativeRef>>

OpenHandleScope ==
  /\ depth < MaxDepth
  /\ depth' = depth + 1
  /\ UNCHANGED <<slot, top, free, scope, frames, refs, wrapping, exception, held,
                 nativeRef>>

(* The depth at which the running callback began.                           *)
Base == IF frames = << >> THEN 1 ELSE frames[Len(frames)].depth

CloseHandleScope ==
  /\ depth > Base
  /\ Careful => pending = NoHandle
  /\ FreeHandles(scope[depth])
  /\ depth' = depth - 1
  /\ scope' = [scope EXCEPT ![depth] = EmptyList]
  /\ held' = {r \in held : ~(r.kind = "local" /\ r.level = depth)}
  /\ UNCHANGED <<top, frames, refs, wrapping, exception, nativeRef>>

(* JavaScript calls a function of napi_create_function or napi_define_class:*)
(* one temporary handle stands for `this` and the arguments. They are made  *)
(* in the scope that happens to be open.                                    *)
CallbackEnter(v) ==
  /\ depth \in CallbackDepths /\ Len(frames) < MaxFrames
  /\ \E h \in Handle :
       /\ CreateHandle(h, v)
       /\ frames' = Append(frames, [handle |-> h, depth |-> depth])
       /\ held' = held \cup {Holding("argument", h, v, Len(frames) + 1)}
  /\ UNCHANGED <<depth, refs, wrapping, exception, nativeRef>>

(* ... and freed when it returns or throws, while that scope still lists    *)
(* them.                                                                    *)
CallbackReturn ==
  LET last == Len(frames)
      temp == frames[last].handle
  IN /\ frames # << >> /\ depth = Base
     /\ FreeHandles([h \in Handle |-> IF h = temp THEN 1 ELSE 0])
     /\ frames' = SubSeq(frames, 1, last - 1)
     /\ held' = {r \in held : ~(r.kind = "argument" /\ r.level = last)}
     /\ UNCHANGED <<top, depth, scope, refs, wrapping, exception, nativeRef>>

-----------------------------------------------------------------------------
(* References: a reference is named by the handle it refers to.             *)

CreateReference(k, r, count) ==
  /\ nativeRef[k] = Absent
  /\ Careful => refs[r.handle] = NoRef /\ count > 0
  /\ refs' = [refs EXCEPT ![r.handle] = count]
  /\ nativeRef' = [nativeRef EXCEPT ![k] =
                     Reference(r.handle, r.value, count, FALSE)]
  /\ UNCHANGED <<table, wrapping, exception, held>>

(* Ref and Unref of a handle that has no entry fail and change nothing.     *)
ReferenceRef(k) ==
  LET h == nativeRef[k].handle
  IN /\ nativeRef[k] # Absent
     /\ refs[h] # NoRef /\ refs[h] < MaxCount
     /\ refs' = [refs EXCEPT ![h] = @ + 1]
     /\ nativeRef' = [nativeRef EXCEPT ![k] =
                     Reference(h, @.value, refs[h] + 1, @.wrapped)]
     /\ UNCHANGED <<table, wrapping, exception, held>>

ReferenceUnref(k) ==
  LET h == nativeRef[k].handle
      count == IF refs[h] > 0 THEN refs[h] - 1 ELSE 0
  IN /\ nativeRef[k] # Absent
     /\ refs[h] # NoRef
     /\ Careful => count > 0
     /\ refs' = [refs EXCEPT ![h] = IF count = 0 THEN NoRef ELSE count]
     /\ nativeRef' = [nativeRef EXCEPT ![k] =
                     Reference(h, @.value, count, @.wrapped)]
     /\ UNCHANGED <<table, wrapping, exception, held>>

DeleteReference(k) ==
  LET h == nativeRef[k].handle
  IN /\ nativeRef[k] # Absent
     /\ Careful => ~nativeRef[k].wrapped
     /\ refs' = [refs EXCEPT ![h] = NoRef]
     /\ nativeRef' = [nativeRef EXCEPT ![k] = Absent]
     /\ UNCHANGED <<table, wrapping, exception, held>>

-----------------------------------------------------------------------------
(* Wraps: a native pointer attached to an object. They are looked up by     *)
(* object and by handle.                                                    *)

(* napi_wrap; native code asks for a reference in slot k, or (k = 0) not.   *)
NapiWrap(r, k) ==
  LET w == wraps + 1
      h == r.handle
      v == slot[h]
  IN /\ w \in Wrap
     /\ v \in Value /\ registry[h] = NoWrap
     /\ k # 0 => nativeRef[k] = Absent /\ (Careful => refs[h] = NoRef)
     /\ wraps' = w
     /\ registry' = [registry EXCEPT ![h] = w]
     /\ wrapOf' = [wrapOf EXCEPT ![v] = w]
     /\ owner' = [owner EXCEPT ![w] = r.value]
     /\ IF k = 0 THEN UNCHANGED <<refs, nativeRef>>
        ELSE /\ refs' = [refs EXCEPT ![h] = 1]
             /\ nativeRef' = [nativeRef EXCEPT ![k] =
                                Reference(h, r.value, 1, TRUE)]
     /\ UNCHANGED <<table, finalized, exception, held>>

\* Mutant: napi_unwrap looks the wrap up by handle alone.
UnwrapByHandle(h) == IF registry[h] \in finalized THEN NoWrap ELSE registry[h]

(* napi_unwrap: by object first, then by handle. A handle stays in the      *)
(* registry when its slot has been freed and names another object.          *)
Unwrap(h) ==
  LET byObject == IF slot[h] \in Value THEN wrapOf[slot[h]] ELSE NoWrap
      w == IF byObject # NoWrap THEN byObject ELSE registry[h]
  IN IF w \in finalized THEN NoWrap ELSE w

(* napi_remove_wrap: by handle; fails if the object has another wrap. The   *)
(* reference that napi_wrap gave goes with it.                              *)
NapiRemoveWrap(r) ==
  LET h == r.handle
      w == registry[h]
      v == slot[h]
  IN /\ w # NoWrap /\ w \notin finalized
     /\ Careful => \A k \in DOMAIN nativeRef :
          nativeRef[k] # Absent /\ nativeRef[k].handle = h => nativeRef[k].wrapped
     /\ v \in Value => wrapOf[v] \in {NoWrap, w}
     /\ finalized' = finalized \cup {w}
     /\ registry' = [registry EXCEPT ![h] = NoWrap]
     /\ wrapOf' = [u \in Value |-> IF u = v THEN NoWrap ELSE wrapOf[u]]
     /\ refs' = [refs EXCEPT ![h] = NoRef]
     /\ nativeRef' = [k \in DOMAIN nativeRef |->
          IF nativeRef[k] # Absent /\ nativeRef[k].handle = h
               /\ nativeRef[k].wrapped
            THEN Absent ELSE nativeRef[k]]
     /\ UNCHANGED <<table, wraps, owner, exception, held>>

-----------------------------------------------------------------------------
(* setPendingException, by napi_throw* or by a call that threw.             *)
SetPendingException(v) ==
  \E h \in Handle :
    /\ CreateHandle(h, v)
    /\ pending' = h /\ thrown' = v
    /\ UNCHANGED <<depth, frames, refs, wrapping, held, nativeRef>>

(* napi_get_and_clear_last_exception. What native code does with the handle *)
(* it gets is not followed further.                                         *)
ClearPendingException ==
  /\ pending # NoHandle
  /\ pending' = NoHandle /\ thrown' = NoValue
  /\ UNCHANGED <<table, refs, wrapping, held, nativeRef>>

-----------------------------------------------------------------------------
ScopeNext == OpenHandleScope \/ CloseHandleScope \/ CallbackReturn

ReferenceNext ==
  \E k \in DOMAIN nativeRef :
    \/ \E r \in held, count \in 0 .. MaxCount : CreateReference(k, r, count)
    \/ ReferenceRef(k) \/ ReferenceUnref(k) \/ DeleteReference(k)

WrapNext ==
  \E r \in held :
    NapiRemoveWrap(r) \/ \E k \in 0 .. MaxRef : NapiWrap(r, k)

Next ==
  \/ \E v \in Value : Return(v) \/ CallbackEnter(v) \/ SetPendingException(v)
  \/ ScopeNext \/ ReferenceNext \/ WrapNext \/ ClearPendingException

Spec == Init /\ [][Next]_vars

-----------------------------------------------------------------------------
(* A handle that native code may still use names the value it was given for *)
(* (index.js, line 151: handles map to values): its slot has not been freed *)
(* or given away, whatever scopes, callbacks and references came and went.  *)
HandlesKeepTheirValue == \A r \in held : slot[r.handle] = r.value

(* A strong reference leads to the value it was created for, also after the *)
(* scope of the handle has closed (index.js, lines 158 and 246).            *)
StrongReferencesResolve ==
  \A k \in DOMAIN nativeRef :
    LET ref == nativeRef[k]
    IN ref # Absent /\ ref.count > 0 =>
         refs[ref.handle] > 0 /\ slot[ref.handle] = ref.value

(* napi_unwrap and the handles that are used again (index.js, line 2108:    *)
(* "handles handle recycling"). An object that was wrapped once, with a     *)
(* reference, is found by whatever handle it has until that wrap is removed;*)
(* and an object gets another one's pointer only when it has no wrap and its*)
(* handle is one that an object was wrapped by without a reference: the look*)
(* up by handle does not see that the slot has been freed and used again.   *)
Anchored(h) ==
  \E k \in DOMAIN nativeRef :
    nativeRef[k] # Absent /\ nativeRef[k].handle = h /\ nativeRef[k].wrapped

WrappedOnce(v) == \A u, w \in Wrap : owner[u] = v /\ owner[w] = v => u = w

UnwrapIsOwn ==
  \A r \in held :
    LET w == Unwrap(r.handle)
    IN  /\ \A h \in Handle :
             Anchored(h) /\ slot[h] = r.value /\ WrappedOnce(r.value) => w = registry[h]
        /\ w # NoWrap =>
             owner[w] = r.value \/ (wrapOf[r.value] = NoWrap /\ ~Anchored(r.handle))

(* The pending exception can be fetched until it is cleared (index.js, line *)
(* 183), whatever was created, freed and referenced meanwhile.              *)
PendingExceptionIsKept == pending # NoHandle => slot[pending] = thrown
=============================================================================
