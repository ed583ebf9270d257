---------------------------- MODULE Page_proofs ----------------------------
(***************************************************************************)
(* What the runtime in the page keeps for any value of the constants: the  *)
(* handles of native code (NapiHandles) and the session that tabs share    *)
(* (PageSession); and, in the last section, what the run over MCPage checks*)
(* of the other parts, which are proved in Runtime_proofs.                 *)
(*                                                                         *)
(* NapiHandles, for any number of values, slots, scopes, frames, references*)
(* and wraps: types hold whatever native code does. The rest               *)
(* holds under a discipline (the run napi_callback shows its second part to*)
(* be needed): native code is careful, and JavaScript calls into it only   *)
(* while no inner scope is open.                                           *)
(***************************************************************************)
EXTENDS MCPage, SequenceTheorems, TLAPS

Discipline == Careful /\ CallbackDepths \subseteq {1}

-----------------------------------------------------------------------------
(* A slot is in the free list at most once, and only if it exists.          *)
FreeInv == \A h \in Handle : free[h] <= 1 /\ (h > top => free[h] = 0)

(* A handle that may be used is not free and stands for one thing.          *)
HeldInv ==
  /\ \A r \in held :
       r.handle <= top /\ free[r.handle] = 0 /\ slot[r.handle] = r.value
  /\ \A r, q \in held : r.handle = q.handle => r = q

(* An inner scope lists a handle once, alone, and what native code knows of *)
(* that handle ends with the scope.                                         *)
Listed(d, h) == d > 1 /\ scope[d][h] > 0

ScopeInv ==
  \A d \in Depth, h \in Handle : Listed(d, h) =>
    /\ d <= depth /\ h <= top /\ scope[d][h] = 1 /\ free[h] = 0
    /\ \A r \in held : r.handle = h => r.kind = "local" /\ r.level = d
    /\ \A e \in Depth : Listed(e, h) => e = d

(* The temporary handle of a running callback is its argument, nothing else.*)
FrameInv ==
  \A i \in 1 .. Len(frames) :
    /\ frames[i].depth = 1
    /\ \E r \in held :
         r.kind = "argument" /\ r.level = i /\ r.handle = frames[i].handle

(* A reference is the only one of its handle, and keeps its slot.           *)
RefInv ==
  /\ \A k \in 1 .. MaxRef : nativeRef[k] # Absent =>
       LET ref == nativeRef[k]
       IN /\ ref.count > 0 /\ refs[ref.handle] = ref.count
          /\ ref.handle <= top /\ free[ref.handle] = 0
          /\ slot[ref.handle] = ref.value
  /\ \A k, j \in 1 .. MaxRef :
       nativeRef[k] # Absent /\ nativeRef[j] # Absent
         /\ nativeRef[k].handle = nativeRef[j].handle => k = j

(* A wrap is registered for one handle until it is removed, and the table   *)
(* of objects leads to the object's own wrap.                               *)
WrapInv ==
  /\ \A h \in Handle : registry[h] # NoWrap =>
       registry[h] <= wraps /\ registry[h] \notin finalized
  /\ \A g, h \in Handle : registry[g] # NoWrap /\ registry[g] = registry[h] => g = h
  /\ \A w \in finalized : w <= wraps
  /\ \A w \in Wrap : w > wraps => owner[w] = NoValue
  /\ \A v \in Value :
       wrapOf[v] # NoWrap => wrapOf[v] <= wraps /\ owner[wrapOf[v]] = v

(* A handle with the reference that napi_wrap gave stands for the object of *)
(* its wrap; if that is the object's only one, the object leads to it.      *)
Bound(h) ==
  /\ registry[h] # NoWrap /\ owner[registry[h]] = slot[h]
  /\ (\A u \in Wrap : owner[u] = slot[h] => u = registry[h])
       => wrapOf[slot[h]] = registry[h]

AnchorInv == \A h \in Handle : Anchored(h) => Bound(h)

(* The pending exception has a slot of its own.                             *)
PendingInv ==
  pending # NoHandle =>
    /\ pending <= top /\ free[pending] = 0 /\ slot[pending] = thrown
    /\ \A r \in held : r.handle # pending

IInv ==
  /\ TypeOK /\ FreeInv /\ HeldInv /\ ScopeInv /\ FrameInv /\ RefInv /\ WrapInv
  /\ AnchorInv /\ PendingInv

-----------------------------------------------------------------------------
(* Making a handle and freeing handles keep the table well typed.           *)
LEMMA CreateTyped ==
  ASSUME TypeOK, NEW h \in Handle, NEW v \in Value, CreateHandle(h, v)
  PROVE  /\ slot' \in [Handle -> Value \cup {NoValue}] /\ top' \in 0 .. MaxHandle
         /\ free' \in [Handle -> Nat] /\ scope' \in [Depth -> [Handle -> Nat]]
<1> USE HandlesAssumption DEF Handle
<1>1. slot' \in [Handle -> Value \cup {NoValue}] /\ top' \in 0 .. MaxHandle
  BY DEF TypeOK, CreateHandle
<1>2. free' \in [Handle -> Nat]
  BY DEF TypeOK, CreateHandle
<1>3. scope' \in [Depth -> [Handle -> Nat]]
  BY DEF TypeOK, CreateHandle
<1> QED BY <1>1, <1>2, <1>3

LEMMA FreeTyped ==
  ASSUME TypeOK, NEW bag \in [Handle -> Nat], FreeHandles(bag)
  PROVE  /\ slot' \in [Handle -> Value \cup {NoValue}]
         /\ free' \in [Handle -> Nat]
BY DEF TypeOK, FreeHandles

LEMMA FrameTyped ==
  ASSUME TypeOK
  PROVE  /\ Len(frames) \in Nat
         /\ \A i \in 1 .. Len(frames) :
              /\ frames[i] \in [handle : Handle, depth : Depth]
              /\ frames[i].handle \in Handle /\ frames[i].depth \in Depth
         /\ Base \in Depth
<1>1. Len(frames) \in Nat
  BY LenProperties DEF TypeOK
<1>2. \A i \in 1 .. Len(frames) :
        frames[i] \in [handle : Handle, depth : Depth]
  BY ElementOfSeq DEF TypeOK
<1>3. frames # << >> => Len(frames) \in 1 .. Len(frames)
  BY <1>1, EmptySeq DEF TypeOK
<1>4. Base \in Depth
  BY <1>2, <1>3, HandlesAssumption DEF Base, Depth
<1> QED BY <1>1, <1>2, <1>4

LEMMA HoldingTyped ==
  ASSUME TypeOK, NEW role \in {"local", "argument"}, NEW h \in Handle,
         NEW v \in Value, NEW level \in Nat
  PROVE  held \cup {Holding(role, h, v, level)} \subseteq
           [kind : {"local", "argument"}, handle : Handle, value : Value,
            level : Nat]
BY DEF TypeOK, Holding

LEMMA TypeInit == Init => TypeOK
<1> SUFFICES ASSUME Init PROVE TypeOK
  OBVIOUS
<1> USE HandlesAssumption DEF Init
<1>1. free \in [Handle -> Nat] /\ scope \in [Depth -> [Handle -> Nat]]
  BY DEF EmptyList
<1>2. frames \in Seq([handle : Handle, depth : Depth])
  BY EmptySeq
<1>3. depth \in Depth /\ top \in 0 .. MaxHandle /\ wraps \in 0 .. MaxWrap
  BY DEF Depth
<1>4. pending \in Handle \cup {NoHandle} /\ thrown \in Value \cup {NoValue}
  BY DEF NoHandle
<1>5. nativeRef \in [1 .. MaxRef ->
        [handle : Handle, value : Value, count : Nat, wrapped : BOOLEAN]
          \cup {Absent}]
  OBVIOUS
<1> QED BY <1>1, <1>2, <1>3, <1>4, <1>5 DEF TypeOK

LEMMA TypeStep == TypeOK /\ [Next]_vars => TypeOK'
<1> SUFFICES ASSUME TypeOK, [Next]_vars PROVE TypeOK'
  OBVIOUS
<1> USE HandlesAssumption
<1> DEFINE Ref == [handle : Handle, value : Value, count : Nat,
                   wrapped : BOOLEAN]
<1>a. /\ nativeRef \in [1 .. MaxRef -> Ref \cup {Absent}]
      /\ refs \in [Handle -> Nat \cup {NoRef}]
      /\ \A r \in held : r.handle \in Handle /\ r.value \in Value
      /\ depth \in Nat
  BY DEF TypeOK, Depth
<1>1. ASSUME NEW v \in Value, Return(v) PROVE TypeOK'
  <2>1. PICK h \in Handle :
          /\ CreateHandle(h, v)
          /\ held' = held \cup {Holding("local", h, v, depth)}
          /\ UNCHANGED <<depth, frames, refs, wrapping, exception, nativeRef>>
    BY <1>1 DEF Return
  <2> QED BY <2>1, <1>a, CreateTyped, HoldingTyped
             DEF TypeOK, wrapping, exception
<1>2. ASSUME NEW v \in Value, CallbackEnter(v) PROVE TypeOK'
  <2>1. PICK h \in Handle :
          /\ CreateHandle(h, v)
          /\ frames' = Append(frames, [handle |-> h, depth |-> depth])
          /\ held' = held \cup {Holding("argument", h, v, Len(frames) + 1)}
    BY <1>2 DEF CallbackEnter
  <2>2. frames' \in Seq([handle : Handle, depth : Depth])
    BY <2>1, AppendProperties DEF TypeOK
  <2>3. Len(frames) + 1 \in Nat
    BY FrameTyped
  <2>4. UNCHANGED <<depth, refs, wrapping, exception, nativeRef>>
    BY <1>2 DEF CallbackEnter
  <2> QED BY <2>1, <2>2, <2>3, <2>4, CreateTyped, HoldingTyped
             DEF TypeOK, wrapping, exception
<1>3. ASSUME NEW v \in Value, SetPendingException(v) PROVE TypeOK'
  <2>1. PICK h \in Handle :
          /\ CreateHandle(h, v)
          /\ pending' = h /\ thrown' = v
          /\ UNCHANGED <<depth, frames, refs, wrapping, held, nativeRef>>
    BY <1>3 DEF SetPendingException
  <2> QED BY <2>1, CreateTyped DEF TypeOK, wrapping
<1>4. CASE OpenHandleScope
  BY <1>4 DEF OpenHandleScope, TypeOK, Depth, wrapping, exception
<1>5. CASE CloseHandleScope
  <2>1. scope[depth] \in [Handle -> Nat] /\ Base \in 1 .. MaxDepth
    BY FrameTyped DEF TypeOK, Depth
  <2>2. depth' \in Depth
    BY <1>5, <2>1 DEF CloseHandleScope, TypeOK, Depth
  <2>3. scope' \in [Depth -> [Handle -> Nat]]
    BY <1>5 DEF CloseHandleScope, TypeOK, EmptyList
  <2> QED BY <1>5, <2>1, <2>2, <2>3, FreeTyped
             DEF CloseHandleScope, TypeOK, wrapping, exception
<1>6. CASE CallbackReturn
  <2> DEFINE last == Len(frames)
             bag == [h \in Handle |-> IF h = frames[last].handle THEN 1 ELSE 0]
  <2>1. /\ FreeHandles(bag) /\ frames' = SubSeq(frames, 1, last - 1)
        /\ held' \subseteq held /\ frames # << >>
        /\ UNCHANGED <<top, depth, scope, refs, wrapping, exception, nativeRef>>
    BY <1>6 DEF CallbackReturn
  <2>2. bag \in [Handle -> Nat]
    OBVIOUS
  <2>3. frames' \in Seq([handle : Handle, depth : Depth])
    <3>1. \A i \in 1 .. last - 1 : frames[i] \in [handle : Handle, depth : Depth]
      BY FrameTyped
    <3> QED BY <2>1, <3>1, FrameTyped, SubSeqProperties DEF TypeOK
  <2> QED BY <2>1, <2>2, <2>3, FreeTyped DEF TypeOK, wrapping, exception
<1>7. ASSUME NEW k \in 1 .. MaxRef, NEW r \in held, NEW count \in 0 .. MaxCount,
             CreateReference(k, r, count)
      PROVE  TypeOK'
  <2>1. Reference(r.handle, r.value, count, FALSE) \in Ref
    BY <1>a DEF Reference
  <2>2. /\ nativeRef' = [nativeRef EXCEPT ![k] =
                           Reference(r.handle, r.value, count, FALSE)]
        /\ refs' = [refs EXCEPT ![r.handle] = count]
        /\ UNCHANGED <<table, wrapping, exception, held>>
    BY <1>7 DEF CreateReference
  <2>3. nativeRef' \in [1 .. MaxRef -> Ref \cup {Absent}]
    BY <1>a, <2>1, <2>2
  <2>4. refs' \in [Handle -> Nat \cup {NoRef}]
    BY <1>a, <2>2
  <2> QED BY <2>2, <2>3, <2>4 DEF TypeOK, table, wrapping, exception
<1>8. ASSUME NEW k \in 1 .. MaxRef, ReferenceRef(k) PROVE TypeOK'
  <2>1. nativeRef[k] \in Ref /\ refs[nativeRef[k].handle] + 1 \in Nat
    BY <1>8, <1>a DEF ReferenceRef
  <2>2. Reference(nativeRef[k].handle, nativeRef[k].value,
                refs[nativeRef[k].handle] + 1, nativeRef[k].wrapped) \in Ref
    BY <2>1 DEF Reference
  <2> QED BY <1>8, <1>a, <2>1, <2>2
             DEF ReferenceRef, TypeOK, table, wrapping, exception
<1>9. ASSUME NEW k \in 1 .. MaxRef, ReferenceUnref(k) PROVE TypeOK'
  <2> DEFINE n == refs[nativeRef[k].handle]
             count == IF n > 0 THEN n - 1 ELSE 0
  <2>1. nativeRef[k] \in Ref /\ count \in Nat
    BY <1>9, <1>a DEF ReferenceUnref
  <2>2. Reference(nativeRef[k].handle, nativeRef[k].value, count,
                nativeRef[k].wrapped) \in Ref
    BY <2>1 DEF Reference
  <2>3. /\ nativeRef' = [nativeRef EXCEPT ![k] =
             Reference(nativeRef[k].handle, @.value, count, @.wrapped)]
        /\ refs' = [refs EXCEPT ![nativeRef[k].handle] =
                      IF count = 0 THEN NoRef ELSE count]
        /\ UNCHANGED <<table, wrapping, exception, held>>
    BY <1>9 DEF ReferenceUnref
  <2> HIDE DEF count
  <2>4. nativeRef' \in [1 .. MaxRef -> Ref \cup {Absent}]
    BY <1>a, <2>2, <2>3
  <2>5. refs' \in [Handle -> Nat \cup {NoRef}]
    BY <1>a, <2>1, <2>3
  <2> QED BY <2>3, <2>4, <2>5 DEF TypeOK, table, wrapping, exception
<1>10. ASSUME NEW k \in 1 .. MaxRef, DeleteReference(k) PROVE TypeOK'
  BY <1>10, <1>a DEF DeleteReference, TypeOK, table, wrapping, exception
<1>11. ASSUME NEW r \in held, NEW k \in 0 .. MaxRef, NapiWrap(r, k)
       PROVE  TypeOK'
  <2>1. /\ wraps + 1 \in Wrap /\ wraps' = wraps + 1
        /\ registry' = [registry EXCEPT ![r.handle] = wraps + 1]
        /\ wrapOf' = [wrapOf EXCEPT ![slot[r.handle]] = wraps + 1]
        /\ owner' = [owner EXCEPT ![wraps + 1] = r.value]
        /\ UNCHANGED <<table, finalized, exception, held>>
    BY <1>11 DEF NapiWrap
  <2>2. Reference(r.handle, r.value, 1, TRUE) \in Ref
    BY <1>a DEF Reference
  <2>3. /\ nativeRef' \in [1 .. MaxRef -> Ref \cup {Absent}]
        /\ refs' \in [Handle -> Nat \cup {NoRef}]
    <3>1. CASE k = 0
      BY <1>11, <1>a, <3>1 DEF NapiWrap
    <3>2. CASE k # 0
      <4>1. /\ refs' = [refs EXCEPT ![r.handle] = 1]
            /\ nativeRef' = [nativeRef EXCEPT ![k] =
                               Reference(r.handle, r.value, 1, TRUE)]
        BY <1>11, <3>2 DEF NapiWrap
      <4> QED BY <4>1, <1>a, <2>2
    <3> QED BY <3>1, <3>2
  <2>4. wraps' \in 0 .. MaxWrap
    BY <2>1 DEF Wrap
  <2>5. /\ registry' \in [Handle -> Wrap \cup {NoWrap}]
        /\ wrapOf' \in [Value -> Wrap \cup {NoWrap}]
    BY <2>1 DEF TypeOK
  <2>6. owner' \in [Wrap -> Value \cup {NoValue}]
    BY <1>a, <2>1 DEF TypeOK
  <2> QED BY <2>1, <2>3, <2>4, <2>5, <2>6 DEF TypeOK, table, exception
<1>12. ASSUME NEW r \in held, NapiRemoveWrap(r) PROVE TypeOK'
  <2>1. registry[r.handle] \in Wrap
    BY <1>12, <1>a DEF NapiRemoveWrap, TypeOK
  <2>2. nativeRef' \in [1 .. MaxRef -> Ref \cup {Absent}]
    BY <1>12, <1>a DEF NapiRemoveWrap
  <2> QED BY <1>12, <1>a, <2>1, <2>2
             DEF NapiRemoveWrap, TypeOK, table, exception
<1>13. CASE ClearPendingException
  BY <1>13 DEF ClearPendingException, TypeOK, table, wrapping, NoHandle
<1>14. CASE UNCHANGED vars
  BY <1>14 DEF TypeOK, vars, table, wrapping, exception
<1>15. DOMAIN nativeRef = 1 .. MaxRef
  BY <1>a
<1> QED
  BY <1>1, <1>2, <1>3, <1>4, <1>5, <1>6, <1>7, <1>8, <1>9, <1>10, <1>11,
     <1>12, <1>13, <1>14, <1>15
     DEF Next, ScopeNext, ReferenceNext, WrapNext

(* Every reachable state of the bridge's tables is well typed, whatever     *)
(* native code does.                                                        *)
THEOREM HandlesTyped == Spec => []TypeOK
BY TypeInit, TypeStep, PTL DEF Spec

-----------------------------------------------------------------------------
(* The types the proofs below compute with.                                 *)
LEMMA Ranges ==
  ASSUME TypeOK
  PROVE  /\ top \in Nat /\ depth \in Nat /\ depth \in Depth /\ 1 <= depth
         /\ \A h \in Handle : h \in Nat /\ h # 0 /\ free[h] \in Nat
         /\ \A d \in Depth : d \in Nat /\ scope[d] \in [Handle -> Nat]
         /\ \A d \in Depth, h \in Handle : scope[d][h] \in Nat
         /\ \A r \in held : r.handle \in Handle /\ r.value \in Value
                            /\ r.level \in Nat
<1>1. top \in Nat /\ depth \in Nat /\ depth \in Depth /\ 1 <= depth
  BY HandlesAssumption DEF TypeOK, Depth
<1>2. \A h \in Handle : h \in Nat /\ h # 0 /\ free[h] \in Nat
  BY HandlesAssumption DEF TypeOK, Handle
<1>3. \A d \in Depth : d \in Nat /\ scope[d] \in [Handle -> Nat]
  BY HandlesAssumption DEF TypeOK, Depth
<1>4. \A r \in held : r.handle \in Handle /\ r.value \in Value /\ r.level \in Nat
  BY DEF TypeOK
<1> QED BY <1>1, <1>2, <1>3, <1>4

LEMMA RefRanges ==
  ASSUME TypeOK, NEW k \in 1 .. MaxRef, nativeRef[k] # Absent
  PROVE  nativeRef[k].handle \in Handle /\ nativeRef[k].count \in Nat
BY DEF TypeOK

(* What is wrapped stays so while wraps, references and its slot do.        *)
LEMMA AnchorSame ==
  ASSUME AnchorInv, UNCHANGED wrapping,
         \A g \in Handle : Anchored(g)' => Anchored(g) /\ slot'[g] = slot[g]
  PROVE  AnchorInv'
BY DEF AnchorInv, Bound, wrapping

(* A handle that createHandle picks stands for nothing else.                *)
LEMMA CreateIsFresh ==
  ASSUME IInv, NEW h \in Handle, NEW v \in Value, CreateHandle(h, v)
  PROVE  /\ \A r \in held : r.handle # h
         /\ \A k \in 1 .. MaxRef :
              nativeRef[k] # Absent => nativeRef[k].handle # h
         /\ \A d \in Depth : ~Listed(d, h)
         /\ pending # h
<1>1. free[h] # 0 \/ ~(h <= top)
  BY Ranges DEF IInv, CreateHandle, MayCreate
<1>2. \A r \in held : r.handle # h
  BY <1>1 DEF IInv, HeldInv
<1>3. \A k \in 1 .. MaxRef : nativeRef[k] # Absent => nativeRef[k].handle # h
  BY <1>1 DEF IInv, RefInv
<1>5. \A d \in Depth : ~Listed(d, h)
  BY <1>1 DEF IInv, ScopeInv
<1>6. pending # h
  BY <1>1, Ranges DEF IInv, PendingInv, NoHandle
<1> QED BY <1>2, <1>3, <1>5, <1>6

LEMMA CreateEffect ==
  ASSUME IInv, NEW h \in Handle, NEW v \in Value, CreateHandle(h, v)
  PROVE  /\ slot'[h] = v /\ free'[h] = 0 /\ h <= top' /\ top <= top'
         /\ top' \in Nat
         /\ \A g \in Handle : g # h => slot'[g] = slot[g] /\ free'[g] = free[g]
         /\ \A d \in Depth, g \in Handle :
              scope'[d][g] = IF d = depth /\ g = h THEN scope[d][g] + 1
                             ELSE scope[d][g]
<1>1. TypeOK /\ FreeInv
  BY DEF IInv
<1>2. slot'[h] = v /\ \A g \in Handle : g # h => slot'[g] = slot[g]
  BY <1>1 DEF CreateHandle, TypeOK
<1>3. h <= top' /\ top <= top' /\ top' \in Nat
  BY <1>1, Ranges DEF CreateHandle
<1>4. free'[h] = 0 /\ \A g \in Handle : g # h => free'[g] = free[g]
  BY <1>1, Ranges DEF CreateHandle, TypeOK, FreeInv
<1>5. \A d \in Depth, g \in Handle :
        scope'[d][g] = IF d = depth /\ g = h THEN scope[d][g] + 1
                       ELSE scope[d][g]
  BY <1>1, Ranges DEF CreateHandle, TypeOK
<1> QED BY <1>2, <1>3, <1>4, <1>5

(* Making a handle disturbs no other handle, reference or wrap.             *)
LEMMA CreateKeeps ==
  ASSUME IInv, NEW h \in Handle, NEW v \in Value, CreateHandle(h, v),
         UNCHANGED <<refs, wrapping, nativeRef>>
  PROVE  FreeInv' /\ RefInv' /\ WrapInv' /\ AnchorInv'
<1>1. TypeOK /\ FreeInv /\ RefInv /\ WrapInv /\ AnchorInv
  BY DEF IInv
<1>2. FreeInv'
  <2>1. \A g \in Handle : free'[g] <= 1 /\ (g > top' => free'[g] = 0)
    BY <1>1, CreateEffect, Ranges DEF FreeInv
  <2> QED BY <2>1 DEF FreeInv
<1>3. RefInv'
  <2>1. \A k \in 1 .. MaxRef : nativeRef[k] # Absent =>
          /\ nativeRef[k].handle <= top' /\ free'[nativeRef[k].handle] = 0
          /\ slot'[nativeRef[k].handle] = nativeRef[k].value
    <3> SUFFICES ASSUME NEW k \in 1 .. MaxRef, nativeRef[k] # Absent
                 PROVE  /\ nativeRef[k].handle <= top'
                        /\ free'[nativeRef[k].handle] = 0
                        /\ slot'[nativeRef[k].handle] = nativeRef[k].value
      OBVIOUS
    <3>1. nativeRef[k].handle \in Handle /\ nativeRef[k].handle # h
      BY <1>1, RefRanges, CreateIsFresh
    <3>2. nativeRef[k].handle \in Nat /\ top \in Nat
      BY <1>1, <3>1, Ranges
    <3> QED BY <1>1, <3>1, <3>2, CreateEffect DEF RefInv
  <2> QED BY <1>1, <2>1 DEF RefInv
<1>4. WrapInv'
  BY <1>1 DEF WrapInv, wrapping
<1>5. AnchorInv'
  <2>1. \A g \in Handle : Anchored(g) => slot'[g] = slot[g]
    <3>1. ASSUME NEW g \in Handle, NEW k \in 1 .. MaxRef, nativeRef[k] # Absent,
                 nativeRef[k].handle = g
          PROVE  slot'[g] = slot[g]
      <4>1. g # h
        BY <1>1, <3>1, CreateIsFresh
      <4> QED BY <4>1, CreateEffect
    <3> QED BY <1>1, <3>1 DEF Anchored, TypeOK
  <2>2. \A g \in Handle : Anchored(g)' => Anchored(g)
    BY DEF Anchored
  <2> QED BY <1>1, <2>1, <2>2, AnchorSame
<1> QED BY <1>2, <1>3, <1>4, <1>5

(* ... and what native code learns of it is the only thing it stands for.   *)
LEMMA NewHolding ==
  ASSUME IInv, NEW h \in Handle, NEW v \in Value, CreateHandle(h, v),
         UNCHANGED depth,
         NEW role, NEW level,
         depth > 1 => role = "local" /\ level = depth,
         held' = held \cup {Holding(role, h, v, level)}, UNCHANGED exception
  PROVE  HeldInv' /\ ScopeInv' /\ PendingInv'
<1> DEFINE new == Holding(role, h, v, level)
<1>0. TypeOK /\ HeldInv /\ ScopeInv
  BY DEF IInv
<1>1. new.handle = h /\ new.value = v /\ new.kind = role /\ new.level = level
  BY DEF Holding
<1> HIDE DEF new
<1>2. held' = held \cup {new}
  BY DEF new
<1>3. HeldInv'
  <2>1. \A r \in held : r.handle <= top' /\ free'[r.handle] = 0
                        /\ slot'[r.handle] = r.value
    BY <1>0, Ranges, CreateIsFresh, CreateEffect DEF HeldInv
  <2>2. \A r, q \in held' : r.handle = q.handle => r = q
    BY <1>0, <1>1, <1>2, CreateIsFresh DEF HeldInv
  <2> QED BY <1>1, <1>2, <2>1, <2>2, CreateEffect DEF HeldInv
<1>4. ScopeInv'
  <2> SUFFICES ASSUME NEW d \in Depth, NEW g \in Handle, Listed(d, g)'
               PROVE  /\ d <= depth /\ g <= top' /\ scope'[d][g] = 1
                      /\ free'[g] = 0
                      /\ \A r \in held' :
                           r.handle = g => r.kind = "local" /\ r.level = d
                      /\ \A e \in Depth : Listed(e, g)' => e = d
    BY DEF ScopeInv
  <2>1. CASE g = h
    <3>1. \A e \in Depth : Listed(e, g)' => e = depth
      BY <1>0, <2>1, CreateIsFresh, CreateEffect DEF Listed
    <3>2. d = depth /\ depth > 1 /\ scope[d][g] = 0
      BY <1>0, <2>1, <3>1, CreateIsFresh, Ranges DEF Listed
    <3>3. scope'[d][g] = 1
      BY <2>1, <3>2, CreateEffect
    <3>4. \A r \in held' : r.handle = g => r.kind = "local" /\ r.level = d
      BY <2>1, <3>2, <1>1, <1>2, CreateIsFresh
    <3>5. d <= depth /\ g <= top' /\ free'[g] = 0
      BY <1>0, <2>1, <3>2, CreateEffect, Ranges
    <3>6. \A e \in Depth : Listed(e, g)' => e = d
      BY <3>1, <3>2
    <3> QED BY <3>3, <3>4, <3>5, <3>6
  <2>2. CASE g # h
    <3>1. \A e \in Depth : scope'[e][g] = scope[e][g]
      BY <2>2, CreateEffect
    <3>2. \A e \in Depth : Listed(e, g)' = Listed(e, g)
      BY <3>1 DEF Listed
    <3>3. \A r \in held' : r.handle = g => r \in held
      BY <1>1, <1>2, <2>2
    <3>4. /\ d <= depth /\ g <= top /\ scope[d][g] = 1 /\ free[g] = 0
          /\ \A r \in held : r.handle = g => r.kind = "local" /\ r.level = d
          /\ \A e \in Depth : Listed(e, g) => e = d
      BY <1>0, <3>2 DEF ScopeInv
    <3>5. g <= top' /\ free'[g] = 0 /\ scope'[d][g] = 1
      BY <1>0, <2>2, <3>1, <3>4, CreateEffect, Ranges
    <3> QED BY <3>2, <3>3, <3>4, <3>5
  <2> QED BY <2>1, <2>2
<1>5. PendingInv'
  <2> SUFFICES ASSUME pending # NoHandle
               PROVE  /\ pending <= top' /\ free'[pending] = 0
                      /\ slot'[pending] = thrown
                      /\ \A r \in held' : r.handle # pending
    BY DEF PendingInv, exception
  <2>1. /\ pending \in Handle /\ pending \in Nat /\ top \in Nat /\ pending # h
        /\ pending <= top /\ free[pending] = 0 /\ slot[pending] = thrown
        /\ \A r \in held : r.handle # pending
    BY <1>0, Ranges, CreateIsFresh DEF IInv, PendingInv, TypeOK
  <2> QED BY <1>1, <1>2, <2>1, CreateEffect
<1> QED BY <1>3, <1>4, <1>5

(* Freeing handles that are not free disturbs no reference or wrap, and no  *)
(* other handle.                                                            *)
LEMMA FreeEffect ==
  ASSUME IInv, NEW bag \in [Handle -> Nat], FreeHandles(bag),
         \A h \in Handle : bag[h] > 0 => bag[h] = 1 /\ free[h] = 0 /\ h <= top,
         UNCHANGED <<top, refs, wrapping, nativeRef>>
  PROVE  /\ FreeInv' /\ RefInv' /\ WrapInv' /\ AnchorInv'
         /\ \A h \in Handle :
              bag[h] = 0 => slot'[h] = slot[h] /\ free'[h] = free[h]
<1>1. TypeOK /\ FreeInv /\ RefInv /\ WrapInv
  BY DEF IInv
<1>2. \A h \in Handle : bag[h] = 0 \/ refs[h] # NoRef =>
        slot'[h] = slot[h] /\ free'[h] = free[h]
  BY <1>1 DEF FreeHandles, TypeOK
<1>3. FreeInv'
  <2>1. \A h \in Handle : free'[h] <= 1 /\ (h > top => free'[h] = 0)
    <3> SUFFICES ASSUME NEW h \in Handle
                 PROVE  free'[h] <= 1 /\ (h > top => free'[h] = 0)
      OBVIOUS
    <3>1. CASE bag[h] = 0 \/ refs[h] # NoRef
      BY <1>1, <1>2, <3>1 DEF FreeInv
    <3>2. CASE bag[h] # 0 /\ refs[h] = NoRef
      <4>1. bag[h] = 1 /\ free[h] = 0 /\ h <= top
        BY <3>2
      <4>2. free'[h] = 1
        BY <3>2, <4>1 DEF FreeHandles
      <4> QED BY <1>1, <4>1, <4>2, Ranges
    <3> QED BY <3>1, <3>2
  <2> QED BY <2>1 DEF FreeInv
<1>4. \A k \in 1 .. MaxRef : nativeRef[k] # Absent =>
        /\ nativeRef[k].handle \in Handle
        /\ slot'[nativeRef[k].handle] = slot[nativeRef[k].handle]
        /\ free'[nativeRef[k].handle] = free[nativeRef[k].handle]
  <2>1. \A k \in 1 .. MaxRef : nativeRef[k] # Absent =>
          nativeRef[k].handle \in Handle /\ nativeRef[k].count \in Nat
    BY <1>1, RefRanges
  <2>2. \A k \in 1 .. MaxRef : nativeRef[k] # Absent =>
          refs[nativeRef[k].handle] # NoRef
    BY <1>1, <2>1 DEF RefInv, NoRef
  <2> QED BY <1>2, <2>1, <2>2
<1>5. RefInv'
  BY <1>1, <1>4 DEF RefInv
<1>6. WrapInv'
  BY <1>1 DEF WrapInv, wrapping
<1>7. AnchorInv'
  <2>1. \A h \in Handle : Anchored(h) => slot'[h] = slot[h]
    BY <1>1, <1>4 DEF Anchored, TypeOK
  <2>2. \A h \in Handle : Anchored(h)' => Anchored(h)
    BY DEF Anchored
  <2>3. AnchorInv
    BY DEF IInv
  <2> QED BY <2>1, <2>2, <2>3, AnchorSame
<1> QED BY <1>2, <1>3, <1>5, <1>6, <1>7

-----------------------------------------------------------------------------
(* Types apart, what an action must keep.                                   *)
Rest ==
  /\ FreeInv /\ HeldInv /\ ScopeInv /\ FrameInv /\ RefInv /\ WrapInv
  /\ AnchorInv /\ PendingInv

LEMMA InvInit == Init => IInv
<1> SUFFICES ASSUME Init PROVE IInv
  OBVIOUS
<1> USE HandlesAssumption
<1>1. TypeOK
  BY TypeInit
<1>2. FreeInv
  BY DEF Init, FreeInv, EmptyList
<1>3. HeldInv
  BY DEF Init, HeldInv
<1>4. ScopeInv
  BY DEF Init, ScopeInv, Listed, EmptyList
<1>5. FrameInv
  BY DEF Init, FrameInv
<1>6. RefInv
  BY DEF Init, RefInv
<1>7. WrapInv /\ AnchorInv
  BY DEF Init, WrapInv, AnchorInv, Anchored
<1>8. PendingInv
  BY DEF Init, PendingInv
<1> QED BY <1>1, <1>2, <1>3, <1>4, <1>5, <1>6, <1>7, <1>8 DEF IInv

LEMMA ReturnKeeps ==
  ASSUME IInv, NEW v \in Value, Return(v)
  PROVE  Rest'
<1>1. PICK h \in Handle :
        /\ CreateHandle(h, v)
        /\ held' = held \cup {Holding("local", h, v, depth)}
        /\ UNCHANGED <<depth, frames, refs, wrapping, exception, nativeRef>>
  BY DEF Return
<1>2. FreeInv' /\ RefInv' /\ WrapInv' /\ AnchorInv'
  BY <1>1, CreateKeeps
<1>3. HeldInv' /\ ScopeInv' /\ PendingInv'
  BY <1>1, NewHolding
<1>4. FrameInv'
  BY <1>1 DEF IInv, FrameInv
<1> QED BY <1>2, <1>3, <1>4 DEF Rest

LEMMA SetPendingExceptionKeeps ==
  ASSUME IInv, NEW v \in Value, SetPendingException(v)
  PROVE  Rest'
<1>1. PICK h \in Handle :
        /\ CreateHandle(h, v)
        /\ pending' = h /\ thrown' = v
        /\ UNCHANGED <<depth, frames, refs, wrapping, held, nativeRef>>
  BY DEF SetPendingException
<1>2. FreeInv' /\ RefInv' /\ WrapInv' /\ AnchorInv'
  BY <1>1, CreateKeeps
<1>3. \A r \in held : r.handle # h /\ r.handle \in Handle
  BY <1>1, CreateIsFresh, Ranges DEF IInv
<1>4. HeldInv'
  <2>1. \A r \in held : r.handle <= top' /\ free'[r.handle] = 0
                        /\ slot'[r.handle] = r.value
    BY <1>1, <1>3, Ranges, CreateEffect DEF IInv, HeldInv
  <2> QED BY <1>1, <2>1 DEF IInv, HeldInv
<1>5. ScopeInv'
  <2> SUFFICES ASSUME NEW d \in Depth, NEW g \in Handle, Listed(d, g)'
               PROVE  /\ d <= depth /\ g <= top' /\ scope'[d][g] = 1
                      /\ free'[g] = 0
                      /\ \A r \in held :
                           r.handle = g => r.kind = "local" /\ r.level = d
                      /\ \A e \in Depth : Listed(e, g)' => e = d
    BY <1>1 DEF ScopeInv
  <2>0. TypeOK /\ ScopeInv
    BY DEF IInv
  <2>1. CASE g = h
    <3>1. \A e \in Depth : Listed(e, g)' => e = depth
      BY <1>1, <2>0, <2>1, CreateIsFresh, CreateEffect DEF Listed
    <3>2. d = depth /\ scope[d][g] = 0
      BY <1>1, <2>0, <2>1, <3>1, CreateIsFresh, Ranges DEF Listed
    <3> QED BY <1>1, <1>3, <2>0, <2>1, <3>1, <3>2, CreateEffect, Ranges
  <2>2. CASE g # h
    <3>1. \A e \in Depth : scope'[e][g] = scope[e][g]
      BY <1>1, <2>2, CreateEffect
    <3>2. \A e \in Depth : Listed(e, g)' = Listed(e, g)
      BY <3>1 DEF Listed
    <3> QED BY <1>1, <2>0, <2>2, <3>1, <3>2, CreateEffect, Ranges DEF ScopeInv
  <2> QED BY <2>1, <2>2
<1>6. FrameInv'
  BY <1>1 DEF IInv, FrameInv
<1>7. PendingInv'
  BY <1>1, <1>3, CreateEffect DEF PendingInv
<1> QED BY <1>2, <1>4, <1>5, <1>6, <1>7 DEF Rest

LEMMA CallbackEnterKeeps ==
  ASSUME IInv, Discipline, NEW v \in Value, CallbackEnter(v)
  PROVE  Rest'
<1>0. TypeOK /\ FrameInv /\ depth = 1
  BY DEF IInv, Discipline, CallbackEnter
<1> DEFINE n == Len(frames)
<1>1. PICK h \in Handle :
        /\ CreateHandle(h, v)
        /\ frames' = Append(frames, [handle |-> h, depth |-> depth])
        /\ held' = held \cup {Holding("argument", h, v, n + 1)}
        /\ UNCHANGED <<depth, refs, wrapping, exception, nativeRef>>
  BY DEF CallbackEnter
<1>2. FreeInv' /\ RefInv' /\ WrapInv' /\ AnchorInv'
  BY <1>1, CreateKeeps
<1>3. HeldInv' /\ ScopeInv' /\ PendingInv'
  BY <1>0, <1>1, NewHolding
<1>4. FrameInv'
  <2>1. /\ n \in Nat /\ Len(frames') = n + 1
        /\ \A i \in 1 .. n : frames'[i] = frames[i]
        /\ frames'[n + 1] = [handle |-> h, depth |-> depth]
    BY <1>0, <1>1, FrameTyped, AppendProperties DEF TypeOK
  <2>2. \A i \in 1 .. n + 1 : i \in 1 .. n \/ i = n + 1
    BY <2>1
  <2>3. \A i \in 1 .. n :
          /\ frames'[i].depth = 1
          /\ \E r \in held' : r.kind = "argument" /\ r.level = i
                           /\ r.handle = frames'[i].handle
    BY <1>0, <1>1, <2>1 DEF FrameInv
  <2>4. /\ frames'[n + 1].depth = 1
        /\ \E r \in held' : r.kind = "argument" /\ r.level = n + 1
                         /\ r.handle = frames'[n + 1].handle
    <3> DEFINE new == Holding("argument", h, v, n + 1)
    <3>1. new \in held'
      BY <1>1
    <3>2. new.kind = "argument" /\ new.level = n + 1 /\ new.handle = h
      BY DEF Holding
    <3> HIDE DEF new
    <3> QED BY <1>0, <2>1, <3>1, <3>2
  <2> QED BY <2>1, <2>2, <2>3, <2>4 DEF FrameInv
<1> QED BY <1>2, <1>3, <1>4 DEF Rest

LEMMA OpenHandleScopeKeeps ==
  ASSUME IInv, OpenHandleScope
  PROVE  Rest'
<1>1. /\ depth' = depth + 1
      /\ UNCHANGED <<slot, top, free, scope, frames, refs, wrapping, held,
                     nativeRef, exception>>
  BY DEF OpenHandleScope
<1>2. FreeInv' /\ HeldInv' /\ FrameInv' /\ RefInv' /\ WrapInv' /\ AnchorInv' /\ PendingInv'
  BY <1>1 DEF IInv, FreeInv, HeldInv, FrameInv, RefInv, WrapInv, AnchorInv, Bound,
              Anchored, PendingInv, wrapping, exception
<1>3. ScopeInv'
  <2>1. \A d \in Depth : d <= depth => d <= depth'
    BY <1>1, Ranges DEF IInv
  <2>2. \A d \in Depth, h \in Handle : Listed(d, h)' = Listed(d, h)
    BY <1>1 DEF Listed
  <2> QED BY <1>1, <2>1, <2>2 DEF IInv, ScopeInv
<1> QED BY <1>2, <1>3 DEF Rest

(* Under the discipline every callback began in the root scope.             *)
LEMMA BaseIsRoot ==
  ASSUME TypeOK, FrameInv
  PROVE  Base = 1
<1>1. frames # << >> => Len(frames) \in 1 .. Len(frames)
  BY FrameTyped, EmptySeq DEF TypeOK
<1> QED BY <1>1 DEF FrameInv, Base

LEMMA CloseHandleScopeKeeps ==
  ASSUME IInv, Discipline, CloseHandleScope
  PROVE  Rest'
<1>0. TypeOK /\ HeldInv /\ ScopeInv /\ FrameInv
  BY DEF IInv
<1>1. /\ FreeHandles(scope[depth]) /\ depth' = depth - 1
      /\ scope' = [scope EXCEPT ![depth] = EmptyList]
      /\ held' = {r \in held : ~(r.kind = "local" /\ r.level = depth)}
      /\ UNCHANGED <<top, frames, refs, wrapping, exception, nativeRef>>
  BY DEF CloseHandleScope
<1>2. depth > 1 /\ scope[depth] \in [Handle -> Nat] /\ depth \in Depth
  BY <1>0, BaseIsRoot, Ranges DEF CloseHandleScope
<1>3. \A h \in Handle : scope[depth][h] > 0 =>
        scope[depth][h] = 1 /\ free[h] = 0 /\ h <= top
  BY <1>0, <1>2 DEF ScopeInv, Listed
<1>4. /\ FreeInv' /\ RefInv' /\ WrapInv' /\ AnchorInv'
      /\ \A h \in Handle : scope[depth][h] = 0 =>
           slot'[h] = slot[h] /\ free'[h] = free[h]
  BY <1>1, <1>2, <1>3, FreeEffect
<1>5. \A r \in held' : r \in held /\ scope[depth][r.handle] = 0
  <2>1. \A r \in held' : r \in held /\ ~(r.kind = "local" /\ r.level = depth)
    BY <1>1
  <2>2. \A r \in held : ~(r.kind = "local" /\ r.level = depth) =>
          ~Listed(depth, r.handle)
    BY <1>0, <1>2, Ranges DEF ScopeInv
  <2> QED BY <1>0, <1>2, <2>1, <2>2, Ranges DEF Listed
<1>6. HeldInv'
  <2>1. \A r \in held' : r.handle <= top' /\ free'[r.handle] = 0
                       /\ slot'[r.handle] = r.value
    BY <1>0, <1>1, <1>4, <1>5, Ranges DEF HeldInv
  <2>2. \A r, q \in held' : r.handle = q.handle => r = q
    BY <1>0, <1>5 DEF HeldInv
  <2> QED BY <2>1, <2>2 DEF HeldInv
<1>7. ScopeInv'
  <2> SUFFICES ASSUME NEW d \in Depth, NEW h \in Handle, Listed(d, h)'
               PROVE  /\ d <= depth' /\ h <= top' /\ scope'[d][h] = 1
                      /\ free'[h] = 0
                      /\ \A r \in held' :
                           r.handle = h => r.kind = "local" /\ r.level = d
                      /\ \A e \in Depth : Listed(e, h)' => e = d
    BY DEF ScopeInv
  <2>1. \A e \in Depth : Listed(e, h)' => e # depth /\ Listed(e, h)
    BY <1>0, <1>1, <1>2 DEF Listed, EmptyList, TypeOK
  <2>2. d # depth /\ scope'[d] = scope[d]
    BY <1>0, <1>1, <2>1 DEF TypeOK
  <2>3. /\ d <= depth /\ h <= top /\ scope[d][h] = 1 /\ free[h] = 0
        /\ \A r \in held : r.handle = h => r.kind = "local" /\ r.level = d
        /\ \A e \in Depth : Listed(e, h) => e = d
    BY <1>0, <2>1 DEF ScopeInv
  <2>4. scope[depth][h] = 0
    BY <1>0, <1>2, <2>2, <2>3, Ranges DEF Listed
  <2>5. d <= depth'
    BY <1>0, <1>1, <2>2, <2>3, Ranges
  <2> QED BY <1>1, <1>4, <1>5, <2>1, <2>2, <2>3, <2>4, <2>5
<1>8. FrameInv'
  <2>1. \A r \in held : r.kind = "argument" => r \in held'
    BY <1>1
  <2> QED BY <1>0, <1>1, <2>1 DEF FrameInv
<1>9. PendingInv'
  BY <1>1 DEF CloseHandleScope, Discipline, PendingInv, exception
<1> QED BY <1>4, <1>6, <1>7, <1>8, <1>9 DEF Rest

LEMMA CallbackReturnKeeps ==
  ASSUME IInv, CallbackReturn
  PROVE  Rest'
<1> DEFINE n == Len(frames)
           temp == frames[n].handle
           bag == [h \in Handle |-> IF h = temp THEN 1 ELSE 0]
<1>0. TypeOK /\ HeldInv /\ ScopeInv /\ FrameInv
  BY DEF IInv
<1>1. /\ FreeHandles(bag) /\ frames' = SubSeq(frames, 1, n - 1)
      /\ held' = {r \in held : ~(r.kind = "argument" /\ r.level = n)}
      /\ frames # << >> /\ depth = Base
      /\ UNCHANGED <<top, depth, scope, refs, wrapping, exception, nativeRef>>
  BY DEF CallbackReturn
<1>2. n \in Nat /\ n \in 1 .. n /\ temp \in Handle /\ depth = 1
  <2>1. n \in Nat /\ n # 0
    BY <1>0, <1>1, FrameTyped, EmptySeq DEF TypeOK
  <2> QED BY <1>0, <1>1, <2>1, FrameTyped, BaseIsRoot
<1>3. PICK arg \in held :
        arg.kind = "argument" /\ arg.level = n /\ arg.handle = temp
  BY <1>0, <1>2 DEF FrameInv
<1>4. free[temp] = 0 /\ temp <= top
  BY <1>0, <1>3 DEF HeldInv
<1>5. bag \in [Handle -> Nat]
  OBVIOUS
<1>6. \A h \in Handle : bag[h] > 0 => bag[h] = 1 /\ free[h] = 0 /\ h <= top
  BY <1>4
<1>7. \A h \in Handle : h # temp => bag[h] = 0
  OBVIOUS
<1> HIDE DEF bag
<1>8. /\ FreeInv' /\ RefInv' /\ WrapInv' /\ AnchorInv'
      /\ \A h \in Handle : h # temp => slot'[h] = slot[h] /\ free'[h] = free[h]
  BY <1>1, <1>5, <1>6, <1>7, FreeEffect
<1>9. \A r \in held' : r \in held /\ r.handle # temp
  BY <1>0, <1>1, <1>3 DEF HeldInv
<1>10. HeldInv'
  <2>1. \A r \in held' : r.handle <= top' /\ free'[r.handle] = 0
                       /\ slot'[r.handle] = r.value
    BY <1>0, <1>1, <1>8, <1>9, Ranges DEF HeldInv
  <2>2. \A r, q \in held' : r.handle = q.handle => r = q
    BY <1>0, <1>9 DEF HeldInv
  <2> QED BY <2>1, <2>2 DEF HeldInv
<1>11. ScopeInv'
  <2>1. \A d \in Depth, h \in Handle : ~Listed(d, h)
    BY <1>0, <1>2, Ranges DEF ScopeInv, Listed
  <2> QED BY <1>1, <2>1 DEF ScopeInv, Listed
<1>12. PendingInv'
  <2>1. pending # NoHandle => pending \in Handle /\ pending # temp
    BY <1>0, <1>3 DEF IInv, PendingInv, TypeOK
  <2> QED BY <1>1, <1>8, <1>9, <2>1 DEF IInv, PendingInv, exception
<1>13. FrameInv'
  <2>1. /\ Len(frames') = n - 1
        /\ \A i \in 1 .. n - 1 : frames'[i] = frames[i]
    <3> DEFINE F == [handle : Handle, depth : Depth]
    <3>1. \A i \in 1 .. n - 1 : frames[i] \in F
      BY <1>0, <1>2, FrameTyped
    <3> HIDE DEF F
    <3>2. /\ Len(SubSeq(frames, 1, n - 1)) =
               IF 1 <= n - 1 THEN n - 1 - 1 + 1 ELSE 0
          /\ \A i \in 1 .. n - 1 - 1 + 1 :
               SubSeq(frames, 1, n - 1)[i] = frames[1 + i - 1]
      <4>1. 1 \in Int /\ n - 1 \in Int
        BY <1>2
      <4> HIDE DEF n
      <4> QED BY <3>1, <4>1, SubSeqProperties
    <3> HIDE DEF n
    <3>3. n - 1 - 1 + 1 = n - 1 /\ \A i \in 1 .. n - 1 : 1 + i - 1 = i
      BY <1>2
    <3> QED BY <1>1, <1>2, <3>2, <3>3
  <2>2. \A i \in 1 .. n - 1 : i \in 1 .. n /\ i # n
    BY <1>2
  <2>3. \A r \in held : r.level # n => r \in held'
    BY <1>1
  <2> SUFFICES ASSUME NEW i \in 1 .. n - 1
               PROVE  /\ frames'[i].depth = 1
                      /\ \E r \in held' : r.kind = "argument" /\ r.level = i
                           /\ r.handle = frames'[i].handle
    BY <2>1 DEF FrameInv
  <2>4. i \in 1 .. n /\ i # n /\ frames'[i] = frames[i]
    BY <2>1, <2>2
  <2>5. PICK r \in held : r.kind = "argument" /\ r.level = i
                          /\ r.handle = frames[i].handle
    BY <1>0, <2>4 DEF FrameInv
  <2>6. r \in held' /\ frames[i].depth = 1
    BY <1>0, <2>3, <2>4, <2>5 DEF FrameInv
  <2> QED BY <2>4, <2>5, <2>6
<1> QED BY <1>8, <1>10, <1>11, <1>12, <1>13 DEF Rest

-----------------------------------------------------------------------------
(* References and wraps leave the handle table alone.                       *)
LEMMA TableSame ==
  ASSUME IInv, UNCHANGED <<table, held>>
  PROVE  /\ FreeInv' /\ HeldInv' /\ ScopeInv' /\ FrameInv'
         /\ UNCHANGED exception => PendingInv'
BY DEF IInv, FreeInv, HeldInv, ScopeInv, Listed, FrameInv, PendingInv, table,
       exception

LEMMA CreateReferenceKeeps ==
  ASSUME IInv, Discipline, NEW k \in 1 .. MaxRef, NEW r \in held,
         NEW count \in 0 .. MaxCount, CreateReference(k, r, count)
  PROVE  Rest'
<1>0. TypeOK /\ HeldInv /\ RefInv /\ WrapInv
  BY DEF IInv
<1> DEFINE h == r.handle
           new == Reference(h, r.value, count, FALSE)
<1>1. /\ nativeRef[k] = Absent /\ refs[h] = NoRef /\ count > 0
      /\ refs' = [refs EXCEPT ![h] = count]
      /\ nativeRef' = [nativeRef EXCEPT ![k] = new]
      /\ UNCHANGED <<table, wrapping, exception, held>>
  BY DEF CreateReference, Discipline
<1>2. /\ new.handle = h /\ new.value = r.value /\ new.count = count
      /\ new # Absent
  BY <1>0, Ranges DEF Reference, Absent
<1> HIDE DEF new
<1>3. nativeRef'[k] = new /\ \A j \in 1 .. MaxRef : j # k => nativeRef'[j] = nativeRef[j]
  BY <1>0, <1>1 DEF TypeOK
<1>4. /\ h \in Handle /\ refs'[h] = count
      /\ \A g \in Handle : g # h => refs'[g] = refs[g]
  BY <1>0, <1>1, Ranges DEF TypeOK
<1>5. \A j \in 1 .. MaxRef : nativeRef[j] # Absent =>
        nativeRef[j].handle \in Handle /\ nativeRef[j].handle # h
  <2>1. \A j \in 1 .. MaxRef : nativeRef[j] # Absent =>
          nativeRef[j].handle \in Handle /\ nativeRef[j].count \in Nat
    BY <1>0, RefRanges
  <2> QED BY <1>0, <1>1, <2>1 DEF RefInv, NoRef
<1>6. RefInv'
  <2>1. \A j \in 1 .. MaxRef : nativeRef'[j] # Absent =>
          /\ nativeRef'[j].count > 0
          /\ refs'[nativeRef'[j].handle] = nativeRef'[j].count
          /\ nativeRef'[j].handle <= top' /\ free'[nativeRef'[j].handle] = 0
          /\ slot'[nativeRef'[j].handle] = nativeRef'[j].value
    <3> SUFFICES ASSUME NEW j \in 1 .. MaxRef, nativeRef'[j] # Absent
                 PROVE  /\ nativeRef'[j].count > 0
                        /\ refs'[nativeRef'[j].handle] = nativeRef'[j].count
                        /\ nativeRef'[j].handle <= top'
                        /\ free'[nativeRef'[j].handle] = 0
                        /\ slot'[nativeRef'[j].handle] = nativeRef'[j].value
      OBVIOUS
    <3>1. CASE j = k
      BY <1>0, <1>1, <1>2, <1>3, <1>4, <3>1 DEF HeldInv, table
    <3>2. CASE j # k
      <4>1. nativeRef'[j] = nativeRef[j] /\ nativeRef[j] # Absent
        BY <1>3, <3>2
      <4>2. refs'[nativeRef[j].handle] = refs[nativeRef[j].handle]
        BY <1>4, <1>5, <4>1
      <4> QED BY <1>0, <1>1, <4>1, <4>2 DEF RefInv, table
    <3> QED BY <3>1, <3>2
  <2>2. \A i, j \in 1 .. MaxRef :
          nativeRef'[i] # Absent /\ nativeRef'[j] # Absent
            /\ nativeRef'[i].handle = nativeRef'[j].handle => i = j
    BY <1>0, <1>2, <1>3, <1>5 DEF RefInv
  <2> QED BY <2>1, <2>2 DEF RefInv
<1>7. WrapInv' /\ AnchorInv'
  <2>1. new.wrapped = FALSE
    BY DEF new, Reference
  <2>2. \A g \in Handle : Anchored(g)' => Anchored(g) /\ slot'[g] = slot[g]
    <3>1. DOMAIN nativeRef' = 1 .. MaxRef /\ DOMAIN nativeRef = 1 .. MaxRef
      BY <1>0, <1>1 DEF TypeOK
    <3> QED BY <1>1, <1>3, <2>1, <3>1 DEF Anchored, table
  <2>3. AnchorInv
    BY DEF IInv
  <2> QED BY <1>0, <1>1, <2>2, <2>3, AnchorSame DEF WrapInv, wrapping
<1> QED BY <1>1, <1>6, <1>7, TableSame DEF Rest

(* napi_reference_ref and unref only change the count.                      *)
LEMMA CountKeeps ==
  ASSUME IInv, NEW k \in 1 .. MaxRef, NEW count \in Nat, count > 0,
         nativeRef[k] # Absent,
         refs' = [refs EXCEPT ![nativeRef[k].handle] = count],
         nativeRef' = [nativeRef EXCEPT ![k] =
           Reference(nativeRef[k].handle, @.value, count, @.wrapped)],
         UNCHANGED <<table, wrapping, exception, held>>
  PROVE  Rest'
<1>0. TypeOK /\ RefInv /\ WrapInv
  BY DEF IInv
<1> DEFINE h == nativeRef[k].handle
           new == Reference(h, nativeRef[k].value, count, nativeRef[k].wrapped)
<1>1. h \in Handle
  BY <1>0, RefRanges
<1>2. /\ new.handle = h /\ new.value = nativeRef[k].value
      /\ new.count = count /\ new.wrapped = nativeRef[k].wrapped
      /\ new # Absent
  BY <1>0, <1>1, Ranges DEF Reference, Absent
<1>3. nativeRef'[k] = new /\ \A j \in 1 .. MaxRef : j # k => nativeRef'[j] = nativeRef[j]
  BY <1>0 DEF TypeOK
<1> HIDE DEF new
<1>4. refs'[h] = count /\ \A g \in Handle : g # h => refs'[g] = refs[g]
  BY <1>0, <1>1 DEF TypeOK
<1>5. \A j \in 1 .. MaxRef : j # k /\ nativeRef[j] # Absent =>
        nativeRef[j].handle \in Handle /\ nativeRef[j].handle # h
  BY <1>0, RefRanges DEF RefInv
<1>6. RefInv'
  <2>1. \A j \in 1 .. MaxRef : nativeRef'[j] # Absent =>
          /\ nativeRef'[j].count > 0
          /\ refs'[nativeRef'[j].handle] = nativeRef'[j].count
          /\ nativeRef'[j].handle <= top' /\ free'[nativeRef'[j].handle] = 0
          /\ slot'[nativeRef'[j].handle] = nativeRef'[j].value
    <3> SUFFICES ASSUME NEW j \in 1 .. MaxRef, nativeRef'[j] # Absent
                 PROVE  /\ nativeRef'[j].count > 0
                        /\ refs'[nativeRef'[j].handle] = nativeRef'[j].count
                        /\ nativeRef'[j].handle <= top'
                        /\ free'[nativeRef'[j].handle] = 0
                        /\ slot'[nativeRef'[j].handle] = nativeRef'[j].value
      OBVIOUS
    <3>1. CASE j = k
      BY <1>0, <1>2, <1>3, <1>4, <3>1 DEF RefInv, table
    <3>2. CASE j # k
      <4>1. nativeRef'[j] = nativeRef[j] /\ nativeRef[j] # Absent
        BY <1>3, <3>2
      <4>2. refs'[nativeRef[j].handle] = refs[nativeRef[j].handle]
        BY <1>4, <1>5, <3>2, <4>1
      <4> QED BY <1>0, <4>1, <4>2 DEF RefInv, table
    <3> QED BY <3>1, <3>2
  <2>2. \A i, j \in 1 .. MaxRef :
          nativeRef'[i] # Absent /\ nativeRef'[j] # Absent
            /\ nativeRef'[i].handle = nativeRef'[j].handle => i = j
    BY <1>0, <1>2, <1>3, <1>5 DEF RefInv
  <2> QED BY <2>1, <2>2 DEF RefInv
<1>7. WrapInv' /\ AnchorInv'
  <2>1. \A j \in 1 .. MaxRef : nativeRef'[j] # Absent =>
          /\ nativeRef[j] # Absent
          /\ nativeRef'[j].handle = nativeRef[j].handle
          /\ nativeRef'[j].wrapped = nativeRef[j].wrapped
    BY <1>2, <1>3
  <2>2. \A g \in Handle : Anchored(g)' => Anchored(g) /\ slot'[g] = slot[g]
    <3>1. DOMAIN nativeRef' = 1 .. MaxRef /\ DOMAIN nativeRef = 1 .. MaxRef
      BY <1>0 DEF TypeOK
    <3> QED BY <2>1, <3>1 DEF Anchored, table
  <2>3. AnchorInv
    BY DEF IInv
  <2> QED BY <1>0, <2>2, <2>3, AnchorSame DEF WrapInv, wrapping
<1> QED BY <1>6, <1>7, TableSame DEF Rest

LEMMA ReferenceRefKeeps ==
  ASSUME IInv, NEW k \in 1 .. MaxRef, ReferenceRef(k)
  PROVE  Rest'
<1> DEFINE h == nativeRef[k].handle
<1>1. nativeRef[k] # Absent /\ h \in Handle /\ refs[h] = nativeRef[k].count
      /\ nativeRef[k].count \in Nat
  BY RefRanges DEF IInv, RefInv, ReferenceRef
<1>2. /\ refs' = [refs EXCEPT ![h] = refs[h] + 1]
      /\ nativeRef' = [nativeRef EXCEPT ![k] =
                         Reference(h, @.value, refs[h] + 1, @.wrapped)]
      /\ UNCHANGED <<table, wrapping, exception, held>>
  BY DEF ReferenceRef
<1>3. refs[h] + 1 \in Nat /\ refs[h] + 1 > 0
  BY <1>1
<1> QED BY <1>1, <1>2, <1>3, CountKeeps

LEMMA ReferenceUnrefKeeps ==
  ASSUME IInv, Discipline, NEW k \in 1 .. MaxRef, ReferenceUnref(k)
  PROVE  Rest'
<1> DEFINE h == nativeRef[k].handle
           count == IF refs[h] > 0 THEN refs[h] - 1 ELSE 0
<1>1. nativeRef[k] # Absent /\ h \in Handle /\ refs[h] = nativeRef[k].count
      /\ nativeRef[k].count \in Nat
  BY RefRanges DEF IInv, RefInv, ReferenceUnref
<1>2. count \in Nat
  BY <1>1
<1>3. /\ count > 0
      /\ refs' = [refs EXCEPT ![h] = IF count = 0 THEN NoRef ELSE count]
      /\ nativeRef' = [nativeRef EXCEPT ![k] =
                         Reference(h, @.value, count, @.wrapped)]
      /\ UNCHANGED <<table, wrapping, exception, held>>
  BY DEF ReferenceUnref, Discipline
<1> HIDE DEF count
<1>4. refs' = [refs EXCEPT ![h] = count]
  <2>1. (IF count = 0 THEN NoRef ELSE count) = count
    BY <1>2, <1>3
  <2> QED BY <1>3, <2>1, Zenon
<1> QED BY <1>1, <1>2, <1>3, <1>4, CountKeeps

LEMMA DeleteReferenceKeeps ==
  ASSUME IInv, Discipline, NEW k \in 1 .. MaxRef, DeleteReference(k)
  PROVE  Rest'
<1>0. TypeOK /\ RefInv /\ WrapInv
  BY DEF IInv
<1> DEFINE h == nativeRef[k].handle
<1>1. /\ nativeRef[k] # Absent
      /\ refs' = [refs EXCEPT ![h] = NoRef]
      /\ nativeRef' = [nativeRef EXCEPT ![k] = Absent]
      /\ UNCHANGED <<table, wrapping, exception, held>>
  BY DEF DeleteReference, Discipline
<1>2. \A j \in 1 .. MaxRef :
        nativeRef'[j] = IF j = k THEN Absent ELSE nativeRef[j]
  BY <1>0, <1>1 DEF TypeOK
<1>3. \A j \in 1 .. MaxRef : j # k /\ nativeRef[j] # Absent =>
        /\ nativeRef[j].handle \in Handle /\ nativeRef[j].handle # h
        /\ refs'[nativeRef[j].handle] = refs[nativeRef[j].handle]
  <2>1. \A j \in 1 .. MaxRef : j # k /\ nativeRef[j] # Absent =>
          nativeRef[j].handle \in Handle /\ nativeRef[j].handle # h
    BY <1>0, <1>1, RefRanges DEF RefInv
  <2> QED BY <1>0, <1>1, <2>1 DEF TypeOK
<1>4. RefInv'
  BY <1>0, <1>1, <1>2, <1>3 DEF RefInv, table
<1>5. WrapInv' /\ AnchorInv'
  <2>1. DOMAIN nativeRef' = 1 .. MaxRef /\ DOMAIN nativeRef = 1 .. MaxRef
    BY <1>0, <1>1 DEF TypeOK
  <2>2. \A g \in Handle : Anchored(g)' => Anchored(g) /\ slot'[g] = slot[g]
    BY <1>1, <1>2, <2>1 DEF Anchored, table
  <2>3. AnchorInv
    BY DEF IInv
  <2> QED BY <1>0, <1>1, <2>2, <2>3, AnchorSame DEF WrapInv, wrapping
<1> QED BY <1>1, <1>4, <1>5, TableSame DEF Rest

LEMMA NapiWrapKeeps ==
  ASSUME IInv, Discipline, NEW r \in held, NEW k \in 0 .. MaxRef, NapiWrap(r, k)
  PROVE  Rest'
<1>0. TypeOK /\ HeldInv /\ RefInv /\ WrapInv /\ AnchorInv
  BY DEF IInv
<1> DEFINE h == r.handle
           w == wraps + 1
           new == Reference(h, r.value, 1, TRUE)
<1>1. /\ w \in Wrap /\ registry[h] = NoWrap /\ wraps' = w
      /\ registry' = [registry EXCEPT ![h] = w]
      /\ wrapOf' = [wrapOf EXCEPT ![slot[h]] = w]
      /\ owner' = [owner EXCEPT ![w] = r.value]
      /\ UNCHANGED <<table, finalized, exception, held>>
  BY DEF NapiWrap
<1>2. \/ k = 0 /\ UNCHANGED <<refs, nativeRef>>
      \/ /\ k \in 1 .. MaxRef /\ refs[h] = NoRef /\ nativeRef[k] = Absent
         /\ refs' = [refs EXCEPT ![h] = 1]
         /\ nativeRef' = [nativeRef EXCEPT ![k] = new]
  <2>1. MaxRef \in Nat
    BY HandlesAssumption
  <2>2. k = 0 \/ k \in 1 .. MaxRef
    BY <2>1
  <2> QED BY <2>2 DEF NapiWrap, Discipline
<1>3. /\ new.handle = h /\ new.value = r.value /\ new.count = 1
      /\ new.wrapped = TRUE /\ new # Absent
      /\ h \in Handle /\ slot[h] = r.value /\ r.value \in Value
      /\ h <= top /\ free[h] = 0
  BY <1>0, Ranges DEF Reference, Absent, HeldInv
<1> HIDE DEF new
<1>4. RefInv'
  <2>1. CASE UNCHANGED <<refs, nativeRef>>
    BY <1>0, <1>1, <2>1 DEF RefInv, table
  <2>2. CASE /\ k \in 1 .. MaxRef /\ refs[h] = NoRef /\ nativeRef[k] = Absent
             /\ refs' = [refs EXCEPT ![h] = 1]
             /\ nativeRef' = [nativeRef EXCEPT ![k] = new]
    <3>1. \A j \in 1 .. MaxRef :
            nativeRef'[j] = IF j = k THEN new ELSE nativeRef[j]
      BY <1>0, <2>2 DEF TypeOK
    <3>2. \A g \in Handle : refs'[g] = IF g = h THEN 1 ELSE refs[g]
      BY <1>0, <2>2 DEF TypeOK
    <3>3. \A j \in 1 .. MaxRef : nativeRef[j] # Absent =>
            nativeRef[j].handle \in Handle /\ nativeRef[j].handle # h
      <4>1. \A j \in 1 .. MaxRef : nativeRef[j] # Absent =>
              nativeRef[j].handle \in Handle /\ nativeRef[j].count \in Nat
        BY <1>0, RefRanges
      <4> QED BY <1>0, <2>2, <4>1 DEF RefInv, NoRef
    <3>4. \A j \in 1 .. MaxRef : nativeRef'[j] # Absent =>
            /\ nativeRef'[j].count > 0
            /\ refs'[nativeRef'[j].handle] = nativeRef'[j].count
            /\ nativeRef'[j].handle <= top' /\ free'[nativeRef'[j].handle] = 0
            /\ slot'[nativeRef'[j].handle] = nativeRef'[j].value
      BY <1>0, <1>1, <1>3, <3>1, <3>2, <3>3 DEF RefInv, table
    <3>5. \A i, j \in 1 .. MaxRef :
            nativeRef'[i] # Absent /\ nativeRef'[j] # Absent
              /\ nativeRef'[i].handle = nativeRef'[j].handle => i = j
      BY <1>0, <1>3, <3>1, <3>3 DEF RefInv
    <3> QED BY <3>4, <3>5 DEF RefInv
  <2> QED BY <1>2, <2>1, <2>2
<1>5. /\ wraps \in Nat /\ w # NoWrap /\ w \in Nat /\ ~(w <= wraps)
      /\ \A g \in Handle : registry'[g] = IF g = h THEN w ELSE registry[g]
      /\ \A v \in Value : wrapOf'[v] = IF v = r.value THEN w ELSE wrapOf[v]
      /\ \A u \in Wrap : owner'[u] = IF u = w THEN r.value ELSE owner[u]
      /\ \A g \in Handle : registry[g] # NoWrap => registry[g] \in Wrap
      /\ \A v \in Value : wrapOf[v] # NoWrap => wrapOf[v] \in Wrap
      /\ Wrap \subseteq Nat /\ \A x \in finalized : x \in Nat
  BY <1>0, <1>1, <1>3, HandlesAssumption DEF TypeOK, NoWrap, Wrap
<1>6. /\ \A u \in Nat : u <= wraps => u <= w /\ u # w
      /\ w <= w /\ \A u \in Nat : u > w => u # w /\ u > wraps
  BY <1>5
<1> HIDE DEF w
<1>7. WrapInv'
  <2>1. \A g \in Handle : registry'[g] # NoWrap =>
          registry'[g] <= wraps' /\ registry'[g] \notin finalized'
    <3>1. w \notin finalized
      BY <1>0, <1>5 DEF WrapInv
    <3>2. ASSUME NEW g \in Handle, registry'[g] # NoWrap, g # h
          PROVE  /\ registry'[g] = registry[g] /\ registry[g] \in Nat
                 /\ registry[g] <= wraps /\ registry[g] \notin finalized
      BY <1>0, <1>5, <3>2 DEF WrapInv
    <3>3. ASSUME NEW g \in Handle, registry'[g] # NoWrap, g # h
          PROVE  registry'[g] <= wraps'
      BY <1>1, <1>6, <3>2, <3>3
    <3> QED BY <1>1, <1>5, <1>6, <3>1, <3>2, <3>3
  <2>2. \A f, g \in Handle : registry'[f] # NoWrap /\ registry'[f] = registry'[g] => f = g
    <3>1. \A g \in Handle : registry[g] # w
      BY <1>0, <1>5 DEF WrapInv
    <3> QED BY <1>0, <1>5, <3>1 DEF WrapInv
  <2>3. \A x \in finalized' : x <= wraps'
    BY <1>0, <1>1, <1>5, <1>6 DEF WrapInv
  <2>4. \A u \in Wrap : u > wraps' => owner'[u] = NoValue
    <3>1. \A u \in Wrap : u > w => u # w /\ u > wraps
      BY <1>5, <1>6
    <3> QED BY <1>0, <1>1, <1>5, <3>1 DEF WrapInv
  <2>5. \A v \in Value : wrapOf'[v] # NoWrap =>
          wrapOf'[v] <= wraps' /\ owner'[wrapOf'[v]] = v
    <3>1. ASSUME NEW v \in Value, wrapOf'[v] # NoWrap, v # r.value
          PROVE  /\ wrapOf'[v] = wrapOf[v] /\ wrapOf[v] \in Wrap /\ wrapOf[v] \in Nat
                 /\ wrapOf[v] <= wraps /\ owner[wrapOf[v]] = v
      BY <1>0, <1>5, <3>1 DEF WrapInv
    <3>2. ASSUME NEW v \in Value, wrapOf'[v] # NoWrap, v # r.value
          PROVE  wrapOf'[v] <= wraps' /\ owner'[wrapOf'[v]] = v
      BY <1>1, <1>5, <1>6, <3>1, <3>2
    <3>3. w \in Wrap /\ owner'[w] = r.value
      BY <1>1, <1>5
    <3> QED BY <1>1, <1>5, <1>6, <3>2, <3>3
  <2> QED BY <2>1, <2>2, <2>3, <2>4, <2>5 DEF WrapInv
<1>8. ASSUME NEW g \in Handle, Anchored(g)'
      PROVE  Bound(g)'
  <2>1. slot' = slot
    BY <1>1 DEF table
  <2>2. CASE g = h
    BY <1>1, <1>3, <1>5, <2>1, <2>2 DEF Bound
  <2>3. CASE g # h
    <3>1. Anchored(g)
      <4>1. DOMAIN nativeRef' = DOMAIN nativeRef
        BY <1>2
      <4>2. \A j \in DOMAIN nativeRef : nativeRef'[j] = nativeRef[j] \/ nativeRef'[j] = new
        BY <1>0, <1>2 DEF TypeOK
      <4> QED BY <1>3, <1>8, <2>3, <4>1, <4>2 DEF Anchored
    <3>2. Bound(g)
      BY <1>0, <3>1 DEF AnchorInv
    <3>3. /\ registry'[g] = registry[g] /\ registry[g] \in Wrap /\ registry[g] # w
          /\ owner'[registry[g]] = owner[registry[g]] /\ owner[w] = NoValue
      <4>1. w > wraps
        BY <1>5
      <4> QED BY <1>0, <1>1, <1>5, <1>6, <2>3, <3>2, <4>1 DEF Bound, WrapInv
    <3>4. slot[g] \in Value
      <4>1. slot[g] = owner[registry[g]]
        BY <3>2 DEF Bound
      <4>2. PICK j \in DOMAIN nativeRef : nativeRef[j] # Absent /\ nativeRef[j].handle = g
        BY <3>1 DEF Anchored
      <4>3. slot[g] = nativeRef[j].value /\ j \in 1 .. MaxRef
        BY <1>0, <4>2 DEF RefInv, TypeOK
      <4> QED BY <1>0, <4>2, <4>3 DEF TypeOK
    <3>5. CASE slot[g] = r.value
      BY <1>1, <1>5, <2>1, <3>2, <3>3, <3>5 DEF Bound
    <3>6. CASE slot[g] # r.value
      <4>1. wrapOf'[slot[g]] = wrapOf[slot[g]]
        BY <1>5, <3>4, <3>6
      <4>2. \A u \in Wrap : owner[u] = slot[g] => owner'[u] = slot[g]
        BY <1>5, <3>3, <3>4, HandlesAssumption
      <4> QED BY <2>1, <3>2, <3>3, <4>1, <4>2 DEF Bound
    <3> QED BY <3>5, <3>6
  <2> QED BY <2>2, <2>3
<1>9. AnchorInv'
  BY <1>8 DEF AnchorInv
<1> QED BY <1>1, <1>4, <1>7, <1>9, TableSame DEF Rest

LEMMA NapiRemoveWrapKeeps ==
  ASSUME IInv, Discipline, NEW r \in held, NapiRemoveWrap(r)
  PROVE  Rest'
<1>0. TypeOK /\ HeldInv /\ RefInv /\ WrapInv /\ AnchorInv
  BY DEF IInv
<1> DEFINE h == r.handle
           goes(k) == nativeRef[k] # Absent /\ nativeRef[k].handle = h
                        /\ nativeRef[k].wrapped
<1>1. /\ registry[h] # NoWrap
      /\ slot[h] \in Value => wrapOf[slot[h]] \in {NoWrap, registry[h]}
      /\ finalized' = finalized \cup {registry[h]}
      /\ registry' = [registry EXCEPT ![h] = NoWrap]
      /\ wrapOf' = [u \in Value |-> IF u = slot[h] THEN NoWrap ELSE wrapOf[u]]
      /\ refs' = [refs EXCEPT ![h] = NoRef]
      /\ nativeRef' = [k \in DOMAIN nativeRef |->
                         IF goes(k) THEN Absent ELSE nativeRef[k]]
      /\ UNCHANGED <<table, wraps, owner, exception, held>>
  BY DEF NapiRemoveWrap
<1>2. h \in Handle /\ slot[h] = r.value /\ r.value \in Value
  BY <1>0, Ranges DEF HeldInv
<1>3. \A j \in DOMAIN nativeRef :
        nativeRef[j] # Absent /\ nativeRef[j].handle = h => goes(j)
  BY DEF NapiRemoveWrap, Discipline
<1>4. /\ DOMAIN nativeRef = 1 .. MaxRef /\ DOMAIN nativeRef' = 1 .. MaxRef
      /\ \A j \in 1 .. MaxRef : nativeRef'[j] # Absent =>
           /\ nativeRef'[j] = nativeRef[j] /\ nativeRef[j].handle \in Handle
           /\ nativeRef[j].handle # h /\ refs'[nativeRef[j].handle] = refs[nativeRef[j].handle]
  <2>1. DOMAIN nativeRef = 1 .. MaxRef /\ DOMAIN nativeRef' = 1 .. MaxRef
    BY <1>0, <1>1 DEF TypeOK
  <2>2. \A j \in 1 .. MaxRef : nativeRef'[j] # Absent =>
          nativeRef'[j] = nativeRef[j] /\ ~goes(j)
    BY <1>1, <2>1
  <2>3. \A j \in 1 .. MaxRef : nativeRef'[j] # Absent =>
          nativeRef[j].handle \in Handle /\ nativeRef[j].handle # h
    BY <1>0, <1>3, <2>1, <2>2, RefRanges
  <2> QED BY <1>0, <1>1, <1>2, <2>1, <2>2, <2>3 DEF TypeOK
<1>5. RefInv'
  BY <1>0, <1>1, <1>4 DEF RefInv, table
<1>6. /\ \A g \in Handle : registry'[g] # NoWrap => g # h /\ registry'[g] = registry[g]
      /\ \A g \in Handle : g # h => registry'[g] = registry[g]
      /\ \A v \in Value : wrapOf'[v] # NoWrap => wrapOf'[v] = wrapOf[v]
      /\ \A v \in Value : v # r.value => wrapOf'[v] = wrapOf[v]
  BY <1>0, <1>1, <1>2 DEF TypeOK
<1>7. WrapInv'
  BY <1>0, <1>1, <1>2, <1>6 DEF WrapInv
<1>8. ASSUME NEW g \in Handle, Anchored(g)'
      PROVE  Bound(g)'
  <2>1. slot' = slot /\ owner' = owner
    BY <1>1 DEF table
  <2>2. g # h /\ Anchored(g)
    BY <1>4, <1>8 DEF Anchored
  <2>3. Bound(g) /\ registry'[g] = registry[g]
    BY <1>0, <1>6, <2>2 DEF AnchorInv
  <2>4. CASE slot[g] = r.value /\ \A u \in Wrap : owner[u] = slot[g] => u = registry[g]
    <3>1. wrapOf[r.value] = registry[g] /\ registry[g] # NoWrap
      BY <2>3, <2>4 DEF Bound
    <3>2. registry[g] = registry[h]
      BY <1>1, <1>2, <3>1
    <3> QED BY <1>0, <1>2, <2>2, <3>1, <3>2 DEF WrapInv
  <2>5. CASE ~(\A u \in Wrap : owner[u] = slot[g] => u = registry[g])
    BY <2>1, <2>3, <2>5 DEF Bound
  <2>6. CASE slot[g] # r.value
    <3>1. slot[g] \in Value
      <4>1. PICK j \in DOMAIN nativeRef : nativeRef[j] # Absent /\ nativeRef[j].handle = g
        BY <2>2 DEF Anchored
      <4>2. slot[g] = nativeRef[j].value /\ j \in 1 .. MaxRef
        BY <1>0, <4>1 DEF RefInv, TypeOK
      <4> QED BY <1>0, <4>1, <4>2 DEF TypeOK
    <3> QED BY <1>6, <2>1, <2>3, <2>6, <3>1 DEF Bound
  <2> QED BY <2>4, <2>5, <2>6
<1>9. AnchorInv'
  BY <1>8 DEF AnchorInv
<1> QED BY <1>1, <1>5, <1>7, <1>9, TableSame DEF Rest

-----------------------------------------------------------------------------
LEMMA InvStep == Discipline /\ IInv /\ [Next]_vars => IInv'
<1> SUFFICES ASSUME Discipline, IInv, [Next]_vars PROVE IInv'
  OBVIOUS
<1>1. TypeOK'
  BY TypeStep DEF IInv
<1>2. DOMAIN nativeRef = 1 .. MaxRef
  BY DEF IInv, TypeOK
<1>3. CASE ClearPendingException
  <2>1. UNCHANGED <<table, held>> /\ UNCHANGED <<refs, nativeRef, wrapping>>
    BY <1>3 DEF ClearPendingException
  <2>2. RefInv' /\ WrapInv' /\ AnchorInv'
    BY <2>1 DEF IInv, RefInv, WrapInv, AnchorInv, Bound, Anchored, table, wrapping
  <2>3. PendingInv'
    BY <1>3 DEF ClearPendingException, PendingInv
  <2> QED BY <1>1, <2>1, <2>2, <2>3, TableSame DEF IInv
<1>4. CASE UNCHANGED vars
  <2>1. /\ UNCHANGED <<table, held>>
        /\ UNCHANGED <<refs, nativeRef, wrapping, exception>>
    BY <1>4 DEF vars
  <2>2. RefInv' /\ WrapInv' /\ AnchorInv'
    BY <2>1 DEF IInv, RefInv, WrapInv, AnchorInv, Bound, Anchored, table, wrapping
  <2> QED BY <1>1, <2>1, <2>2, TableSame DEF IInv
<1>5. CASE \E v \in Value : Return(v) \/ CallbackEnter(v) \/ SetPendingException(v)
  <2>1. Rest'
    BY <1>5, ReturnKeeps, CallbackEnterKeeps, SetPendingExceptionKeeps
  <2> QED BY <1>1, <2>1 DEF IInv, Rest
<1>6. CASE ScopeNext
  <2>1. Rest'
    BY <1>6, OpenHandleScopeKeeps, CloseHandleScopeKeeps, CallbackReturnKeeps
       DEF ScopeNext
  <2> QED BY <1>1, <2>1 DEF IInv, Rest
<1>7. CASE ReferenceNext
  <2>1. Rest'
    BY <1>2, <1>7, CreateReferenceKeeps, ReferenceRefKeeps,
       ReferenceUnrefKeeps, DeleteReferenceKeeps
       DEF ReferenceNext
  <2> QED BY <1>1, <2>1 DEF IInv, Rest
<1>8. CASE WrapNext
  <2>1. Rest'
    BY <1>8, NapiWrapKeeps, NapiRemoveWrapKeeps DEF WrapNext
  <2> QED BY <1>1, <2>1 DEF IInv, Rest
<1> QED BY <1>3, <1>4, <1>5, <1>6, <1>7, <1>8 DEF Next

THEOREM InvHolds ==
  ASSUME Discipline
  PROVE  Spec => []IInv
BY InvInit, InvStep, PTL DEF Spec

(* Under the discipline a handle that native code may use keeps its value,  *)
(* however scopes and callbacks nest.                                       *)
THEOREM HandlesSound ==
  ASSUME Discipline
  PROVE  Spec => []HandlesKeepTheirValue
<1>1. IInv => HandlesKeepTheirValue
  BY DEF IInv, HeldInv, HandlesKeepTheirValue
<1> QED BY <1>1, InvHolds, PTL

(* ... a strong reference leads to its value until it is deleted,           *)
THEOREM ReferencesSound ==
  ASSUME Discipline
  PROVE  Spec => []StrongReferencesResolve
<1>1. IInv => StrongReferencesResolve
  BY DEF IInv, TypeOK, RefInv, StrongReferencesResolve
<1> QED BY <1>1, InvHolds, PTL

(* ... the pending exception can be fetched until it is cleared,            *)
THEOREM ExceptionSound ==
  ASSUME Discipline
  PROVE  Spec => []PendingExceptionIsKept
<1>1. IInv => PendingExceptionIsKept
  BY DEF IInv, PendingInv, PendingExceptionIsKept
<1> QED BY <1>1, InvHolds, PTL

(* ... and napi_unwrap finds what was wrapped once with a reference by any  *)
(* handle, and goes wrong only by the handle of a wrap without one.         *)
THEOREM UnwrapSound ==
  ASSUME Discipline
  PROVE  Spec => []UnwrapIsOwn
<1>1. IInv => UnwrapIsOwn
  <2> SUFFICES ASSUME IInv, NEW r \in held
               PROVE  LET w == Unwrap(r.handle)
                      IN  /\ \A h \in Handle :
                               Anchored(h) /\ slot[h] = r.value /\ WrappedOnce(r.value)
                                 => w = registry[h]
                          /\ w # NoWrap =>
                               \/ owner[w] = r.value
                               \/ wrapOf[r.value] = NoWrap /\ ~Anchored(r.handle)
    BY DEF UnwrapIsOwn
  <2> DEFINE w == Unwrap(r.handle)
  <2>1. slot[r.handle] = r.value /\ r.handle \in Handle /\ r.value \in Value
    BY Ranges DEF IInv, HeldInv
  <2>2. WrapInv /\ AnchorInv /\ TypeOK
    BY DEF IInv
  <2>3. ASSUME NEW h \in Handle, Anchored(h), slot[h] = r.value, WrappedOnce(r.value)
        PROVE  w = registry[h]
    <3>1. /\ registry[h] \in Wrap /\ registry[h] # NoWrap /\ registry[h] \notin finalized
          /\ owner[registry[h]] = r.value
      BY <2>2, <2>3 DEF AnchorInv, Bound, WrapInv, TypeOK
    <3>2. \A u \in Wrap : owner[u] = r.value => u = registry[h]
      BY <2>3, <3>1 DEF WrappedOnce
    <3>3. wrapOf[r.value] = registry[h]
      BY <2>2, <2>3, <3>2 DEF AnchorInv, Bound
    <3> QED BY <2>1, <3>1, <3>3 DEF Unwrap
  <2>4. ASSUME w # NoWrap
        PROVE  owner[w] = r.value \/ (wrapOf[r.value] = NoWrap /\ ~Anchored(r.handle))
    <3>1. CASE wrapOf[r.value] # NoWrap
      BY <2>1, <2>2, <2>4, <3>1 DEF Unwrap, WrapInv
    <3>2. CASE wrapOf[r.value] = NoWrap /\ Anchored(r.handle)
      <4>1. w = registry[r.handle]
        BY <2>1, <2>4, <3>2 DEF Unwrap
      <4> QED BY <2>1, <2>2, <3>2, <4>1 DEF AnchorInv, Bound
    <3> QED BY <3>1, <3>2
  <2> QED BY <2>3, <2>4
<1> QED BY <1>1, InvHolds, PTL

-----------------------------------------------------------------------------
(* The session: the saves in flight, the transaction that is not committed  *)
(* and the store.                                                           *)

Running(t) == save[t].at # "none"
Excepted == alongside \cup lost

(* A save in flight is the one started last, or another tab saves beside it.*)
Flights ==
  /\ \A t \in Tab : Running(t) => save[t].n \in 1 .. clock.save
  /\ \A t \in Tab : Running(t) => save[t].n = clock.save \/ save[t].n \in alongside
  /\ \A t, u \in Tab :
       t # u /\ Running(t) /\ Running(u) => save[t].n \in alongside

(* One that has only the shell's state left to put has put its files.       *)
FilesFirst ==
  \A t \in Tab : save[t].at = "last" /\ save[t].n \notin Excepted =>
    /\ tx.key = "files" => tx.kept.save = save[t].n
    /\ tx.key # "files" => db.files.save = save[t].n

(* A shell's state, in the store or on its way, is not newer than the files,*)
(* in the store or on their way, nor than the saves in flight.              *)
NotNewer(n) ==
  \/ n \in Excepted
  \/ \A t \in Tab : Running(t) => n <= save[t].n
Order ==
  /\ db.shell.save <= clock.save /\ NotNewer(db.shell.save)
  /\ db.shell.save <= db.files.save \/ db.shell.save \in Excepted
  /\ tx.key = "files" => db.shell.save <= tx.kept.save \/ db.shell.save \in Excepted
  /\ tx.key = "shell" =>
       /\ tx.kept.save <= clock.save /\ NotNewer(tx.kept.save)
       /\ tx.kept.save <= db.files.save \/ tx.kept.save \in Excepted

SessionIInv == SessionTypeOK /\ Flights /\ FilesFirst /\ Order

Database == [version : 0 .. 2, schema : BOOLEAN, files : Kept, shell : Kept]
Transaction == [key : {"none", "schema", "files", "shell"}, kept : Kept]
Connection == [session : BOOLEAN, cache : BOOLEAN]
PageOf == [at : {"closed", "schema", "files", "shell", "up"},
           found : Kept, wasmBoots : BOOLEAN]
LiveOf == [files : Gen, shell : Gen, initial : Gen]
SaveOf == [at : {"none", "shell", "schema", "files", "last"},
           n : 0 .. MaxSave, files : Gen, shell : Gen]
ClockOf == [edit : Gen, save : 0 .. MaxSave, page : 0 .. MaxPage]

(* The type, part by part.                                                  *)
LEMMA SessionParts ==
  SessionTypeOK <=>
    /\ db \in Database /\ tx \in Transaction /\ open \in [Tab -> Connection]
    /\ page \in [Tab -> PageOf] /\ live \in [Tab -> LiveOf]
    /\ save \in [Tab -> SaveOf] /\ clock \in ClockOf
    /\ alongside \subseteq 1 .. MaxSave /\ lost \subseteq 0 .. MaxSave
  BY DEF SessionTypeOK, Database, Transaction, Connection, PageOf, LiveOf, SaveOf, ClockOf

(* What a page, a save and the store start with has its type.               *)
LEMMA NothingIsTyped ==
  /\ Nothing \in Kept /\ NoSave \in SaveOf /\ NoTx \in Transaction /\ 0 \in Gen
  /\ NoLive \in LiveOf /\ Nothing.save = 0 /\ NoTx.key = "none" /\ NoSave.at = "none"
  BY SessionAssumption DEF Nothing, Kept, Gen, NoSave, SaveOf, NoTx, Transaction, NoLive,
     LiveOf

(* A transaction that starts leaves the keys of the store alone.            *)
LEMMA TransactIsTyped ==
  ASSUME SessionTypeOK, NEW t \in Tab, Transact(t)
  PROVE  /\ db' \in Database /\ db'.files = db.files /\ db'.shell = db.shell
         /\ open' \in [Tab -> Connection]
<1> DEFINE v == IF db.version < SessionVersion THEN SessionVersion ELSE db.version
<1>d. db \in Database /\ open \in [Tab -> Connection] BY SessionParts
<1>1. v \in 0 .. 2 BY <1>d DEF Database, SessionVersion
<1>2. db' = [db EXCEPT !.version = v] BY DEF Transact
<1>3. db' \in Database /\ db'.files = db.files /\ db'.shell = db.shell
  <2> HIDE DEF v
  <2> QED BY <1>1, <1>2, <1>d DEF Database
<1>4. open' \in [Tab -> Connection]
  <2>1. [open[t] EXCEPT !.session = TRUE] \in Connection BY <1>d DEF Connection
  <2>2. open' = [open EXCEPT ![t] = [open[t] EXCEPT !.session = TRUE]]
    BY <1>d DEF Transact, Connection
  <2> QED BY <1>d, <2>1, <2>2
<1> QED BY <1>3, <1>4

(* The session as it is in the first state.                                 *)
LEMMA SessionStarts == SessionInit => SessionIInv
<1> SUFFICES ASSUME SessionInit PROVE SessionIInv OBVIOUS
<1>1. /\ db \in Database /\ db.files = Nothing /\ db.shell = Nothing
      /\ open \in [Tab -> Connection] /\ page \in [Tab -> PageOf]
      /\ clock \in ClockOf /\ clock.save = 0
  BY NothingIsTyped, SessionAssumption
  DEF SessionInit, Database, Connection, PageOf, ClockOf, Gen
<1>2. SessionTypeOK BY <1>1, NothingIsTyped, SessionParts DEF SessionInit
<1>3. \A t \in Tab : save[t] = NoSave BY DEF SessionInit
<1>4. Flights /\ FilesFirst
  BY <1>3, NothingIsTyped DEF Flights, FilesFirst, Running
<1>5. Order
  BY <1>1, <1>3, NothingIsTyped DEF Order, NotNewer, Running, SessionInit
<1> QED BY <1>2, <1>4, <1>5 DEF SessionIInv

(* What a step does that starts no save and no transaction, and ends none   *)
(* but by forgetting a save: a save in flight stays where it is, or comes   *)
(* nearer to its files.                                                     *)
Quiet ==
  /\ db'.files = db.files /\ db'.shell = db.shell /\ clock'.save = clock.save
  /\ UNCHANGED <<tx, alongside, lost>>
  /\ \A t \in Tab : Running(t)' =>
       /\ Running(t) /\ save'[t].n = save[t].n
       /\ save'[t].at = "last" => save[t].at = "last"

LEMMA QuietKeeps ==
  ASSUME Flights, FilesFirst, Order, Quiet
  PROVE  Flights' /\ FilesFirst' /\ Order'
<1>1. Flights' BY DEF Quiet, Flights, Running
<1>2. FilesFirst' BY DEF Quiet, FilesFirst, Running, Excepted
<1>3. \A n : NotNewer(n) => NotNewer(n)' BY DEF Quiet, NotNewer, Running, Excepted
<1>4. Order' BY <1>3 DEF Quiet, Order, Excepted
<1> QED BY <1>1, <1>2, <1>4

(* A step that changes no save and nothing of what they put is quiet.       *)
LEMMA UntouchedIsQuiet ==
  ASSUME db'.files = db.files, db'.shell = db.shell, clock'.save = clock.save,
         UNCHANGED <<tx, alongside, lost, save>>
  PROVE  Quiet
  BY DEF Quiet, Running

(* The boot of a page, its programs and its caches leave the saves alone.   *)
LEMMA PagesAreQuiet ==
  ASSUME SessionIInv, NEW t \in Tab,
         \/ Boot(t) \/ ReadSchema(t) \/ ReadFiles(t) \/ ReadShell(t) \/ ReadFails(t)
         \/ WasmReady(t) \/ WasmFails(t) \/ Edit(t) \/ OpenCache(t)
  PROVE  SessionTypeOK' /\ Quiet
<1>t. SessionTypeOK BY DEF SessionIInv
<1>p. /\ db \in Database /\ tx \in Transaction /\ open \in [Tab -> Connection]
      /\ page \in [Tab -> PageOf] /\ live \in [Tab -> LiveOf]
      /\ save \in [Tab -> SaveOf] /\ clock \in ClockOf
      /\ alongside \subseteq 1 .. MaxSave /\ lost \subseteq 0 .. MaxSave
  BY <1>t, SessionParts
<1>k. Nothing \in Kept /\ NoLive \in LiveOf BY NothingIsTyped
<1>f. db.files \in Kept /\ db.shell \in Kept BY <1>p DEF Database
<1>q. ASSUME db' \in Database, open' \in [Tab -> Connection], page' \in [Tab -> PageOf],
             live' \in [Tab -> LiveOf], clock' \in ClockOf, UNCHANGED <<tx, save, alongside, lost>>,
             db'.files = db.files, db'.shell = db.shell, clock'.save = clock.save
      PROVE  SessionTypeOK' /\ Quiet
  <2>1. SessionTypeOK'
    BY <1>p, <1>q, SessionParts
    DEF SessionTypeOK, Database, Transaction, Connection, PageOf, LiveOf, SaveOf, ClockOf
  <2> QED BY <1>q, <2>1, UntouchedIsQuiet
<1>r. \A p \in PageOf : Prompt(p) \in PageOf BY <1>k DEF Prompt, PageOf
<1>s. \A l \in LiveOf : \A f, s \in Kept : Restored(l, f, s) \in LiveOf
  BY DEF Restored, LiveOf, Kept
<1>1. CASE Boot(t)
  <2>1. [at |-> "schema", found |-> Nothing, wasmBoots |-> FALSE] \in PageOf
    BY <1>k DEF PageOf
  <2>2. page' \in [Tab -> PageOf] /\ live' \in [Tab -> LiveOf]
    BY <1>1, <1>k, <1>p, <2>1 DEF Boot
  <2>3. clock' \in ClockOf /\ clock'.save = clock.save 
    BY <1>1, <1>p, SessionAssumption DEF Boot, ClockOf
  <2> QED BY <1>1, <1>p, <1>q, <2>2, <2>3 DEF Boot
<1>2. CASE ReadSchema(t)
  <2>1. /\ db' \in Database /\ db'.files = db.files /\ db'.shell = db.shell
        /\ open' \in [Tab -> Connection]
    BY <1>2, <1>t, TransactIsTyped DEF ReadSchema
  <2>2. [page[t] EXCEPT !.at = "files"] \in PageOf BY <1>p DEF PageOf
  <2>3. page' \in [Tab -> PageOf] BY <1>2, <1>p, <1>r, <2>2 DEF ReadSchema
  <2> QED BY <1>2, <1>p, <1>q, <2>1, <2>3 DEF ReadSchema
<1>3. CASE ReadFiles(t)
  <2>1. /\ db' \in Database /\ db'.files = db.files /\ db'.shell = db.shell
        /\ open' \in [Tab -> Connection]
    BY <1>3, <1>t, TransactIsTyped DEF ReadFiles
  <2>2. [page[t] EXCEPT !.at = "shell", !.found = db.files] \in PageOf
    BY <1>p, <1>f DEF PageOf
  <2>3. page' = [page EXCEPT ![t] = [page[t] EXCEPT !.at = "shell", !.found = db.files]]
    BY <1>3, <1>p DEF ReadFiles, PageOf
  <2>4. page' \in [Tab -> PageOf] BY <1>p, <2>2, <2>3
  <2> QED BY <1>3, <1>p, <1>q, <2>1, <2>4 DEF ReadFiles
<1>4. CASE ReadShell(t)
  <2>1. /\ db' \in Database /\ db'.files = db.files /\ db'.shell = db.shell
        /\ open' \in [Tab -> Connection]
    BY <1>4, <1>t, TransactIsTyped DEF ReadShell
  <2>2. page[t].found \in Kept BY <1>p DEF PageOf
  <2>3. page' \in [Tab -> PageOf] BY <1>4, <1>p, <1>r DEF ReadShell
  <2>4. live' \in [Tab -> LiveOf] BY <1>4, <1>p, <1>f, <1>s, <2>2 DEF ReadShell
  <2> QED BY <1>4, <1>p, <1>q, <2>1, <2>3, <2>4 DEF ReadShell
<1>5. CASE ReadFails(t)
  <2>1. page[t].found \in Kept BY <1>p DEF PageOf
  <2>2. [page[t] EXCEPT !.at = "shell"] \in PageOf BY <1>p DEF PageOf
  <2>3. page' \in [Tab -> PageOf] BY <1>5, <1>p, <1>r, <2>2 DEF ReadFails
  <2>4. live' \in [Tab -> LiveOf] BY <1>5, <1>k, <1>p, <1>s, <2>1 DEF ReadFails
  <2> QED BY <1>5, <1>p, <1>q, <2>3, <2>4 DEF ReadFails
<1>6. CASE WasmReady(t) \/ WasmFails(t)
  <2>1. [page[t] EXCEPT !.wasmBoots = FALSE] \in PageOf BY <1>p DEF PageOf
  <2>2. page' = [page EXCEPT ![t] = [page[t] EXCEPT !.wasmBoots = FALSE]]
    BY <1>6, <1>p DEF WasmReady, WasmFails, PageOf
  <2>3. page' \in [Tab -> PageOf] BY <1>p, <2>1, <2>2
  <2>4. [live[t] EXCEPT !.files = live[t].initial] \in LiveOf BY <1>p DEF LiveOf
  <2>5. \/ live' = [live EXCEPT ![t] = [live[t] EXCEPT !.files = live[t].initial]]
        \/ live' = live
    BY <1>6, <1>p DEF WasmReady, WasmFails, LiveOf
  <2>6. live' \in [Tab -> LiveOf] BY <1>p, <2>4, <2>5
  <2> QED BY <1>6, <1>p, <1>q, <2>3, <2>6 DEF WasmReady, WasmFails
<1>7. CASE Edit(t)
  <2>1. clock.edit + 1 \in Gen BY <1>7, <1>p, SessionAssumption DEF Edit, Gen, ClockOf
  <2>2. clock' \in ClockOf /\ clock'.save = clock.save BY <1>7, <1>p, <2>1 DEF Edit, ClockOf
  <2>3. /\ [live[t] EXCEPT !.files = clock.edit + 1] \in LiveOf
        /\ [live[t] EXCEPT !.shell = clock.edit + 1] \in LiveOf
    BY <1>p, <2>1 DEF LiveOf
  <2>4. \/ live' = [live EXCEPT ![t] = [live[t] EXCEPT !.files = clock.edit + 1]]
        \/ live' = [live EXCEPT ![t] = [live[t] EXCEPT !.shell = clock.edit + 1]]
    BY <1>7, <1>p DEF Edit, LiveOf
  <2>5. live' \in [Tab -> LiveOf] BY <1>p, <2>3, <2>4
  <2> QED BY <1>7, <1>p, <1>q, <2>2, <2>5 DEF Edit
<1>8. CASE OpenCache(t)
  <2>1. db' \in Database /\ db'.files = db.files /\ db'.shell = db.shell
    BY <1>8, <1>p DEF OpenCache, Database, CacheVersion
  <2>2. [open[t] EXCEPT !.cache = TRUE] \in Connection BY <1>p DEF Connection
  <2>3. open' = [open EXCEPT ![t] = [open[t] EXCEPT !.cache = TRUE]]
    BY <1>8, <1>p DEF OpenCache, Connection
  <2>4. open' \in [Tab -> Connection] BY <1>p, <2>2, <2>3
  <2> QED BY <1>8, <1>p, <1>q, <2>1, <2>4 DEF OpenCache
<1> QED BY <1>1, <1>2, <1>3, <1>4, <1>5, <1>6, <1>7, <1>8

(* A step of a save that is quiet: it collects, fails or ends with its tab. *)
LEMMA SavesAreQuiet ==
  ASSUME SessionIInv, NEW t \in Tab,
         ClosePage(t) \/ SaveCollectsShell(t) \/ PutFails(t)
  PROVE  SessionTypeOK' /\ Quiet
<1>t. SessionTypeOK BY DEF SessionIInv
<1>p. /\ db \in Database /\ tx \in Transaction /\ open \in [Tab -> Connection]
      /\ page \in [Tab -> PageOf] /\ live \in [Tab -> LiveOf]
      /\ save \in [Tab -> SaveOf] /\ clock \in ClockOf
      /\ alongside \subseteq 1 .. MaxSave /\ lost \subseteq 0 .. MaxSave
  BY <1>t, SessionParts
<1>k. Nothing \in Kept /\ NoLive \in LiveOf /\ NoSave \in SaveOf /\ NoSave.at = "none"
  BY NothingIsTyped
<1>q. ASSUME UNCHANGED <<db, tx, alongside, lost, clock>>, open' \in [Tab -> Connection],
             page' \in [Tab -> PageOf], live' \in [Tab -> LiveOf],
             NEW s \in SaveOf, save' = [save EXCEPT ![t] = s],
             s.at # "none" => s.at # "last" /\ s.n = save[t].n /\ save[t].at # "none"
      PROVE  SessionTypeOK' /\ Quiet
  <2>1. save' \in [Tab -> SaveOf] BY <1>p, <1>q
  <2>2. SessionTypeOK'
    BY <1>p, <1>q, <2>1
    DEF SessionTypeOK, Database, Transaction, Connection, PageOf, LiveOf, SaveOf, ClockOf
  <2>3. \A u \in Tab : save'[u] = IF u = t THEN s ELSE save[u] BY <1>p, <1>q
  <2>4. Quiet BY <1>q, <2>3 DEF Quiet, Running
  <2> QED BY <2>2, <2>4
<1>1. CASE ClosePage(t)
  <2>1. [at |-> "closed", found |-> Nothing, wasmBoots |-> FALSE] \in PageOf
    BY <1>k DEF PageOf
  <2>2. [open[t] EXCEPT !.session = FALSE, !.cache = FALSE] \in Connection
    BY <1>p DEF Connection
  <2>3. open' = [open EXCEPT ![t] = [open[t] EXCEPT !.session = FALSE, !.cache = FALSE]]
    BY <1>1, <1>p DEF ClosePage, Connection
  <2>4. /\ page' \in [Tab -> PageOf] /\ live' \in [Tab -> LiveOf]
        /\ open' \in [Tab -> Connection]
    BY <1>1, <1>k, <1>p, <2>1, <2>2, <2>3 DEF ClosePage
  <2> QED BY <1>1, <1>k, <1>q, <2>4 DEF ClosePage
<1>2. CASE SaveCollectsShell(t)
  <2> DEFINE s == [save[t] EXCEPT !.at = "schema", !.shell = live[t].shell]
  <2>1. s \in SaveOf /\ s.at = "schema" /\ s.n = save[t].n BY <1>p DEF SaveOf, LiveOf
  <2>2. save' = [save EXCEPT ![t] = s] BY <1>2, <1>p DEF SaveCollectsShell, SaveOf
  <2>3. save[t].at # "none" /\ UNCHANGED <<db, tx, open, page, live, alongside, lost, clock>>
    BY <1>2 DEF SaveCollectsShell
  <2> HIDE DEF s
  <2> QED BY <1>p, <1>q, <2>1, <2>2, <2>3
<1>3. CASE PutFails(t)
  BY <1>3, <1>k, <1>p, <1>q DEF PutFails
<1> QED BY <1>1, <1>2, <1>3

(* A save starts: it is the newest, and beside another both are excepted.   *)
LEMMA StartIsSafe ==
  ASSUME SessionIInv, NEW t \in Tab, SaveStarts(t)
  PROVE  SessionIInv'
<1>t. SessionTypeOK /\ Flights /\ FilesFirst /\ Order BY DEF SessionIInv
<1>p. /\ db \in Database /\ tx \in Transaction /\ open \in [Tab -> Connection]
      /\ page \in [Tab -> PageOf] /\ live \in [Tab -> LiveOf]
      /\ save \in [Tab -> SaveOf] /\ clock \in ClockOf
      /\ alongside \subseteq 1 .. MaxSave /\ lost \subseteq 0 .. MaxSave
  BY <1>t, SessionParts
<1> DEFINE n == clock.save + 1
           s == [at |-> "shell", n |-> n, files |-> live[t].files, shell |-> 0]
<1>1. /\ n \in 1 .. MaxSave /\ clock.save \in Nat /\ n = clock.save + 1
      /\ clock' \in ClockOf /\ clock'.save = n
  BY <1>p, SessionAssumption DEF SaveStarts, ClockOf
<1>2. s \in SaveOf /\ s.at = "shell" /\ s.n = n
  BY <1>p, <1>1, NothingIsTyped DEF SaveOf, LiveOf
<1>3. /\ save' = [save EXCEPT ![t] = s] /\ save[t].at = "none"
      /\ UNCHANGED <<db, tx, open, page, live, lost>>
  BY DEF SaveStarts, MayStart
<1>4. alongside' = IF Saving = {} THEN alongside
                   ELSE alongside \cup {n} \cup {save[u].n : u \in Saving}
  BY DEF SaveStarts
<1> HIDE DEF n, s
<1>5. \A u \in Tab : save'[u] = IF u = t THEN s ELSE save[u] BY <1>3, <1>p
<1>6. \A u \in Tab : Running(u) => save[u].n \in alongside' /\ n \in alongside'
  BY <1>4 DEF Saving, Running
<1>7. alongside \subseteq alongside' /\ alongside' \subseteq 1 .. MaxSave
  <2>1. \A u \in Tab : Running(u) => save[u].n \in 1 .. MaxSave
    BY <1>t, <1>p, <1>1 DEF Flights, ClockOf
  <2> QED BY <1>4, <1>p, <1>1, <2>1 DEF Saving, Running
<1>8. SessionTypeOK'
  <2>1. save' \in [Tab -> SaveOf] BY <1>2, <1>3, <1>p
  <2> QED BY <1>p, <1>1, <1>3, <1>7, <2>1
      DEF SessionTypeOK, Database, Transaction, Connection, PageOf, LiveOf, SaveOf, ClockOf
<1>9. Flights'
  <2>1. \A u \in Tab : Running(u)' => save'[u].n \in 1 .. n
    BY <1>t, <1>1, <1>2, <1>5 DEF Flights, Running
  <2>2. \A u \in Tab : Running(u)' => save'[u].n = n \/ save'[u].n \in alongside'
    BY <1>2, <1>5, <1>6 DEF Running
  <2>3. \A u, v \in Tab :
          u # v /\ Running(u)' /\ Running(v)' => save'[u].n \in alongside'
    BY <1>2, <1>5, <1>6 DEF Running
  <2> QED BY <1>1, <2>1, <2>2, <2>3 DEF Flights
<1>10. FilesFirst'
  <2>1. Excepted \subseteq Excepted' BY <1>3, <1>7 DEF Excepted
  <2>2. \A u \in Tab : save'[u].at = "last" => save'[u] = save[u] BY <1>2, <1>5
  <2> QED BY <1>t, <1>3, <2>1, <2>2 DEF FilesFirst
<1>11. Order'
  <2>1. Excepted \subseteq Excepted' BY <1>3, <1>7 DEF Excepted
  <2>2. \A m \in Int : NotNewer(m) /\ m <= clock.save => NotNewer(m)'
    BY <1>1, <1>2, <1>5, <2>1 DEF NotNewer, Running
  <2>3. db.shell.save \in Int /\ tx.kept.save \in Int
    BY <1>p DEF Database, Transaction, Kept
  <2>4. db.files.save \in Int BY <1>p DEF Database, Kept
  <2> QED BY <1>t, <1>1, <1>3, <2>1, <2>2, <2>3, <2>4 DEF Order
<1> QED BY <1>8, <1>9, <1>10, <1>11 DEF SessionIInv

(* What a put that succeeded leaves: its transaction, and a save that goes  *)
(* on.                                                                      *)
LEMMA PutIsTyped ==
  ASSUME SessionIInv, NEW t \in Tab, NEW key \in {"schema", "files", "shell"},
         NEW gen \in Gen, NEW s \in SaveOf, Put(t, key, gen, s)
  PROVE  /\ SessionTypeOK' /\ tx = NoTx /\ tx'.key = key /\ tx'.kept.save = save[t].n
         /\ db'.files = db.files /\ db'.shell = db.shell
         /\ UNCHANGED <<alongside, lost, clock>>
         /\ \A u \in Tab : save'[u] = IF u = t THEN s ELSE save[u]
<1>t. SessionTypeOK BY DEF SessionIInv
<1>p. /\ db \in Database /\ tx \in Transaction /\ open \in [Tab -> Connection]
      /\ page \in [Tab -> PageOf] /\ live \in [Tab -> LiveOf]
      /\ save \in [Tab -> SaveOf] /\ clock \in ClockOf
      /\ alongside \subseteq 1 .. MaxSave /\ lost \subseteq 0 .. MaxSave
  BY <1>t, SessionParts
<1>1. /\ db' \in Database /\ db'.files = db.files /\ db'.shell = db.shell
      /\ open' \in [Tab -> Connection]
  BY <1>t, TransactIsTyped DEF Put
<1>2. save[t].n \in 0 .. MaxSave BY <1>p DEF SaveOf
<1>3. /\ tx' \in Transaction /\ tx'.key = key /\ tx'.kept.save = save[t].n /\ tx = NoTx
  BY <1>2 DEF Put, Transact, Transaction, Kept
<1>4. /\ save' = [save EXCEPT ![t] = s] /\ UNCHANGED <<page, live, alongside, lost, clock>>
  BY DEF Put
<1>5. save' \in [Tab -> SaveOf] BY <1>4, <1>p
<1>6. SessionTypeOK'
  BY <1>1, <1>3, <1>4, <1>5, <1>p
  DEF SessionTypeOK, Database, Transaction, Connection, PageOf, LiveOf, SaveOf, ClockOf
<1> QED BY <1>1, <1>3, <1>4, <1>6, <1>p

(* The three puts: the shell's is asked for when the files are in the store,*)
(* or excepted.                                                             *)
LEMMA PutsAreSafe ==
  ASSUME SessionIInv, NEW t \in Tab, PutSchema(t) \/ PutFiles(t) \/ PutShell(t)
  PROVE  SessionIInv'
<1>t. SessionTypeOK /\ Flights /\ FilesFirst /\ Order BY DEF SessionIInv
<1>p. save \in [Tab -> SaveOf] /\ clock \in ClockOf /\ db \in Database
  BY <1>t, SessionParts
<1>n. /\ db.shell.save \in Int /\ db.files.save \in Int /\ save[t].n \in Int
      /\ clock.save \in Int
  BY <1>p DEF Database, Kept, SaveOf, ClockOf
<1>u. \A u \in Tab : save[u].n \in Int BY <1>p DEF SaveOf
<1>k. NoTx.key = "none" /\ NoSave \in SaveOf /\ NoSave.at = "none" /\ 0 \in Gen
  BY NothingIsTyped
<1>1. CASE PutSchema(t)
  <2> DEFINE s == [save[t] EXCEPT !.at = "files"]
  <2>1. s \in SaveOf /\ s.at = "files" /\ s.n = save[t].n BY <1>p DEF SaveOf
  <2>2. Put(t, "schema", 0, s) /\ save[t].at = "schema" BY <1>1 DEF PutSchema
  <2> HIDE DEF s
  <2>3. /\ SessionTypeOK' /\ tx = NoTx /\ tx'.key = "schema" /\ tx'.kept.save = save[t].n
        /\ db'.files = db.files /\ db'.shell = db.shell
        /\ UNCHANGED <<alongside, lost, clock>>
        /\ \A u \in Tab : save'[u] = IF u = t THEN s ELSE save[u]
    BY <1>k, <2>1, <2>2, PutIsTyped
  <2>4. Flights' BY <1>t, <2>1, <2>2, <2>3 DEF Flights, Running
  <2>5. FilesFirst' BY <1>t, <1>k, <2>1, <2>3 DEF FilesFirst, Excepted
  <2>6. \A m : NotNewer(m) => NotNewer(m)'
    BY <2>1, <2>2, <2>3 DEF NotNewer, Running, Excepted
  <2>7. Order' BY <1>t, <2>3, <2>6 DEF Order, Excepted
  <2> QED BY <2>3, <2>4, <2>5, <2>7 DEF SessionIInv
<1>2. CASE PutFiles(t)
  <2> DEFINE s == [save[t] EXCEPT !.at = "last"]
  <2>1. s \in SaveOf /\ s.at = "last" /\ s.n = save[t].n /\ save[t].files \in Gen
    BY <1>p DEF SaveOf
  <2>2. Put(t, "files", save[t].files, s) /\ save[t].at = "files" BY <1>2 DEF PutFiles
  <2> HIDE DEF s
  <2>3. /\ SessionTypeOK' /\ tx = NoTx /\ tx'.key = "files" /\ tx'.kept.save = save[t].n
        /\ db'.files = db.files /\ db'.shell = db.shell
        /\ UNCHANGED <<alongside, lost, clock>>
        /\ \A u \in Tab : save'[u] = IF u = t THEN s ELSE save[u]
    BY <2>1, <2>2, PutIsTyped
  <2>4. Flights' BY <1>t, <2>1, <2>2, <2>3 DEF Flights, Running
  <2>5. FilesFirst'
    BY <1>t, <2>1, <2>2, <2>3 DEF FilesFirst, Flights, Running, Excepted
  <2>6. \A m : NotNewer(m) => NotNewer(m)'
    BY <2>1, <2>2, <2>3 DEF NotNewer, Running, Excepted
  <2>7. db.shell.save <= save[t].n \/ db.shell.save \in Excepted
    BY <1>t, <2>2 DEF Order, NotNewer, Running
  <2>8. Order' BY <1>t, <2>3, <2>6, <2>7 DEF Order, Excepted
  <2> QED BY <2>3, <2>4, <2>5, <2>8 DEF SessionIInv
<1>3. CASE PutShell(t)
  <2>1. save[t].shell \in Gen /\ save[t].at = "last" /\ Put(t, "shell", save[t].shell, NoSave)
    BY <1>3, <1>p DEF PutShell, SaveOf
  <2>3. /\ SessionTypeOK' /\ tx = NoTx /\ tx'.key = "shell" /\ tx'.kept.save = save[t].n
        /\ db'.files = db.files /\ db'.shell = db.shell
        /\ UNCHANGED <<alongside, lost, clock>>
        /\ \A u \in Tab : save'[u] = IF u = t THEN NoSave ELSE save[u]
    BY <1>k, <2>1, PutIsTyped
  <2>4. Flights' BY <1>t, <1>k, <2>1, <2>3 DEF Flights, Running
  <2>5. FilesFirst' BY <1>t, <1>k, <2>1, <2>3 DEF FilesFirst, Excepted
  <2>6. \A m : NotNewer(m) => NotNewer(m)'
    BY <1>k, <2>1, <2>3 DEF NotNewer, Running, Excepted
  <2>7. save[t].n \in Excepted \/ save[t].n = db.files.save
    BY <1>t, <1>k, <2>1, <2>3 DEF FilesFirst
  <2>8. \A m : m = save[t].n => NotNewer(m)'
    BY <1>t, <1>k, <2>1, <2>3 DEF NotNewer, Flights, Running, Excepted
  <2>9. save[t].n <= clock.save BY <1>t, <1>n, <2>1 DEF Flights, Running
  <2>10. Order' BY <1>t, <1>n, <2>3, <2>6, <2>7, <2>8, <2>9 DEF Order, Excepted
  <2> QED BY <2>3, <2>4, <2>5, <2>10 DEF SessionIInv
<1> QED BY <1>1, <1>2, <1>3

(* The end of a transaction: what it puts is in the store, or the files are *)
(* lost and their save is excepted.                                         *)
LEMMA EndsAreSafe ==
  ASSUME SessionIInv, Commit \/ Abort
  PROVE  SessionIInv'
<1>t. SessionTypeOK /\ Flights /\ FilesFirst /\ Order BY DEF SessionIInv
<1>p. /\ db \in Database /\ tx \in Transaction /\ open \in [Tab -> Connection]
      /\ page \in [Tab -> PageOf] /\ live \in [Tab -> LiveOf]
      /\ save \in [Tab -> SaveOf] /\ clock \in ClockOf
      /\ alongside \subseteq 1 .. MaxSave /\ lost \subseteq 0 .. MaxSave
  BY <1>t, SessionParts
<1>n. /\ db.shell.save \in Int /\ db.files.save \in Int /\ tx.kept.save \in Int
      /\ clock.save \in Int /\ tx.kept \in Kept
  BY <1>p DEF Database, Kept, Transaction, ClockOf
<1>k. NoTx \in Transaction /\ NoTx.key = "none" BY NothingIsTyped
<1>1. CASE Commit
  <2>1. tx'.key = "none" /\ UNCHANGED <<open, page, live, save, alongside, lost, clock>>
    BY <1>1, <1>k DEF Commit
  <2>2. /\ db' \in Database
        /\ db'.files = IF tx.key = "files" THEN tx.kept ELSE db.files
        /\ db'.shell = IF tx.key = "shell" THEN tx.kept ELSE db.shell
    <3>1. tx.key \in {"none", "schema", "files", "shell"} BY <1>p DEF Transaction
    <3>2. CASE tx.key = "schema"
      <4>1. db' = [db EXCEPT !.schema = TRUE] BY <1>1, <3>2 DEF Commit
      <4> QED BY <1>p, <3>2, <4>1 DEF Database
    <3>3. CASE tx.key = "files"
      <4>1. db' = [db EXCEPT !.files = tx.kept] BY <1>1, <3>3 DEF Commit
      <4> QED BY <1>p, <1>n, <3>3, <4>1 DEF Database
    <3>4. CASE tx.key = "shell"
      <4>1. db' = [db EXCEPT !.shell = tx.kept] BY <1>1, <3>4 DEF Commit
      <4> QED BY <1>p, <1>n, <3>4, <4>1 DEF Database
    <3>5. tx.key # "none" BY <1>1 DEF Commit
    <3> QED BY <3>1, <3>2, <3>3, <3>4, <3>5
  <2>3. SessionTypeOK'
    BY <1>1, <1>k, <1>p, <2>1, <2>2
    DEF Commit, SessionTypeOK, Database, Transaction, Connection, PageOf, LiveOf, SaveOf, ClockOf
  <2>4. Flights' BY <1>t, <2>1 DEF Flights, Running
  <2>5. FilesFirst' BY <1>t, <2>1, <2>2 DEF FilesFirst, Excepted
  <2>6. \A m : NotNewer(m) <=> NotNewer(m)' BY <2>1 DEF NotNewer, Running, Excepted
  <2>7. Order' BY <1>t, <1>n, <2>1, <2>2, <2>6 DEF Order, Excepted
  <2> QED BY <2>3, <2>4, <2>5, <2>7 DEF SessionIInv
<1>2. CASE Abort
  <2>1. /\ tx'.key = "none" /\ UNCHANGED <<db, open, page, live, save, alongside, clock>>
        /\ lost' = IF tx.key = "files" THEN lost \cup {tx.kept.save} ELSE lost
    BY <1>2, <1>k DEF Abort
  <2>2. tx.kept.save \in 0 .. MaxSave BY <1>p DEF Transaction, Kept
  <2>3. SessionTypeOK'
    BY <1>2, <1>k, <1>p, <2>1, <2>2
    DEF Abort, SessionTypeOK, Database, Transaction, Connection, PageOf, LiveOf, SaveOf, ClockOf
  <2>4. Flights' BY <1>t, <2>1 DEF Flights, Running
  <2>5. FilesFirst' BY <1>t, <2>1 DEF FilesFirst, Excepted
  <2>6. \A m : NotNewer(m) => NotNewer(m)' BY <2>1 DEF NotNewer, Running, Excepted
  <2>7. Order' BY <1>t, <1>n, <2>1, <2>6 DEF Order, Excepted
  <2> QED BY <2>3, <2>4, <2>5, <2>7 DEF SessionIInv
<1> QED BY <1>1, <1>2

(* Clearing the session excepts the saves in flight.                        *)
LEMMA ClearIsSafe ==
  ASSUME SessionIInv, NEW t \in Tab, ClearSession(t)
  PROVE  SessionIInv'
<1>t. SessionTypeOK /\ Flights /\ FilesFirst /\ Order BY DEF SessionIInv
<1>p. /\ db \in Database /\ tx \in Transaction /\ open \in [Tab -> Connection]
      /\ page \in [Tab -> PageOf] /\ live \in [Tab -> LiveOf]
      /\ save \in [Tab -> SaveOf] /\ clock \in ClockOf
      /\ alongside \subseteq 1 .. MaxSave /\ lost \subseteq 0 .. MaxSave
  BY <1>t, SessionParts
<1>k. Nothing \in Kept /\ Nothing.save = 0 /\ NoTx.key = "none" BY NothingIsTyped
<1>1. /\ tx = NoTx /\ UNCHANGED <<tx, page, live, save, lost, clock>>
      /\ open' = [open EXCEPT ![t].session = TRUE]
      /\ alongside' = alongside \cup {save[u].n : u \in Saving}
  BY DEF ClearSession
<1>2. db' \in Database /\ db'.files = Nothing /\ db'.shell = Nothing
  BY <1>k DEF ClearSession, Database, SessionVersion
<1>3. open' \in [Tab -> Connection]
  <2>1. [open[t] EXCEPT !.session = TRUE] \in Connection BY <1>p DEF Connection
  <2>2. open' = [open EXCEPT ![t] = [open[t] EXCEPT !.session = TRUE]]
    BY <1>1, <1>p DEF Connection
  <2> QED BY <1>p, <2>1, <2>2
<1>4. \A u \in Tab : Running(u) => save[u].n \in alongside'
  BY <1>1 DEF Saving, Running
<1>5. alongside \subseteq alongside' /\ alongside' \subseteq 1 .. MaxSave
  <2>1. \A u \in Tab : Running(u) => save[u].n \in 1 .. MaxSave
    BY <1>t, <1>p, SessionAssumption DEF Flights, ClockOf
  <2> QED BY <1>1, <1>p, <2>1 DEF Saving, Running
<1>6. SessionTypeOK'
  BY <1>p, <1>1, <1>2, <1>3, <1>5
  DEF SessionTypeOK, Database, Transaction, Connection, PageOf, LiveOf, SaveOf, ClockOf
<1>7. Flights' BY <1>t, <1>1, <1>5 DEF Flights, Running
<1>8. FilesFirst' BY <1>1, <1>4 DEF FilesFirst, Excepted, Running
<1>9. Order'
  <2>1. \A u \in Tab : save[u].n \in Nat BY <1>p DEF SaveOf
  <2>2. NotNewer(0)' BY <1>1, <2>1 DEF NotNewer, Running
  <2>3. clock.save \in Nat BY <1>p DEF ClockOf
  <2> QED BY <1>k, <1>1, <1>2, <2>2, <2>3 DEF Order
<1> QED BY <1>6, <1>7, <1>8, <1>9 DEF SessionIInv

(* Every step keeps it.                                                     *)
LEMMA SessionStays == SessionIInv /\ [SessionNext]_sessionVars => SessionIInv'
<1> SUFFICES ASSUME SessionIInv, [SessionNext]_sessionVars PROVE SessionIInv'
  OBVIOUS
<1>q. ASSUME SessionTypeOK', Quiet PROVE SessionIInv'
  BY <1>q, QuietKeeps DEF SessionIInv
<1>1. CASE UNCHANGED sessionVars
  <2>1. SessionTypeOK' BY <1>1 DEF SessionIInv, SessionTypeOK, sessionVars
  <2>2. Quiet BY <1>1 DEF Quiet, Running, sessionVars
  <2> QED BY <1>q, <2>1, <2>2
<1>2. CASE Commit \/ Abort BY <1>2, EndsAreSafe
<1>3. ASSUME NEW t \in Tab,
             \/ Boot(t) \/ ReadSchema(t) \/ ReadFiles(t) \/ ReadShell(t) \/ ReadFails(t)
             \/ WasmReady(t) \/ WasmFails(t) \/ Edit(t) \/ OpenCache(t)
      PROVE  SessionIInv'
  BY <1>q, <1>3, PagesAreQuiet
<1>4. ASSUME NEW t \in Tab, ClosePage(t) \/ SaveCollectsShell(t) \/ PutFails(t)
      PROVE  SessionIInv'
  BY <1>q, <1>4, SavesAreQuiet
<1>5. ASSUME NEW t \in Tab, SaveStarts(t) PROVE SessionIInv'
  BY <1>5, StartIsSafe
<1>6. ASSUME NEW t \in Tab, PutSchema(t) \/ PutFiles(t) \/ PutShell(t)
      PROVE  SessionIInv'
  BY <1>6, PutsAreSafe
<1>7. ASSUME NEW t \in Tab, ClearSession(t) PROVE SessionIInv'
  BY <1>7, ClearIsSafe
<1> QED BY <1>1, <1>2, <1>3, <1>4, <1>5, <1>6, <1>7 DEF SessionNext

(* A cwd that a page could restore is never of a later save than the files  *)
(* it is in, however the transactions of the tabs' saves follow each other  *)
(* and wherever one fails or its tab is closed; the saves that ran beside   *)
(* another tab's and those that lost their files at commit are excepted.    *)
THEOREM SessionIsKept == SessionSpec => []ShellNeedsItsFiles
<1>1. SessionIInv => ShellNeedsItsFiles
  BY DEF SessionIInv, Order, ShellNeedsItsFiles, Excepted
<1> QED BY <1>1, SessionStarts, SessionStays, PTL DEF SessionSpec

-----------------------------------------------------------------------------
(* The parts that MCPage composes. A step of MCPage is a step of one part   *)
(* and leaves the others alone, so that each part of MCPage has what        *)
(* Runtime_proofs proves of it, here for the values that MCPage gives the   *)
(* constants.                                                               *)
RP == INSTANCE Runtime_proofs WITH
  Fn <- {"f", "g"}, MaxAdd <- 2, MaxEmit <- 3, MaxChunk <- 2, MaxEvent <- 3, MaxError <- 1,
  MaxNext <- 3, Run <- {"r", "s"}, MaxImport <- 2, MaxRun <- 2, Waiter <- {"w1", "w2"},
  BootWaiter <- "w1", Call <- {"r", "s"}, Module <- {"x", "y"}, EsModule <- {"y"},
  MaxLoad <- 3, MaxVersion <- 2, MaxLevel <- 2, Trees <- {Nested, Sparse}, Cwd <- 1,
  MaxResolve <- 2, MaxScript <- 2, Package <- {"a", "b", "c"},
  Graphs <- {Cycle, Diamond}, MaxNest <- 1, Cap <- 1, Large <- {"b"},
  MaxCommand <- 1, MaxTrouble <- 1

-----------------------------------------------------------------------------
(* ScriptRunner: what MCPage takes is what Runtime_proofs proves about.                 *)
LEMMA RunnerIs ==
  /\ Runner!Init => RP!Runner!Init
  /\ Runner!Next => RP!Runner!Next
  /\ UNCHANGED runnerVars => UNCHANGED RP!Runner!vars
  /\ RP!Runner!GlobalsComeBack => Runner!GlobalsComeBack
  /\ RP!Runner!ImportsAreAwaited => Runner!ImportsAreAwaited
<1>1. Runner!Init => RP!Runner!Init
  BY DEF Runner!Init, RP!Runner!Init, Runner!Host, RP!Runner!Host, Runner!Ids,
         RP!Runner!Ids, Runner!None, RP!Runner!None
<1>2. Runner!Next => RP!Runner!Next
  BY DEF Runner!Next, RP!Runner!Next, Runner!Await, RP!Runner!Await, Runner!DrainAgain,
         RP!Runner!DrainAgain, Runner!DrainFails, RP!Runner!DrainFails,
         Runner!ExecuteCliAsync, RP!Runner!ExecuteCliAsync, Runner!Ids, RP!Runner!Ids,
         Runner!Import, RP!Runner!Import, Runner!ImportSettles, RP!Runner!ImportSettles,
         Runner!Refused, RP!Runner!Refused, Runner!Resume, RP!Runner!Resume,
         Runner!Return, RP!Runner!Return, Runner!Throw, RP!Runner!Throw,
         Runner!Transpile, RP!Runner!Transpile, Runner!Drain, RP!Runner!Drain,
         Runner!Quiet, RP!Runner!Quiet, Runner!Settled, RP!Runner!Settled, Runner!Over,
         RP!Runner!Over, Runner!Status, RP!Runner!Status, Runner!Bridge,
         RP!Runner!Bridge, Runner!Kinds, RP!Runner!Kinds, Runner!Native,
         RP!Runner!Native, Runner!None, RP!Runner!None, Runner!Last, RP!Runner!Last,
         Runner!RemoveFirst, RP!Runner!RemoveFirst, Runner!Call, RP!Runner!Call,
         Runner!Called, RP!Runner!Called, Runner!Pending, RP!Runner!Pending,
         Runner!ToSet, RP!Runner!ToSet, Runner!RemoveAt, RP!Runner!RemoveAt,
         Runner!SelectInSeq, RP!Runner!SelectInSeq, Runner!Min, RP!Runner!Min
<1>3. UNCHANGED runnerVars => UNCHANGED RP!Runner!vars
  BY DEF runnerVars, RP!Runner!vars
<1>4. RP!Runner!GlobalsComeBack => Runner!GlobalsComeBack
  BY DEF Runner!GlobalsComeBack, RP!Runner!GlobalsComeBack, Runner!Host, RP!Runner!Host,
         Runner!Last, RP!Runner!Last, Runner!Watched, RP!Runner!Watched, Runner!Swapped,
         RP!Runner!Swapped
<1>5. RP!Runner!ImportsAreAwaited => Runner!ImportsAreAwaited
  BY DEF Runner!ImportsAreAwaited, RP!Runner!ImportsAreAwaited, Runner!Ids,
         RP!Runner!Ids
<1> QED
  BY <1>1, <1>2, <1>3, <1>4, <1>5

LEMMA PageRunner == PageSpec => RP!Runner!Spec
<1>1. PageInit => RP!Runner!Init
  BY RunnerIs DEF PageInit
<1>2. [PageNext]_pageAll => [RP!Runner!Next]_(RP!Runner!vars)
  <2>1. PageNext => Runner!Next \/ UNCHANGED runnerVars
    BY DEF PageNext, Others
  <2>2. UNCHANGED pageAll => UNCHANGED runnerVars
    BY DEF pageAll
  <2> QED
    BY <2>1, <2>2, RunnerIs
<1> QED
  BY <1>1, <1>2, PTL DEF PageSpec, RP!Runner!Spec

-----------------------------------------------------------------------------
(* ScriptHost: what MCPage takes is what Runtime_proofs proves about.                   *)
LEMMA HostIs ==
  /\ Host!Init => RP!Host!Init
  /\ Host!Next => RP!Host!Next
  /\ UNCHANGED hostVars => UNCHANGED RP!Host!vars
  /\ RP!Host!RunsOnce => Host!RunsOnce
  /\ RP!Host!OutputIsWhole => Host!OutputIsWhole
<1>1. Host!Init => RP!Host!Init
  BY DEF Host!Init, RP!Host!Init, Host!NoStatus, RP!Host!NoStatus
<1>2. Host!Next => RP!Host!Next
  BY DEF Host!Next, RP!Host!Next, Host!ExecuteScript, RP!Host!ExecuteScript, Host!Flush,
         RP!Host!Flush, Host!Resume, RP!Host!Resume, Host!RunAborted,
         RP!Host!RunAborted, Host!RunInJavaScript, RP!Host!RunInJavaScript,
         Host!RunMicrotask, RP!Host!RunMicrotask, Host!RunNative, RP!Host!RunNative,
         Host!RunSuspended, RP!Host!RunSuspended, Host!Write, RP!Host!Write, Host!Fresh,
         RP!Host!Fresh, Host!output, RP!Host!output, Host!Bridged, RP!Host!Bridged,
         Host!Main, RP!Host!Main, Host!MainAnswers, RP!Host!MainAnswers, Host!NoStatus,
         RP!Host!NoStatus
<1>3. UNCHANGED hostVars => UNCHANGED RP!Host!vars
  BY DEF hostVars, RP!Host!vars
<1>4. RP!Host!RunsOnce => Host!RunsOnce
  BY DEF Host!RunsOnce, RP!Host!RunsOnce
<1>5. RP!Host!OutputIsWhole => Host!OutputIsWhole
  BY DEF Host!OutputIsWhole, RP!Host!OutputIsWhole
<1> QED
  BY <1>1, <1>2, <1>3, <1>4, <1>5

LEMMA PageHost == PageSpec => RP!Host!Spec
<1>1. PageInit => RP!Host!Init
  BY HostIs DEF PageInit
<1>2. [PageNext]_pageAll => [RP!Host!Next]_(RP!Host!vars)
  <2>1. PageNext => Host!Next \/ UNCHANGED hostVars
    BY DEF PageNext, Others
  <2>2. UNCHANGED pageAll => UNCHANGED hostVars
    BY DEF pageAll
  <2> QED
    BY <2>1, <2>2, HostIs
<1> QED
  BY <1>1, <1>2, PTL DEF PageSpec, RP!Host!Spec

-----------------------------------------------------------------------------
(* Terminal: what MCPage takes is what Runtime_proofs proves about.                     *)
LEMMA TermIs ==
  /\ Term!Init => RP!Term!Init
  /\ Term!Next => RP!Term!Next
  /\ UNCHANGED terminalVars => UNCHANGED RP!Term!vars
  /\ RP!Term!ShellHasKeys => Term!ShellHasKeys
  /\ RP!Term!ToldOfItsRun => Term!ToldOfItsRun
<1>1. Term!Init => RP!Term!Init
  BY DEF Term!Init, RP!Term!Init, Term!NoCode, RP!Term!NoCode, Term!Run, RP!Term!Run
<1>2. Term!Next => RP!Term!Next
  BY DEF Term!Next, RP!Term!Next, Term!BackToShell, RP!Term!BackToShell,
         Term!CallbackExits, RP!Term!CallbackExits, Term!Code, RP!Term!Code,
         Term!EmitExit, RP!Term!EmitExit, Term!ExitOrError, RP!Term!ExitOrError,
         Term!Import, RP!Term!Import, Term!ImportThrows, RP!Term!ImportThrows,
         Term!LoadShell, RP!Term!LoadShell, Term!MainRejects, RP!Term!MainRejects,
         Term!NoCode, RP!Term!NoCode, Term!OpenTty, RP!Term!OpenTty, Term!Poll,
         RP!Term!Poll, Term!Ready, RP!Term!Ready, Term!Require, RP!Term!Require,
         Term!RequireThrows, RP!Term!RequireThrows, Term!Run, RP!Term!Run, Term!Start,
         RP!Term!Start, Term!Timeout, RP!Term!Timeout, Term!Wait, RP!Term!Wait,
         Term!WasmFails, RP!Term!WasmFails, Term!exitVars, RP!Term!exitVars,
         Term!pageVars, RP!Term!pageVars, Term!runVars, RP!Term!runVars, Term!Exit,
         RP!Term!Exit, Term!Failure, RP!Term!Failure, Term!RecordExit,
         RP!Term!RecordExit, Term!BootWaits, RP!Term!BootWaits, Term!Throws,
         RP!Term!Throws, Term!FinishExit, RP!Term!FinishExit, Term!StartWith,
         RP!Term!StartWith
<1>3. UNCHANGED terminalVars => UNCHANGED RP!Term!vars
  BY DEF terminalVars, RP!Term!vars, RP!Term!exitVars, RP!Term!pageVars, RP!Term!runVars
<1>4. RP!Term!ShellHasKeys => Term!ShellHasKeys
  BY DEF Term!ShellHasKeys, RP!Term!ShellHasKeys
<1>5. RP!Term!ToldOfItsRun => Term!ToldOfItsRun
  BY DEF Term!ToldOfItsRun, RP!Term!ToldOfItsRun, Term!Code, RP!Term!Code, Term!Run,
         RP!Term!Run, Term!Failure, RP!Term!Failure
<1> QED
  BY <1>1, <1>2, <1>3, <1>4, <1>5

LEMMA PageTerm == PageSpec => RP!Term!Spec
<1>1. PageInit => RP!Term!Init
  BY TermIs DEF PageInit
<1>2. [PageNext]_pageAll => [RP!Term!Next]_(RP!Term!vars)
  <2>1. PageNext => Term!Next \/ UNCHANGED terminalVars
    BY DEF PageNext, Others
  <2>2. UNCHANGED pageAll => UNCHANGED terminalVars
    BY DEF pageAll
  <2> QED
    BY <2>1, <2>2, TermIs
<1> QED
  BY <1>1, <1>2, PTL DEF PageSpec, RP!Term!Spec

-----------------------------------------------------------------------------
(* Emitter: what MCPage takes is what Runtime_proofs proves about.                      *)
LEMMA EventsIs ==
  /\ Events!Init => RP!Events!Init
  /\ Events!Next => RP!Events!Next
  /\ UNCHANGED eventVars => UNCHANGED RP!Events!vars
  /\ RP!Events!ListenersAreKept => Events!ListenersAreKept
  /\ RP!Events!OnceRunsOnce => Events!OnceRunsOnce
<1>1. Events!Init => RP!Events!Init
  BY DEF Events!Init, RP!Events!Init
<1>2. Events!Next => RP!Events!Next
  BY DEF Events!Next, RP!Events!Next, Events!Add, RP!Events!Add, Events!Call,
         RP!Events!Call, Events!Emit, RP!Events!Emit, Events!EmitEnds,
         RP!Events!EmitEnds, Events!Off, RP!Events!Off, Events!OffAll, RP!Events!OffAll,
         Events!OffAllEnds, RP!Events!OffAllEnds, Events!OffNext, RP!Events!OffNext,
         Events!RemovalTold, RP!Events!RemovalTold, Events!Return, RP!Events!Return,
         Events!Throw, RP!Events!Throw, Events!Watch, RP!Events!Watch, Events!UserRuns,
         RP!Events!UserRuns, Events!Drop, RP!Events!Drop, Events!Top, RP!Events!Top,
         Events!WithTop, RP!Events!WithTop, Events!Listeners, RP!Events!Listeners,
         Events!Front, RP!Events!Front, Events!EntryOf, RP!Events!EntryOf,
         Events!TellsRemoval, RP!Events!TellsRemoval, Events!Without, RP!Events!Without,
         Events!RemoveAt, RP!Events!RemoveAt, Events!SelectLastInSeq,
         RP!Events!SelectLastInSeq, Events!Max, RP!Events!Max
<1>3. UNCHANGED eventVars => UNCHANGED RP!Events!vars
  BY DEF eventVars, RP!Events!vars
<1>4. RP!Events!ListenersAreKept => Events!ListenersAreKept
  BY DEF Events!ListenersAreKept, RP!Events!ListenersAreKept, Events!Listeners,
         RP!Events!Listeners
<1>5. RP!Events!OnceRunsOnce => Events!OnceRunsOnce
  BY DEF Events!OnceRunsOnce, RP!Events!OnceRunsOnce
<1> QED
  BY <1>1, <1>2, <1>3, <1>4, <1>5

LEMMA PageEvents == PageSpec => RP!Events!Spec
<1>1. PageInit => RP!Events!Init
  BY EventsIs DEF PageInit
<1>2. [PageNext]_pageAll => [RP!Events!Next]_(RP!Events!vars)
  <2>1. PageNext => Events!Next \/ UNCHANGED eventVars
    BY DEF PageNext, Others
  <2>2. UNCHANGED pageAll => UNCHANGED eventVars
    BY DEF pageAll
  <2> QED
    BY <2>1, <2>2, EventsIs
<1> QED
  BY <1>1, <1>2, PTL DEF PageSpec, RP!Events!Spec

-----------------------------------------------------------------------------
(* StreamChain: what MCPage takes is what Runtime_proofs proves about.                  *)
LEMMA ChainIs ==
  /\ Chain!Init => RP!Chain!Init
  /\ Chain!Next => RP!Chain!Next
  /\ UNCHANGED chainVars => UNCHANGED RP!Chain!vars
  /\ RP!Chain!PipelineIsTrue => Chain!PipelineIsTrue
  /\ RP!Chain!ChainInOrder => Chain!ChainInOrder
  /\ RP!Chain!FinishedIsTrue => Chain!FinishedIsTrue
<1>1. Chain!Init => RP!Chain!Init
  BY DEF Chain!Init, RP!Chain!Init, Chain!Written, RP!Chain!Written
<1>2. Chain!Next => RP!Chain!Next
  BY DEF Chain!Next, RP!Chain!Next, Chain!Close, RP!Chain!Close, Chain!Destroy,
         RP!Chain!Destroy, Chain!Fails, RP!Chain!Fails, Chain!Finish, RP!Chain!Finish,
         Chain!Flushed, RP!Chain!Flushed, Chain!SinkFinal, RP!Chain!SinkFinal,
         Chain!SinkWrote, RP!Chain!SinkWrote, Chain!SourceEnd, RP!Chain!SourceEnd,
         Chain!SourceError, RP!Chain!SourceError, Chain!SourcePush, RP!Chain!SourcePush,
         Chain!Stream, RP!Chain!Stream, Chain!Transformed, RP!Chain!Transformed,
         Chain!Written, RP!Chain!Written, Chain!Done, RP!Chain!Done, Chain!readVars,
         RP!Chain!readVars, Chain!sourceVars, RP!Chain!sourceVars, Chain!writeVars,
         RP!Chain!writeVars, Chain!OnError, RP!Chain!OnError, Chain!Becomes,
         RP!Chain!Becomes, Chain!EndOf, RP!Chain!EndOf, Chain!State, RP!Chain!State,
         Chain!chainVars, RP!Chain!chainVars, Chain!Answer, RP!Chain!Answer, Chain!Emit,
         RP!Chain!Emit, Chain!Received, RP!Chain!Received, Chain!End, RP!Chain!End,
         Chain!FinishMaybe, RP!Chain!FinishMaybe, Chain!Write, RP!Chain!Write
<1>3. UNCHANGED chainVars => UNCHANGED RP!Chain!vars
  BY DEF chainVars, RP!Chain!vars, RP!Chain!chainVars, RP!Chain!readVars, RP!Chain!sourceVars, RP!Chain!writeVars
<1>4. RP!Chain!PipelineIsTrue => Chain!PipelineIsTrue
  BY DEF Chain!PipelineIsTrue, RP!Chain!PipelineIsTrue
<1>5. RP!Chain!ChainInOrder => Chain!ChainInOrder
  BY DEF Chain!ChainInOrder, RP!Chain!ChainInOrder
<1>6. RP!Chain!FinishedIsTrue => Chain!FinishedIsTrue
  BY DEF Chain!FinishedIsTrue, RP!Chain!FinishedIsTrue
<1> QED
  BY <1>1, <1>2, <1>3, <1>4, <1>5, <1>6

LEMMA PageChain == PageSpec => RP!Chain!Spec
<1>1. PageInit => RP!Chain!Init
  BY ChainIs DEF PageInit
<1>2. [PageNext]_pageAll => [RP!Chain!Next]_(RP!Chain!vars)
  <2>1. PageNext => Chain!Next \/ UNCHANGED chainVars
    BY DEF PageNext, Others
  <2>2. UNCHANGED pageAll => UNCHANGED chainVars
    BY DEF pageAll
  <2> QED
    BY <2>1, <2>2, ChainIs
<1> QED
  BY <1>1, <1>2, PTL DEF PageSpec, RP!Chain!Spec

-----------------------------------------------------------------------------
(* EventIterator: what MCPage takes is what Runtime_proofs proves about.                *)
LEMMA IteratorIs ==
  /\ Iterator!Init => RP!Iterator!Init
  /\ Iterator!Next => RP!Iterator!Next
  /\ UNCHANGED iteratorVars => UNCHANGED RP!Iterator!vars
  /\ RP!Iterator!OnceIsTheFirst => Iterator!OnceIsTheFirst
  /\ RP!Iterator!EventsInOrder => Iterator!EventsInOrder
  /\ RP!Iterator!NoneWaitsInVain => Iterator!NoneWaitsInVain
<1>1. Iterator!Init => RP!Iterator!Init
  BY DEF Iterator!Init, RP!Iterator!Init, Iterator!Is, RP!Iterator!Is
<1>2. Iterator!Next => RP!Iterator!Next
  BY DEF Iterator!Next, RP!Iterator!Next, Iterator!Abort, RP!Iterator!Abort,
         Iterator!Emit, RP!Iterator!Emit, Iterator!EmitAfterReturn,
         RP!Iterator!EmitAfterReturn, Iterator!Fail, RP!Iterator!Fail,
         Iterator!NextCall, RP!Iterator!NextCall, Iterator!On, RP!Iterator!On,
         Iterator!Once, RP!Iterator!Once, Iterator!ReturnCall, RP!Iterator!ReturnCall,
         Iterator!ThrowCall, RP!Iterator!ThrowCall, Iterator!ErrorHandler,
         RP!Iterator!ErrorHandler, Iterator!Is, RP!Iterator!Is, Iterator!OnceMeets,
         RP!Iterator!OnceMeets, Iterator!EventHandler, RP!Iterator!EventHandler,
         Iterator!ValueOf, RP!Iterator!ValueOf, Iterator!Cleanup, RP!Iterator!Cleanup,
         Iterator!onceVars, RP!Iterator!onceVars, Iterator!Added, RP!Iterator!Added,
         Iterator!iteratorVars, RP!Iterator!iteratorVars, Iterator!ToSet,
         RP!Iterator!ToSet
<1>3. UNCHANGED iteratorVars => UNCHANGED RP!Iterator!vars
  BY DEF iteratorVars, RP!Iterator!vars
<1>4. RP!Iterator!OnceIsTheFirst => Iterator!OnceIsTheFirst
  BY DEF Iterator!OnceIsTheFirst, RP!Iterator!OnceIsTheFirst
<1>5. RP!Iterator!EventsInOrder => Iterator!EventsInOrder
  BY DEF Iterator!EventsInOrder, RP!Iterator!EventsInOrder
<1>6. RP!Iterator!NoneWaitsInVain => Iterator!NoneWaitsInVain
  BY DEF Iterator!NoneWaitsInVain, RP!Iterator!NoneWaitsInVain, Iterator!ToSet,
         RP!Iterator!ToSet
<1> QED
  BY <1>1, <1>2, <1>3, <1>4, <1>5, <1>6

LEMMA PageIterator == PageSpec => RP!Iterator!Spec
<1>1. PageInit => RP!Iterator!Init
  BY IteratorIs DEF PageInit
<1>2. [PageNext]_pageAll => [RP!Iterator!Next]_(RP!Iterator!vars)
  <2>1. PageNext => Iterator!Next \/ UNCHANGED iteratorVars
    BY DEF PageNext, Others
  <2>2. UNCHANGED pageAll => UNCHANGED iteratorVars
    BY DEF pageAll
  <2> QED
    BY <2>1, <2>2, IteratorIs
<1> QED
  BY <1>1, <1>2, PTL DEF PageSpec, RP!Iterator!Spec

-----------------------------------------------------------------------------
(* ModuleLoader: what MCPage takes is what Runtime_proofs proves about.                 *)
LEMMA LoaderIs ==
  /\ Loader!Init => RP!Loader!Init
  /\ Loader!Next => RP!Loader!Next
  /\ UNCHANGED loaderVars => UNCHANGED RP!Loader!vars
  /\ RP!Loader!CacheIsTrue => Loader!CacheIsTrue
  /\ RP!Loader!ImportedOnce => Loader!ImportedOnce
<1>1. Loader!Init => RP!Loader!Init
  BY DEF Loader!Init, RP!Loader!Init, Loader!Ids, RP!Loader!Ids, Loader!NoLoad,
         RP!Loader!NoLoad
<1>2. Loader!Next => RP!Loader!Next
  BY DEF Loader!Next, RP!Loader!Next, Loader!Finish, RP!Loader!Finish, Loader!Forget,
         RP!Loader!Forget, Loader!Ids, RP!Loader!Ids, Loader!Import, RP!Loader!Import,
         Loader!Rename, RP!Loader!Rename, Loader!Require, RP!Loader!Require,
         Loader!Throw, RP!Loader!Throw, Loader!Transpiled, RP!Loader!Transpiled,
         Loader!Unlink, RP!Loader!Unlink, Loader!WriteFd, RP!Loader!WriteFd,
         Loader!WriteFile, RP!Loader!WriteFile, Loader!Front, RP!Loader!Front,
         Loader!Ran, RP!Loader!Ran, Loader!Top, RP!Loader!Top, Loader!Forgotten,
         RP!Loader!Forgotten, Loader!NoLoad, RP!Loader!NoLoad, Loader!Load,
         RP!Loader!Load, Loader!MayImport, RP!Loader!MayImport, Loader!MayLoad,
         RP!Loader!MayLoad, Loader!Next1, RP!Loader!Next1, Loader!ToSet,
         RP!Loader!ToSet, Loader!Renamed, RP!Loader!Renamed, Loader!Versioned,
         RP!Loader!Versioned, Loader!Cached, RP!Loader!Cached, Loader!Evicted,
         RP!Loader!Evicted, Loader!Last, RP!Loader!Last
<1>3. UNCHANGED loaderVars => UNCHANGED RP!Loader!vars
  BY DEF loaderVars, RP!Loader!vars
<1>4. RP!Loader!CacheIsTrue => Loader!CacheIsTrue
  BY DEF Loader!CacheIsTrue, RP!Loader!CacheIsTrue, Loader!NoLoad, RP!Loader!NoLoad,
         Loader!ToSet, RP!Loader!ToSet
<1>5. RP!Loader!ImportedOnce => Loader!ImportedOnce
  BY DEF Loader!ImportedOnce, RP!Loader!ImportedOnce, Loader!Ids, RP!Loader!Ids
<1> QED
  BY <1>1, <1>2, <1>3, <1>4, <1>5

LEMMA PageLoader == PageSpec => RP!Loader!Spec
<1>1. PageInit => RP!Loader!Init
  BY LoaderIs DEF PageInit
<1>2. [PageNext]_pageAll => [RP!Loader!Next]_(RP!Loader!vars)
  <2>1. PageNext => Loader!Next \/ UNCHANGED loaderVars
    BY DEF PageNext, Others
  <2>2. UNCHANGED pageAll => UNCHANGED loaderVars
    BY DEF pageAll
  <2> QED
    BY <2>1, <2>2, LoaderIs
<1> QED
  BY <1>1, <1>2, PTL DEF PageSpec, RP!Loader!Spec

-----------------------------------------------------------------------------
(* Resolution: what MCPage takes is what Runtime_proofs proves about.                   *)
LEMMA ResolverIs ==
  /\ Resolver!Init => RP!Resolver!Init
  /\ Resolver!Next => RP!Resolver!Next
  /\ UNCHANGED resolverVars => UNCHANGED RP!Resolver!vars
  /\ RP!Resolver!DirsComeBack => Resolver!DirsComeBack
  /\ RP!Resolver!ResolvedFromHome => Resolver!ResolvedFromHome
  /\ RP!Resolver!ResolvedAsAsked => Resolver!ResolvedAsAsked
  /\ RP!Resolver!NearestIsFound => Resolver!NearestIsFound
<1>1. Resolver!Init => RP!Resolver!Init
  BY DEF Resolver!Init, RP!Resolver!Init, Resolver!Load, RP!Resolver!Load,
         Resolver!NoScript, RP!Resolver!NoScript, Resolver!Nothing, RP!Resolver!Nothing,
         Resolver!NoFile, RP!Resolver!NoFile
<1>2. Resolver!Next => RP!Resolver!Next
  <2>1. \A p, s, m : Resolver!InPackage(p, s, m) = RP!Resolver!InPackage(p, s, m)
    <3>1. \A p, n, o : Resolver!FirstOf(p, n, o) = RP!Resolver!FirstOf(p, n, o)
      BY DEF Resolver!FirstOf, RP!Resolver!FirstOf
    <3>2. \A p, s, m : Resolver!Target(p, s, m) = RP!Resolver!Target(p, s, m)
      BY DEF Resolver!Target, RP!Resolver!Target
    <3>3. \A p : /\ Resolver!Direct(p) = RP!Resolver!Direct(p)
                  /\ Resolver!Entry(p) = RP!Resolver!Entry(p)
      BY DEF Resolver!Direct, RP!Resolver!Direct, Resolver!Entry,
           RP!Resolver!Entry
    <3>4. QED
      BY <3>1, <3>2, <3>3 DEF Resolver!InPackage, RP!Resolver!InPackage
  <2>2. \A d, s, m : Resolver!Resolve(d, s, m) = RP!Resolver!Resolve(d, s, m)
    BY <2>1 DEF Resolver!Resolve, RP!Resolver!Resolve, Resolver!Searched,
           RP!Resolver!Searched, Resolver!NoFile, RP!Resolver!NoFile
  <2>4. /\ Resolver!Home = RP!Resolver!Home /\ Resolver!Base = RP!Resolver!Base
        /\ Resolver!Body = RP!Resolver!Body
        /\ \A m : Resolver!HomeOf(m) = RP!Resolver!HomeOf(m)
        /\ Resolver!Nothing = RP!Resolver!Nothing
    BY DEF Resolver!Home, RP!Resolver!Home, Resolver!HomeOf,
           RP!Resolver!HomeOf, Resolver!Body, RP!Resolver!Body,
           Resolver!Script, RP!Resolver!Script, Resolver!Base,
           RP!Resolver!Base, Resolver!Last, RP!Resolver!Last,
           Resolver!Nothing, RP!Resolver!Nothing, Resolver!NoFile,
           RP!Resolver!NoFile
  <2>3. \A by, h, o, d, m, s :
          Resolver!Resolved(by, h, o, d, m, s) = RP!Resolver!Resolved(by, h, o, d, m, s)
    BY <2>2, <2>4 DEF Resolver!Resolved, RP!Resolver!Resolved
  <2>5. ASSUME NEW h \in Resolver!Dir, Resolver!RunScript(h)
        PROVE  RP!Resolver!RunScript(h)
    BY <2>5, <2>4 DEF Resolver!RunScript, RP!Resolver!RunScript,
           Resolver!InProgress, RP!Resolver!InProgress, Resolver!Load,
           RP!Resolver!Load, Resolver!Dir, RP!Resolver!Dir
  <2>6. ASSUME NEW l \in Resolver!Load, NEW code \in {"plain", "esm", "tla"},
               NEW s \in Resolver!Subpath, NEW h \in Resolver!Dir,
               NEW of \in Resolver!Load \cup {Resolver!Script}, Resolver!Import(l, code, s, h, of)
        PROVE  RP!Resolver!Import(l, code, s, h, of)
    BY <2>6, <2>3, <2>4 DEF Resolver!Import, RP!Resolver!Import,
           Resolver!InProgress, RP!Resolver!InProgress, Resolver!Load,
           RP!Resolver!Load, Resolver!NoScript, RP!Resolver!NoScript,
           Resolver!Script, RP!Resolver!Script
  <2>7. ASSUME NEW l \in Resolver!Load, Resolver!Transpiled(l)
        PROVE  RP!Resolver!Transpiled(l)
    BY <2>7, <2>4 DEF Resolver!Transpiled, RP!Resolver!Transpiled,
           Resolver!At, RP!Resolver!At, Resolver!running,
           RP!Resolver!running
  <2>8. ASSUME NEW l \in Resolver!Load, Resolver!BundleBegins(l)
        PROVE  RP!Resolver!BundleBegins(l)
    BY <2>8, <2>4 DEF Resolver!BundleBegins, RP!Resolver!BundleBegins,
           Resolver!At, RP!Resolver!At, Resolver!running,
           RP!Resolver!running, Resolver!Load, RP!Resolver!Load
  <2>9. ASSUME NEW l \in Resolver!Load, Resolver!NotTranspiled(l)
        PROVE  RP!Resolver!NotTranspiled(l)
    BY <2>9, <2>4 DEF Resolver!NotTranspiled, RP!Resolver!NotTranspiled,
           Resolver!At, RP!Resolver!At, Resolver!Pop, RP!Resolver!Pop,
           Resolver!Front, RP!Resolver!Front
  <2>10. ASSUME NEW l \in Resolver!Load, NEW s \in Resolver!Subpath, Resolver!BundleResolves(l, s)
        PROVE  RP!Resolver!BundleResolves(l, s)
    BY <2>10, <2>3 DEF Resolver!BundleResolves, RP!Resolver!BundleResolves,
           Resolver!running, RP!Resolver!running
  <2>11. ASSUME NEW l \in Resolver!Load, NEW failing \in BOOLEAN, Resolver!BundleEnds(l, failing)
        PROVE  RP!Resolver!BundleEnds(l, failing)
    BY <2>11, <2>4 DEF Resolver!BundleEnds, RP!Resolver!BundleEnds,
           Resolver!At, RP!Resolver!At, Resolver!Pop, RP!Resolver!Pop,
           Resolver!Front, RP!Resolver!Front, Resolver!ModeBack,
           RP!Resolver!ModeBack
  <2>12. ASSUME NEW failing \in BOOLEAN, Resolver!BodyEnds(failing)
        PROVE  RP!Resolver!BodyEnds(failing)
    BY <2>12, <2>4 DEF Resolver!BodyEnds, RP!Resolver!BodyEnds, Resolver!At,
           RP!Resolver!At, Resolver!Pop, RP!Resolver!Pop, Resolver!Front,
           RP!Resolver!Front, Resolver!Last, RP!Resolver!Last
  <2>13. ASSUME NEW s \in Resolver!Subpath, Resolver!Require(s)
        PROVE  RP!Resolver!Require(s)
    BY <2>13, <2>3, <2>4 DEF Resolver!Require, RP!Resolver!Require,
           Resolver!running, RP!Resolver!running
  <2>14. ASSUME NEW s \in Resolver!Subpath, Resolver!RequireResolve(s)
        PROVE  RP!Resolver!RequireResolve(s)
    BY <2>14, <2>3 DEF Resolver!RequireResolve, RP!Resolver!RequireResolve,
           Resolver!running, RP!Resolver!running
  <2>15. QED
    BY <2>5, <2>6, <2>7, <2>8, <2>9, <2>10, <2>11, <2>12, <2>13, <2>14 DEF
           Resolver!Next, RP!Resolver!Next, Resolver!Dir, RP!Resolver!Dir,
           Resolver!Load, RP!Resolver!Load, Resolver!Subpath,
           RP!Resolver!Subpath, Resolver!Script, RP!Resolver!Script
<1>3. UNCHANGED resolverVars => UNCHANGED RP!Resolver!vars
  BY DEF resolverVars, RP!Resolver!vars, RP!Resolver!running
<1>4. RP!Resolver!DirsComeBack => Resolver!DirsComeBack
  <2>1. \A S : Resolver!Cardinality(S) = RP!Resolver!Cardinality(S)
    BY DEF Resolver!Cardinality, RP!Resolver!Cardinality
  <2>2. QED
    BY <2>1 DEF Resolver!DirsComeBack, RP!Resolver!DirsComeBack, Resolver!InProgress,
           RP!Resolver!InProgress, Resolver!NoScript, RP!Resolver!NoScript, Resolver!Load,
           RP!Resolver!Load, Resolver!running, RP!Resolver!running
<1>5. RP!Resolver!ResolvedFromHome => Resolver!ResolvedFromHome
  BY DEF Resolver!ResolvedFromHome, RP!Resolver!ResolvedFromHome
<1>6. RP!Resolver!ResolvedAsAsked => Resolver!ResolvedAsAsked
  BY DEF Resolver!ResolvedAsAsked, RP!Resolver!ResolvedAsAsked, Resolver!Load,
         RP!Resolver!Load
<1>7. RP!Resolver!NearestIsFound => Resolver!NearestIsFound
  BY DEF Resolver!NearestIsFound, RP!Resolver!NearestIsFound, Resolver!Has,
         RP!Resolver!Has, Resolver!NoFile, RP!Resolver!NoFile, Resolver!Target,
         RP!Resolver!Target
<1> QED
  BY <1>1, <1>2, <1>3, <1>4, <1>5, <1>6, <1>7

LEMMA PageResolver == PageSpec => RP!Resolver!Spec
<1>1. PageInit => RP!Resolver!Init
  BY ResolverIs DEF PageInit
<1>2. [PageNext]_pageAll => [RP!Resolver!Next]_(RP!Resolver!vars)
  <2>1. PageNext => Resolver!Next \/ UNCHANGED resolverVars
    BY DEF PageNext, Others
  <2>2. UNCHANGED pageAll => UNCHANGED resolverVars
    BY DEF pageAll
  <2> QED
    BY <2>1, <2>2, ResolverIs
<1> QED
  BY <1>1, <1>2, PTL DEF PageSpec, RP!Resolver!Spec

-----------------------------------------------------------------------------
(* NpmInstall: what MCPage takes is what Runtime_proofs proves about.                   *)
LEMMA NpmIs ==
  /\ Npm!Init => RP!Npm!Init
  /\ Npm!Next => RP!Npm!Next
  /\ UNCHANGED npmVars => UNCHANGED RP!Npm!vars
  /\ RP!Npm!TreeIsComplete => Npm!TreeIsComplete
  /\ RP!Npm!CacheKeepsItsCap => Npm!CacheKeepsItsCap
<1>1. Npm!Init => RP!Npm!Init
  BY DEF Npm!Init, RP!Npm!Init
<1>2. Npm!Next => RP!Npm!Next
  BY DEF Npm!Next, RP!Npm!Next, Npm!ClosePage, RP!Npm!ClosePage, Npm!Command,
         RP!Npm!Command, Npm!Corrupt, RP!Npm!Corrupt, Npm!Descend, RP!Npm!Descend,
         Npm!Evict, RP!Npm!Evict, Npm!Extract, RP!Npm!Extract, Npm!ExtractCorrupt,
         RP!Npm!ExtractCorrupt, Npm!Fetch, RP!Npm!Fetch, Npm!Lookup, RP!Npm!Lookup,
         Npm!Metadata, RP!Npm!Metadata, Npm!NextSpec, RP!Npm!NextSpec, Npm!Put,
         RP!Npm!Put, Npm!Return, RP!Npm!Return, Npm!Throws, RP!Npm!Throws,
         Npm!Uninstall, RP!Npm!Uninstall, Npm!ToSet, RP!Npm!ToSet, Npm!Called,
         RP!Npm!Called, Npm!Top, RP!Npm!Top, Npm!Evicted, RP!Npm!Evicted, Npm!Pending,
         RP!Npm!Pending, Npm!Dependencies, RP!Npm!Dependencies, Npm!Depth, RP!Npm!Depth,
         Npm!Goes, RP!Npm!Goes, Npm!Without, RP!Npm!Without, Npm!PutStarts,
         RP!Npm!PutStarts, Npm!Returned, RP!Npm!Returned, Npm!Call, RP!Npm!Call,
         Npm!Min, RP!Npm!Min, Npm!Room, RP!Npm!Room, Npm!RemoveFirst,
         RP!Npm!RemoveFirst, Npm!RemoveAt, RP!Npm!RemoveAt, Npm!SelectInSeq,
         RP!Npm!SelectInSeq
<1>3. UNCHANGED npmVars => UNCHANGED RP!Npm!vars
  BY DEF npmVars, RP!Npm!vars
<1>4. RP!Npm!TreeIsComplete => Npm!TreeIsComplete
  BY DEF Npm!TreeIsComplete, RP!Npm!TreeIsComplete
<1>5. RP!Npm!CacheKeepsItsCap => Npm!CacheKeepsItsCap
  BY DEF Npm!CacheKeepsItsCap, RP!Npm!CacheKeepsItsCap, Npm!ToSet, RP!Npm!ToSet
<1> QED
  BY <1>1, <1>2, <1>3, <1>4, <1>5

LEMMA PageNpm == PageSpec => RP!Npm!Spec
<1>1. PageInit => RP!Npm!Init
  BY NpmIs DEF PageInit
<1>2. [PageNext]_pageAll => [RP!Npm!Next]_(RP!Npm!vars)
  <2>1. PageNext => Npm!Next \/ UNCHANGED npmVars
    BY DEF PageNext, Others
  <2>2. UNCHANGED pageAll => UNCHANGED npmVars
    BY DEF pageAll
  <2> QED
    BY <2>1, <2>2, NpmIs
<1> QED
  BY <1>1, <1>2, PTL DEF PageSpec, RP!Npm!Spec

-----------------------------------------------------------------------------
(* The values that MCPage gives are as Runtime_proofs assumes: two modules; *)
(* packages whose package.json says what they export; and graphs of three   *)
(* packages.                                                                *)
LEMMA PageLoads == RP!LoaderAssumed
  BY DEF RP!LoaderAssumed

LEMMA PageTrees == RP!ResolverAssumed
<1> DEFINE D == RP!Resolver!Dir
           P == RP!Resolver!PackageType
<1>1. D = {0, 1, 2}
  BY DEF RP!Resolver!Dir
<1>2. /\ Dual \in P /\ Legacy \in P /\ Bare \in P /\ Closed \in P /\ None \in P
  BY DEF RP!Resolver!PackageType, RP!Resolver!Subpath, Dual, Legacy, Bare, Closed, None
<1>3. \A p \in {Dual, Legacy, Bare, Closed, None} :
        ~p.json => p.exports = {} /\ p.fields = {}
  BY DEF Dual, Legacy, Bare, Closed, None
<1>4. /\ DOMAIN Nested = {0, 1, 2} /\ Nested[0] = Legacy /\ Nested[1] = Dual
      /\ Nested[2] = Closed /\ Nested = [d \in {0, 1, 2} |-> Nested[d]]
  BY DEF Nested, Depths
<1>5. /\ DOMAIN Sparse = {0, 1, 2} /\ Sparse[0] = None /\ Sparse[1] = Bare
      /\ Sparse[2] = Legacy /\ Sparse = [d \in {0, 1, 2} |-> Sparse[d]]
  BY DEF Sparse, Depths
<1> HIDE DEF D, P
<1>6. Nested \in [D -> P] /\ Sparse \in [D -> P]
  BY <1>1, <1>2, <1>4, <1>5
<1>7. \A t \in {Nested, Sparse} : \A d \in D :
        ~t[d].json => t[d].exports = {} /\ t[d].fields = {}
  BY <1>1, <1>3, <1>4, <1>5
<1>8. 1 \in D
  BY <1>1
<1> QED
  BY <1>6, <1>7, <1>8 DEF RP!ResolverAssumed, D, P

LEMMA PageGraphs == RP!NpmConstants
<1> DEFINE Q == {"a", "b", "c"}
<1>1. Cycle \in [Q -> SUBSET Q] /\ Diamond \in [Q -> SUBSET Q]
  BY DEF Cycle, Diamond
<1> QED
  BY <1>1 DEF RP!NpmConstants

-----------------------------------------------------------------------------
(* A run takes what it changed back, runs once, and is told of its end: the *)
(* three components of script runs in MCPage (ScriptRunner, ScriptHost and  *)
(* Terminal).                                                               *)
THEOREM RunsStayClean == PageSpec => []RunsAreClean
<1>1. RP!Runner!Spec => []RP!Runner!GlobalsComeBack
  BY RP!GlobalsComeBackAlways DEF RP!Assumed, RP!Runner!None
<1>2. RP!Runner!Spec => []RP!Runner!ImportsAreAwaited
  BY RP!ImportsAreAwaitedAlways DEF RP!Assumed, RP!Runner!None
<1>3. RP!Host!Spec => []RP!Host!RunsOnce
  BY RP!ScriptsRunOnce
<1>4. RP!Host!Spec => []RP!Host!OutputIsWhole
  BY RP!OutputStaysWhole
<1>5. RP!Term!Spec => []RP!Term!ShellHasKeys
  BY RP!ShellHasKeysAlways
<1>6. RP!Term!Spec => []RP!Term!ToldOfItsRun
  BY RP!ToldOfItsRunAlways
<1>7. RP!Runner!GlobalsComeBack /\ RP!Runner!ImportsAreAwaited /\
        RP!Host!RunsOnce /\ RP!Host!OutputIsWhole /\ RP!Term!ShellHasKeys /\
        RP!Term!ToldOfItsRun
        => RunsAreClean
  BY RunnerIs, HostIs, TermIs DEF RunsAreClean
<1> QED
  BY <1>1, <1>2, <1>3, <1>4, <1>5, <1>6, <1>7, PageRunner, PageHost, PageTerm, PTL

(* Listeners, pipelines and iterators of events keep what they promise: the *)
(* three components in MCPage (Emitter, StreamChain and EventIterator).     *)
THEOREM EventsStayTrue == PageSpec => []EventsAreTrue
<1>1. RP!Events!Spec => []RP!Events!ListenersAreKept
  BY RP!ListenersAreKeptAlways
<1>2. RP!Events!Spec => []RP!Events!OnceRunsOnce
  BY RP!OnceRunsOnceAlways
<1>3. RP!Chain!Spec => []RP!Chain!PipelineIsTrue
  BY RP!PipelineIsTrueAlways
<1>4. RP!Chain!Spec => []RP!Chain!ChainInOrder
  BY RP!ChainInOrderAlways
<1>5. RP!Chain!Spec => []RP!Chain!FinishedIsTrue
  BY RP!FinishedIsTrueAlways
<1>6. RP!Iterator!Spec => []RP!Iterator!OnceIsTheFirst
  BY RP!OnceIsTheFirstAlways
<1>7. RP!Iterator!Spec => []RP!Iterator!EventsInOrder
  BY RP!EventsInOrderAlways
<1>8. RP!Iterator!Spec => []RP!Iterator!NoneWaitsInVain
  BY RP!NoneWaitsInVainAlways
<1>9. RP!Events!ListenersAreKept /\ RP!Events!OnceRunsOnce /\
        RP!Chain!PipelineIsTrue /\ RP!Chain!ChainInOrder /\
        RP!Chain!FinishedIsTrue /\ RP!Iterator!OnceIsTheFirst /\
        RP!Iterator!EventsInOrder /\ RP!Iterator!NoneWaitsInVain
        => EventsAreTrue
  BY EventsIs, ChainIs, IteratorIs DEF EventsAreTrue
<1> QED
  BY <1>1, <1>2, <1>3, <1>4, <1>5, <1>6, <1>7, <1>8, <1>9, PageEvents, PageChain, PageIterator, PTL

(* A module is run as its file is and is found where Node finds it: the two *)
(* components in MCPage (ModuleLoader and Resolution).                      *)
THEOREM ModulesStayTrue == PageSpec => []ModulesAreTrue
<1>1. RP!Loader!Spec => []RP!Loader!CacheIsTrue
  BY RP!CacheIsTrueAlways, PageLoads
<1>2. RP!Loader!Spec => []RP!Loader!ImportedOnce
  BY RP!ImportedOnceAlways, PageLoads
<1>3. RP!Resolver!Spec => []RP!Resolver!DirsComeBack
  BY RP!DirsComeBackAlways, PageTrees
<1>4. RP!Resolver!Spec => []RP!Resolver!ResolvedFromHome
  BY RP!ResolvedFromHomeAlways, PageTrees
<1>5. RP!Resolver!Spec => []RP!Resolver!ResolvedAsAsked
  BY RP!ResolvedAsAskedAlways, PageTrees
<1>6. RP!Resolver!Spec => []RP!Resolver!NearestIsFound
  BY RP!NearestIsFoundAlways, PageTrees
<1>7. RP!Loader!CacheIsTrue /\ RP!Loader!ImportedOnce /\
        RP!Resolver!DirsComeBack /\ RP!Resolver!ResolvedFromHome /\
        RP!Resolver!ResolvedAsAsked /\ RP!Resolver!NearestIsFound
        => ModulesAreTrue
  BY LoaderIs, ResolverIs DEF ModulesAreTrue
<1> QED
  BY <1>1, <1>2, <1>3, <1>4, <1>5, <1>6, <1>7, PageLoader, PageResolver, PTL

(* An install that succeeds has all packages, and the cache its cap, in     *)
(* MCPage (NpmInstall).                                                     *)
THEOREM NpmStaysTrue == PageSpec => []NpmIsTrue
<1>1. RP!Npm!Spec => []RP!Npm!TreeIsComplete
  BY RP!TreeIsCompleteAlways, PageGraphs
<1>2. RP!Npm!Spec => []RP!Npm!CacheKeepsItsCap
  BY RP!CacheKeepsItsCapAlways, PageGraphs
<1>3. RP!Npm!TreeIsComplete /\ RP!Npm!CacheKeepsItsCap
        => NpmIsTrue
  BY NpmIs DEF NpmIsTrue
<1> QED
  BY <1>1, <1>2, <1>3, PageNpm, PTL


-----------------------------------------------------------------------------
(* The parts of the N-API bridge that MCPage composes, as above.            *)
NP == INSTANCE Napi_proofs WITH
  MaxHandle <- 2, MaxBuffer <- 2, MaxPtr <- 2, Value <- {"p", "q"}, MaxAnswer <- 3,
  MaxFrame <- 2, MaxCall <- 3, MaxArgs <- 1, MaxEnv <- 1, MaxDeferred <- 1,
  MaxToken <- 8, MaxDepth <- 4, MaxImport <- 2, MaxLength <- 3, MaxSize <- 5

-----------------------------------------------------------------------------
(* NapiBuffers: what MCPage takes is what Napi_proofs proves about.                     *)
LEMMA BuffersIs ==
  /\ Buffers!Init => NP!Buffers!Init
  /\ Buffers!Next => NP!Buffers!Next
  /\ UNCHANGED bufferVars => UNCHANGED NP!Buffers!vars
  /\ NP!Buffers!BytesStayApart => Buffers!BytesStayApart
<1>1. Buffers!Init => NP!Buffers!Init
  BY DEF Buffers!Init, NP!Buffers!Init, Buffers!Buffer, NP!Buffers!Buffer,
         Buffers!Handle, NP!Buffers!Handle, Buffers!NoAnswer, NP!Buffers!NoAnswer,
         Buffers!NoBuffer, NP!Buffers!NoBuffer, Buffers!NoMeta, NP!Buffers!NoMeta,
         Buffers!Nothing, NP!Buffers!Nothing
<1>2. Buffers!Next => NP!Buffers!Next
  BY DEF Buffers!Next, NP!Buffers!Next, Buffers!Buffer, NP!Buffers!Buffer,
         Buffers!CreateArrayBuffer, NP!Buffers!CreateArrayBuffer, Buffers!CreateBuffer,
         NP!Buffers!CreateBuffer, Buffers!CreateBufferCopy, NP!Buffers!CreateBufferCopy,
         Buffers!CreateExternalArrayBuffer, NP!Buffers!CreateExternalArrayBuffer,
         Buffers!CreateExternalBuffer, NP!Buffers!CreateExternalBuffer,
         Buffers!CreateTypedArray, NP!Buffers!CreateTypedArray, Buffers!FreeHandle,
         NP!Buffers!FreeHandle, Buffers!FromJavaScript, NP!Buffers!FromJavaScript,
         Buffers!GetArrayBufferInfo, NP!Buffers!GetArrayBufferInfo,
         Buffers!GetBufferInfo, NP!Buffers!GetBufferInfo, Buffers!Handle,
         NP!Buffers!Handle, Buffers!JavaScriptWrites, NP!Buffers!JavaScriptWrites,
         Buffers!NativeWrites, NP!Buffers!NativeWrites, Buffers!ViewInfo,
         NP!Buffers!ViewInfo, Buffers!Create, NP!Buffers!Create, Buffers!Free,
         NP!Buffers!Free, Buffers!NoAnswer, NP!Buffers!NoAnswer, Buffers!NoMeta,
         NP!Buffers!NoMeta, Buffers!Taint, NP!Buffers!Taint, Buffers!Nothing,
         NP!Buffers!Nothing, Buffers!Fresh, NP!Buffers!Fresh, Buffers!NoBuffer,
         NP!Buffers!NoBuffer, Buffers!MetaSet, NP!Buffers!MetaSet, Buffers!Unused,
         NP!Buffers!Unused
<1>3. UNCHANGED bufferVars => UNCHANGED NP!Buffers!vars
  BY DEF bufferVars, NP!Buffers!vars
<1>4. NP!Buffers!BytesStayApart => Buffers!BytesStayApart
  BY DEF Buffers!BytesStayApart, NP!Buffers!BytesStayApart, Buffers!Buffer,
         NP!Buffers!Buffer, Buffers!NoBuffer, NP!Buffers!NoBuffer
<1> QED
  BY <1>1, <1>2, <1>3, <1>4

LEMMA PageBuffers == PageSpec => NP!Buffers!Spec
<1>1. PageInit => NP!Buffers!Init
  BY BuffersIs DEF PageInit
<1>2. [PageNext]_pageAll => [NP!Buffers!Next]_(NP!Buffers!vars)
  <2>1. PageNext => Buffers!Next \/ UNCHANGED bufferVars
    BY DEF PageNext, Others
  <2>2. UNCHANGED pageAll => UNCHANGED bufferVars
    BY DEF pageAll
  <2> QED
    BY <2>1, <2>2, BuffersIs
<1> QED
  BY <1>1, <1>2, PTL DEF PageSpec, NP!Buffers!Spec

-----------------------------------------------------------------------------
(* NapiObjects: what MCPage takes is what Napi_proofs proves about.                     *)
LEMMA ObjectsIs ==
  /\ Objects!Init => NP!Objects!Init
  /\ Objects!Next => NP!Objects!Next
  /\ UNCHANGED objectVars => UNCHANGED NP!Objects!vars
  /\ NP!Objects!AnswersAreTrue => Objects!AnswersAreTrue
<1>1. Objects!Init => NP!Objects!Init
  BY DEF Objects!Init, NP!Objects!Init
<1>2. Objects!Next => NP!Objects!Next
  BY DEF Objects!Next, NP!Objects!Next, Objects!CallFunction, NP!Objects!CallFunction,
         Objects!CallNative, NP!Objects!CallNative, Objects!CallNothing,
         NP!Objects!CallNothing, Objects!Define, NP!Objects!Define, Objects!Delete,
         NP!Objects!Delete, Objects!Freeze, NP!Objects!Freeze, Objects!Get,
         NP!Objects!Get, Objects!GetAndClear, NP!Objects!GetAndClear, Objects!Has,
         NP!Objects!Has, Objects!JsReturns, NP!Objects!JsReturns, Objects!JsThrows,
         NP!Objects!JsThrows, Objects!NativeReturns, NP!Objects!NativeReturns,
         Objects!NotAnObject, NP!Objects!NotAnObject, Objects!Property,
         NP!Objects!Property, Objects!Set, NP!Objects!Set, Objects!Throw,
         NP!Objects!Throw, Objects!Native, NP!Objects!Native, Objects!Wait,
         NP!Objects!Wait, Objects!Answer, NP!Objects!Answer, Objects!Unwind,
         NP!Objects!Unwind, Objects!Accessors, NP!Objects!Accessors, Objects!Answered,
         NP!Objects!Answered, Objects!Waiting, NP!Objects!Waiting, Objects!LookupError,
         NP!Objects!LookupError, Objects!AnswerWrite, NP!Objects!AnswerWrite,
         Objects!Writable, NP!Objects!Writable
<1>3. UNCHANGED objectVars => UNCHANGED NP!Objects!vars
  BY DEF objectVars, NP!Objects!vars
<1>4. NP!Objects!AnswersAreTrue => Objects!AnswersAreTrue
  BY DEF Objects!AnswersAreTrue, NP!Objects!AnswersAreTrue
<1> QED
  BY <1>1, <1>2, <1>3, <1>4

LEMMA PageObjects == PageSpec => NP!Objects!Spec
<1>1. PageInit => NP!Objects!Init
  BY ObjectsIs DEF PageInit
<1>2. [PageNext]_pageAll => [NP!Objects!Next]_(NP!Objects!vars)
  <2>1. PageNext => Objects!Next \/ UNCHANGED objectVars
    BY DEF PageNext, Others
  <2>2. UNCHANGED pageAll => UNCHANGED objectVars
    BY DEF pageAll
  <2> QED
    BY <2>1, <2>2, ObjectsIs
<1> QED
  BY <1>1, <1>2, PTL DEF PageSpec, NP!Objects!Spec

-----------------------------------------------------------------------------
(* NapiScripts: what MCPage takes is what Napi_proofs proves about.                     *)
LEMMA ScriptsIs ==
  /\ Scripts!Init => NP!Scripts!Init
  /\ Scripts!Next => NP!Scripts!Next
  /\ UNCHANGED scriptVars => UNCHANGED NP!Scripts!vars
  /\ NP!Scripts!VerdictIsRight => Scripts!VerdictIsRight
  /\ NP!Scripts!ScopesComeBack => Scripts!ScopesComeBack
<1>1. Scripts!Init => NP!Scripts!Init
  BY DEF Scripts!Init, NP!Scripts!Init
<1>2. Scripts!Next => NP!Scripts!Next
  BY DEF Scripts!Next, NP!Scripts!Next, Scripts!Compile, NP!Scripts!Compile,
         Scripts!CompileForLoader, NP!Scripts!CompileForLoader, Scripts!Import,
         NP!Scripts!Import, Scripts!ImportRefused, NP!Scripts!ImportRefused,
         Scripts!ImportReturns, NP!Scripts!ImportReturns, Scripts!ImportThrows,
         NP!Scripts!ImportThrows, Scripts!NativeCloses, NP!Scripts!NativeCloses,
         Scripts!NativeOpens, NP!Scripts!NativeOpens, Scripts!ReadToken,
         NP!Scripts!ReadToken, Scripts!Token, NP!Scripts!Token, Scripts!lexer,
         NP!Scripts!lexer, Scripts!scopes, NP!Scripts!scopes, Scripts!vars,
         NP!Scripts!vars, Scripts!Base, NP!Scripts!Base, Scripts!ImportEnds,
         NP!Scripts!ImportEnds, Scripts!CommentAfter, NP!Scripts!CommentAfter,
         Scripts!DepthAfter, NP!Scripts!DepthAfter, Scripts!InText, NP!Scripts!InText,
         Scripts!Keyword, NP!Scripts!Keyword, Scripts!Plausible, NP!Scripts!Plausible,
         Scripts!Reference, NP!Scripts!Reference, Scripts!StringAfter,
         NP!Scripts!StringAfter, Scripts!Word, NP!Scripts!Word, Scripts!Comment,
         NP!Scripts!Comment, Scripts!Quote, NP!Scripts!Quote, Scripts!Code,
         NP!Scripts!Code, Scripts!Follows, NP!Scripts!Follows, Scripts!Misread,
         NP!Scripts!Misread, Scripts!Ends, NP!Scripts!Ends
<1>3. UNCHANGED scriptVars => UNCHANGED NP!Scripts!vars
  BY DEF scriptVars, NP!Scripts!vars, NP!Scripts!lexer, NP!Scripts!scopes
<1>4. NP!Scripts!VerdictIsRight => Scripts!VerdictIsRight
  BY DEF Scripts!VerdictIsRight, NP!Scripts!VerdictIsRight, Scripts!IsESM,
         NP!Scripts!IsESM
<1>5. NP!Scripts!ScopesComeBack => Scripts!ScopesComeBack
  BY DEF Scripts!ScopesComeBack, NP!Scripts!ScopesComeBack
<1> QED
  BY <1>1, <1>2, <1>3, <1>4, <1>5

LEMMA PageScripts == PageSpec => NP!Scripts!Spec
<1>1. PageInit => NP!Scripts!Init
  BY ScriptsIs DEF PageInit
<1>2. [PageNext]_pageAll => [NP!Scripts!Next]_(NP!Scripts!vars)
  <2>1. PageNext => Scripts!Next \/ UNCHANGED scriptVars
    BY DEF PageNext, Others
  <2>2. UNCHANGED pageAll => UNCHANGED scriptVars
    BY DEF pageAll
  <2> QED
    BY <2>1, <2>2, ScriptsIs
<1> QED
  BY <1>1, <1>2, PTL DEF PageSpec, NP!Scripts!Spec

-----------------------------------------------------------------------------
(* NapiValues: what MCPage takes is what Napi_proofs proves about.                      *)
LEMMA ValuesIs ==
  /\ Values!Init => NP!Values!Init
  /\ Values!Next => NP!Values!Next
  /\ UNCHANGED valueVars => UNCHANGED NP!Values!vars
  /\ NP!Values!TwoCallsAreEnough => Values!TwoCallsAreEnough
<1>1. Values!Init => NP!Values!Init
  BY DEF Values!Init, NP!Values!Init, Values!Kind, NP!Values!Kind, Values!Sources,
         NP!Values!Sources, Values!Unasked, NP!Values!Unasked, Values!Char,
         NP!Values!Char
<1>2. Values!Next => NP!Values!Next
  BY DEF Values!Next, NP!Values!Next, Values!AnyBuffer, NP!Values!AnyBuffer,
         Values!CreateString, NP!Values!CreateString, Values!CreateTerminated,
         NP!Values!CreateTerminated, Values!GetLength, NP!Values!GetLength,
         Values!JavaScriptString, NP!Values!JavaScriptString, Values!TakeBuffer,
         NP!Values!TakeBuffer, Values!GetString, NP!Values!GetString, Values!Read,
         NP!Values!Read, Values!SourceBytes, NP!Values!SourceBytes, Values!Unasked,
         NP!Values!Unasked, Values!UpTo, NP!Values!UpTo, Values!Terminated,
         NP!Values!Terminated, Values!Encoded, NP!Values!Encoded, Values!NUL,
         NP!Values!NUL, Values!WriteString, NP!Values!WriteString, Values!Decoded,
         NP!Values!Decoded, Values!Lone, NP!Values!Lone, Values!Width, NP!Values!Width,
         Values!AtMost, NP!Values!AtMost, Values!Units, NP!Values!Units
<1>3. UNCHANGED valueVars => UNCHANGED NP!Values!vars
  BY DEF valueVars, NP!Values!vars
<1>4. NP!Values!TwoCallsAreEnough => Values!TwoCallsAreEnough
  BY DEF Values!TwoCallsAreEnough, NP!Values!TwoCallsAreEnough, Values!NUL,
         NP!Values!NUL, Values!Units, NP!Values!Units, Values!UpTo, NP!Values!UpTo,
         Values!Encoded, NP!Values!Encoded, Values!Width, NP!Values!Width
<1> QED
  BY <1>1, <1>2, <1>3, <1>4

LEMMA PageValues == PageSpec => NP!Values!Spec
<1>1. PageInit => NP!Values!Init
  BY ValuesIs DEF PageInit
<1>2. [PageNext]_pageAll => [NP!Values!Next]_(NP!Values!vars)
  <2>1. PageNext => Values!Next \/ UNCHANGED valueVars
    BY DEF PageNext, Others
  <2>2. UNCHANGED pageAll => UNCHANGED valueVars
    BY DEF pageAll
  <2> QED
    BY <2>1, <2>2, ValuesIs
<1> QED
  BY <1>1, <1>2, PTL DEF PageSpec, NP!Values!Spec

-----------------------------------------------------------------------------
(* NapiEnv: what MCPage takes is what Napi_proofs proves about.                         *)
LEMMA EnvIs ==
  /\ Env!Init => NP!Env!Init
  /\ Env!Next => NP!Env!Next
  /\ UNCHANGED envVars => UNCHANGED NP!Env!vars
  /\ NP!Env!InfosAreOfTheRunning => Env!InfosAreOfTheRunning
  /\ NP!Env!ArgvIsTheCallers => Env!ArgvIsTheCallers
  /\ NP!Env!SettledOnce => Env!SettledOnce
<1>1. Env!Init => NP!Env!Init
  BY DEF Env!Init, NP!Env!Init, Env!Call, NP!Env!Call, Env!Deferred, NP!Env!Deferred,
         Env!Garbage, NP!Env!Garbage, Env!NoEnv, NP!Env!NoEnv, Env!NoInfo, NP!Env!NoInfo
<1>2. Env!Next => NP!Env!Next
  BY DEF Env!Next, NP!Env!Next, Env!AddCleanupHook, NP!Env!AddCleanupHook, Env!Call,
         NP!Env!Call, Env!CreateEnv, NP!Env!CreateEnv, Env!CreatePromise,
         NP!Env!CreatePromise, Env!Deferred, NP!Env!Deferred, Env!Env, NP!Env!Env,
         Env!GetCbInfo, NP!Env!GetCbInfo, Env!GetCbInfoUnknown, NP!Env!GetCbInfoUnknown,
         Env!JsCalls, NP!Env!JsCalls, Env!Kind, NP!Env!Kind, Env!NativeFails,
         NP!Env!NativeFails, Env!NativeReturns, NP!Env!NativeReturns, Env!ReleaseEnv,
         NP!Env!ReleaseEnv, Env!Settle, NP!Env!Settle, Env!calling, NP!Env!calling,
         Env!deferring, NP!Env!deferring, Env!environments, NP!Env!environments,
         Env!CopyCount, NP!Env!CopyCount, Env!NoInfo, NP!Env!NoInfo, Env!ArgCount,
         NP!Env!ArgCount, Env!Enter, NP!Env!Enter, Env!EnvOf, NP!Env!EnvOf, Env!Delete,
         NP!Env!Delete, Env!Hook, NP!Env!Hook
<1>3. UNCHANGED envVars => UNCHANGED NP!Env!vars
  BY DEF envVars, NP!Env!vars, NP!Env!calling, NP!Env!deferring, NP!Env!environments
<1>4. NP!Env!InfosAreOfTheRunning => Env!InfosAreOfTheRunning
  BY DEF Env!InfosAreOfTheRunning, NP!Env!InfosAreOfTheRunning, Env!Call, NP!Env!Call,
         Env!NoInfo, NP!Env!NoInfo, Env!Running, NP!Env!Running
<1>5. NP!Env!ArgvIsTheCallers => Env!ArgvIsTheCallers
  BY DEF Env!ArgvIsTheCallers, NP!Env!ArgvIsTheCallers, Env!Call, NP!Env!Call,
         Env!Garbage, NP!Env!Garbage
<1>6. NP!Env!SettledOnce => Env!SettledOnce
  BY DEF Env!SettledOnce, NP!Env!SettledOnce, Env!Deferred, NP!Env!Deferred
<1> QED
  BY <1>1, <1>2, <1>3, <1>4, <1>5, <1>6

LEMMA PageEnv == PageSpec => NP!Env!Spec
<1>1. PageInit => NP!Env!Init
  BY EnvIs DEF PageInit
<1>2. [PageNext]_pageAll => [NP!Env!Next]_(NP!Env!vars)
  <2>1. PageNext => Env!Next \/ UNCHANGED envVars
    BY DEF PageNext, Others
  <2>2. UNCHANGED pageAll => UNCHANGED envVars
    BY DEF pageAll
  <2> QED
    BY <2>1, <2>2, EnvIs
<1> QED
  BY <1>1, <1>2, PTL DEF PageSpec, NP!Env!Spec

(* Buffers, properties, scripts, strings and callbacks of native code are    *)
(* what JavaScript has of them: the five components in MCPage (NapiBuffers, *)
(* NapiObjects, NapiScripts, NapiValues and NapiEnv).                       *)
THEOREM NapiStaysTrue == PageSpec => []NapiIsTrue
<1>1. NP!Buffers!Spec => []NP!Buffers!BytesStayApart
  BY NP!BytesStayApartAlways DEF NP!BuffersAssumed
<1>2. NP!Objects!Spec => []NP!Objects!AnswersAreTrue
  BY NP!AnswersAreTrueAlways DEF NP!ValuesAssumed
<1>3. NP!Scripts!Spec => []NP!Scripts!VerdictIsRight
  BY NP!VerdictIsRightAlways
<1>4. NP!Scripts!Spec => []NP!Scripts!ScopesComeBack
  BY NP!ScopesComeBackAlways
<1>5. NP!Values!Spec => []NP!Values!TwoCallsAreEnough
  BY NP!TwoCallsAreEnoughAlways DEF NP!StringsAssumed
<1>6. NP!Env!Spec => []NP!Env!InfosAreOfTheRunning
  BY NP!InfosAreOfTheRunningAlways DEF NP!EnvAssumed
<1>7. NP!Env!Spec => []NP!Env!ArgvIsTheCallers
  BY NP!ArgvIsTheCallersAlways DEF NP!EnvAssumed
<1>8. NP!Env!Spec => []NP!Env!SettledOnce
  BY NP!SettledOnceAlways
<1>9. NP!Buffers!BytesStayApart /\ NP!Objects!AnswersAreTrue /\
        NP!Scripts!VerdictIsRight /\ NP!Scripts!ScopesComeBack /\
        NP!Values!TwoCallsAreEnough /\ NP!Env!InfosAreOfTheRunning /\
        NP!Env!ArgvIsTheCallers /\ NP!Env!SettledOnce
        => NapiIsTrue
  BY BuffersIs, ObjectsIs, ScriptsIs, ValuesIs, EnvIs DEF NapiIsTrue
<1> QED
  BY <1>1, <1>2, <1>3, <1>4, <1>5, <1>6, <1>7, <1>8, <1>9, PageBuffers, PageObjects, PageScripts, PageValues, PageEnv, PTL
=============================================================================
