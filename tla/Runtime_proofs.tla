--------------------------- MODULE Runtime_proofs ---------------------------
(***************************************************************************)
(* Proofs about parts of the runtime in the page, for every value of their *)
(* constants. The parts share no state; each section takes one of them as  *)
(* an instance over variables of its own, named as in MCPage.              *)
(***************************************************************************)
EXTENDS Integers, Sequences, FiniteSets, SequencesExt, SequenceTheorems,
        FiniteSetTheorems, WellFoundedInduction, TLAPS

-----------------------------------------------------------------------------
CONSTANTS
  Fn, MaxAdd, MaxEmit

VARIABLES
  arrays, current, watched, emits, added, registered, heard, nested

Events == INSTANCE Emitter WITH
  MaxDepth <- MaxEmit, stack <- emits, runs <- heard, reentered <- nested

(* Emitter: the listeners of an EventEmitter.                               *)

EmitFrame == [kind : {"emit"}, copy : Seq(Events!EntryOf), at : Nat \ {0}, running : BOOLEAN]
RemovedFrame == [kind : {"removed"}, array : Nat]
AllFrame == [kind : {"all"}, array : Nat, at : Nat, every : BOOLEAN]
Frame == EmitFrame \cup RemovedFrame \cup AllFrame

Typed ==
  /\ MaxAdd \in Nat /\ arrays \in Seq(Seq(Events!EntryOf)) /\ current \in 0 .. Len(arrays)
  /\ registered \in Seq(Events!EntryOf) /\ emits \in Seq(Frame)
  /\ added \in 0 .. MaxAdd /\ heard \in [1 .. MaxAdd -> Nat]

(* What is told of a removal holds the array of the table.                  *)
ToldInv ==
  ~nested =>
    /\ \A i \in 1 .. Len(emits) :
         emits[i].kind = "removed" => current # 0 /\ emits[i].array = current
    /\ \A i, j \in 1 .. Len(emits) :
         emits[i].kind = "removed" /\ emits[j].kind = "removed" => i = j
KeptInv == ~nested => Events!Listeners = registered

IdsInv ==
  /\ \A i \in 1 .. Len(registered) : registered[i].id <= added
  /\ \A i, j \in 1 .. Len(registered) : registered[i].id = registered[j].id => i = j
NotRun == ~nested => \A i \in 1 .. Len(registered) : heard[registered[i].id] = 0
RunsInv ==
  ~nested => \A i \in 1 .. MaxAdd : heard[i] <= 1 /\ (i > added => heard[i] = 0)

(* The copy of an emit: entries that were added, none twice, and the ones   *)
(* that were not called yet have not run.                                   *)
CopyGood(f, n, kept, ran) ==
  /\ \A i \in 1 .. Len(f.copy) : f.copy[i].id <= n
  /\ \A i, j \in 1 .. Len(f.copy) : f.copy[i].id = f.copy[j].id => i = j
  /\ \A i \in 1 .. Len(f.copy), j \in 1 .. Len(kept) :
       f.copy[i].id = kept[j].id => f.copy[i] = kept[j]
  /\ \A i \in 1 .. Len(f.copy) :
       (i > f.at \/ (i = f.at /\ ~f.running)) => ran[f.copy[i].id] = 0
CopyOk(f) == CopyGood(f, added, registered, heard)
CopyInv ==
  ~nested =>
    /\ \A m \in 1 .. Len(emits) : emits[m].kind = "emit" => CopyOk(emits[m])
    /\ \A m, n \in 1 .. Len(emits) : emits[m].kind = "emit" /\ emits[n].kind = "emit" => m = n

EmitterInv == Typed /\ ToldInv /\ KeptInv /\ IdsInv /\ NotRun /\ RunsInv /\ CopyInv

-----------------------------------------------------------------------------
(* Frames.                                                                  *)
LEMMA FrameKinds ==
  ASSUME NEW f \in Frame
  PROVE  /\ f.kind \in {"emit", "removed", "all"}
         /\ f.kind = "emit" => f \in EmitFrame
         /\ f.kind = "removed" => f \in RemovedFrame
         /\ f.kind = "all" => f \in AllFrame
  BY DEF Frame, EmitFrame, RemovedFrame, AllFrame

LEMMA FrameSets == EmitFrame \subseteq Frame /\ RemovedFrame \subseteq Frame /\ AllFrame \subseteq Frame
  BY DEF Frame, EmitFrame, RemovedFrame, AllFrame

LEMMA NewEmit ==
  ASSUME NEW c \in Seq(Events!EntryOf)
  PROVE  [kind |-> "emit", copy |-> c, at |-> 1, running |-> FALSE] \in EmitFrame
  BY DEF EmitFrame

LEMMA NewRemoved ==
  ASSUME NEW a \in Nat PROVE [kind |-> "removed", array |-> a] \in RemovedFrame
  BY DEF RemovedFrame

LEMMA NewAll ==
  ASSUME NEW a \in Nat, NEW n \in Nat, NEW e \in BOOLEAN
  PROVE [kind |-> "all", array |-> a, at |-> n, every |-> e] \in AllFrame
  BY DEF AllFrame

LEMMA EmitRuns ==
  ASSUME NEW f \in EmitFrame, NEW g, g = [f EXCEPT !.running = TRUE]
  PROVE  g \in EmitFrame /\ g.kind = "emit" /\ g.copy = f.copy /\ g.at = f.at /\ g.running
  BY DEF EmitFrame

LEMMA EmitReturns ==
  ASSUME NEW f \in EmitFrame, NEW g, g = [f EXCEPT !.running = FALSE, !.at = @ + 1]
  PROVE  g \in EmitFrame /\ g.kind = "emit" /\ g.copy = f.copy /\ g.at = f.at + 1 /\ ~g.running
<1>1. f.at \in Nat \ {0} /\ f.copy \in Seq(Events!EntryOf)
  BY DEF EmitFrame
<1>2. g = [kind |-> "emit", copy |-> f.copy, at |-> f.at + 1, running |-> FALSE]
  BY DEF EmitFrame
<1>3. f.at + 1 \in Nat \ {0}
  BY <1>1
<1> QED
  BY <1>1, <1>2, <1>3 DEF EmitFrame

LEMMA AllSteps ==
  ASSUME NEW f \in AllFrame, f.at > 0, NEW g, g = [f EXCEPT !.at = @ - 1]
  PROVE  g \in AllFrame /\ g.kind = "all"
  BY DEF AllFrame

LEMMA NewEntry ==
  ASSUME NEW n \in 1 .. MaxAdd, NEW fn \in Fn, NEW once \in BOOLEAN
  PROVE  [id |-> n, fn |-> fn, once |-> once] \in Events!EntryOf
  BY DEF Events!EntryOf

LEMMA EntryIds == \A e \in Events!EntryOf : e.id \in 1 .. MaxAdd
  BY DEF Events!EntryOf

-----------------------------------------------------------------------------
(* Sequences.                                                               *)
LEMMA Appended ==
  ASSUME NEW S, NEW s \in Seq(S), NEW x \in S
  PROVE  /\ Append(s, x) \in Seq(S) /\ Len(Append(s, x)) = Len(s) + 1
         /\ Append(s, x)[Len(s) + 1] = x
         /\ \A i \in 1 .. Len(s) : Append(s, x)[i] = s[i]
  OBVIOUS

LEMMA Replaced ==
  ASSUME NEW S, NEW s \in Seq(S), NEW x \in S, NEW w \in 1 .. Len(s)
  PROVE  /\ [s EXCEPT ![w] = x] \in Seq(S) /\ Len([s EXCEPT ![w] = x]) = Len(s)
         /\ [s EXCEPT ![w] = x][w] = x
         /\ \A i \in 1 .. Len(s) : i # w => [s EXCEPT ![w] = x][i] = s[i]
  OBVIOUS

LEMMA FrontIs ==
  ASSUME NEW S, NEW s \in Seq(S), s # << >>
  PROVE  /\ Events!Front(s) \in Seq(S) /\ Len(Events!Front(s)) = Len(s) - 1 /\ Len(s) \in Nat \ {0}
         /\ \A i \in 1 .. Len(s) - 1 : Events!Front(s)[i] = s[i]
<1>1. Len(s) \in Nat \ {0}
  OBVIOUS
<1>2. Events!Front(s) = SubSeq(s, 1, Len(s) - 1)
  BY DEF Events!Front
<1>3. Events!Front(s) \in Seq(S)
  BY <1>1, <1>2
<1>4. /\ Len(SubSeq(s, 1, Len(s) - 1)) = IF 1 <= Len(s) - 1 THEN (Len(s) - 1) - 1 + 1 ELSE 0
      /\ \A i \in 1 .. Len(s) - 1 : SubSeq(s, 1, Len(s) - 1)[i] = s[i]
  <2> DEFINE n == Len(s) - 1
  <2>1. n \in 0 .. Len(s)
    BY <1>1
  <2> HIDE DEF n
  <2>2. /\ Len(SubSeq(s, 1, n)) = IF 1 <= n THEN n - 1 + 1 ELSE 0
        /\ \A i \in 1 .. n : SubSeq(s, 1, n)[i] = s[i]
    BY <1>1, <2>1
  <2> QED
    BY <2>2 DEF n
<1>5. Len(Events!Front(s)) = Len(s) - 1 /\ \A i \in 1 .. Len(s) - 1 : Events!Front(s)[i] = s[i]
  <2> DEFINE t == SubSeq(s, 1, Len(s) - 1)
             n == Len(s)
  <2>1. n \in Nat \ {0} /\ Len(t) = IF 1 <= n - 1 THEN (n - 1) - 1 + 1 ELSE 0
    BY <1>1, <1>4
  <2>2. Events!Front(s) = t /\ \A i \in 1 .. n - 1 : t[i] = s[i]
    BY <1>2, <1>4
  <2> HIDE DEF t, n
  <2>3. Len(t) = n - 1
    BY <2>1
  <2>4. Len(Events!Front(s)) = n - 1 /\ \A i \in 1 .. n - 1 : Events!Front(s)[i] = s[i]
    BY <2>2, <2>3
  <2> QED
    BY <2>4 DEF n
<1> QED
  BY <1>1, <1>3, <1>5

LEMMA Prepended ==
  ASSUME NEW S, NEW s \in Seq(S), NEW x \in S
  PROVE  /\ <<x>> \o s \in Seq(S) /\ Len(<<x>> \o s) = Len(s) + 1
         /\ (<<x>> \o s)[1] = x
         /\ \A i \in 1 .. Len(s) : (<<x>> \o s)[i + 1] = s[i]
<1>1. <<x>> \in Seq(S) /\ Len(<<x>>) = 1 /\ <<x>>[1] = x
  OBVIOUS
<1> QED
  BY <1>1, ConcatProperties

\* The greatest of some indices.
LEMMA HasMax ==
  ASSUME NEW n \in Nat, NEW T \in SUBSET (1 .. n), T # {}
  PROVE  Events!Max(T) \in T /\ \A y \in T : y <= Events!Max(T)
<1> DEFINE U == {n - x : x \in T}
           Less == OpToRel(<, Nat)
<1>1. U \subseteq Nat /\ U # {}
  <2>1. \A x \in T : n - x \in Nat
    OBVIOUS
  <2>2. PICK x : x \in T
    OBVIOUS
  <2>3. n - x \in U
    BY <2>2
  <2> QED
    BY <2>1, <2>3
<1>2. PICK u \in U : \A v \in U : ~(<<v, u>> \in Less)
  BY <1>1, NatLessThanWellFounded, WFMin
<1>3. PICK x \in T : u = n - x
  BY <1>2
<1>4. ASSUME NEW y \in T PROVE x >= y
  <2>1. n - y \in U /\ x \in Nat /\ y \in Nat /\ n - y \in Nat /\ n - x \in Nat
    OBVIOUS
  <2>2. n - y < n - x => <<n - y, u>> \in Less
    BY <2>1, <1>3 DEF OpToRel
  <2>3. ~(n - y < n - x)
    <3> HIDE DEF Less, U
    <3> QED
      BY <2>1, <2>2, <1>2
  <2> HIDE DEF Less, U
  <2> QED
    BY <2>1, <2>3
<1>5. \E z \in T : \A y \in T : z >= y
  BY <1>4
<1>6. Events!Max(T) \in T /\ \A y \in T : Events!Max(T) >= y
  BY <1>5 DEF Events!Max
<1> QED
  BY <1>6

LEMMA AtRemoved ==
  ASSUME NEW S, NEW s \in Seq(S), NEW k \in 1 .. Len(s)
  PROVE  /\ Events!RemoveAt(s, k) \in Seq(S) /\ Len(Events!RemoveAt(s, k)) = Len(s) - 1
         /\ \A i \in 1 .. Len(s) - 1 :
              Events!RemoveAt(s, k)[i] = IF i < k THEN s[i] ELSE s[i + 1]
<1> DEFINE a == SubSeq(s, 1, k - 1)
           b == SubSeq(s, k + 1, Len(s))
<1>2. Events!RemoveAt(s, k) = a \o b
  BY DEF Events!RemoveAt
<1>3. /\ a \in Seq(S) /\ Len(a) = k - 1 /\ \A i \in 1 .. k - 1 : a[i] = s[i]
      /\ b \in Seq(S) /\ Len(b) = Len(s) - k
      /\ \A i \in 1 .. Len(s) - k : b[i] = s[i + k]
  OBVIOUS
<1> HIDE DEF a, b
<1>4. /\ a \o b \in Seq(S) /\ Len(a \o b) = Len(a) + Len(b)
      /\ \A i \in 1 .. Len(a) + Len(b) :
           (a \o b)[i] = IF i <= Len(a) THEN a[i] ELSE b[i - Len(a)]
  BY <1>3, ConcatProperties
<1>5. Len(s) \in Nat /\ Len(a) + Len(b) = Len(s) - 1
  BY <1>3
<1>6. ASSUME NEW i \in 1 .. Len(s) - 1
      PROVE  (a \o b)[i] = IF i < k THEN s[i] ELSE s[i + 1]
  <2>1. CASE i < k
    BY <1>3, <1>4, <1>5, <2>1
  <2>2. CASE ~(i < k)
    <3>1. (a \o b)[i] = b[i - (k - 1)]
      BY <1>3, <1>4, <1>5, <2>2
    <3>2. b[i - (k - 1)] = s[i - (k - 1) + k]
      BY <1>3, <1>5, <2>2
    <3>3. i - (k - 1) + k = i + 1
      BY <1>5
    <3> QED
      BY <2>2, <3>1, <3>2, <3>3
  <2> QED
    BY <2>1, <2>2
<1> QED
  BY <1>2, <1>4, <1>5, <1>6

\* What is left when the last match has gone.
LEMMA WithoutIs ==
  ASSUME NEW S, NEW s \in Seq(S), NEW m
  PROVE  /\ Events!Without(s, m) \in Seq(S)
         /\ \/ Events!Without(s, m) = s /\ \A i \in 1 .. Len(s) : s[i] \notin m
            \/ \E k \in 1 .. Len(s) :
                 /\ s[k] \in m /\ Len(Events!Without(s, m)) = Len(s) - 1
                 /\ \A i \in 1 .. Len(s) - 1 :
                      Events!Without(s, m)[i] = IF i < k THEN s[i] ELSE s[i + 1]
<1> DEFINE I == {i \in 1 .. Len(s) : s[i] \in m}
           k == Events!SelectLastInSeq(s, LAMBDA e : e \in m)
<1>1. k = IF I # {} THEN Events!Max(I) ELSE 0
  BY DEF Events!SelectLastInSeq
<1>2. Events!Without(s, m) = IF k = 0 THEN s ELSE Events!RemoveAt(s, k)
  BY DEF Events!Without
<1> HIDE DEF k
<1>3. CASE I = {}
  <2>1. \A i \in 1 .. Len(s) : s[i] \notin m
    BY <1>3
  <2> QED
    BY <1>1, <1>2, <1>3, <2>1
<1>4. CASE I # {}
  <2>0. Len(s) \in Nat /\ I \in SUBSET (1 .. Len(s))
    OBVIOUS
  <2>1. Events!Max(I) \in I
    <3> HIDE DEF I
    <3> QED
      BY <2>0, <1>4, HasMax
  <2>2. k \in 1 .. Len(s) /\ s[k] \in m /\ Events!Without(s, m) = Events!RemoveAt(s, k)
    BY <2>1, <1>1, <1>2, <1>4
  <2> QED
    BY <2>2, AtRemoved
<1> QED
  BY <1>3, <1>4

\* It comes from the sequence, and no two of it from the same place.
LEMMA WithoutFrom ==
  ASSUME NEW S, NEW s \in Seq(S), NEW m, NEW w, w = Events!Without(s, m),
         \A i, j \in 1 .. Len(s) : s[i].id = s[j].id => i = j
  PROVE  /\ \A i \in 1 .. Len(w) : \E j \in 1 .. Len(s) : w[i] = s[j]
         /\ \A i, j \in 1 .. Len(w) : w[i].id = w[j].id => i = j
         /\ \A e : m = {e} /\ (\A i \in 1 .. Len(s) : s[i].id = e.id => s[i] = e)
              => \A i \in 1 .. Len(w) : w[i].id # e.id
<1>1. CASE w = s /\ \A i \in 1 .. Len(s) : s[i] \notin m
  BY <1>1
<1>2. CASE \E k \in 1 .. Len(s) :
                 /\ s[k] \in m /\ Len(w) = Len(s) - 1
                 /\ \A i \in 1 .. Len(s) - 1 :
                      w[i] = IF i < k THEN s[i] ELSE s[i + 1]
  <2>1. PICK k \in 1 .. Len(s) : s[k] \in m /\ Len(w) = Len(s) - 1
                 /\ \A i \in 1 .. Len(s) - 1 :
                      w[i] = IF i < k THEN s[i] ELSE s[i + 1]
    BY <1>2
  <2>2. Len(s) \in Nat
    OBVIOUS
  <2>3. \A i \in 1 .. Len(w) : (i < k /\ i \in 1 .. Len(s) /\ w[i] = s[i])
                               \/ (i >= k /\ i + 1 \in 1 .. Len(s) /\ w[i] = s[i + 1])
    BY <2>1, <2>2
  <2>4. \A i \in 1 .. Len(w) : \E j \in 1 .. Len(s) : w[i] = s[j] /\ j # k
    BY <2>3, <2>2
  <2>5. \A i, j \in 1 .. Len(w) : w[i].id = w[j].id => i = j
    <3> SUFFICES ASSUME NEW i \in 1 .. Len(w), NEW j \in 1 .. Len(w), w[i].id = w[j].id
                 PROVE  i = j
      OBVIOUS
    <3>1. i \in Nat /\ j \in Nat
      OBVIOUS
    <3>2. CASE i < k /\ j < k
      BY <2>3, <3>2, <3>1
    <3>3. CASE i < k /\ j >= k
      <4>0. i \in 1 .. Len(s) /\ j + 1 \in 1 .. Len(s) /\ w[i] = s[i] /\ w[j] = s[j + 1]
        BY <2>3, <3>3, <3>1
      <4>1. i = j + 1
        BY <4>0
      <4> QED
        BY <4>1, <3>3, <3>1
    <3>4. CASE i >= k /\ j < k
      <4>1. i + 1 = j
        BY <2>3, <3>4, <3>1
      <4> QED
        BY <4>1, <3>4, <3>1
    <3>5. CASE i >= k /\ j >= k
      <4>1. i + 1 = j + 1
        BY <2>3, <3>5, <3>1
      <4> QED
        BY <4>1, <3>1
    <3> QED
      BY <3>1, <3>2, <3>3, <3>4, <3>5
  <2>6. ASSUME NEW e, m = {e}, \A i \in 1 .. Len(s) : s[i].id = e.id => s[i] = e
        PROVE  \A i \in 1 .. Len(w) : w[i].id # e.id
    <3>1. s[k] = e
      BY <2>1, <2>6
    <3> QED
      BY <3>1, <2>4
  <2> QED
    BY <2>4, <2>5, <2>6
<1>3. \/ w = s /\ \A i \in 1 .. Len(s) : s[i] \notin m
      \/ \E k \in 1 .. Len(s) :
           /\ s[k] \in m /\ Len(w) = Len(s) - 1
           /\ \A i \in 1 .. Len(s) - 1 :
                w[i] = IF i < k THEN s[i] ELSE s[i + 1]
  BY WithoutIs
<1> QED
  BY <1>1, <1>2, <1>3

LEMMA WithoutNothing == \A m : Events!Without(<< >>, m) = << >>
<1> SUFFICES ASSUME NEW m PROVE Events!Without(<< >>, m) = << >>
  OBVIOUS
<1>1. << >> \in Seq(Events!EntryOf) /\ 1 .. Len(<< >>) = {}
  OBVIOUS
<1> QED
  BY <1>1, WithoutIs

-----------------------------------------------------------------------------
(* removeListener.                                                          *)
SameKinds(rest) ==
  /\ rest \in Seq(Frame) /\ Len(rest) = Len(emits)
  /\ \A i \in 1 .. Len(emits) :
       rest[i].kind = emits[i].kind /\ (emits[i].kind # "emit" \/ rest[i] \in EmitFrame)

LEMMA DropKeeps ==
  ASSUME Typed, KeptInv, IdsInv, NEW matching, NEW rest, SameKinds(rest), Events!Drop(matching, rest)
  PROVE  /\ arrays' \in Seq(Seq(Events!EntryOf)) /\ current' \in 0 .. Len(arrays')
         /\ registered' \in Seq(Events!EntryOf) /\ emits' \in Seq(Frame)
         /\ ToldInv' /\ KeptInv' /\ (~nested' => ~nested)
         /\ registered' = Events!Without(registered, matching)
         /\ \A i \in 1 .. Len(emits') : emits'[i].kind # "removed" =>
               i \in 1 .. Len(rest) /\ emits'[i] = rest[i]
<1> DEFINE s == Events!Without(Events!Listeners, matching)
<1>1. Events!Listeners \in Seq(Events!EntryOf) /\ s \in Seq(Events!EntryOf) /\ registered' \in Seq(Events!EntryOf)
      /\ registered' = Events!Without(registered, matching)
  <2>1. Events!Listeners \in Seq(Events!EntryOf)
    BY DEF Typed, Events!Listeners
  <2>2. s \in Seq(Events!EntryOf)
    BY <2>1, WithoutIs
  <2>3. Events!Without(registered, matching) \in Seq(Events!EntryOf)
    BY WithoutIs DEF Typed
  <2> QED
    BY <2>1, <2>2, <2>3 DEF Events!Drop
<1>2. current = 0 => s = << >> /\ Events!Listeners = << >>
  BY WithoutNothing DEF Events!Listeners
<1>3. /\ arrays' = IF s # Events!Listeners THEN [arrays EXCEPT ![current] = s] ELSE arrays
      /\ IF s # Events!Listeners /\ watched
         THEN emits' = Append(rest, [kind |-> "removed", array |-> current]) /\ current' = current
         ELSE emits' = rest /\ current' = IF s = << >> THEN 0 ELSE current
      /\ nested' = (nested \/ Events!TellsRemoval(rest))
  BY DEF Events!Drop
<1>4. Len(arrays) \in Nat /\ current \in Nat /\ Len(rest) \in Nat /\ rest \in Seq(Frame)
  BY DEF Typed, SameKinds
<1>s. s = Events!Without(Events!Listeners, matching)
  OBVIOUS
<1> HIDE DEF s
<1>5. arrays' \in Seq(Seq(Events!EntryOf)) /\ Len(arrays') = Len(arrays)
      /\ (current # 0 => arrays'[current] = s)
  <2>1. CASE s = Events!Listeners
    BY <2>1, <1>3 DEF Typed, Events!Listeners
  <2>2. CASE s # Events!Listeners
    <3>1. current \in 1 .. Len(arrays) /\ arrays' = [arrays EXCEPT ![current] = s]
      BY <2>2, <1>2, <1>3, <1>4 DEF Typed
    <3> QED
      BY <3>1, <1>1, Replaced DEF Typed
  <2> QED
    BY <2>1, <2>2
<1>6. current' \in 0 .. Len(arrays')
  <2>1. current' = current \/ current' = 0
    BY <1>3
  <2>2. current \in 0 .. Len(arrays) /\ Len(arrays') = Len(arrays)
    BY <1>5 DEF Typed
  <2> QED
    BY <2>1, <2>2, <1>4
<1>7. /\ emits' \in Seq(Frame)
      /\ \A i \in 1 .. Len(emits') : emits'[i].kind # "removed" =>
               i \in 1 .. Len(rest) /\ emits'[i] = rest[i]
      /\ \A i \in 1 .. Len(emits') :
               (i \in 1 .. Len(rest) /\ emits'[i] = rest[i])
               \/ (i = Len(rest) + 1 /\ emits'[i].array = current /\ current' = current /\ current # 0)
  <2>1. CASE s # Events!Listeners /\ watched
    <3> DEFINE f == [kind |-> "removed", array |-> current]
    <3>1. f \in Frame /\ f.kind = "removed" /\ f.array = current
      BY <1>4, NewRemoved, FrameSets
    <3>2. emits' = Append(rest, f) /\ current' = current /\ current # 0
      BY <2>1, <1>2, <1>3
    <3> HIDE DEF f
    <3>3. emits' \in Seq(Frame) /\ Len(emits') = Len(rest) + 1 /\ emits'[Len(rest) + 1] = f
          /\ \A i \in 1 .. Len(rest) : emits'[i] = rest[i]
      BY <3>1, <3>2, <1>4, Appended
    <3> QED
      BY <3>1, <3>2, <3>3, <1>4
  <2>2. CASE ~(s # Events!Listeners /\ watched)
    BY <2>2, <1>3, <1>4
  <2> QED
    BY <2>1, <2>2
<1>8. ~nested' => ~nested /\ \A i \in 1 .. Len(rest) : rest[i].kind # "removed"
  <2>1. DOMAIN rest = 1 .. Len(rest)
    BY <1>4
  <2>2. nested' = (nested \/ \E i \in 1 .. Len(rest) : rest[i].kind = "removed")
    BY <1>3, <2>1 DEF Events!TellsRemoval
  <2> QED
    BY <2>2
<1>9. ToldInv'
  BY <1>4, <1>7, <1>8 DEF ToldInv
<1>10. KeptInv'
  <2> SUFFICES ASSUME ~nested' PROVE Events!Listeners' = registered'
    BY DEF KeptInv
  <2>1. Events!Listeners = registered
    BY <1>8 DEF KeptInv
  <2>2. registered' = s
    BY <2>1, <1>1, <1>s
  <2>3. Events!Listeners' = s
    <3>1. CASE current' = 0
      BY <3>1, <1>2, <1>3 DEF Events!Listeners
    <3>2. CASE current' # 0
      BY <3>2, <1>3, <1>5 DEF Events!Listeners
    <3> QED
      BY <3>1, <3>2
  <2> QED
    BY <2>2, <2>3
<1> QED
  BY <1>1, <1>5, <1>6, <1>7, <1>8, <1>9, <1>10

-----------------------------------------------------------------------------
(* A step that calls no listener.                                           *)
LEMMA QuietStep ==
  ASSUME Typed, Typed', IdsInv, NotRun, RunsInv, CopyInv, ~nested' => ~nested,
         added' \in Nat, added' >= added, heard' = heard,
         \A m \in 1 .. Len(emits') : emits'[m].kind = "emit" =>
           m \in 1 .. Len(emits) /\ emits'[m] = emits[m],
         \A j \in 1 .. Len(registered') :
           \/ \E k \in 1 .. Len(registered) : registered'[j] = registered[k]
           \/ registered'[j].id > added
  PROVE  NotRun' /\ RunsInv' /\ CopyInv'
<1>t. /\ \A j \in 1 .. Len(registered') : registered'[j] \in Events!EntryOf
      /\ \A m \in 1 .. Len(emits) : emits[m] \in Frame
      /\ added \in Nat /\ MaxAdd \in Nat
  BY DEF Typed
<1>1. NotRun'
  <2> SUFFICES ASSUME ~nested', NEW j \in 1 .. Len(registered')
               PROVE  heard[registered'[j].id] = 0
    BY DEF NotRun
  <2>1. registered'[j].id \in 1 .. MaxAdd
    BY <1>t, EntryIds
  <2> QED
    BY <2>1 DEF NotRun, RunsInv
<1>2. RunsInv'
  BY <1>t DEF RunsInv
<1>3. CopyInv'
  <2> SUFFICES ASSUME ~nested'
               PROVE  /\ \A m \in 1 .. Len(emits') : emits'[m].kind = "emit" => CopyGood(emits'[m], added', registered', heard')
                      /\ \A m, n \in 1 .. Len(emits') : emits'[m].kind = "emit" /\ emits'[n].kind = "emit" => m = n
    BY DEF CopyInv, CopyOk
  <2>1. \A m, n \in 1 .. Len(emits') : emits'[m].kind = "emit" /\ emits'[n].kind = "emit" => m = n
    BY DEF CopyInv
  <2>2. ASSUME NEW m \in 1 .. Len(emits'), emits'[m].kind = "emit" PROVE CopyGood(emits'[m], added', registered', heard')
    <3> DEFINE f == emits[m]
    <3>1. m \in 1 .. Len(emits) /\ emits'[m] = f /\ CopyOk(f) /\ f \in EmitFrame
      BY <2>2, <1>t, FrameKinds DEF CopyInv
    <3>2. \A i \in 1 .. Len(f.copy) : f.copy[i] \in Events!EntryOf
      BY <3>1 DEF EmitFrame
    <3> HIDE DEF f
    <3>3. \A i \in 1 .. Len(f.copy) : f.copy[i].id <= added /\ f.copy[i].id \in Nat
      BY <1>t, <3>1, <3>2, EntryIds DEF CopyOk, CopyGood
    <3>4. \A i \in 1 .. Len(f.copy), j \in 1 .. Len(registered') :
            f.copy[i].id = registered'[j].id => f.copy[i] = registered'[j]
      <4> SUFFICES ASSUME NEW i \in 1 .. Len(f.copy), NEW j \in 1 .. Len(registered'),
                          f.copy[i].id = registered'[j].id
                   PROVE  f.copy[i] = registered'[j]
        OBVIOUS
      <4>0. f.copy[i].id <= added /\ f.copy[i].id \in Nat
        BY <3>3
      <4>1. ~(registered'[j].id > added)
        BY <4>0, <1>t
      <4>2. PICK k \in 1 .. Len(registered) : registered'[j] = registered[k]
        BY <4>1
      <4>3. \A l \in 1 .. Len(f.copy), k2 \in 1 .. Len(registered) :
              f.copy[l].id = registered[k2].id => f.copy[l] = registered[k2]
        BY <3>1 DEF CopyOk, CopyGood
      <4> QED
        BY <4>2, <4>3
    <3>5. \A i \in 1 .. Len(f.copy) : f.copy[i].id <= added'
      BY <3>3, <1>t
    <3> QED
      BY <3>1, <3>4, <3>5 DEF CopyOk, CopyGood
  <2> QED
    BY <2>1, <2>2
<1> QED
  BY <1>1, <1>2, <1>3

\* A step that leaves arrays and entries as they are.
LEMMA StackStep ==
  ASSUME EmitterInv, emits' \in Seq(Frame), UNCHANGED <<arrays, current, added, registered, heard>>,
         ~nested' => ~nested,
         \A m \in 1 .. Len(emits') : emits'[m].kind \in {"emit", "removed"} =>
           m \in 1 .. Len(emits) /\ emits'[m] = emits[m]
  PROVE  EmitterInv'
<1>1. Typed'
  BY DEF EmitterInv, Typed
<1>2. ToldInv' /\ KeptInv' /\ IdsInv'
  BY DEF EmitterInv, ToldInv, KeptInv, IdsInv, Events!Listeners
<1>3. NotRun' /\ RunsInv' /\ CopyInv'
  <2>1. /\ added' \in Nat /\ added' >= added
        /\ \A j \in 1 .. Len(registered') : \E k \in 1 .. Len(registered) : registered'[j] = registered[k]
    BY DEF EmitterInv, Typed
  <2> QED
    BY <1>1, <2>1, QuietStep DEF EmitterInv
<1> QED
  BY <1>1, <1>2, <1>3 DEF EmitterInv

\* A removal, from user code or in removeAllListeners.
LEMMA DropStep ==
  ASSUME EmitterInv, NEW matching, NEW rest, SameKinds(rest), Events!Drop(matching, rest),
         UNCHANGED <<added, heard>>,
         \A i \in 1 .. Len(emits) : emits[i].kind = "emit" => rest[i] = emits[i]
  PROVE  EmitterInv'
<1>i. Typed /\ ToldInv /\ KeptInv /\ IdsInv /\ NotRun /\ RunsInv /\ CopyInv
  BY DEF EmitterInv
<1>1. /\ arrays' \in Seq(Seq(Events!EntryOf)) /\ current' \in 0 .. Len(arrays')
      /\ registered' \in Seq(Events!EntryOf) /\ emits' \in Seq(Frame)
      /\ ToldInv' /\ KeptInv' /\ (~nested' => ~nested)
      /\ registered' = Events!Without(registered, matching)
      /\ \A i \in 1 .. Len(emits') : emits'[i].kind # "removed" =>
            i \in 1 .. Len(rest) /\ emits'[i] = rest[i]
  BY <1>i, DropKeeps
<1>2. Typed'
  BY <1>1, <1>i DEF Typed
<1>3. /\ \A i \in 1 .. Len(registered') : \E j \in 1 .. Len(registered) : registered'[i] = registered[j]
      /\ \A i, j \in 1 .. Len(registered') : registered'[i].id = registered'[j].id => i = j
  <2>1. registered \in Seq(Events!EntryOf) /\ registered' = Events!Without(registered, matching)
        /\ \A i, j \in 1 .. Len(registered) : registered[i].id = registered[j].id => i = j
    BY <1>1, <1>i DEF Typed, IdsInv
  <2> QED
    BY <2>1, WithoutFrom
<1>4. IdsInv'
  BY <1>3, <1>i DEF IdsInv
<1>5. \A m \in 1 .. Len(emits') : emits'[m].kind = "emit" =>
           m \in 1 .. Len(emits) /\ emits'[m] = emits[m]
  BY <1>1 DEF SameKinds
<1>6. added' \in Nat /\ added' >= added
  BY <1>i DEF Typed
<1>7. NotRun' /\ RunsInv' /\ CopyInv'
  BY <1>1, <1>2, <1>3, <1>5, <1>6, <1>i, QuietStep
<1> QED
  BY <1>1, <1>2, <1>4, <1>7 DEF EmitterInv

-----------------------------------------------------------------------------
LEMMA EmitterInit == ASSUME MaxAdd \in Nat, Events!Init PROVE EmitterInv
<1>1. Len(<< >>) = 0 /\ << >> \in Seq(Frame) /\ << >> \in Seq(Events!EntryOf) /\ << >> \in Seq(Seq(Events!EntryOf))
  OBVIOUS
<1>2. Typed
  BY <1>1 DEF Events!Init, Typed
<1>3. ToldInv /\ KeptInv /\ IdsInv /\ NotRun /\ RunsInv /\ CopyInv
  BY <1>1 DEF Events!Init, ToldInv, KeptInv, IdsInv, NotRun, RunsInv, CopyInv, Events!Listeners
<1> QED
  BY <1>2, <1>3 DEF EmitterInv

LEMMA AddKeeps ==
  ASSUME EmitterInv, MaxAdd \in Nat, NEW fn \in Fn, NEW once \in BOOLEAN, NEW first \in BOOLEAN,
         Events!Add(fn, once, first)
  PROVE  EmitterInv'
<1> DEFINE entry == [id |-> added + 1, fn |-> fn, once |-> once]
           Put(s) == IF first THEN <<entry>> \o s ELSE Append(s, entry)
<1>i. Typed /\ ToldInv /\ KeptInv /\ IdsInv /\ NotRun /\ RunsInv /\ CopyInv
  BY DEF EmitterInv
<1>1. /\ added < MaxAdd /\ added' = added + 1
      /\ IF current = 0
         THEN arrays' = Append(arrays, <<entry>>) /\ current' = Len(arrays) + 1
         ELSE arrays' = [arrays EXCEPT ![current] = Put(@)] /\ UNCHANGED current
      /\ registered' = Put(registered)
      /\ UNCHANGED <<watched, emits, heard, nested>>
  BY DEF Events!Add
<1>2. entry \in Events!EntryOf /\ entry.id = added + 1 /\ added \in Nat
  BY <1>1, <1>i, NewEntry DEF Typed
<1> HIDE DEF entry
<1>3. ASSUME NEW s \in Seq(Events!EntryOf)
      PROVE  /\ Put(s) \in Seq(Events!EntryOf) /\ Len(Put(s)) = Len(s) + 1
             /\ \E p \in {1, Len(s) + 1} : Put(s)[p] = entry /\
                  \A i \in 1 .. Len(s) + 1 : i # p =>
                    \E j \in {i, i - 1} : j \in 1 .. Len(s) /\ Put(s)[i] = s[j] /\ j = (IF p = 1 THEN i - 1 ELSE i)
  <2>1. CASE first
    <3>1. Put(s) = <<entry>> \o s
      BY <2>1
    <3>2. /\ Put(s) \in Seq(Events!EntryOf) /\ Len(Put(s)) = Len(s) + 1 /\ Put(s)[1] = entry
          /\ \A i \in 1 .. Len(s) : Put(s)[i + 1] = s[i]
      BY <3>1, <1>2, Prepended
    <3> HIDE DEF Put
    <3>3. \A i \in 1 .. Len(s) + 1 : i # 1 => i - 1 \in 1 .. Len(s) /\ Put(s)[i] = s[i - 1]
      <4> SUFFICES ASSUME NEW i \in 1 .. Len(s) + 1, i # 1
                   PROVE  i - 1 \in 1 .. Len(s) /\ Put(s)[i] = s[i - 1]
        OBVIOUS
      <4>1. i - 1 \in 1 .. Len(s) /\ (i - 1) + 1 = i
        OBVIOUS
      <4> QED
        BY <4>1, <3>2
    <3> QED
      BY <3>2, <3>3
  <2>2. CASE ~first
    <3>1. Put(s) = Append(s, entry)
      BY <2>2
    <3>2. /\ Put(s) \in Seq(Events!EntryOf) /\ Len(Put(s)) = Len(s) + 1 /\ Put(s)[Len(s) + 1] = entry
          /\ \A i \in 1 .. Len(s) : Put(s)[i] = s[i]
      BY <3>1, <1>2, Appended
    <3> HIDE DEF Put
    <3>3. \A i \in 1 .. Len(s) + 1 : i # Len(s) + 1 => i \in 1 .. Len(s)
      OBVIOUS
    <3>4. Len(s) + 1 = 1 => \A i \in 1 .. Len(s) + 1 : i = 1
      OBVIOUS
    <3> QED
      BY <3>2, <3>3, <3>4
  <2> QED
    BY <2>1, <2>2
<1>4. Put(<< >>) = <<entry>>
  OBVIOUS
<1>5. registered' \in Seq(Events!EntryOf) /\ Len(registered') = Len(registered) + 1
  BY <1>1, <1>3, <1>i DEF Typed
<1>6. arrays' \in Seq(Seq(Events!EntryOf)) /\ current' \in 1 .. Len(arrays')
      /\ arrays'[current'] = Put(Events!Listeners) /\ (current # 0 => current' = current)
  <2>1. CASE current = 0
    <3>1. <<entry>> \in Seq(Events!EntryOf)
      BY <1>2
    <3>2. arrays' \in Seq(Seq(Events!EntryOf)) /\ Len(arrays') = Len(arrays) + 1
          /\ arrays'[Len(arrays) + 1] = <<entry>> /\ Len(arrays) \in Nat
      <4> DEFINE a == <<entry>>
      <4>1. a \in Seq(Events!EntryOf) /\ arrays' = Append(arrays, a) /\ arrays \in Seq(Seq(Events!EntryOf))
        BY <3>1, <2>1, <1>1, <1>i DEF Typed
      <4> HIDE DEF a
      <4>2. arrays' \in Seq(Seq(Events!EntryOf)) /\ Len(arrays') = Len(arrays) + 1
            /\ arrays'[Len(arrays) + 1] = a /\ Len(arrays) \in Nat
        BY <4>1, Appended
      <4> QED
        BY <4>2 DEF a
    <3>3. Events!Listeners = << >>
      BY <2>1 DEF Events!Listeners
    <3> HIDE DEF Put
    <3> QED
      BY SMTT(20), <3>2, <3>3, <1>1, <1>4, <2>1
  <2>2. CASE current # 0
    <3>1. current \in 1 .. Len(arrays) /\ arrays[current] \in Seq(Events!EntryOf) /\ Events!Listeners = arrays[current]
      BY <2>2, <1>i DEF Typed, Events!Listeners
    <3>2. Put(arrays[current]) \in Seq(Events!EntryOf)
      BY <3>1, <1>3
    <3>3. arrays' = [arrays EXCEPT ![current] = Put(arrays[current])] /\ current' = current
      BY <2>2, <1>1
    <3> HIDE DEF Put
    <3> QED
      BY <3>1, <3>2, <3>3, <1>i, Replaced DEF Typed
  <2> QED
    BY <2>1, <2>2
<1>7. Typed'
  BY SMTT(20), <1>1, <1>2, <1>5, <1>6, <1>i DEF Typed
<1>8. ToldInv' /\ KeptInv'
  <2>1. Events!Listeners' = Put(Events!Listeners)
    BY <1>6, <1>7 DEF Events!Listeners
  <2>2. registered' = Put(registered)
    BY <1>1
  <2> HIDE DEF Put
  <2>3. KeptInv'
    BY <2>1, <2>2, <1>1, <1>i DEF KeptInv
  <2>4. ToldInv'
    BY <1>1, <1>6, <1>i DEF ToldInv
  <2> QED
    BY <2>3, <2>4
<1>9. IdsInv' /\ \A j \in 1 .. Len(registered') :
           \/ \E k \in 1 .. Len(registered) : registered'[j] = registered[k]
           \/ registered'[j].id > added
  <2>1. PICK p \in {1, Len(registered) + 1} : registered'[p] = entry /\
                  \A i \in 1 .. Len(registered) + 1 : i # p =>
                    \E j \in {i, i - 1} : j \in 1 .. Len(registered) /\ registered'[i] = registered[j]
                                          /\ j = (IF p = 1 THEN i - 1 ELSE i)
    BY <1>1, <1>3, <1>i DEF Typed
  <2> DEFINE Old(i) == IF p = 1 THEN i - 1 ELSE i
  <2>2. \A i \in 1 .. Len(registered') : i # p =>
          Old(i) \in 1 .. Len(registered) /\ registered'[i] = registered[Old(i)]
          /\ registered[Old(i)].id <= added /\ registered[Old(i)].id \in Nat
    <3> SUFFICES ASSUME NEW i \in 1 .. Len(registered'), i # p
                 PROVE  Old(i) \in 1 .. Len(registered) /\ registered'[i] = registered[Old(i)]
          /\ registered[Old(i)].id <= added /\ registered[Old(i)].id \in Nat
      OBVIOUS
    <3>1. Old(i) \in 1 .. Len(registered) /\ registered'[i] = registered[Old(i)]
      BY <2>1, <1>5
    <3>2. registered[Old(i)] \in Events!EntryOf
      BY <3>1, <1>i DEF Typed
    <3> HIDE DEF Old
    <3> QED
      BY <3>1, <3>2, <1>i, EntryIds DEF IdsInv
  <2>3. \A j \in 1 .. Len(registered') :
           \/ \E k \in 1 .. Len(registered) : registered'[j] = registered[k]
           \/ registered'[j].id > added
    <3> HIDE DEF Old
    <3> QED
      BY <2>1, <2>2, <1>2
  <2>4. \A i \in 1 .. Len(registered') : registered'[i].id <= added + 1
    <3> SUFFICES ASSUME NEW i \in 1 .. Len(registered') PROVE registered'[i].id <= added + 1
      OBVIOUS
    <3>1. CASE i = p
      BY <3>1, <2>1, <1>2
    <3>2. CASE i # p
      <4> HIDE DEF Old
      <4>1. registered'[i].id <= added /\ registered'[i].id \in Nat
        BY <3>2, <2>2
      <4> QED
        BY <4>1, <1>2
    <3> QED
      BY <3>1, <3>2
  <2>5. \A i, j \in 1 .. Len(registered') : registered'[i].id = registered'[j].id => i = j
    <3> SUFFICES ASSUME NEW i \in 1 .. Len(registered'), NEW j \in 1 .. Len(registered'),
                        registered'[i].id = registered'[j].id
                 PROVE  i = j
      OBVIOUS
    <3>1. CASE i = p /\ j = p
      BY <3>1
    <3>2. CASE i = p /\ j # p
      <4> HIDE DEF Old
      <4>1. registered'[j].id <= added /\ registered'[j].id \in Nat /\ registered'[i].id = added + 1
        BY <3>2, <2>1, <2>2, <1>2
      <4> QED
        BY <4>1, <1>2
    <3>3. CASE i # p /\ j = p
      <4> HIDE DEF Old
      <4>1. registered'[i].id <= added /\ registered'[i].id \in Nat /\ registered'[j].id = added + 1
        BY <3>3, <2>1, <2>2, <1>2
      <4> QED
        BY <4>1, <1>2
    <3>4. CASE i # p /\ j # p
      <4>1. Old(i) \in 1 .. Len(registered) /\ Old(j) \in 1 .. Len(registered)
            /\ registered[Old(i)].id = registered[Old(j)].id
        <5> HIDE DEF Old
        <5> QED
          BY <3>4, <2>2
      <4>2. Old(i) = Old(j)
        <5> HIDE DEF Old
        <5> QED
          BY <4>1, <1>i DEF IdsInv
      <4> QED
        BY <4>2
    <3> QED
      BY <3>1, <3>2, <3>3, <3>4
  <2> QED
    BY <2>3, <2>4, <2>5, <1>1 DEF IdsInv
<1>10. NotRun' /\ RunsInv' /\ CopyInv'
  <2>1. added' \in Nat /\ added' >= added /\ heard' = heard /\ (~nested' => ~nested)
        /\ \A m \in 1 .. Len(emits') : m \in 1 .. Len(emits) /\ emits'[m] = emits[m]
    BY <1>1, <1>2
  <2> QED
    BY <2>1, <1>7, <1>9, <1>i, QuietStep
<1> QED
  BY <1>7, <1>8, <1>9, <1>10 DEF EmitterInv

\* The frame on top.
LEMMA TopIs ==
  ASSUME Typed, emits # << >>
  PROVE  /\ Len(emits) \in Nat \ {0} /\ Len(emits) \in 1 .. Len(emits)
         /\ Events!Top = emits[Len(emits)] /\ Events!Top \in Frame
         /\ \A g \in Frame :
              /\ Events!WithTop(g) \in Seq(Frame) /\ Len(Events!WithTop(g)) = Len(emits)
              /\ Events!WithTop(g)[Len(emits)] = g
              /\ \A i \in 1 .. Len(emits) : i # Len(emits) => Events!WithTop(g)[i] = emits[i]
<1>1. Len(emits) \in Nat \ {0} /\ Len(emits) \in 1 .. Len(emits)
  BY DEF Typed
<1> QED
  BY <1>1, Replaced DEF Typed, Events!Top, Events!WithTop

LEMMA RemovalKeeps ==
  ASSUME EmitterInv, MaxAdd \in Nat,
         (\E fn \in Fn : Events!Off(fn)) \/ (\E every \in BOOLEAN : Events!OffAll(every)) \/ Events!OffNext \/ Events!OffAllEnds \/ Events!RemovalTold
  PROVE  EmitterInv'
<1>i. Typed /\ ToldInv /\ KeptInv /\ IdsInv /\ NotRun /\ RunsInv /\ CopyInv
  BY DEF EmitterInv
<1>s. SameKinds(emits)
  <2>1. \A i \in 1 .. Len(emits) : emits[i] \in Frame
    BY <1>i DEF Typed
  <2> QED
    BY <2>1, <1>i, FrameKinds DEF SameKinds, Typed
<1>1. ASSUME NEW fn \in Fn, Events!Off(fn) PROVE EmitterInv'
  BY <1>1, <1>s, DropStep DEF Events!Off
<1>2. ASSUME NEW every \in BOOLEAN, Events!OffAll(every) PROVE EmitterInv'
  <2>1. CASE watched /\ current # 0
    <3> DEFINE f == [kind |-> "all", array |-> current, at |-> Len(Events!Listeners), every |-> every]
    <3>1. Len(Events!Listeners) \in Nat /\ current \in Nat
      BY <1>i, <2>1 DEF Typed, Events!Listeners
    <3>2. f \in Frame /\ f.kind = "all"
      BY <3>1, NewAll, FrameSets
    <3>3. emits' = Append(emits, f) /\ UNCHANGED <<arrays, current, added, registered, heard>>
          /\ (~nested' => ~nested)
      BY <1>2, <2>1 DEF Events!OffAll
    <3> HIDE DEF f
    <3>4. emits' \in Seq(Frame) /\ Len(emits') = Len(emits) + 1 /\ emits'[Len(emits) + 1] = f
          /\ (\A i \in 1 .. Len(emits) : emits'[i] = emits[i]) /\ Len(emits) \in Nat
      BY <3>2, <3>3, <1>i, Appended DEF Typed
    <3>5. \A m \in 1 .. Len(emits') : emits'[m].kind \in {"emit", "removed"} =>
           m \in 1 .. Len(emits) /\ emits'[m] = emits[m]
      BY <3>2, <3>4
    <3> QED
      BY <3>3, <3>4, <3>5, StackStep
  <2>2. CASE ~(watched /\ current # 0)
    <3>1. /\ current' = 0 /\ registered' = << >> /\ UNCHANGED <<emits, arrays, added, heard>>
          /\ nested' = (nested \/ Events!TellsRemoval(emits))
      BY <1>2, <2>2 DEF Events!OffAll
    <3>2. << >> \in Seq(Events!EntryOf) /\ 1 .. Len(<< >>) = {} /\ Len(arrays) \in Nat /\ Len(emits) \in Nat
          /\ DOMAIN emits = 1 .. Len(emits)
      BY <1>i DEF Typed
    <3>3. Typed'
      BY <3>1, <3>2, <1>i DEF Typed
    <3>4. ~nested' => ~nested /\ \A i \in 1 .. Len(emits) : emits[i].kind # "removed"
      BY <3>1, <3>2 DEF Events!TellsRemoval
    <3>5. ToldInv' /\ KeptInv' /\ IdsInv'
      BY <3>1, <3>2, <3>4 DEF ToldInv, KeptInv, IdsInv, Events!Listeners
    <3>6. added' \in Nat /\ added' >= added
      BY <3>1, <1>i DEF Typed
    <3>7. NotRun' /\ RunsInv' /\ CopyInv'
      BY <3>1, <3>2, <3>3, <3>4, <3>6, <1>i, QuietStep
    <3> QED
      BY <3>3, <3>5, <3>7 DEF EmitterInv
  <2> QED
    BY <2>1, <2>2
<1>3. CASE Events!OffNext
  <2>1. emits # << >> /\ Events!Top.kind = "all" /\ Events!Top.at > 0 /\ UNCHANGED <<added, heard>>
    BY <1>3 DEF Events!OffNext
  <2>2. CASE Events!Top.at > Len(arrays[Events!Top.array])
    <3>1. emits' = << >> /\ UNCHANGED <<arrays, current, registered, nested>>
      BY <1>3, <2>2 DEF Events!OffNext
    <3>2. << >> \in Seq(Frame) /\ 1 .. Len(<< >>) = {}
      OBVIOUS
    <3> QED
      BY <3>1, <3>2, <2>1, StackStep
  <2>3. CASE ~(Events!Top.at > Len(arrays[Events!Top.array]))
    <3> DEFINE g == [Events!Top EXCEPT !.at = @ - 1]
               matching == {e \in Events!EntryOf : e.fn = arrays[Events!Top.array][Events!Top.at].fn}
    <3>1. Events!Drop(matching, Events!WithTop(g))
      BY <1>3, <2>3 DEF Events!OffNext
    <3>2. Events!Top \in AllFrame
      BY <2>1, <1>i, TopIs, FrameKinds
    <3>3. g \in Frame /\ g.kind = "all"
      BY <2>1, <3>2, AllSteps, FrameSets
    <3> HIDE DEF g, matching
    <3>4. /\ Events!WithTop(g) \in Seq(Frame) /\ Len(Events!WithTop(g)) = Len(emits)
          /\ Events!WithTop(g)[Len(emits)] = g /\ Events!Top = emits[Len(emits)]
          /\ \A i \in 1 .. Len(emits) : i # Len(emits) => Events!WithTop(g)[i] = emits[i]
      BY <2>1, <3>3, <1>i, TopIs
    <3>5. SameKinds(Events!WithTop(g)) /\ \A i \in 1 .. Len(emits) : emits[i].kind = "emit" => Events!WithTop(g)[i] = emits[i]
      BY <3>4, <3>3, <2>1, <1>s DEF SameKinds
    <3> QED
      BY <3>1, <3>5, <2>1, DropStep
  <2> QED
    BY <2>2, <2>3
<1>4. CASE Events!OffAllEnds
  <2>1. emits # << >> /\ emits' = Events!Front(emits) /\ UNCHANGED <<arrays, current, added, registered, heard, nested>>
    BY <1>4 DEF Events!OffAllEnds
  <2>2. emits' \in Seq(Frame) /\ \A m \in 1 .. Len(emits') : m \in 1 .. Len(emits) /\ emits'[m] = emits[m]
    <3>1. /\ emits' \in Seq(Frame) /\ Len(emits') = Len(emits) - 1 /\ Len(emits) \in Nat \ {0}
          /\ \A i \in 1 .. Len(emits) - 1 : emits'[i] = emits[i]
      BY <2>1, <1>i, FrontIs DEF Typed
    <3> QED
      BY <3>1
  <2> QED
    BY <2>1, <2>2, StackStep
<1>5. CASE Events!RemovalTold
  <2>1. /\ emits # << >> /\ Events!Top.kind = "removed" /\ emits' = Events!Front(emits)
        /\ current' = IF arrays[Events!Top.array] = << >> THEN 0 ELSE current
        /\ UNCHANGED <<arrays, added, registered, heard, nested>>
    BY <1>5 DEF Events!RemovalTold
  <2>2. emits' \in Seq(Frame) /\ Len(emits') = Len(emits) - 1 /\ Len(emits) \in Nat \ {0}
        /\ \A m \in 1 .. Len(emits') : m \in 1 .. Len(emits) /\ m # Len(emits) /\ emits'[m] = emits[m]
    <3>1. /\ emits' \in Seq(Frame) /\ Len(emits') = Len(emits) - 1 /\ Len(emits) \in Nat \ {0}
          /\ \A i \in 1 .. Len(emits) - 1 : emits'[i] = emits[i]
      BY <2>1, <1>i, FrontIs DEF Typed
    <3> QED
      BY <3>1
  <2>3. Events!Top = emits[Len(emits)] /\ Len(emits) \in 1 .. Len(emits)
    BY <2>2 DEF Events!Top
  <2>4. Typed'
    BY <2>1, <2>2, <1>i DEF Typed
  <2>5. ~nested => current # 0 /\ Events!Top.array = current /\ \A m \in 1 .. Len(emits') : emits'[m].kind # "removed"
    BY <2>1, <2>2, <2>3, <1>i DEF ToldInv
  <2>6. ToldInv' /\ KeptInv'
    BY <2>1, <2>5, <1>i DEF ToldInv, KeptInv, Events!Listeners
  <2>7. IdsInv' /\ added' \in Nat /\ added' >= added
    BY SMTT(20), <2>1, <1>i DEF IdsInv, Typed
  <2>8. NotRun' /\ RunsInv' /\ CopyInv'
    BY <2>1, <2>2, <2>4, <2>7, <1>i, QuietStep
  <2> QED
    BY <2>4, <2>6, <2>7, <2>8 DEF EmitterInv
<1> QED
  BY <1>1, <1>2, <1>3, <1>4, <1>5

LEMMA EmitKeeps ==
  ASSUME EmitterInv, Events!Emit
  PROVE  EmitterInv'
<1>i. Typed /\ ToldInv /\ KeptInv /\ IdsInv /\ NotRun /\ RunsInv /\ CopyInv
  BY DEF EmitterInv
<1> DEFINE f == [kind |-> "emit", copy |-> Events!Listeners, at |-> 1, running |-> FALSE]
<1>1. /\ emits' = Append(emits, f) /\ UNCHANGED <<arrays, current, added, registered, heard>>
      /\ nested' = (nested \/ \E i \in DOMAIN emits : emits[i].kind = "emit")
  BY DEF Events!Emit
<1>2. Events!Listeners \in Seq(Events!EntryOf)
  BY <1>i DEF Typed, Events!Listeners
<1>3. f \in EmitFrame /\ f \in Frame /\ f.kind = "emit" /\ f.copy = Events!Listeners /\ f.at = 1 /\ ~f.running
  BY <1>2, NewEmit, FrameSets
<1> HIDE DEF f
<1>4. emits' \in Seq(Frame) /\ Len(emits') = Len(emits) + 1 /\ emits'[Len(emits) + 1] = f
      /\ (\A i \in 1 .. Len(emits) : emits'[i] = emits[i]) /\ Len(emits) \in Nat
      /\ DOMAIN emits = 1 .. Len(emits)
  BY <1>1, <1>3, <1>i, Appended DEF Typed
<1>5. \A m \in 1 .. Len(emits') : (m \in 1 .. Len(emits) /\ emits'[m] = emits[m])
                                  \/ (m = Len(emits) + 1 /\ emits'[m] = f)
  BY <1>4
<1>6. ~nested' => ~nested /\ \A i \in 1 .. Len(emits) : emits[i].kind # "emit"
  BY <1>1, <1>4
<1>7. Typed' /\ IdsInv' /\ NotRun' /\ RunsInv' /\ KeptInv'
  BY <1>1, <1>4, <1>6, <1>i DEF Typed, IdsInv, NotRun, RunsInv, KeptInv, Events!Listeners
<1>8. ToldInv'
  <2>1. f.kind # "removed"
    BY <1>3
  <2> QED
    BY <2>1, <1>1, <1>4, <1>5, <1>6, <1>i DEF ToldInv
<1>9. CopyInv'
  <2> SUFFICES ASSUME ~nested'
               PROVE  /\ \A m \in 1 .. Len(emits') : emits'[m].kind = "emit" => CopyGood(emits'[m], added', registered', heard')
                      /\ \A m, n \in 1 .. Len(emits') : emits'[m].kind = "emit" /\ emits'[n].kind = "emit" => m = n
    BY DEF CopyInv, CopyOk
  <2>1. \A m \in 1 .. Len(emits') : emits'[m].kind = "emit" => m = Len(emits) + 1 /\ emits'[m] = f
    BY <1>5, <1>6
  <2>2. f.copy = registered
    BY <1>3, <1>6, <1>i DEF KeptInv
  <2>3. CopyGood(f, added', registered', heard')
    <3>1. \A i \in 1 .. Len(registered) : heard[registered[i].id] = 0
      BY <1>6, <1>i DEF NotRun
    <3>2. \A i, j \in 1 .. Len(registered) : registered[i].id = registered[j].id => registered[i] = registered[j]
      BY <1>i DEF IdsInv
    <3> QED
      BY <3>1, <3>2, <2>2, <1>1, <1>i DEF CopyOk, CopyGood, IdsInv
  <2> QED
    BY <2>1, <2>3
<1> QED
  BY <1>7, <1>8, <1>9 DEF EmitterInv

LEMMA CallKeeps ==
  ASSUME EmitterInv, Events!Call
  PROVE  EmitterInv'
<1>i. Typed /\ ToldInv /\ KeptInv /\ IdsInv /\ NotRun /\ RunsInv /\ CopyInv
  BY DEF EmitterInv
<1> DEFINE top == Len(emits)
           f == emits[Len(emits)]
           entry == f.copy[f.at]
           g == [f EXCEPT !.running = TRUE]
           rest == Events!WithTop(g)
<1>1. /\ emits # << >> /\ f.kind = "emit" /\ ~f.running /\ f.at <= Len(f.copy)
      /\ heard' = [heard EXCEPT ![entry.id] = @ + (IF entry.once THEN 1 ELSE 0)]
      /\ IF entry.once /\ current # 0
         THEN Events!Drop({entry}, rest)
         ELSE emits' = rest /\ UNCHANGED <<arrays, current, registered, nested>>
      /\ UNCHANGED <<watched, added>>
  BY DEF Events!Call, Events!Top
<1>2. f \in EmitFrame /\ top \in 1 .. Len(emits) /\ Len(emits) \in Nat \ {0}
  <2>1. f \in Frame /\ top \in 1 .. Len(emits) /\ Len(emits) \in Nat \ {0}
    BY <1>1, <1>i, TopIs DEF Events!Top
  <2> QED
    BY <2>1, <1>1, FrameKinds
<1>3. g \in EmitFrame /\ g \in Frame /\ g.kind = "emit" /\ g.copy = f.copy /\ g.at = f.at /\ g.running
  BY <1>2, EmitRuns, FrameSets
<1> HIDE DEF f, g
<1>4. /\ rest \in Seq(Frame) /\ Len(rest) = Len(emits) /\ rest[top] = g
      /\ \A i \in 1 .. Len(emits) : i # top => rest[i] = emits[i]
  BY <1>1, <1>3, <1>i, TopIs
<1> HIDE DEF rest
<1>f. f = emits[top]
  BY DEF f
<1>5. SameKinds(rest)
  <2>1. \A i \in 1 .. Len(emits) : emits[i] \in Frame
    BY <1>i DEF Typed
  <2> QED
    BY <2>1, <1>1, <1>3, <1>4, <1>f, FrameKinds DEF SameKinds
<1>6. \A i \in 1 .. Len(f.copy) : f.copy[i] \in Events!EntryOf /\ f.copy[i].id \in 1 .. MaxAdd
  BY <1>2, EntryIds DEF EmitFrame
<1>a. f.at \in Nat \ {0} /\ Len(f.copy) \in Nat
  BY <1>2 DEF EmitFrame
<1>7. /\ arrays' \in Seq(Seq(Events!EntryOf)) /\ current' \in 0 .. Len(arrays')
      /\ registered' \in Seq(Events!EntryOf) /\ emits' \in Seq(Frame)
      /\ ToldInv' /\ KeptInv' /\ (~nested' => ~nested)
      /\ (\A i \in 1 .. Len(emits') : emits'[i].kind # "removed" =>
            i \in 1 .. Len(rest) /\ emits'[i] = rest[i])
      /\ registered' = registered \/ registered' = Events!Without(registered, {entry})
      /\ entry.once /\ ~nested' => registered' = Events!Without(registered, {entry})
  <2>1. CASE entry.once /\ current # 0
    <3>1. Events!Drop({entry}, rest)
      BY <1>1, <2>1
    <3> HIDE DEF entry
    <3> QED
      BY <3>1, <1>5, <1>i, DropKeeps
  <2>2. CASE ~(entry.once /\ current # 0)
    <3>1. emits' = rest /\ UNCHANGED <<arrays, current, registered, nested>>
      BY <1>1, <2>2
    <3>2. ToldInv' /\ KeptInv'
      <4>1. \A i \in 1 .. Len(emits) : emits'[i].kind = "removed" => emits[i].kind = "removed" /\ emits'[i] = emits[i]
        BY <3>1, <1>3, <1>4
      <4> QED
        BY <4>1, <3>1, <1>4, <1>i DEF ToldInv, KeptInv, Events!Listeners
    <3>3. current = 0 /\ ~nested => registered = << >>
      BY <1>i DEF KeptInv, Events!Listeners
    <3>4. current = 0 /\ ~nested => registered' = Events!Without(registered, {entry})
      BY <3>3, <3>1, WithoutNothing
    <3> HIDE DEF entry
    <3> QED
      BY <3>1, <3>2, <3>4, <2>2, <1>4, <1>i DEF Typed
  <2> QED
    BY <2>1, <2>2
<1>e. entry \in Events!EntryOf /\ entry.id \in 1 .. MaxAdd /\ f.at \in 1 .. Len(f.copy) /\ MaxAdd \in Nat
  BY <1>1, <1>6, <1>a, <1>i DEF Typed
<1>8. heard' \in [1 .. MaxAdd -> Nat]
  <2> DEFINE n == IF entry.once THEN 1 ELSE 0
  <2>1. n \in Nat /\ heard' = [heard EXCEPT ![entry.id] = @ + n]
    BY <1>1
  <2> HIDE DEF entry, n
  <2> QED
    BY SMTT(20), <2>1, <1>e, <1>i DEF Typed
<1>9. Typed'
  BY <1>1, <1>7, <1>8, <1>i DEF Typed
<1>10. /\ \A i \in 1 .. Len(registered') : \E j \in 1 .. Len(registered) : registered'[i] = registered[j]
       /\ \A i, j \in 1 .. Len(registered') : registered'[i].id = registered'[j].id => i = j
  <2>1. CASE registered' = registered
    BY <2>1, <1>i DEF IdsInv
  <2>2. CASE registered' = Events!Without(registered, {entry})
    <3> DEFINE m == {entry}
    <3>1. registered \in Seq(Events!EntryOf) /\ registered' = Events!Without(registered, m)
          /\ \A i, j \in 1 .. Len(registered) : registered[i].id = registered[j].id => i = j
      BY <2>2, <1>i DEF Typed, IdsInv
    <3> HIDE DEF m
    <3> DEFINE w == Events!Without(registered, m)
    <3>2. /\ \A i \in 1 .. Len(w) : \E j \in 1 .. Len(registered) : w[i] = registered[j]
          /\ \A i, j \in 1 .. Len(w) : w[i].id = w[j].id => i = j
      BY SMTT(20), <3>1, WithoutFrom
    <3>3. registered' = w
      BY <3>1
    <3> HIDE DEF w
    <3> QED
      BY <3>2, <3>3
  <2> QED
    BY <2>1, <2>2, <1>7
<1>11. IdsInv'
  BY <1>1, <1>10, <1>i DEF IdsInv
<1>12. CASE nested'
  BY <1>12, <1>7, <1>9, <1>11 DEF EmitterInv, NotRun, RunsInv, CopyInv
<1>13. CASE ~nested'
  <2>1. ~nested /\ CopyGood(f, added, registered, heard)
    BY <1>13, <1>7, <1>1, <1>2, <1>f, <1>i DEF CopyInv, CopyOk
  <2>2. entry \in Events!EntryOf /\ entry.id \in 1 .. MaxAdd /\ entry.id <= added /\ heard[entry.id] = 0
        /\ f.at \in 1 .. Len(f.copy)
    BY <2>1, <1>1, <1>e DEF CopyGood
  <2>3. /\ \A i \in 1 .. MaxAdd : i # entry.id => heard'[i] = heard[i]
        /\ heard'[entry.id] \in {0, 1} /\ (~entry.once => heard'[entry.id] = 0)
    <3> HIDE DEF entry
    <3> QED
      BY <2>2, <1>1, <1>i DEF Typed
  <2>4. entry.once => \A i \in 1 .. Len(registered') : registered'[i].id # entry.id
    <3>1. \A i \in 1 .. Len(registered) : registered[i].id = entry.id => registered[i] = entry
      BY <2>1, <2>2 DEF CopyGood
    <3> HIDE DEF entry
    <3>2. registered \in Seq(Events!EntryOf)
          /\ \A i, j \in 1 .. Len(registered) : registered[i].id = registered[j].id => i = j
      BY <1>i DEF Typed, IdsInv
    <3> SUFFICES ASSUME entry.once PROVE \A i \in 1 .. Len(registered') : registered'[i].id # entry.id
      OBVIOUS
    <3>3. registered' = Events!Without(registered, {entry})
      BY <1>7, <1>13
    <3> QED
      BY <3>1, <3>2, <3>3, WithoutFrom
  <2>5. \A i \in 1 .. Len(registered') : registered'[i] \in Events!EntryOf /\ registered'[i].id \in 1 .. MaxAdd
    BY <1>7, EntryIds
  <2>6. NotRun'
    <3> SUFFICES ASSUME NEW i \in 1 .. Len(registered') PROVE heard'[registered'[i].id] = 0
      BY DEF NotRun
    <3>1. heard[registered'[i].id] = 0
      BY <1>10, <2>1, <1>i DEF NotRun
    <3> HIDE DEF entry
    <3> QED
      BY <3>1, <2>3, <2>4, <2>5
  <2>7. RunsInv'
    <3> HIDE DEF entry
    <3> QED
      BY <2>1, <2>2, <2>3, <1>1, <1>i DEF RunsInv, Typed
  <2>8. CopyGood(g, added', registered', heard')
    <3>1. \A i \in 1 .. Len(g.copy) : g.copy[i].id <= added'
      BY <2>1, <1>1, <1>3 DEF CopyGood
    <3>2. \A i, j \in 1 .. Len(g.copy) : g.copy[i].id = g.copy[j].id => i = j
      BY <2>1, <1>3 DEF CopyGood
    <3>3. \A i \in 1 .. Len(g.copy), j \in 1 .. Len(registered') :
            g.copy[i].id = registered'[j].id => g.copy[i] = registered'[j]
      BY <2>1, <1>3, <1>10 DEF CopyGood
    <3>4. ASSUME NEW i \in 1 .. Len(g.copy), i > g.at \/ (i = g.at /\ ~g.running)
          PROVE  heard'[g.copy[i].id] = 0
      <4>1. i > f.at /\ i \in 1 .. Len(f.copy) /\ g.copy[i] = f.copy[i] /\ i # f.at
        BY <3>4, <1>3, <1>a
      <4>2. heard[f.copy[i].id] = 0 /\ f.copy[i].id # entry.id
        BY <4>1, <2>1, <2>2 DEF CopyGood
      <4> HIDE DEF entry
      <4> QED
        BY <4>1, <4>2, <2>3, <1>6
    <3> QED
      BY <3>1, <3>2, <3>3, <3>4 DEF CopyGood
  <2>9. CopyInv'
    <3>1. \A m \in 1 .. Len(emits) : emits[m].kind = "emit" => m = top
      BY <2>1, <1>1, <1>2, <1>f, <1>i DEF CopyInv
    <3>2. \A m \in 1 .. Len(emits') : emits'[m].kind = "emit" => m = top /\ emits'[m] = g
      BY <3>1, <1>4, <1>5, <1>7 DEF SameKinds
    <3> QED
      BY <3>2, <2>8 DEF CopyInv, CopyOk
  <2> QED
    BY <2>6, <2>7, <2>9, <1>7, <1>9, <1>11 DEF EmitterInv
<1> QED
  BY <1>12, <1>13

LEMMA ReturnKeeps ==
  ASSUME EmitterInv, Events!Return
  PROVE  EmitterInv'
<1>i. Typed /\ ToldInv /\ KeptInv /\ IdsInv /\ NotRun /\ RunsInv /\ CopyInv
  BY DEF EmitterInv
<1> DEFINE top == Len(emits)
           f == emits[Len(emits)]
           g == [f EXCEPT !.running = FALSE, !.at = @ + 1]
<1>1. /\ emits # << >> /\ f.kind = "emit" /\ f.running /\ emits' = Events!WithTop(g)
      /\ UNCHANGED <<arrays, current, watched, added, registered, heard, nested>>
  BY DEF Events!Return, Events!Top
<1>2. f \in EmitFrame /\ top \in 1 .. Len(emits) /\ Len(emits) \in Nat \ {0}
  <2>1. f \in Frame /\ top \in 1 .. Len(emits) /\ Len(emits) \in Nat \ {0}
    BY <1>1, <1>i, TopIs DEF Events!Top
  <2> QED
    BY <2>1, <1>1, FrameKinds
<1>3. g \in EmitFrame /\ g \in Frame /\ g.kind = "emit" /\ g.copy = f.copy /\ g.at = f.at + 1 /\ ~g.running
  BY <1>2, EmitReturns, FrameSets
<1>f. f = emits[top] /\ f.at \in Nat
  BY <1>2 DEF EmitFrame
<1> HIDE DEF f, g
<1>4. /\ emits' \in Seq(Frame) /\ Len(emits') = Len(emits) /\ emits'[top] = g
      /\ \A i \in 1 .. Len(emits) : i # top => emits'[i] = emits[i]
  BY <1>1, <1>3, <1>i, TopIs
<1>5. Typed' /\ KeptInv' /\ IdsInv' /\ NotRun' /\ RunsInv'
  BY <1>1, <1>4, <1>i DEF Typed, KeptInv, IdsInv, NotRun, RunsInv, Events!Listeners
<1>6. ToldInv'
  BY <1>1, <1>3, <1>4, <1>i DEF ToldInv
<1>7. CopyInv'
  <2> SUFFICES ASSUME ~nested
               PROVE  /\ \A m \in 1 .. Len(emits') : emits'[m].kind = "emit" => CopyGood(emits'[m], added', registered', heard')
                      /\ \A m, n \in 1 .. Len(emits') : emits'[m].kind = "emit" /\ emits'[n].kind = "emit" => m = n
    BY <1>1 DEF CopyInv, CopyOk
  <2>1. CopyGood(f, added, registered, heard)
    BY <1>1, <1>2, <1>f, <1>i DEF CopyInv, CopyOk
  <2>2. CopyGood(g, added, registered, heard)
    <3>1. \A i \in 1 .. Len(g.copy) : (i > g.at \/ (i = g.at /\ ~g.running)) => i > f.at
      BY <1>3, <1>f
    <3> QED
      BY <3>1, <2>1, <1>3 DEF CopyGood
  <2>3. \A m \in 1 .. Len(emits') : emits'[m].kind = "emit" => m = top /\ emits'[m] = g
    BY <1>1, <1>2, <1>4, <1>f, <1>i DEF CopyInv
  <2> QED
    BY <2>2, <2>3, <1>1
<1> QED
  BY <1>5, <1>6, <1>7 DEF EmitterInv

LEMMA EmitterStep ==
  ASSUME EmitterInv, MaxAdd \in Nat, [Events!Next]_(Events!vars)
  PROVE  EmitterInv'
<1>i. Typed
  BY DEF EmitterInv
<1>1. ASSUME NEW fn \in Fn, NEW once \in BOOLEAN, NEW first \in BOOLEAN, Events!Add(fn, once, first) PROVE EmitterInv'
  BY <1>1, AddKeeps
<1>2. CASE (\E fn \in Fn : Events!Off(fn)) \/ (\E every \in BOOLEAN : Events!OffAll(every)) \/ Events!OffNext \/ Events!OffAllEnds \/ Events!RemovalTold
  BY <1>2, RemovalKeeps
<1>3. CASE Events!Watch \/ UNCHANGED Events!vars
  <2>1. UNCHANGED <<arrays, current, emits, added, registered, heard, nested>>
    BY <1>3 DEF Events!Watch, Events!vars
  <2>2. emits' \in Seq(Frame) /\ \A m \in 1 .. Len(emits') : m \in 1 .. Len(emits) /\ emits'[m] = emits[m]
    BY <2>1, <1>i DEF Typed
  <2> QED
    BY <2>1, <2>2, StackStep
<1>4. CASE Events!Emit
  BY <1>4, EmitKeeps
<1>5. CASE Events!Call
  BY <1>5, CallKeeps
<1>6. CASE Events!Return
  BY <1>6, ReturnKeeps
<1>7. CASE Events!EmitEnds
  <2>1. emits # << >> /\ emits' = Events!Front(emits) /\ UNCHANGED <<arrays, current, added, registered, heard, nested>>
    BY <1>7 DEF Events!EmitEnds
  <2>2. emits' \in Seq(Frame) /\ \A m \in 1 .. Len(emits') : m \in 1 .. Len(emits) /\ emits'[m] = emits[m]
    <3>1. /\ emits' \in Seq(Frame) /\ Len(emits') = Len(emits) - 1 /\ Len(emits) \in Nat \ {0}
          /\ \A i \in 1 .. Len(emits) - 1 : emits'[i] = emits[i]
      BY <2>1, <1>i, FrontIs DEF Typed
    <3> QED
      BY <3>1
  <2> QED
    BY <2>1, <2>2, StackStep
<1>8. CASE Events!Throw
  <2>1. emits' = << >> /\ UNCHANGED <<arrays, current, added, registered, heard, nested>>
    BY <1>8 DEF Events!Throw
  <2>2. << >> \in Seq(Frame) /\ 1 .. Len(<< >>) = {}
    OBVIOUS
  <2> QED
    BY <2>1, <2>2, StackStep
<1> QED
  BY <1>1, <1>2, <1>3, <1>4, <1>5, <1>6, <1>7, <1>8 DEF Events!Next

LEMMA EmitterHolds == ASSUME MaxAdd \in Nat PROVE Events!Spec => []EmitterInv
<1>1. Events!Init => EmitterInv
  BY EmitterInit
<1>2. EmitterInv /\ [Events!Next]_(Events!vars) => EmitterInv'
  BY EmitterStep
<1> QED
  BY <1>1, <1>2, PTL DEF Events!Spec

(* As long as no emit runs in a listener and nothing is removed while a     *)
(* removal is told, the table has the listeners that were added and not     *)
(* removed, in their order (eventemitter.js).                               *)
THEOREM ListenersAreKeptAlways == ASSUME MaxAdd \in Nat PROVE Events!Spec => []Events!ListenersAreKept
<1>1. EmitterInv => Events!ListenersAreKept
  BY DEF EmitterInv, KeptInv, Events!ListenersAreKept
<1> QED
  BY <1>1, EmitterHolds, PTL

(* Under the same condition a once listener runs once, and is gone from the *)
(* table once it has run (eventemitter.js).                                 *)
THEOREM OnceRunsOnceAlways == ASSUME MaxAdd \in Nat PROVE Events!Spec => []Events!OnceRunsOnce
<1>1. EmitterInv => Events!OnceRunsOnce
  <2> SUFFICES ASSUME EmitterInv, ~nested PROVE Events!OnceRunsOnce
    BY DEF Events!OnceRunsOnce
  <2>1. DOMAIN registered = 1 .. Len(registered)
    BY DEF EmitterInv, Typed
  <2> QED
    BY <2>1 DEF EmitterInv, RunsInv, NotRun, Events!OnceRunsOnce
<1> QED
  BY <1>1, EmitterHolds, PTL

-----------------------------------------------------------------------------
CONSTANTS
  MaxChunk

VARIABLES
  chunks, sourceEnded, gone, piped, paused, corked, queue, writing, chunk,
  ended, finished, readEnded, endEmitted, through, sunk, error, told,
  onFinished, micro

Chain == INSTANCE StreamChain WITH
  next <- chunks, held <- corked, passed <- through, written <- sunk

(* StreamChain: a source, a transform and a sink under pipeline().          *)

ChainTyped ==
  /\ \A s \in Chain!Written : queue[s] \in Seq(Nat) /\ chunk[s] \in Nat
                        /\ writing[s] \in {"no", "chunk", "final"}
  /\ writing = [s \in Chain!Written |-> writing[s]] /\ chunk = [s \in Chain!Written |-> chunk[s]]
  /\ through \in Seq(Nat) /\ sunk \in Seq(Nat) /\ chunks \in Nat

(* A stream that ended: what waits and is written, and who ended it.        *)
EndsInv ==
  /\ \A s \in Chain!Written :
       /\ writing[s] = "final" => ended[s] /\ queue[s] = << >> /\ ~finished[s]
       /\ finished[s] => ended[s] /\ queue[s] = << >> /\ writing[s] = "no"
  /\ ended["transform"] => sourceEnded
  /\ ended["sink"] => readEnded /\ finished["transform"]

(* A pipe is there, and its source flows, until what it writes to is gone.  *)
GoneInv ==
  /\ "transform" \notin gone => "first" \in piped /\ "source" \notin paused
  /\ "sink" \notin gone => "second" \in piped /\ "transform" \notin paused
  /\ error # "none" => gone = Chain!Stream
  /\ "transform" \in gone => readEnded
  /\ \A s \in Chain!Stream : <<s, "close">> \in micro => s \in gone

(* What was written, is written and waits, against what was passed on.      *)
Prefix(w, p) == Len(w) <= Len(p) /\ \A k \in 1 .. Len(w) : w[k] = p[k]
Rest(n, x, q, p) ==
  n + 1 + Len(q) <= Len(p) /\ x = p[n + 1] /\ \A k \in 1 .. Len(q) : q[k] = p[n + 1 + k]

SinkInv ==
  /\ Prefix(sunk, through)
  /\ writing["sink"] = "chunk" => Rest(Len(sunk), chunk["sink"], queue["sink"], through)
  /\ writing["sink"] = "chunk" /\ "sink" \notin gone => Len(through) = Len(sunk) + 1 + Len(queue["sink"])
  /\ writing["sink"] # "chunk" /\ "sink" \notin gone =>
       queue["sink"] = << >> /\ Len(through) = Len(sunk)

ChainToldInv ==
  /\ \A s \in Chain!Written : <<s, "finish">> \in micro => finished[s]
  /\ error = "none" => told \in {<< >>, <<"ok">>}
  /\ error # "none" => told \in {<<"error">>, <<"ok", "error">>}
  /\ told \in {<<"ok">>, <<"ok", "error">>} => finished["sink"] /\ <<"sink", "finish">> \notin micro
  /\ onFinished = "ok" => finished["transform"]

ChainInv == ChainTyped /\ EndsInv /\ GoneInv /\ SinkInv /\ ChainToldInv

-----------------------------------------------------------------------------
(* write, end and the callback of _write, field by field.                   *)
Fields(st, q, w, c, e, f) ==
  st.queue = q /\ st.writing = w /\ st.chunk = c /\ st.ended = e /\ st.finished = f

LEMMA StateIs ==
  ASSUME NEW s \in Chain!Written
  PROVE  Fields(Chain!State(s), queue[s], writing[s], chunk[s], ended[s], finished[s])
  BY DEF Fields, Chain!State

LEMMA WriteIs ==
  ASSUME NEW s \in Chain!Written, NEW c
  PROVE  /\ writing[s] = "no" =>
              Fields(Chain!Write(Chain!State(s), c), queue[s], "chunk", c, ended[s], finished[s])
         /\ writing[s] # "no" =>
              Fields(Chain!Write(Chain!State(s), c), Append(queue[s], c), writing[s], chunk[s], ended[s], finished[s])
  BY DEF Fields, Chain!State, Chain!Write

LEMMA EndIs ==
  ASSUME NEW s \in Chain!Written
  PROVE  Fields(Chain!End(Chain!State(s)), queue[s],
                IF ~finished[s] /\ writing[s] = "no" /\ queue[s] = << >> THEN "final" ELSE writing[s],
                chunk[s], TRUE, finished[s])
  BY DEF Fields, Chain!State, Chain!End, Chain!FinishMaybe

LEMMA AnswerIs ==
  ASSUME NEW s \in Chain!Written
  PROVE  /\ queue[s] # << >> =>
              Fields(Chain!Answer(Chain!State(s)), Tail(queue[s]), "chunk", Head(queue[s]), ended[s], finished[s])
         /\ queue[s] = << >> =>
              Fields(Chain!Answer(Chain!State(s)), << >>, IF ended[s] /\ ~finished[s] THEN "final" ELSE "no",
                     0, ended[s], finished[s])
  BY DEF Fields, Chain!State, Chain!Answer, Chain!FinishMaybe

LEMMA BecomesIs ==
  ASSUME NEW t, NEW k, Chain!Becomes(t, k)
  PROVE  /\ Fields(t, queue'["transform"], writing'["transform"], chunk'["transform"],
                   ended'["transform"], finished'["transform"])
         /\ Fields(k, queue'["sink"], writing'["sink"], chunk'["sink"], ended'["sink"], finished'["sink"])
         /\ writing' = [s \in Chain!Written |-> writing'[s]] /\ chunk' = [s \in Chain!Written |-> chunk'[s]]
  BY DEF Chain!Becomes, Fields, Chain!Written

Became(s, q, w, c, e, f) ==
  queue'[s] = q /\ writing'[s] = w /\ chunk'[s] = c /\ ended'[s] = e /\ finished'[s] = f
Same(s) == Became(s, queue[s], writing[s], chunk[s], ended[s], finished[s])
Shaped == writing' = [s \in Chain!Written |-> writing'[s]] /\ chunk' = [s \in Chain!Written |-> chunk'[s]]

LEMMA BecomesBoth ==
  ASSUME NEW t, NEW k, Chain!Becomes(t, k),
         NEW q1, NEW w1, NEW c1, NEW e1, NEW f1, Fields(t, q1, w1, c1, e1, f1),
         NEW q2, NEW w2, NEW c2, NEW e2, NEW f2, Fields(k, q2, w2, c2, e2, f2)
  PROVE  Became("transform", q1, w1, c1, e1, f1) /\ Became("sink", q2, w2, c2, e2, f2) /\ Shaped
  BY BecomesIs DEF Fields, Became, Shaped

\* Nothing happens to the sink.
LEMMA SinkKept ==
  ASSUME SinkInv, Same("sink"), sunk' = sunk, through' = through, gone \subseteq gone'
  PROVE  SinkInv'
  BY DEF SinkInv, Same, Became

LEMMA Streams == Chain!Written = {"transform", "sink"} /\ "transform" \in Chain!Written /\ "sink" \in Chain!Written
  BY DEF Chain!Written

LEMMA Numbers ==
  ASSUME NEW a \in Nat, NEW b \in Nat, NEW c \in Nat
  PROVE  /\ a + 1 + b <= c => a + 1 <= c
         /\ c = a + 1 + b => c + 1 = a + 1 + (b + 1) /\ (b # 0 => c = (a + 1) + 1 + (b - 1))
  OBVIOUS

LEMMA PrefixMore ==
  ASSUME NEW w \in Seq(Nat), NEW p \in Seq(Nat), Prefix(w, p), NEW c \in Nat
  PROVE  /\ Prefix(w, Append(p, c))
         /\ Len(w) + 1 <= Len(p) /\ c = p[Len(w) + 1] => Prefix(Append(w, c), p)
<1>1. /\ Len(Append(p, c)) = Len(p) + 1 /\ (\A k \in 1 .. Len(p) : Append(p, c)[k] = p[k])
      /\ Len(p) \in Nat /\ Len(w) \in Nat
  OBVIOUS
<1>2. /\ Len(Append(w, c)) = Len(w) + 1 /\ (\A k \in 1 .. Len(w) : Append(w, c)[k] = w[k])
      /\ Append(w, c)[Len(w) + 1] = c
  OBVIOUS
<1> DEFINE pc == Append(p, c)
           wc == Append(w, c)
<1>3. /\ Len(pc) = Len(p) + 1 /\ (\A k \in 1 .. Len(p) : pc[k] = p[k])
      /\ Len(wc) = Len(w) + 1 /\ (\A k \in 1 .. Len(w) : wc[k] = w[k]) /\ wc[Len(w) + 1] = c
  BY <1>1, <1>2
<1> HIDE DEF pc, wc
<1>4. Prefix(w, pc)
  BY <1>1, <1>3 DEF Prefix
<1>5. ASSUME Len(w) + 1 <= Len(p), c = p[Len(w) + 1] PROVE Prefix(wc, p)
  <2>1. ASSUME NEW k \in 1 .. Len(wc) PROVE wc[k] = p[k]
    BY <1>1, <1>3, <1>5 DEF Prefix
  <2> QED
    BY <2>1, <1>1, <1>3, <1>5 DEF Prefix
<1> QED
  BY <1>4, <1>5 DEF pc, wc

LEMMA RestMore ==
  ASSUME NEW n \in Nat, NEW x, NEW q \in Seq(Nat), NEW p \in Seq(Nat), NEW c \in Nat
  PROVE  /\ Rest(n, x, q, p) => Rest(n, x, q, Append(p, c))
         /\ Rest(n, x, q, p) /\ Len(p) = n + 1 + Len(q) => Rest(n, x, Append(q, c), Append(p, c))
         /\ Len(p) = n => Rest(n, c, << >>, Append(p, c))
<1> DEFINE pc == Append(p, c)
           qc == Append(q, c)
<1>1. /\ Len(pc) = Len(p) + 1 /\ (\A k \in 1 .. Len(p) : pc[k] = p[k]) /\ pc[Len(p) + 1] = c
      /\ Len(p) \in Nat /\ Len(q) \in Nat
  OBVIOUS
<1>2. Len(qc) = Len(q) + 1 /\ (\A k \in 1 .. Len(q) : qc[k] = q[k]) /\ qc[Len(q) + 1] = c
  OBVIOUS
<1> HIDE DEF pc, qc
<1>3. ASSUME Rest(n, x, q, p) PROVE Rest(n, x, q, pc)
  <2>1. n + 1 \in 1 .. Len(p) /\ \A k \in 1 .. Len(q) : n + 1 + k \in 1 .. Len(p)
    BY <1>1, <1>3 DEF Rest
  <2> QED
    BY <2>1, <1>1, <1>3 DEF Rest
<1>4. ASSUME Rest(n, x, q, p), Len(p) = n + 1 + Len(q) PROVE Rest(n, x, qc, pc)
  <2>1. n + 1 + Len(qc) <= Len(pc) /\ x = pc[n + 1]
    BY <1>1, <1>2, <1>4 DEF Rest
  <2>2. ASSUME NEW k \in 1 .. Len(qc) PROVE qc[k] = pc[n + 1 + k]
    <3>1. CASE k = Len(q) + 1
      <4>1. n + 1 + k = Len(p) + 1
        BY <3>1, <1>1, <1>4
      <4> QED
        BY <4>1, <3>1, <1>1, <1>2
    <3>2. CASE k # Len(q) + 1
      <4>1. k \in 1 .. Len(q) /\ n + 1 + k \in 1 .. Len(p)
        BY <3>2, <1>1, <1>2, <1>4
      <4> QED
        BY <4>1, <1>1, <1>2, <1>4 DEF Rest
    <3> QED
      BY <3>1, <3>2
  <2> QED
    BY <2>1, <2>2 DEF Rest
<1>5. ASSUME Len(p) = n PROVE Rest(n, c, << >>, pc)
  BY <1>1, <1>5 DEF Rest
<1> QED
  BY <1>3, <1>4, <1>5 DEF pc, qc

LEMMA TailIs ==
  ASSUME NEW q \in Seq(Nat), q # << >>
  PROVE  /\ Head(q) = q[1] /\ q[1] \in Nat /\ Tail(q) \in Seq(Nat) /\ Len(Tail(q)) = Len(q) - 1
         /\ Len(q) \in Nat \ {0} /\ \A k \in 1 .. Len(q) - 1 : Tail(q)[k] = q[k + 1]
  OBVIOUS

LEMMA RestNext ==
  ASSUME NEW n \in Nat, NEW x, NEW q \in Seq(Nat), q # << >>, NEW p \in Seq(Nat), Rest(n, x, q, p)
  PROVE  Rest(n + 1, Head(q), Tail(q), p)
<1> DEFINE t == Tail(q)
<1>1. /\ Head(q) = q[1] /\ Len(t) = Len(q) - 1
      /\ Len(q) \in Nat \ {0} /\ \A k \in 1 .. Len(q) - 1 : t[k] = q[k + 1]
  BY TailIs
<1> HIDE DEF t
<1>2. ASSUME NEW k \in 1 .. Len(t) PROVE t[k] = p[n + 1 + 1 + k]
  <2>1. k + 1 \in 1 .. Len(q) /\ t[k] = q[k + 1]
    BY <1>1
  <2>2. q[k + 1] = p[n + 1 + (k + 1)]
    BY <2>1 DEF Rest
  <2>3. n + 1 + (k + 1) = n + 1 + 1 + k
    OBVIOUS
  <2> QED
    BY <2>1, <2>2, <2>3
<1>3. q[1] = p[n + 1 + 1]
  BY <1>1 DEF Rest
<1>4. n + 1 + 1 + Len(t) <= Len(p)
  <2>1. Len(p) \in Nat
    OBVIOUS
  <2> QED
    BY <2>1, <1>1 DEF Rest
<1> QED
  BY <1>1, <1>2, <1>3, <1>4 DEF Rest, t

LEMMA ChainInit == ASSUME MaxChunk \in Nat, Chain!Init PROVE ChainInv
<1>1. Len(<< >>) = 0 /\ << >> \in Seq(Nat)
  OBVIOUS
<1>2. ChainTyped
  BY <1>1 DEF Chain!Init, ChainTyped, Chain!Written
<1>3. EndsInv /\ GoneInv /\ ChainToldInv
  BY DEF Chain!Init, EndsInv, GoneInv, ChainToldInv, Chain!Written, Chain!Stream
<1>4. SinkInv
  BY <1>1 DEF Chain!Init, SinkInv, Prefix, Chain!Written
<1> QED
  BY <1>2, <1>3, <1>4 DEF ChainInv

\* _write of a stream answers: the next chunk, or the end.
Answered(s) ==
  \/ queue[s] # << >> /\ Became(s, Tail(queue[s]), "chunk", Head(queue[s]), ended[s], finished[s])
  \/ queue[s] = << >> /\ Became(s, << >>, IF ended[s] /\ ~finished[s] THEN "final" ELSE "no",
                                0, ended[s], finished[s])

StreamTyped(s) == queue[s] \in Seq(Nat) /\ chunk[s] \in Nat /\ writing[s] \in {"no", "chunk", "final"}

LEMMA StillTyped ==
  ASSUME NEW s \in Chain!Written, ChainTyped, Same(s) \/ Answered(s)
  PROVE  StreamTyped(s)'
<1>1. StreamTyped(s)
  BY DEF ChainTyped, StreamTyped
<1>2. CASE Same(s)
  BY <1>1, <1>2 DEF Same, Became, StreamTyped
<1>3. CASE queue[s] # << >> /\ Answered(s)
  BY <1>1, <1>3, TailIs DEF Answered, Became, StreamTyped
<1>4. CASE queue[s] = << >> /\ Answered(s)
  <2>1. writing'[s] \in {"no", "final"} /\ queue'[s] = << >> /\ chunk'[s] = 0
    BY <1>4 DEF Answered, Became
  <2>2. << >> \in Seq(Nat)
    OBVIOUS
  <2> QED
    BY <2>1, <2>2 DEF StreamTyped
<1> QED
  BY <1>2, <1>3, <1>4

LEMMA AllTyped ==
  ASSUME StreamTyped("transform")', StreamTyped("sink")', Shaped,
         through' \in Seq(Nat), sunk' \in Seq(Nat), chunks' \in Nat
  PROVE  ChainTyped'
  BY Streams DEF StreamTyped, ChainTyped, Shaped

LEMMA SourceKeeps ==
  ASSUME ChainInv, Chain!SourcePush \/ Chain!SourceEnd
  PROVE  ChainInv'
<1>i. ChainTyped /\ EndsInv /\ GoneInv /\ SinkInv /\ ChainToldInv
  BY DEF ChainInv
<1> DEFINE q == queue["transform"]
           w == writing["transform"]
           c == chunk["transform"]
           e == ended["transform"]
           f == finished["transform"]
<1>1. CASE Chain!SourcePush
  <2>1. /\ ~sourceEnded /\ chunks' = chunks + 1 /\ Chain!Emit("source", "transform", "first")
        /\ Chain!Becomes(Chain!Received("source", "transform", "first", chunks), Chain!State("sink"))
        /\ UNCHANGED <<sourceEnded, sunk, Chain!readVars, gone, piped, error, told, onFinished, micro>>
    BY <1>1 DEF Chain!SourcePush
  <2>2. ~e /\ ~f /\ w # "final"
    BY <2>1, <1>i, Streams DEF EndsInv
  <2>3. Same("sink") /\ Shaped /\ Became("transform", queue'["transform"], writing'["transform"], chunk'["transform"], e, f)
        /\ \/ Same("transform")
           \/ queue'["transform"] = q /\ writing'["transform"] = "chunk" /\ chunk'["transform"] = chunks
           \/ w = "chunk" /\ queue'["transform"] = Append(q, chunks) /\ writing'["transform"] = w /\ chunk'["transform"] = c
    <3>1. CASE Chain!Received("source", "transform", "first", chunks) = Chain!State("transform")
      BY <2>1, <3>1, StateIs, BecomesBoth, Streams DEF Same, Became
    <3>2. CASE Chain!Received("source", "transform", "first", chunks) = Chain!Write(Chain!State("transform"), chunks) /\ w = "no"
      <4>1. Fields(Chain!Write(Chain!State("transform"), chunks), q, "chunk", chunks, e, f)
        BY <3>2, WriteIs, Streams
      <4> QED
        BY <2>1, <3>2, <4>1, StateIs, BecomesBoth, Streams DEF Same, Became
    <3>3. CASE Chain!Received("source", "transform", "first", chunks) = Chain!Write(Chain!State("transform"), chunks) /\ w # "no"
      <4>1. Fields(Chain!Write(Chain!State("transform"), chunks), Append(q, chunks), w, c, e, f)
        BY <3>3, WriteIs, Streams
      <4>2. w = "chunk"
        BY <3>3, <2>2, <1>i, Streams DEF ChainTyped
      <4>3. Fields(Chain!State("sink"), queue["sink"], writing["sink"], chunk["sink"], ended["sink"], finished["sink"])
        BY StateIs, Streams
      <4>4. Became("transform", Append(q, chunks), w, c, e, f) /\ Same("sink") /\ Shaped
        <5> HIDE DEF q, w, c, e, f
        <5> QED
          BY <2>1, <3>3, <4>1, <4>3, BecomesBoth DEF Same
      <4> QED
        BY <4>2, <4>4 DEF Became
    <3> QED
      BY <3>1, <3>2, <3>3 DEF Chain!Received
  <2>4. ChainTyped'
    <3>1. StreamTyped("sink")' /\ StreamTyped("transform") /\ chunks \in Nat
      BY <2>3, <1>i, Streams, StillTyped DEF ChainTyped, StreamTyped
    <3>2. StreamTyped("transform")'
      <4>1. CASE Same("transform")
        BY <4>1, <1>i, Streams, StillTyped
      <4>2. CASE queue'["transform"] = q /\ writing'["transform"] = "chunk" /\ chunk'["transform"] = chunks
        BY <4>2, <3>1 DEF StreamTyped
      <4>3. CASE queue'["transform"] = Append(q, chunks) /\ writing'["transform"] = w /\ chunk'["transform"] = c
        BY <4>3, <3>1 DEF StreamTyped
      <4> QED
        BY <2>3, <4>1, <4>2, <4>3
    <3>3. through' \in Seq(Nat) /\ sunk' \in Seq(Nat) /\ chunks' \in Nat
      BY <2>1, <1>i DEF ChainTyped, Chain!readVars
    <3> QED
      BY <3>1, <3>2, <3>3, <2>3, AllTyped
  <2>5. EndsInv'
    BY <2>1, <2>2, <2>3, <1>i, Streams DEF EndsInv, Same, Became, Chain!readVars
  <2>6. GoneInv'
    BY <2>1, <1>i DEF GoneInv, Chain!Emit, Chain!readVars
  <2>7. SinkInv'
    BY <2>1, <2>3, <1>i, SinkKept DEF Chain!readVars
  <2>8. ChainToldInv'
    BY <2>1, <2>3, <1>i, Streams DEF ChainToldInv, Same, Became
  <2> QED
    BY <2>4, <2>5, <2>6, <2>7, <2>8 DEF ChainInv
<1>2. CASE Chain!SourceEnd
  <2>1. /\ sourceEnded' = TRUE /\ UNCHANGED <<chunks, sunk, Chain!readVars, Chain!chainVars, micro>>
        /\ Chain!Becomes(Chain!EndOf("source", "transform", "first"), Chain!State("sink"))
    BY <1>2 DEF Chain!SourceEnd
  <2>2. Same("sink") /\ Shaped /\ queue'["transform"] = q /\ chunk'["transform"] = c /\ finished'["transform"] = f
        /\ \/ Same("transform")
           \/ /\ ended'["transform"]
              /\ writing'["transform"] = IF ~f /\ w = "no" /\ q = << >> THEN "final" ELSE w
    <3>1. CASE Chain!EndOf("source", "transform", "first") = Chain!State("transform")
      BY <2>1, <3>1, StateIs, BecomesBoth, Streams DEF Same, Became
    <3>2. CASE Chain!EndOf("source", "transform", "first") = Chain!End(Chain!State("transform"))
      <4>1. Fields(Chain!End(Chain!State("transform")), q, IF ~f /\ w = "no" /\ q = << >> THEN "final" ELSE w, c, TRUE, f)
        BY EndIs, Streams
      <4>3. Fields(Chain!State("sink"), queue["sink"], writing["sink"], chunk["sink"], ended["sink"], finished["sink"])
        BY StateIs, Streams
      <4> DEFINE w2 == IF ~f /\ w = "no" /\ q = << >> THEN "final" ELSE w
      <4>4. Became("transform", q, w2, c, TRUE, f) /\ Same("sink") /\ Shaped
        <5> HIDE DEF q, w, c, e, f, w2
        <5>1. Fields(Chain!End(Chain!State("transform")), q, w2, c, TRUE, f)
          BY <4>1 DEF w2
        <5> QED
          BY <2>1, <3>2, <5>1, <4>3, BecomesBoth DEF Same
      <4> QED
        BY <4>4 DEF Became
    <3> QED
      BY <3>1, <3>2 DEF Chain!EndOf
  <2>4. ChainTyped'
    <3>1. StreamTyped("sink")' /\ StreamTyped("transform")
      BY <2>2, <1>i, Streams, StillTyped DEF ChainTyped, StreamTyped
    <3>2. StreamTyped("transform")'
      BY <2>2, <3>1 DEF StreamTyped, Same, Became
    <3>3. through' \in Seq(Nat) /\ sunk' \in Seq(Nat) /\ chunks' \in Nat
      BY <2>1, <1>i DEF ChainTyped, Chain!readVars
    <3> QED
      BY <3>1, <3>2, <3>3, <2>2, AllTyped
  <2>5. EndsInv'
    BY <2>1, <2>2, <1>i, Streams DEF EndsInv, Same, Became, Chain!readVars
  <2>6. GoneInv'
    BY <2>1, <1>i DEF GoneInv, Chain!chainVars, Chain!readVars
  <2>7. SinkInv'
    BY <2>1, <2>2, <1>i, SinkKept DEF Chain!readVars, Chain!chainVars
  <2>8. ChainToldInv'
    BY <2>1, <2>2, <1>i, Streams DEF ChainToldInv, Same, Became, Chain!chainVars
  <2> QED
    BY <2>4, <2>5, <2>6, <2>7, <2>8 DEF ChainInv
<1> QED
  BY <1>1, <1>2

\* The sink's turn in a write of the transform's chunk.
LEMMA PassedOn ==
  ASSUME ChainTyped, EndsInv, GoneInv, SinkInv, ~readEnded, NEW c \in Nat,
         through' = Append(through, c), sunk' = sunk, gone' = gone,
         \/ "sink" \in gone /\ Same("sink")
         \/ "sink" \notin gone /\ writing["sink"] = "no"
            /\ queue'["sink"] = queue["sink"] /\ writing'["sink"] = "chunk" /\ chunk'["sink"] = c
         \/ "sink" \notin gone /\ writing["sink"] # "no"
            /\ queue'["sink"] = Append(queue["sink"], c) /\ writing'["sink"] = writing["sink"]
            /\ chunk'["sink"] = chunk["sink"]
  PROVE  SinkInv'
<1>1. /\ queue["sink"] \in Seq(Nat) /\ writing["sink"] \in {"no", "chunk", "final"}
      /\ through \in Seq(Nat) /\ sunk \in Seq(Nat) /\ chunk["sink"] \in Nat
  BY Streams DEF ChainTyped
<1>2. writing["sink"] # "final"
  BY Streams DEF EndsInv
<1>3. Prefix(sunk, through)'
  BY <1>1, PrefixMore DEF SinkInv
<1>l. Len(through') = Len(through) + 1 /\ Len(through) \in Nat /\ Len(sunk) \in Nat
  BY <1>1
<1>4. CASE "sink" \in gone /\ Same("sink")
  <2>1. ASSUME writing["sink"] = "chunk" PROVE Rest(Len(sunk), chunk["sink"], queue["sink"], through')
    BY <2>1, <1>1, <1>l, RestMore DEF SinkInv
  <2> QED
    BY <2>1, <1>3, <1>4 DEF SinkInv, Same, Became
<1>5. CASE "sink" \notin gone /\ writing["sink"] = "no"
            /\ queue'["sink"] = queue["sink"] /\ writing'["sink"] = "chunk" /\ chunk'["sink"] = c
  <2>1. queue["sink"] = << >> /\ Len(through) = Len(sunk)
    BY <1>5 DEF SinkInv
  <2>2. Rest(Len(sunk), c, << >>, through')
    BY <2>1, <1>1, <1>l, RestMore
  <2>3. Len(through') = Len(sunk) + 1 + Len(<< >>)
    BY <2>1, <1>l
  <2> QED
    BY <2>1, <2>2, <2>3, <1>3, <1>5 DEF SinkInv
<1>6. CASE "sink" \notin gone /\ writing["sink"] # "no"
            /\ queue'["sink"] = Append(queue["sink"], c) /\ writing'["sink"] = writing["sink"]
            /\ chunk'["sink"] = chunk["sink"]
  <2>1. /\ writing["sink"] = "chunk" /\ Len(through) = Len(sunk) + 1 + Len(queue["sink"])
        /\ Rest(Len(sunk), chunk["sink"], queue["sink"], through)
    BY <1>1, <1>2, <1>6 DEF SinkInv
  <2>2. Rest(Len(sunk), chunk["sink"], Append(queue["sink"], c), through')
    BY <2>1, <1>1, <1>l, RestMore
  <2>3. Len(Append(queue["sink"], c)) = Len(queue["sink"]) + 1 /\ Len(queue["sink"]) \in Nat
    BY <1>1
  <2>4. Len(through') = Len(sunk) + 1 + Len(queue'["sink"])
    <3>1. Len(queue'["sink"]) = Len(queue["sink"]) + 1
      BY <2>3, <1>6
    <3>2. Len(through) = Len(sunk) + 1 + Len(queue["sink"])
      BY <2>1
    <3> QED
      <4>1. Len(through) + 1 = Len(sunk) + 1 + (Len(queue["sink"]) + 1)
        BY <3>2, <2>3, <1>l, Numbers
      <4> QED
        BY <4>1, <3>1, <1>l
  <2> QED
    BY <2>1, <2>2, <2>4, <1>3, <1>6 DEF SinkInv
<1> QED
  BY <1>4, <1>5, <1>6

LEMMA TransformedKeeps ==
  ASSUME ChainInv, NEW keeps \in BOOLEAN, Chain!Transformed(keeps)
  PROVE  ChainInv'
<1>i. ChainTyped /\ EndsInv /\ GoneInv /\ SinkInv /\ ChainToldInv
  BY DEF ChainInv
<1>1. /\ writing["transform"] = "chunk"
      /\ UNCHANGED <<Chain!sourceVars, sunk, readEnded, endEmitted, gone, piped, error, told, onFinished, micro>>
  BY DEF Chain!Transformed
<1>2. ~finished["transform"] /\ ~ended["sink"]
  BY <1>1, <1>i, Streams DEF EndsInv
<1>t. \A s \in Chain!Written : queue[s] \in Seq(Nat) /\ chunk[s] \in Nat
  BY <1>i DEF ChainTyped
<1>3. CASE ~(keeps /\ ~readEnded)
  <2>1. Chain!Becomes(Chain!Answer(Chain!State("transform")), Chain!State("sink")) /\ UNCHANGED <<through, paused, corked>>
    BY <1>3 DEF Chain!Transformed
  <2>2. Same("sink") /\ Shaped /\ Answered("transform")
    <3>1. CASE queue["transform"] # << >>
      <4>1. Fields(Chain!Answer(Chain!State("transform")), Tail(queue["transform"]), "chunk", Head(queue["transform"]),
                   ended["transform"], finished["transform"])
        BY <3>1, AnswerIs, Streams
      <4> QED
        BY <2>1, <3>1, <4>1, StateIs, BecomesBoth, Streams DEF Same, Answered
    <3>2. CASE queue["transform"] = << >>
      <4>1. Fields(Chain!Answer(Chain!State("transform")), << >>, IF ended["transform"] /\ ~finished["transform"] THEN "final" ELSE "no",
                     0, ended["transform"], finished["transform"])
        BY <3>2, AnswerIs, Streams
      <4> QED
        BY <2>1, <3>2, <4>1, StateIs, BecomesBoth, Streams DEF Same, Answered
    <3> QED
      BY <3>1, <3>2
  <2>3. ChainTyped'
    <3>1. StreamTyped("transform")' /\ StreamTyped("sink")'
      BY <2>2, <1>i, Streams, StillTyped
    <3>2. through' \in Seq(Nat) /\ sunk' \in Seq(Nat) /\ chunks' \in Nat
      BY <2>1, <1>1, <1>i DEF ChainTyped, Chain!sourceVars
    <3> QED
      BY <3>1, <3>2, <2>2, AllTyped
  <2>4. EndsInv'
    BY <2>2, <1>1, <1>2, <1>i, Streams DEF EndsInv, Same, Answered, Became, Chain!sourceVars
  <2>5. GoneInv'
    BY <2>1, <1>1, <1>i DEF GoneInv
  <2>6. SinkInv'
    BY <2>1, <2>2, <1>1, <1>i, SinkKept
  <2>7. ChainToldInv'
    BY <2>2, <1>1, <1>2, <1>i, Streams DEF ChainToldInv, Same, Answered, Became
  <2> QED
    BY <2>3, <2>4, <2>5, <2>6, <2>7 DEF ChainInv
<1>4. CASE keeps /\ ~readEnded
  <2> DEFINE c == chunk["transform"]
  <2>1. /\ through' = Append(through, c) /\ Chain!Emit("transform", "sink", "second")
        /\ Chain!Becomes(Chain!Answer(Chain!State("transform")), Chain!Received("transform", "sink", "second", c))
    BY <1>4 DEF Chain!Transformed
  <2>2. Chain!Received("transform", "sink", "second", c)
          = IF "sink" \notin gone THEN Chain!Write(Chain!State("sink"), c) ELSE Chain!State("sink")
    BY <1>i DEF GoneInv, Chain!Received
  <2>3. /\ Shaped /\ Answered("transform") /\ ended'["sink"] = ended["sink"] /\ finished'["sink"] = finished["sink"]
        /\ \/ "sink" \in gone /\ Same("sink")
           \/ "sink" \notin gone /\ writing["sink"] = "no"
              /\ queue'["sink"] = queue["sink"] /\ writing'["sink"] = "chunk" /\ chunk'["sink"] = c
           \/ "sink" \notin gone /\ writing["sink"] # "no"
              /\ queue'["sink"] = Append(queue["sink"], c) /\ writing'["sink"] = writing["sink"]
              /\ chunk'["sink"] = chunk["sink"]
    <3>1. PICK q, w, d, e, f : Fields(Chain!Answer(Chain!State("transform")), q, w, d, e, f)
             /\ \/ queue["transform"] # << >> /\ q = Tail(queue["transform"]) /\ w = "chunk"
                   /\ d = Head(queue["transform"]) /\ e = ended["transform"] /\ f = finished["transform"]
                \/ queue["transform"] = << >> /\ q = << >> /\ w = (IF ended["transform"] /\ ~finished["transform"] THEN "final" ELSE "no")
                   /\ d = 0 /\ e = ended["transform"] /\ f = finished["transform"]
      <4>1. CASE queue["transform"] # << >>
        BY <4>1, AnswerIs, Streams
      <4>2. CASE queue["transform"] = << >>
        BY <4>2, AnswerIs, Streams
      <4> QED
        BY <4>1, <4>2
    <3>2. PICK q2, w2, d2 : Fields(Chain!Received("transform", "sink", "second", c), q2, w2, d2, ended["sink"], finished["sink"])
             /\ \/ "sink" \in gone /\ q2 = queue["sink"] /\ w2 = writing["sink"] /\ d2 = chunk["sink"]
                \/ "sink" \notin gone /\ writing["sink"] = "no" /\ q2 = queue["sink"] /\ w2 = "chunk" /\ d2 = c
                \/ "sink" \notin gone /\ writing["sink"] # "no" /\ q2 = Append(queue["sink"], c) /\ w2 = writing["sink"]
                   /\ d2 = chunk["sink"]
      <4>1. CASE "sink" \in gone
        BY <4>1, <2>2, StateIs, Streams
      <4>2. CASE "sink" \notin gone /\ writing["sink"] = "no"
        BY <4>2, <2>2, WriteIs, Streams
      <4>3. CASE "sink" \notin gone /\ writing["sink"] # "no"
        BY <4>3, <2>2, WriteIs, Streams
      <4> QED
        BY <4>1, <4>2, <4>3
    <3> HIDE DEF c
    <3>3. Became("transform", q, w, d, e, f) /\ Became("sink", q2, w2, d2, ended["sink"], finished["sink"]) /\ Shaped
      BY <2>1, <3>1, <3>2, BecomesBoth
    <3> QED
      BY <3>1, <3>2, <3>3 DEF Answered, Became, Same
  <2>c. c \in Nat
    BY <1>t, Streams
  <2> HIDE DEF c
  <2>4. ChainTyped'
    <3>1. StreamTyped("transform")'
      BY <2>3, <1>i, Streams, StillTyped
    <3>2. StreamTyped("sink")'
      <4>1. StreamTyped("sink")
        BY <1>i, Streams DEF ChainTyped, StreamTyped
      <4>2. CASE Same("sink")
        BY <4>2, <1>i, Streams, StillTyped
      <4>3. CASE queue'["sink"] = queue["sink"] /\ writing'["sink"] = "chunk" /\ chunk'["sink"] = c
        BY <4>1, <4>3, <2>c DEF StreamTyped
      <4>4. CASE queue'["sink"] = Append(queue["sink"], c) /\ writing'["sink"] = writing["sink"]
                 /\ chunk'["sink"] = chunk["sink"]
        BY <4>1, <4>4, <2>c DEF StreamTyped
      <4> QED
        BY <2>3, <4>2, <4>3, <4>4
    <3>3. through' \in Seq(Nat)
      BY <2>1, <2>c, <1>i DEF ChainTyped
    <3> QED
      BY <3>1, <3>2, <3>3, <2>3, <1>1, <1>i, AllTyped DEF ChainTyped, Chain!sourceVars
  <2>5. EndsInv'
    <3>1. ~finished["sink"] /\ writing["sink"] # "final"
      BY <1>2, <1>i, Streams DEF EndsInv
    <3>2. ~finished'["sink"] /\ writing'["sink"] # "final" /\ ~ended'["sink"]
      BY <3>1, <2>3, <1>2 DEF Same, Became
    <3> QED
      BY <3>2, <2>3, <1>1, <1>2, <1>i, Streams DEF EndsInv, Answered, Became, Chain!sourceVars
  <2>6. GoneInv'
    BY <2>1, <1>1, <1>i DEF GoneInv, Chain!Emit
  <2>7. SinkInv'
    BY <2>1, <2>3, <2>c, <1>1, <1>4, <1>i, PassedOn
  <2>8. ChainToldInv'
    BY <2>3, <1>1, <1>2, <1>i, Streams DEF ChainToldInv, Same, Answered, Became
  <2> QED
    BY <2>4, <2>5, <2>6, <2>7, <2>8 DEF ChainInv
<1> QED
  BY <1>3, <1>4

LEMMA FlushedKeeps ==
  ASSUME ChainInv, Chain!Flushed
  PROVE  ChainInv'
<1>i. ChainTyped /\ EndsInv /\ GoneInv /\ SinkInv /\ ChainToldInv
  BY DEF ChainInv
<1>1. /\ writing["transform"] = "final" /\ readEnded' = TRUE
      /\ (onFinished' = onFinished \/ onFinished' = "ok")
      /\ micro' = micro \cup {<<"transform", "finish">>}
      /\ UNCHANGED <<Chain!sourceVars, sunk, through, gone, piped, paused, corked, error, told>>
  BY DEF Chain!Flushed, Chain!Done
<1>2. queue["transform"] = << >> /\ ended["transform"]
  BY <1>1, <1>i, Streams DEF EndsInv
<1> DEFINE t == [Chain!State("transform") EXCEPT !.writing = "no", !.finished = TRUE]
           k == IF readEnded THEN Chain!State("sink") ELSE Chain!EndOf("transform", "sink", "second")
           w2 == IF ~finished["sink"] /\ writing["sink"] = "no" /\ queue["sink"] = << >> THEN "final" ELSE writing["sink"]
<1>3. Fields(t, queue["transform"], "no", chunk["transform"], ended["transform"], TRUE)
  BY DEF Fields, Chain!State
<1>4. \/ k = Chain!State("sink")
      \/ k = Chain!End(Chain!State("sink"))
  BY DEF Chain!EndOf
<1>5. Chain!Becomes(t, k)
  BY DEF Chain!Flushed
<1>6. /\ Shaped /\ Became("transform", queue["transform"], "no", chunk["transform"], ended["transform"], TRUE)
      /\ Same("sink") \/ Became("sink", queue["sink"], w2, chunk["sink"], TRUE, finished["sink"])
  <2>1. CASE k = Chain!State("sink")
    <3>1. Fields(k, queue["sink"], writing["sink"], chunk["sink"], ended["sink"], finished["sink"])
      BY <2>1, StateIs, Streams
    <3> HIDE DEF t, k
    <3> QED
      BY <1>3, <1>5, <3>1, BecomesBoth DEF Same
  <2>2. CASE k = Chain!End(Chain!State("sink"))
    <3>1. Fields(k, queue["sink"], w2, chunk["sink"], TRUE, finished["sink"])
      BY <2>2, EndIs, Streams
    <3> HIDE DEF t, k, w2
    <3> QED
      BY <1>3, <1>5, <3>1, BecomesBoth
  <2> QED
    BY <2>1, <2>2, <1>4
<1>7. ChainTyped'
  <2>1. StreamTyped("sink") /\ StreamTyped("transform")
    BY <1>i, Streams DEF ChainTyped, StreamTyped
  <2>2. StreamTyped("transform")'
    BY <2>1, <1>6 DEF StreamTyped, Became
  <2>3. StreamTyped("sink")'
    BY <2>1, <1>6 DEF StreamTyped, Same, Became
  <2>4. through' \in Seq(Nat) /\ sunk' \in Seq(Nat) /\ chunks' \in Nat
    BY <1>1, <1>i DEF ChainTyped, Chain!sourceVars
  <2> QED
    BY <2>2, <2>3, <2>4, <1>6, AllTyped
<1>8. EndsInv'
  BY <1>1, <1>2, <1>6, <1>i, Streams DEF EndsInv, Same, Became, Chain!sourceVars
<1>9. GoneInv'
  BY <1>1, <1>i DEF GoneInv
<1>10. SinkInv'
  BY <1>1, <1>6, <1>i DEF SinkInv, Same, Became
<1>11. ChainToldInv'
  <2>1. finished'["transform"] /\ finished'["sink"] = finished["sink"]
    BY <1>6 DEF Same, Became
  <2>2. <<"sink", "finish">> # <<"transform", "finish">>
    OBVIOUS
  <2> QED
    BY <2>1, <2>2, <1>1, <1>i, Streams DEF ChainToldInv
<1> QED
  BY <1>7, <1>8, <1>9, <1>10, <1>11 DEF ChainInv

LEMMA SinkKeeps ==
  ASSUME ChainInv, Chain!SinkWrote \/ Chain!SinkFinal
  PROVE  ChainInv'
<1>i. ChainTyped /\ EndsInv /\ GoneInv /\ SinkInv /\ ChainToldInv
  BY DEF ChainInv
<1>t. queue["sink"] \in Seq(Nat) /\ chunk["sink"] \in Nat /\ Len(sunk) \in Nat /\ Len(through) \in Nat
      /\ sunk \in Seq(Nat) /\ Len(queue["sink"]) \in Nat
  BY <1>i, Streams DEF ChainTyped
<1>1. CASE Chain!SinkWrote
  <2>1. /\ writing["sink"] = "chunk" /\ sunk' = Append(sunk, chunk["sink"])
        /\ Chain!Becomes(Chain!State("transform"), Chain!Answer(Chain!State("sink")))
        /\ UNCHANGED <<Chain!sourceVars, Chain!readVars, Chain!chainVars, micro>>
    BY <1>1 DEF Chain!SinkWrote
  <2>2. Same("transform") /\ Shaped /\ Answered("sink")
    <3>1. CASE queue["sink"] # << >>
      <4>1. Fields(Chain!Answer(Chain!State("sink")), Tail(queue["sink"]), "chunk", Head(queue["sink"]),
                   ended["sink"], finished["sink"])
        BY <3>1, AnswerIs, Streams
      <4> QED
        BY <2>1, <3>1, <4>1, StateIs, BecomesBoth, Streams DEF Same, Answered
    <3>2. CASE queue["sink"] = << >>
      <4>1. Fields(Chain!Answer(Chain!State("sink")), << >>, IF ended["sink"] /\ ~finished["sink"] THEN "final" ELSE "no",
                     0, ended["sink"], finished["sink"])
        BY <3>2, AnswerIs, Streams
      <4> QED
        BY <2>1, <3>2, <4>1, StateIs, BecomesBoth, Streams DEF Same, Answered
    <3> QED
      BY <3>1, <3>2
  <2>3. Len(sunk') = Len(sunk) + 1 /\ sunk' \in Seq(Nat)
    BY <2>1, <1>t
  <2>4. ChainTyped'
    <3>1. StreamTyped("transform")' /\ StreamTyped("sink")'
      BY <2>2, <1>i, Streams, StillTyped
    <3>2. through' \in Seq(Nat) /\ sunk' \in Seq(Nat) /\ chunks' \in Nat
      BY <2>1, <2>3, <1>i DEF ChainTyped, Chain!sourceVars, Chain!readVars
    <3> QED
      BY <3>1, <3>2, <2>2, AllTyped
  <2>5. ~finished["sink"]
    BY <2>1, <1>i, Streams DEF EndsInv
  <2>6. EndsInv'
    BY <2>1, <2>2, <2>5, <1>i, Streams DEF EndsInv, Same, Answered, Became, Chain!sourceVars, Chain!readVars
  <2>7. GoneInv'
    BY <2>1, <1>i DEF GoneInv, Chain!chainVars, Chain!readVars
  <2>8. SinkInv'
    <3>1. Prefix(sunk, through) /\ Rest(Len(sunk), chunk["sink"], queue["sink"], through)
          /\ ("sink" \notin gone => Len(through) = Len(sunk) + 1 + Len(queue["sink"])) /\ through \in Seq(Nat)
      BY <2>1, <1>i DEF SinkInv, ChainTyped
    <3>2. Prefix(sunk', through)
      <4>1. Len(sunk) + 1 <= Len(through) /\ chunk["sink"] = through[Len(sunk) + 1]
        <5>1. Len(sunk) + 1 + Len(queue["sink"]) <= Len(through) /\ chunk["sink"] = through[Len(sunk) + 1]
          BY <3>1 DEF Rest
        <5> QED
          BY <5>1, <1>t, Numbers
      <4> QED
        BY <4>1, <3>1, <2>1, <1>t, PrefixMore
    <3>u. gone' = gone /\ through' = through
      BY <2>1 DEF Chain!readVars, Chain!chainVars
    <3>3. CASE queue["sink"] # << >>
      <4>1. queue'["sink"] = Tail(queue["sink"]) /\ writing'["sink"] = "chunk" /\ chunk'["sink"] = Head(queue["sink"])
        BY <3>3, <2>2 DEF Answered, Became
      <4>2. Len(queue'["sink"]) = Len(queue["sink"]) - 1
        BY <3>3, <4>1, <1>t, TailIs
      <4>3. Rest(Len(sunk) + 1, Head(queue["sink"]), Tail(queue["sink"]), through)
        BY <3>1, <3>3, <1>t, RestNext
      <4>4. Rest(Len(sunk'), chunk'["sink"], queue'["sink"], through)
        BY <4>1, <4>3, <2>3
      <4>5. "sink" \notin gone => Len(through) = Len(sunk') + 1 + Len(queue'["sink"])
        <5> SUFFICES ASSUME "sink" \notin gone
                     PROVE  Len(through) = Len(sunk') + 1 + Len(queue'["sink"])
          OBVIOUS
        <5>1. Len(through) = Len(sunk) + 1 + Len(queue["sink"])
          BY <3>1
        <5>2. Len(queue["sink"]) # 0
          BY <3>3, <1>t, TailIs
        <5>3. Len(through) = (Len(sunk) + 1) + 1 + (Len(queue["sink"]) - 1)
          BY <5>1, <5>2, <1>t, Numbers
        <5> QED
          BY <5>3, <2>3, <4>2
      <4> QED
        BY <3>2, <3>u, <4>1, <4>4, <4>5 DEF SinkInv
    <3>4. CASE queue["sink"] = << >>
      <4>1. queue'["sink"] = << >> /\ writing'["sink"] # "chunk"
        BY <3>4, <2>2 DEF Answered, Became
      <4>2. "sink" \notin gone => Len(through) = Len(sunk')
        <5>1. Len(<< >>) = 0
          OBVIOUS
        <5> QED
          BY <3>1, <2>3, <3>4, <5>1, <1>t
      <4> QED
        BY <3>2, <3>u, <4>1, <4>2 DEF SinkInv
    <3> QED
      BY <3>3, <3>4
  <2>9. ChainToldInv'
    BY <2>1, <2>2, <2>5, <1>i, Streams DEF ChainToldInv, Same, Answered, Became, Chain!chainVars
  <2> QED
    BY <2>4, <2>6, <2>7, <2>8, <2>9 DEF ChainInv
<1>2. CASE Chain!SinkFinal
  <2> DEFINE k == [Chain!State("sink") EXCEPT !.writing = "no", !.finished = TRUE]
  <2>1. /\ writing["sink"] = "final" /\ Chain!Becomes(Chain!State("transform"), k)
        /\ micro' = micro \cup {<<"sink", "finish">>}
        /\ UNCHANGED <<Chain!sourceVars, sunk, Chain!readVars, Chain!chainVars>>
    BY <1>2 DEF Chain!SinkFinal
  <2>2. Fields(k, queue["sink"], "no", chunk["sink"], ended["sink"], TRUE)
    BY DEF Fields, Chain!State
  <2> HIDE DEF k
  <2>3. Same("transform") /\ Shaped /\ Became("sink", queue["sink"], "no", chunk["sink"], ended["sink"], TRUE)
    BY <2>1, <2>2, StateIs, BecomesBoth, Streams DEF Same
  <2>4. ended["sink"] /\ queue["sink"] = << >> /\ ~finished["sink"]
    BY <2>1, <1>i, Streams DEF EndsInv
  <2>5. ChainTyped'
    <3>1. StreamTyped("transform")' /\ StreamTyped("sink")
      BY <2>3, <1>i, Streams, StillTyped DEF ChainTyped, StreamTyped
    <3>2. StreamTyped("sink")'
      BY <2>3, <3>1 DEF StreamTyped, Became
    <3>3. through' \in Seq(Nat) /\ sunk' \in Seq(Nat) /\ chunks' \in Nat
      BY <2>1, <1>i DEF ChainTyped, Chain!sourceVars, Chain!readVars
    <3> QED
      BY <3>1, <3>2, <3>3, <2>3, AllTyped
  <2>6. EndsInv'
    BY <2>1, <2>3, <2>4, <1>i, Streams DEF EndsInv, Same, Became, Chain!sourceVars, Chain!readVars
  <2>7. GoneInv'
    BY <2>1, <1>i DEF GoneInv, Chain!chainVars, Chain!readVars
  <2>8. SinkInv'
    BY <2>1, <2>3, <1>i DEF SinkInv, Became, Chain!readVars, Chain!chainVars
  <2>9. ChainToldInv'
    <3>1. finished'["sink"] /\ finished'["transform"] = finished["transform"]
      BY <2>3 DEF Same, Became
    <3>2. told \notin {<<"ok">>, <<"ok", "error">>}
      BY <2>4, <1>i DEF ChainToldInv
    <3> QED
      BY <3>1, <3>2, <2>1, <1>i, Streams DEF ChainToldInv, Chain!chainVars
  <2> QED
    BY <2>5, <2>6, <2>7, <2>8, <2>9 DEF ChainInv
<1> QED
  BY <1>1, <1>2

LEMMA OneMore == ASSUME NEW a, NEW b PROVE Append(<< >>, a) = <<a>> /\ Append(<<a>>, b) = <<a, b>>
<1> DEFINE e == << >>
           f == <<a>>
           g == <<a, b>>
<1>1. /\ e \in Seq({a, b}) /\ Len(e) = 0
      /\ f \in Seq({a, b}) /\ Len(f) = 1 /\ f[1] = a
      /\ g \in Seq({a, b}) /\ Len(g) = 2 /\ g[1] = a /\ g[2] = b
  OBVIOUS
<1> HIDE DEF e, f, g
<1>2. Append(e, a) \in Seq({a, b}) /\ Len(Append(e, a)) = 1 /\ Append(e, a)[1] = a
  BY <1>1
<1>3. /\ Append(f, b) \in Seq({a, b}) /\ Len(Append(f, b)) = 2
      /\ Append(f, b)[1] = a /\ Append(f, b)[2] = b
  <2>1. /\ Append(f, b) \in Seq({a, b}) /\ Len(Append(f, b)) = Len(f) + 1
        /\ (\A i \in 1 .. Len(f) : Append(f, b)[i] = f[i]) /\ Append(f, b)[Len(f) + 1] = b
    <3>1. b \in {a, b}
      OBVIOUS
    <3> DEFINE S == {a, b}
    <3>2. b \in S /\ f \in Seq(S)
      BY <3>1, <1>1
    <3> HIDE DEF S
    <3>3. /\ Append(f, b) \in Seq(S) /\ Len(Append(f, b)) = Len(f) + 1
          /\ (\A i \in 1 .. Len(f) : Append(f, b)[i] = f[i]) /\ Append(f, b)[Len(f) + 1] = b
      BY <3>2, AppendProperties
    <3> QED
      BY <3>3 DEF S
  <2> QED
    BY <2>1, <1>1
<1>4. Append(e, a) = f
  BY <1>1, <1>2
<1>5. Append(f, b) = g
  BY <1>1, <1>3
<1> QED
  BY <1>4, <1>5 DEF e, f, g

\* The two lists a callback may have heard differ from the one of success.
LEMMA ToldApart ==
  /\ <<"ok">> # << >> /\ <<"error">> # <<"ok">> /\ <<"error">> # <<"ok", "error">>
  /\ <<"ok", "error">> # <<"ok">> /\ <<"ok", "error">> # << >>
<1> DEFINE a == <<"ok">>
           b == <<"error">>
           c == <<"ok", "error">>
           e == << >>
<1>1. a[1] = "ok" /\ b[1] = "error" /\ c[1] = "ok" /\ Len(a) = 1 /\ Len(c) = 2 /\ Len(e) = 0
  OBVIOUS
<1> HIDE DEF a, b, c, e
<1>2. a # e /\ b # a /\ b # c /\ c # a /\ c # e
  BY <1>1
<1> QED
  BY <1>2 DEF a, b, c, e

LEMMA ErrorKeeps ==
  ASSUME ChainInv, NEW s \in Chain!Stream, Chain!OnError(s), UNCHANGED <<Chain!sourceVars, queue, ended, finished, sunk, through, paused>>,
         \/ UNCHANGED <<writing, chunk, onFinished>>
         \/ /\ s \in Chain!Written /\ writing[s] # "no"
            /\ writing' = [writing EXCEPT ![s] = "no"] /\ chunk' = [chunk EXCEPT ![s] = 0]
            /\ onFinished' \in {onFinished, "error"}
  PROVE  ChainInv'
<1>i. ChainTyped /\ EndsInv /\ GoneInv /\ SinkInv /\ ChainToldInv
  BY DEF ChainInv
<1>1. /\ \A t \in Chain!Written : \/ writing'[t] = writing[t] /\ chunk'[t] = chunk[t]
                                  \/ writing'[t] = "no" /\ chunk'[t] = 0
      /\ Shaped /\ (onFinished' = "ok" => onFinished = "ok")
  <2>1. CASE UNCHANGED <<writing, chunk, onFinished>>
    BY <2>1, <1>i DEF ChainTyped, Shaped
  <2>2. CASE /\ s \in Chain!Written /\ writing[s] # "no"
             /\ writing' = [writing EXCEPT ![s] = "no"] /\ chunk' = [chunk EXCEPT ![s] = 0]
             /\ onFinished' \in {onFinished, "error"}
    <3>1. writing' = [t \in Chain!Written |-> IF t = s THEN "no" ELSE writing[t]]
      BY <2>2, <1>i DEF ChainTyped
    <3>2. chunk' = [t \in Chain!Written |-> IF t = s THEN 0 ELSE chunk[t]]
      BY <2>2, <1>i DEF ChainTyped
    <3> QED
      BY <3>1, <3>2, <2>2 DEF Shaped
  <2> QED
    BY <2>1, <2>2
<1>2. /\ error' # "none" /\ gone' = Chain!Stream /\ readEnded'
      /\ error = "none" => told' = Append(told, "error")
      /\ error # "none" => told' = told
      /\ \A t, e : <<t, e>> \in micro' => <<t, e>> \in micro \/ (t \in Chain!Stream /\ e = "close")
  <2>1. s # "none" /\ "transform" \in Chain!Stream
    BY DEF Chain!Stream
  <2>2. CASE error = "none"
    BY <2>1, <2>2 DEF Chain!OnError
  <2>3. CASE error # "none"
    BY <2>1, <2>3, <1>i DEF Chain!OnError, GoneInv
  <2> QED
    BY <2>2, <2>3
<1>3. ChainTyped'
  <2>1. StreamTyped("transform") /\ StreamTyped("sink")
    BY <1>i, Streams DEF ChainTyped, StreamTyped
  <2>2. StreamTyped("transform")' /\ StreamTyped("sink")'
    BY <2>1, <1>1, Streams DEF StreamTyped
  <2>3. through' \in Seq(Nat) /\ sunk' \in Seq(Nat) /\ chunks' \in Nat
    BY <1>i DEF ChainTyped, Chain!sourceVars
  <2> QED
    BY <2>2, <2>3, <1>1, AllTyped
<1>4. EndsInv'
  BY <1>1, <1>2, <1>i, Streams DEF EndsInv, Chain!sourceVars
<1>5. GoneInv'
  <2>1. "sink" \in gone' /\ "transform" \in gone'
    BY <1>2 DEF Chain!Stream
  <2> QED
    BY <2>1, <1>2, <1>i DEF GoneInv
<1>6. SinkInv'
  <2>1. "sink" \in gone' /\ Prefix(sunk', through')
    BY <1>2, <1>i DEF Chain!Stream, SinkInv
  <2>2. ASSUME writing'["sink"] = "chunk"
        PROVE  Rest(Len(sunk'), chunk'["sink"], queue'["sink"], through')
    <3>1. writing["sink"] = "chunk" /\ chunk'["sink"] = chunk["sink"]
      BY <2>2, <1>1, Streams
    <3> QED
      BY <3>1, <1>i DEF SinkInv
  <2> QED
    BY <2>1, <2>2 DEF SinkInv
<1>7. ChainToldInv'
  <2>1. /\ (error = "none" => told \in {<< >>, <<"ok">>})
        /\ (error # "none" => told \in {<<"error">>, <<"ok", "error">>})
        /\ (told \in {<<"ok">>, <<"ok", "error">>} => finished["sink"] /\ <<"sink", "finish">> \notin micro)
    BY <1>i DEF ChainToldInv
  <2>2. <<"sink", "finish">> \in micro' => <<"sink", "finish">> \in micro
    BY <1>2
  <2>3. /\ told' \in {<<"error">>, <<"ok", "error">>}
        /\ (told' \in {<<"ok">>, <<"ok", "error">>} => told \in {<<"ok">>, <<"ok", "error">>})
    <3>1. CASE error # "none"
      BY <3>1, <2>1, <1>2
    <3>2. CASE error = "none" /\ told = << >>
      <4>1. told' = <<"error">>
        BY <3>2, <1>2, OneMore
      <4> QED
        BY <4>1, ToldApart
    <3>3. CASE error = "none" /\ told = <<"ok">>
      <4>1. told' = <<"ok", "error">>
        BY <3>3, <1>2, OneMore
      <4> QED
        BY <4>1, <3>3
    <3> QED
      BY <3>1, <3>2, <3>3, <2>1
  <2>4. \A t \in Chain!Written : <<t, "finish">> \in micro' => finished'[t]
    BY <1>2, <1>i DEF ChainToldInv
  <2> QED
    BY <2>1, <2>2, <2>3, <2>4, <1>1, <1>2, <1>i DEF ChainToldInv
<1> QED
  BY <1>3, <1>4, <1>5, <1>6, <1>7 DEF ChainInv

LEMMA DestroyKeeps == ASSUME ChainInv, NEW s \in Chain!Stream, Chain!Destroy(s) PROVE ChainInv'
<1>i. ChainTyped /\ EndsInv /\ GoneInv /\ SinkInv /\ ChainToldInv
  BY DEF ChainInv
<1>1. /\ gone' = gone \cup {s} /\ micro' = micro \cup {<<s, "close">>}
      /\ readEnded' = (readEnded \/ s = "transform")
      /\ UNCHANGED <<Chain!sourceVars, Chain!writeVars, through, piped, paused, error, told, onFinished>>
  BY DEF Chain!Destroy
<1>2. ChainTyped'
  BY <1>1, <1>i DEF ChainTyped, Chain!sourceVars, Chain!writeVars
<1>3. EndsInv'
  BY <1>1, <1>i DEF EndsInv, Chain!sourceVars, Chain!writeVars
<1>4. GoneInv'
  BY <1>1, <1>i DEF GoneInv, Chain!Stream
<1>5. SinkInv'
  BY <1>1, <1>i DEF SinkInv, Chain!writeVars
<1>6. ChainToldInv'
  <2>1. \A t : <<t, "finish">> \in micro' <=> <<t, "finish">> \in micro
    BY <1>1
  <2> QED
    BY <2>1, <1>1, <1>i DEF ChainToldInv, Chain!writeVars
<1> QED
  BY <1>2, <1>3, <1>4, <1>5, <1>6 DEF ChainInv

LEMMA FinishKeeps == ASSUME ChainInv, NEW s \in Chain!Stream, Chain!Finish(s) PROVE ChainInv'
<1>i. ChainTyped /\ EndsInv /\ GoneInv /\ SinkInv /\ ChainToldInv
  BY DEF ChainInv
<1>1. /\ <<s, "finish">> \in micro /\ micro' = micro \ {<<s, "finish">>}
      /\ told' = IF s = "sink" /\ error = "none" THEN Append(told, "ok") ELSE told
      /\ (onFinished' = "ok" => onFinished = "ok" \/ s = "transform")
      /\ UNCHANGED <<Chain!sourceVars, Chain!writeVars, Chain!readVars, gone, piped, paused, error>>
  BY DEF Chain!Finish, Chain!Done
<1>2. ChainTyped'
  BY <1>1, <1>i DEF ChainTyped, Chain!sourceVars, Chain!writeVars, Chain!readVars
<1>3. EndsInv'
  BY <1>1, <1>i DEF EndsInv, Chain!sourceVars, Chain!writeVars, Chain!readVars
<1>4. GoneInv'
  BY <1>1, <1>i DEF GoneInv, Chain!readVars
<1>5. SinkInv'
  BY <1>1, <1>i DEF SinkInv, Chain!writeVars, Chain!readVars
<1>6. ChainToldInv'
  <2>1. /\ \A t \in Chain!Written : <<t, "finish">> \in micro => finished[t]
        /\ (error = "none" => told \in {<< >>, <<"ok">>})
        /\ (error # "none" => told \in {<<"error">>, <<"ok", "error">>})
        /\ (told \in {<<"ok">>, <<"ok", "error">>} => finished["sink"] /\ <<"sink", "finish">> \notin micro)
        /\ (onFinished = "ok" => finished["transform"])
    BY <1>i DEF ChainToldInv
  <2>2. (onFinished = "ok")' => finished'["transform"]
    BY <1>1, <2>1, Streams DEF Chain!writeVars
  <2>3. CASE s = "sink" /\ error = "none"
    <3>1. finished["sink"] /\ told = << >>
      BY <2>1, <2>3, <1>1, Streams
    <3>2. told' = <<"ok">>
      BY <3>1, <2>3, <1>1, OneMore
    <3> QED
      BY <2>1, <2>2, <2>3, <3>1, <3>2, <1>1 DEF ChainToldInv, Chain!writeVars
  <2>4. CASE ~(s = "sink" /\ error = "none")
    BY <2>1, <2>2, <2>4, <1>1 DEF ChainToldInv, Chain!writeVars
  <2> QED
    BY <2>3, <2>4
<1> QED
  BY <1>2, <1>3, <1>4, <1>5, <1>6 DEF ChainInv

LEMMA CloseKeeps == ASSUME ChainInv, NEW s \in Chain!Stream, Chain!Close(s) PROVE ChainInv'
<1>i. ChainTyped /\ EndsInv /\ GoneInv /\ SinkInv /\ ChainToldInv
  BY DEF ChainInv
<1>1. /\ <<s, "close">> \in micro /\ micro' = micro \ {<<s, "close">>}
      /\ piped' = IF s = "transform" THEN piped \ {"first"}
                  ELSE IF s = "sink" THEN piped \ {"second"} ELSE piped
      /\ (onFinished' = "ok" => onFinished = "ok" \/ finished["transform"])
      /\ UNCHANGED <<Chain!sourceVars, Chain!writeVars, Chain!readVars, gone, paused, error, told>>
  BY DEF Chain!Close, Chain!Done
<1>2. ChainTyped'
  BY <1>1, <1>i DEF ChainTyped, Chain!sourceVars, Chain!writeVars, Chain!readVars
<1>3. EndsInv'
  BY <1>1, <1>i DEF EndsInv, Chain!sourceVars, Chain!writeVars, Chain!readVars
<1>4. GoneInv'
  BY <1>1, <1>i DEF GoneInv, Chain!readVars
<1>5. SinkInv'
  BY <1>1, <1>i DEF SinkInv, Chain!writeVars, Chain!readVars
<1>6. ChainToldInv'
  BY <1>1, <1>i DEF ChainToldInv, Chain!writeVars
<1> QED
  BY <1>2, <1>3, <1>4, <1>5, <1>6 DEF ChainInv

LEMMA ChainStep == ASSUME ChainInv, [Chain!Next]_(Chain!vars) PROVE ChainInv'
<1>1. CASE Chain!SourcePush \/ Chain!SourceEnd
  BY <1>1, SourceKeeps
<1>2. CASE Chain!SourceError
  <2>1. "source" \in Chain!Stream /\ Chain!OnError("source")
        /\ UNCHANGED <<Chain!sourceVars, Chain!writeVars, endEmitted, through, paused, corked, onFinished>>
    BY <1>2 DEF Chain!SourceError, Chain!Stream
  <2> QED
    BY <2>1, ErrorKeeps DEF Chain!writeVars
<1>3. CASE \E keeps \in BOOLEAN : Chain!Transformed(keeps)
  BY <1>3, TransformedKeeps
<1>4. CASE Chain!Flushed
  BY <1>4, FlushedKeeps
<1>5. CASE Chain!SinkWrote \/ Chain!SinkFinal
  BY <1>5, SinkKeeps
<1>6. ASSUME NEW s \in Chain!Written, Chain!Fails(s) PROVE ChainInv'
  <2>1. s \in Chain!Stream
    BY DEF Chain!Written, Chain!Stream
  <2>2. /\ writing[s] # "no" /\ writing' = [writing EXCEPT ![s] = "no"] /\ chunk' = [chunk EXCEPT ![s] = 0]
        /\ Chain!OnError(s) /\ onFinished' \in {onFinished, "error"}
        /\ UNCHANGED <<Chain!sourceVars, queue, ended, finished, sunk, through, paused>>
    BY <1>6 DEF Chain!Fails, Chain!Done
  <2> QED
    BY <2>1, <2>2, ErrorKeeps
<1>7. ASSUME NEW s \in Chain!Stream, Chain!Destroy(s) \/ Chain!Finish(s) \/ Chain!Close(s) PROVE ChainInv'
  BY <1>7, DestroyKeeps, FinishKeeps, CloseKeeps
<1>8. CASE UNCHANGED Chain!vars
  BY <1>8 DEF Chain!vars, Chain!sourceVars, Chain!writeVars, Chain!readVars, Chain!chainVars, ChainInv, ChainTyped, EndsInv, GoneInv,
              SinkInv, ChainToldInv
<1> QED
  BY <1>1, <1>2, <1>3, <1>4, <1>5, <1>6, <1>7, <1>8 DEF Chain!Next

LEMMA ChainHolds == ASSUME MaxChunk \in Nat PROVE Chain!Spec => []ChainInv
<1>1. Chain!Init => ChainInv
  BY ChainInit
<1>2. ChainInv /\ [Chain!Next]_(Chain!vars) => ChainInv'
  BY ChainStep
<1> QED
  BY <1>1, <1>2, PTL DEF Chain!Spec

LEMMA Alike ==
  ASSUME NEW a \in Seq(Nat), NEW b \in Seq(Nat), Len(a) = Len(b),
         \A k \in 1 .. Len(a) : a[k] = b[k]
  PROVE  a = b
  OBVIOUS

(* What the sink wrote is a part of what the transform passed on, from its  *)
(* start (pipe and _write of streams.js).                                   *)
THEOREM ChainInOrderAlways == ASSUME MaxChunk \in Nat PROVE Chain!Spec => []Chain!ChainInOrder
<1>1. ChainInv => Chain!ChainInOrder
  <2> SUFFICES ASSUME ChainInv PROVE Chain!ChainInOrder
    OBVIOUS
  <2>1. through \in Seq(Nat) /\ sunk \in Seq(Nat) /\ Prefix(sunk, through)
    BY DEF ChainInv, ChainTyped, SinkInv
  <2> DEFINE n == Len(sunk)
             t == SubSeq(through, 1, n)
  <2>2. n \in 0 .. Len(through)
    BY <2>1 DEF Prefix
  <2>3. t \in Seq(Nat) /\ Len(t) = n /\ \A k \in 1 .. n : t[k] = through[k]
    BY <2>1, <2>2
  <2>4. \A k \in 1 .. n : sunk[k] = through[k]
    BY <2>1 DEF Prefix
  <2>5. Len(sunk) = n
    OBVIOUS
  <2> HIDE DEF t, n
  <2>6. sunk = t
    BY <2>1, <2>3, <2>4, <2>5, Alike
  <2> QED
    BY <2>2, <2>6 DEF t, Chain!ChainInOrder
<1> QED
  BY <1>1, ChainHolds, PTL

(* The callback of pipeline hears of success when all of it is written, and *)
(* of one error at most (streams.js).                                       *)
THEOREM PipelineIsTrueAlways == ASSUME MaxChunk \in Nat PROVE Chain!Spec => []Chain!PipelineIsTrue
<1>1. ChainInv => Chain!PipelineIsTrue
  <2> SUFFICES ASSUME ChainInv PROVE Chain!PipelineIsTrue
    OBVIOUS
  <2>i. ChainTyped /\ EndsInv /\ SinkInv /\ ChainToldInv
    BY DEF ChainInv
  <2>1. ASSUME told = <<"ok">>, gone = {}
        PROVE  sunk = through /\ queue["sink"] = << >> /\ sourceEnded /\ queue["transform"] = << >>
    <3>1. finished["sink"]
      BY <2>1, <2>i DEF ChainToldInv
    <3>2. ended["sink"] /\ queue["sink"] = << >> /\ writing["sink"] = "no"
      BY <3>1, <2>i, Streams DEF EndsInv
    <3>3. finished["transform"]
      BY <3>2, <2>i DEF EndsInv
    <3>4. ended["transform"] /\ queue["transform"] = << >> /\ sourceEnded
      BY <3>3, <2>i, Streams DEF EndsInv
    <3>5. Len(through) = Len(sunk) /\ Prefix(sunk, through)
      BY <3>2, <2>1, <2>i DEF SinkInv
    <3>6. sunk = through
      <4>1. through \in Seq(Nat) /\ sunk \in Seq(Nat)
        BY <2>i DEF ChainTyped
      <4>2. \A k \in 1 .. Len(sunk) : sunk[k] = through[k]
        BY <3>5 DEF Prefix
      <4> QED
        BY <3>5, <4>1, <4>2, Alike
    <3> QED
      BY <3>2, <3>4, <3>6
  <2>2. told \in {<< >>, <<"ok">>, <<"error">>, <<"ok", "error">>}
    BY <2>i DEF ChainToldInv
  <2> QED
    BY <2>1, <2>2 DEF Chain!PipelineIsTrue
<1> QED
  BY <1>1, ChainHolds, PTL

(* finished() says ok of a transform that took all it was given.            *)
THEOREM FinishedIsTrueAlways == ASSUME MaxChunk \in Nat PROVE Chain!Spec => []Chain!FinishedIsTrue
<1>1. ChainInv => Chain!FinishedIsTrue
  BY Streams DEF ChainInv, ChainToldInv, EndsInv, Chain!FinishedIsTrue
<1> QED
  BY <1>1, ChainHolds, PTL

-----------------------------------------------------------------------------
CONSTANTS
  MaxEvent, MaxError, MaxNext

VARIABLES
  ofError, signal, emitted, failed, owed, onceHears, first, iterates, hears,
  unconsumed, waiting, kept, answers, from, to

Iterator == INSTANCE EventIterator WITH
  promise <- owed, error <- kept

(* EventIterator: EventEmitter.once and the iterator of EventEmitter.on.    *)

-----------------------------------------------------------------------------
(* The promise of once.                                                     *)
OnceInv ==
  /\ Iterator!OnceIsTheFirst
  /\ owed.is = "waiting" =>
       /\ "event" \in onceHears /\ (~ofError => "error" \in onceHears)
       /\ (signal = "live" => "abort" \in onceHears)

LEMMA OnceHolds == Iterator!Spec => []OnceInv
<1>1. Iterator!Init => OnceInv
  BY DEF Iterator!Init, OnceInv, Iterator!OnceIsTheFirst, Iterator!Is
<1>2. OnceInv /\ [Iterator!Next]_(Iterator!vars) => OnceInv'
  <2> SUFFICES ASSUME OnceInv, [Iterator!Next]_(Iterator!vars) PROVE OnceInv'
    OBVIOUS
  <2> USE DEF OnceInv, Iterator!OnceIsTheFirst, Iterator!iteratorVars, Iterator!onceVars
  <2>1. CASE Iterator!Once
    BY <2>1 DEF Iterator!Once, Iterator!Is, Iterator!Added
  <2>2. CASE Iterator!On \/ Iterator!NextCall \/ Iterator!ReturnCall \/ Iterator!ThrowCall \/ UNCHANGED Iterator!vars
    BY <2>2 DEF Iterator!On, Iterator!NextCall, Iterator!ReturnCall, Iterator!ThrowCall, Iterator!vars
  <2>3. CASE Iterator!Emit \/ Iterator!EmitAfterReturn
    BY <2>3 DEF Iterator!Emit, Iterator!EmitAfterReturn, Iterator!OnceMeets, Iterator!ValueOf
  <2>4. CASE Iterator!Fail
    BY <2>4 DEF Iterator!Fail, Iterator!OnceMeets, Iterator!Is
  <2>5. CASE Iterator!Abort
    BY <2>5 DEF Iterator!Abort, Iterator!OnceMeets, Iterator!Is
  <2> QED
    BY <2>1, <2>2, <2>3, <2>4, <2>5 DEF Iterator!Next
<1> QED
  BY <1>1, <1>2, PTL DEF Iterator!Spec

(* The promise of EventEmitter.once has what came first since the call, and *)
(* once it is settled nothing of the call listens (eventemitter.js).        *)
THEOREM OnceIsTheFirstAlways == Iterator!Spec => []Iterator!OnceIsTheFirst
<1>1. OnceInv => Iterator!OnceIsTheFirst
  BY DEF OnceInv
<1> QED
  BY <1>1, OnceHolds, PTL

-----------------------------------------------------------------------------
(* The iterator.                                                            *)
AnAnswer == [is : {"none", "waiting", "rejected", "done", "doneInside", "value"}, event : Nat]

TimeInv ==
  /\ emitted \in Nat /\ from \in Nat /\ to \in Nat /\ from <= to /\ to <= emitted
  /\ iterates \in {"no", "open", "finished"}
  /\ iterates = "open" => to = emitted
  /\ "event" \in hears <=> iterates = "open"
  /\ iterates = "no" =>
       unconsumed = << >> /\ answers = << >> /\ waiting = << >> /\ from = 0 /\ to = 0

SeqsTyped == answers \in Seq(AnAnswer) /\ unconsumed \in Seq(Nat) /\ waiting \in Seq(Nat)
WaitQuiet == waiting # << >> => unconsumed = << >> /\ iterates = "open"
WaitIs == \A k \in 1 .. Len(waiting) :
            waiting[k] \in 1 .. Len(answers) /\ answers[waiting[k]].is = "waiting"
AllWait == \A i \in 1 .. Len(answers) :
             answers[i].is = "waiting" => \E k \in 1 .. Len(waiting) : waiting[k] = i
WaitSorted == \A k, l \in 1 .. Len(waiting) : k < l => waiting[k] < waiting[l]
ValuesFirst == \A i \in 1 .. Len(answers), k \in 1 .. Len(waiting) :
                 answers[i].is = "value" => i < waiting[k]

WaitInv == SeqsTyped /\ WaitQuiet /\ WaitIs /\ AllWait /\ WaitSorted /\ ValuesFirst

\* EventsInOrder, element by element.
Given == to - Len(unconsumed)
KeptInOrder ==
  from <= Given /\ \A i \in 1 .. Len(unconsumed) : unconsumed[i] = Given + i
GivenTyped == \A i \in 1 .. Len(answers) :
                answers[i].is = "value" => answers[i].event \in (from + 1) .. Given
AllGiven == \A e \in (from + 1) .. Given : \E i \in 1 .. Len(answers) :
              answers[i].is = "value" /\ answers[i].event = e
GivenInOrder == \A i, j \in 1 .. Len(answers) :
                  answers[i].is = "value" /\ answers[j].is = "value" /\ i < j
                    => answers[i].event < answers[j].event

OrderInv == KeptInOrder /\ GivenTyped /\ AllGiven /\ GivenInOrder

IterInv == TimeInv /\ WaitInv /\ OrderInv

-----------------------------------------------------------------------------
(* What the steps do to the answers: one is added, the first that waits is  *)
(* given, all that wait are.                                                *)
AnswerAdded(a) ==
  /\ a \in AnAnswer /\ answers' \in Seq(AnAnswer) /\ Len(answers') = Len(answers) + 1
  /\ answers'[Len(answers) + 1] = a
  /\ \A i \in 1 .. Len(answers) : answers'[i] = answers[i]
AnswerGiven(w, a) ==
  /\ a \in AnAnswer /\ answers' \in Seq(AnAnswer) /\ Len(answers') = Len(answers)
  /\ w \in 1 .. Len(answers) /\ answers'[w] = a
  /\ \A i \in 1 .. Len(answers) : i # w => answers'[i] = answers[i]
WaitTail ==
  /\ waiting' \in Seq(Nat) /\ Len(waiting') = Len(waiting) - 1
  /\ \A k \in 1 .. Len(waiting') : k + 1 \in 1 .. Len(waiting) /\ waiting'[k] = waiting[k + 1]
  /\ \A k \in 1 .. Len(waiting) : k # 1 => k - 1 \in 1 .. Len(waiting') /\ waiting'[k - 1] = waiting[k]

LEMMA SeqAppend ==
  ASSUME NEW S, NEW s \in Seq(S), NEW x \in S
  PROVE  /\ Append(s, x) \in Seq(S) /\ Len(Append(s, x)) = Len(s) + 1
         /\ Append(s, x)[Len(s) + 1] = x
         /\ \A i \in 1 .. Len(s) : Append(s, x)[i] = s[i]
  OBVIOUS

LEMMA SeqUpdate ==
  ASSUME NEW S, NEW s \in Seq(S), NEW x \in S, NEW w \in 1 .. Len(s), NEW t, t = [s EXCEPT ![w] = x]
  PROVE  /\ t \in Seq(S) /\ Len(t) = Len(s) /\ t[w] = x
         /\ \A i \in 1 .. Len(s) : i # w => t[i] = s[i]
  OBVIOUS

LEMMA SeqTail ==
  ASSUME NEW S, NEW s \in Seq(S), s # << >>
  PROVE  /\ Head(s) = s[1] /\ Len(s) \in Nat \ {0} /\ s[1] \in S
         /\ Tail(s) \in Seq(S) /\ Len(Tail(s)) = Len(s) - 1
         /\ \A k \in 1 .. Len(Tail(s)) : k + 1 \in 1 .. Len(s) /\ Tail(s)[k] = s[k + 1]
         /\ \A k \in 1 .. Len(s) : k # 1 => k - 1 \in 1 .. Len(Tail(s)) /\ Tail(s)[k - 1] = s[k]
<1>1. /\ Head(s) = s[1] /\ Len(s) \in Nat \ {0} /\ s[1] \in S
      /\ Tail(s) \in Seq(S) /\ Len(Tail(s)) = Len(s) - 1
      /\ \A k \in 1 .. Len(Tail(s)) : Tail(s)[k] = s[k + 1]
  OBVIOUS
<1> QED
  BY <1>1

\* The first call that waits is given an answer.
LEMMA FirstGiven ==
  ASSUME WaitInv, waiting # << >>, NEW a \in AnAnswer, a.is # "waiting",
         answers' = [answers EXCEPT ![Head(waiting)] = a], waiting' = Tail(waiting),
         unconsumed' = unconsumed, iterates' = iterates
  PROVE  /\ WaitInv' /\ AnswerGiven(waiting[1], a) /\ answers[waiting[1]].is = "waiting"
         /\ \A i \in 1 .. Len(answers) : answers[i].is = "value" => i < waiting[1]
         /\ unconsumed = << >>
<1>i. SeqsTyped /\ WaitQuiet /\ WaitIs /\ AllWait /\ WaitSorted /\ ValuesFirst
  BY DEF WaitInv
<1>1. WaitTail /\ Head(waiting) = waiting[1] /\ Len(waiting) \in Nat \ {0}
  BY <1>i, SeqTail DEF SeqsTyped, WaitTail
<1>2. waiting[1] \in 1 .. Len(answers) /\ answers[waiting[1]].is = "waiting" /\ 1 \in 1 .. Len(waiting)
  BY <1>i, <1>1 DEF WaitIs
<1>3. AnswerGiven(waiting[1], a)
  BY <1>i, <1>1, <1>2, SeqUpdate DEF SeqsTyped, AnswerGiven
<1>4. SeqsTyped'
  BY <1>i, <1>1, <1>3 DEF SeqsTyped, WaitTail, AnswerGiven
<1>5. WaitQuiet' /\ unconsumed = << >>
  BY <1>i DEF WaitQuiet
<1>6. \A k \in 1 .. Len(waiting') : k + 1 \in 1 .. Len(waiting) /\ waiting'[k] = waiting[k + 1] /\ waiting[1] < waiting'[k]
  BY <1>i, <1>1, <1>2 DEF WaitTail, WaitSorted, SeqsTyped
<1>7. WaitIs'
  <2> SUFFICES ASSUME NEW k \in 1 .. Len(waiting')
               PROVE  waiting'[k] \in 1 .. Len(answers') /\ answers'[waiting'[k]].is = "waiting"
    BY DEF WaitIs
  <2>1. waiting'[k] \in 1 .. Len(answers) /\ answers[waiting'[k]].is = "waiting" /\ waiting'[k] # waiting[1]
    BY <1>6, <1>i, <1>2 DEF WaitIs
  <2> QED
    BY <2>1, <1>3 DEF AnswerGiven
<1>8. AllWait'
  <2> SUFFICES ASSUME NEW i \in 1 .. Len(answers'), answers'[i].is = "waiting"
               PROVE  \E k \in 1 .. Len(waiting') : waiting'[k] = i
    BY DEF AllWait
  <2>1. i \in 1 .. Len(answers) /\ i # waiting[1] /\ answers[i].is = "waiting"
    BY <1>3 DEF AnswerGiven
  <2>2. PICK k \in 1 .. Len(waiting) : waiting[k] = i
    BY <2>1, <1>i DEF AllWait
  <2> QED
    BY <2>1, <2>2, <1>1 DEF WaitTail
<1>9. WaitSorted'
  <2> SUFFICES ASSUME NEW k \in 1 .. Len(waiting'), NEW l \in 1 .. Len(waiting'), k < l
               PROVE  waiting'[k] < waiting'[l]
    BY DEF WaitSorted
  <2>1. waiting'[k] = waiting[k + 1] /\ waiting'[l] = waiting[l + 1] /\ k + 1 < l + 1
        /\ k + 1 \in 1 .. Len(waiting) /\ l + 1 \in 1 .. Len(waiting)
    BY <1>6
  <2> QED
    BY <2>1, <1>i DEF WaitSorted
<1>11. \A i \in 1 .. Len(answers) : answers[i].is = "value" => i < waiting[1]
  BY <1>i, <1>2 DEF ValuesFirst
<1>10. ValuesFirst'
  <2> SUFFICES ASSUME NEW i \in 1 .. Len(answers'), NEW k \in 1 .. Len(waiting'), answers'[i].is = "value"
               PROVE  i < waiting'[k]
    BY DEF ValuesFirst
  <2>1. waiting[1] < waiting'[k] /\ waiting[1] \in Nat /\ waiting'[k] \in Nat /\ i \in 1 .. Len(answers)
    BY <1>6, <1>2, <1>3, <1>4 DEF AnswerGiven, SeqsTyped
  <2>2. i = waiting[1] \/ i < waiting[1]
    BY <1>3, <1>11, <2>1 DEF AnswerGiven
  <2> QED
    BY <2>1, <2>2
<1> QED
  BY <1>2, <1>3, <1>4, <1>5, <1>7, <1>8, <1>9, <1>10, <1>11 DEF WaitInv

\* An answer that is no event leaves what was given.
LEMMA NoValueGiven ==
  ASSUME OrderInv, SeqsTyped, unconsumed' = unconsumed, from' = from, to' = to,
         Len(answers') \in Nat, Len(answers) <= Len(answers'),
         \A i \in 1 .. Len(answers) :
           (answers[i].is = "value" \/ answers'[i].is = "value") => answers'[i] = answers[i],
         \A i \in 1 .. Len(answers') : answers'[i].is = "value" => i <= Len(answers)
  PROVE  OrderInv'
<1>i. KeptInOrder /\ GivenTyped /\ AllGiven /\ GivenInOrder /\ Len(answers) \in Nat
  BY DEF OrderInv, SeqsTyped
<1>1. Given' = Given /\ KeptInOrder'
  BY <1>i DEF Given, KeptInOrder
<1>2. \A i \in 1 .. Len(answers') :
        answers'[i].is = "value" => i \in 1 .. Len(answers) /\ answers'[i] = answers[i]
  BY <1>i
<1>3. GivenTyped'
  BY <1>1, <1>2, <1>i DEF GivenTyped
<1>4. AllGiven'
  <2> SUFFICES ASSUME NEW e \in (from + 1) .. Given
               PROVE  \E i \in 1 .. Len(answers') : answers'[i].is = "value" /\ answers'[i].event = e
    BY <1>1 DEF AllGiven
  <2>1. PICK i \in 1 .. Len(answers) : answers[i].is = "value" /\ answers[i].event = e
    BY <1>i DEF AllGiven
  <2>2. i \in 1 .. Len(answers') /\ answers'[i] = answers[i]
    BY <2>1, <1>i
  <2> QED
    BY <2>1, <2>2
<1>5. GivenInOrder'
  BY <1>2, <1>i DEF GivenInOrder
<1> QED
  BY <1>1, <1>3, <1>4, <1>5 DEF OrderInv

\* The next event is given: the answer is the last one with an event.
LEMMA ValueGiven ==
  ASSUME OrderInv, TimeInv, SeqsTyped, NEW w \in Nat, w >= 1, w <= Len(answers'),
         Len(answers') \in Nat, Len(answers) <= Len(answers'),
         from' = from, Given' = Given + 1, Given \in Int,
         answers'[w] = Iterator!ValueOf(Given + 1), w \in 1 .. Len(answers) => answers[w].is # "value",
         \A i \in 1 .. Len(answers) : i # w => answers'[i] = answers[i],
         \A i \in 1 .. Len(answers) : answers[i].is = "value" => i < w,
         \A i \in 1 .. Len(answers') : i <= Len(answers) \/ i = w,
         KeptInOrder'
  PROVE  OrderInv'
<1>i. GivenTyped /\ AllGiven /\ GivenInOrder /\ KeptInOrder /\ Len(answers) \in Nat /\ from \in Nat
  BY DEF OrderInv, SeqsTyped, TimeInv
<1>w. answers'[w].is = "value" /\ answers'[w].event = Given + 1 /\ w \in 1 .. Len(answers') /\ from <= Given
  BY <1>i DEF Iterator!ValueOf, KeptInOrder
<1>1. \A i \in 1 .. Len(answers') : answers'[i].is = "value" /\ i # w =>
        i \in 1 .. Len(answers) /\ answers[i].is = "value" /\ answers'[i] = answers[i] /\ i < w
  BY <1>i
<1>2. GivenTyped'
  <2> SUFFICES ASSUME NEW i \in 1 .. Len(answers'), answers'[i].is = "value"
               PROVE  answers'[i].event \in (from + 1) .. (Given + 1)
    BY DEF GivenTyped
  <2>1. CASE i = w
    BY <2>1, <1>w, <1>i
  <2>2. CASE i # w
    <3>1. answers'[i].event \in (from + 1) .. Given
      BY <2>2, <1>1, <1>i DEF GivenTyped
    <3> QED
      BY <3>1, <1>i
  <2> QED
    BY <2>1, <2>2
<1>3. AllGiven'
  <2> SUFFICES ASSUME NEW e \in (from + 1) .. (Given + 1)
               PROVE  \E i \in 1 .. Len(answers') : answers'[i].is = "value" /\ answers'[i].event = e
    BY DEF AllGiven
  <2>1. CASE e = Given + 1
    BY <2>1, <1>w
  <2>2. CASE e # Given + 1
    <3>1. e \in (from + 1) .. Given
      BY <2>2, <1>i
    <3>2. PICK i \in 1 .. Len(answers) : answers[i].is = "value" /\ answers[i].event = e
      BY <3>1, <1>i DEF AllGiven
    <3>3. i \in 1 .. Len(answers') /\ answers'[i] = answers[i]
      BY <3>2, <1>i
    <3> QED
      BY <3>2, <3>3
  <2> QED
    BY <2>1, <2>2
<1>4. GivenInOrder'
  <2> SUFFICES ASSUME NEW i \in 1 .. Len(answers'), NEW j \in 1 .. Len(answers'),
                      answers'[i].is = "value", answers'[j].is = "value", i < j
               PROVE  answers'[i].event < answers'[j].event
    BY DEF GivenInOrder
  <2>1. i # w
    BY <1>1
  <2>2. i \in 1 .. Len(answers) /\ answers[i].is = "value" /\ answers'[i] = answers[i]
    BY <2>1, <1>1
  <2>3. CASE j = w
    <3>1. answers'[i].event \in (from + 1) .. Given
      BY <2>2, <1>i DEF GivenTyped
    <3> QED
      BY <3>1, <2>3, <1>w, <1>i
  <2>4. CASE j # w
    BY <2>2, <2>4, <1>1, <1>i DEF GivenInOrder
  <2> QED
    BY <2>3, <2>4
<1> QED
  BY <1>2, <1>3, <1>4 DEF OrderInv

\* The iteration ends: the calls that wait are answered.
LEMMA CleanupWait ==
  ASSUME WaitInv, Iterator!Cleanup
  PROVE  /\ answers' \in Seq(AnAnswer) /\ Len(answers') = Len(answers) /\ Len(answers) \in Nat
         /\ \A i \in 1 .. Len(answers) : answers'[i].is # "waiting"
         /\ \A i \in 1 .. Len(answers) :
              (answers[i].is = "value" \/ answers'[i].is = "value") => answers'[i] = answers[i]
         /\ waiting' = << >> /\ iterates' = "finished"
<1>i. SeqsTyped /\ WaitIs /\ AllWait /\ Len(answers) \in Nat /\ DOMAIN answers = 1 .. Len(answers)
      /\ DOMAIN waiting = 1 .. Len(waiting) /\ \A i \in 1 .. Len(answers) : answers[i] \in AnAnswer
  BY DEF WaitInv, SeqsTyped
<1> DEFINE done == Iterator!Is("doneInside")
<1>1. done \in AnAnswer /\ done.is = "doneInside"
  BY DEF Iterator!Is, AnAnswer
<1> HIDE DEF done
<1>2. answers' = [i \in 1 .. Len(answers) |-> IF i \in Iterator!ToSet(waiting) THEN done ELSE answers[i]]
      /\ waiting' = << >> /\ iterates' = "finished"
  BY <1>i DEF Iterator!Cleanup, done
<1>3. answers' \in [1 .. Len(answers) -> AnAnswer]
  BY <1>1, <1>2, <1>i
<1>4. answers' \in Seq(AnAnswer) /\ Len(answers') = Len(answers)
  BY <1>3, <1>i
<1>5. ASSUME NEW i \in 1 .. Len(answers)
      PROVE  /\ i \in Iterator!ToSet(waiting) => answers'[i] = done /\ answers[i].is = "waiting"
             /\ i \notin Iterator!ToSet(waiting) => answers'[i] = answers[i] /\ answers[i].is # "waiting"
  <2>1. i \in Iterator!ToSet(waiting) <=> \E k \in 1 .. Len(waiting) : waiting[k] = i
    BY <1>i DEF Iterator!ToSet
  <2>2. answers'[i] = IF i \in Iterator!ToSet(waiting) THEN done ELSE answers[i]
    BY <1>2
  <2>3. (\E k \in 1 .. Len(waiting) : waiting[k] = i) <=> answers[i].is = "waiting"
    BY <1>i DEF WaitIs, AllWait
  <2> QED
    BY <2>1, <2>2, <2>3
<1> QED
  BY <1>1, <1>2, <1>4, <1>5, <1>i

LEMMA WaitCleaned ==
  ASSUME WaitInv, Iterator!Cleanup, unconsumed' \in Seq(Nat)
  PROVE  WaitInv'
<1>1. Len(<< >>) = 0 /\ << >> \in Seq(Nat)
  OBVIOUS
<1> QED
  BY CleanupWait, <1>1 DEF WaitInv, SeqsTyped, WaitQuiet, WaitIs, AllWait, WaitSorted, ValuesFirst

\* An event is kept.
LEMMA EventIsKept ==
  ASSUME TimeInv, SeqsTyped, KeptInOrder, to = emitted,
         unconsumed' = Append(unconsumed, emitted + 1), to' = emitted + 1, from' = from
  PROVE  unconsumed' \in Seq(Nat) /\ Given' = Given /\ KeptInOrder'
<1>1. unconsumed' \in Seq(Nat) /\ Len(unconsumed') = Len(unconsumed) + 1
      /\ unconsumed'[Len(unconsumed) + 1] = emitted + 1
      /\ \A i \in 1 .. Len(unconsumed) : unconsumed'[i] = unconsumed[i]
  BY SeqAppend DEF SeqsTyped, TimeInv
<1>2. Len(unconsumed) \in Nat /\ to \in Nat
  BY DEF SeqsTyped, TimeInv
<1>3. Given' = Given /\ Given \in Int /\ emitted + 1 = Given + (Len(unconsumed) + 1)
  BY <1>1, <1>2 DEF Given
<1>4. from' <= Given'
  BY <1>3 DEF KeptInOrder
<1>5. ASSUME NEW i \in 1 .. Len(unconsumed') PROVE unconsumed'[i] = Given' + i
  <2>1. CASE i = Len(unconsumed) + 1
    BY <2>1, <1>1, <1>3
  <2>2. CASE i # Len(unconsumed) + 1
    <3>1. i \in 1 .. Len(unconsumed)
      BY <2>2, <1>1, <1>2
    <3> QED
      BY <3>1, <1>1, <1>3 DEF KeptInOrder
  <2> QED
    BY <2>1, <2>2
<1> QED
  BY <1>1, <1>3, <1>4, <1>5 DEF KeptInOrder

LEMMA NextKeeps ==
  ASSUME IterInv, Iterator!NextCall
  PROVE  IterInv'
<1>i. TimeInv /\ WaitInv /\ OrderInv /\ SeqsTyped /\ WaitQuiet /\ WaitIs /\ AllWait /\ WaitSorted
      /\ ValuesFirst /\ KeptInOrder
  BY DEF IterInv, WaitInv, OrderInv
<1>n. Len(answers) \in Nat /\ Len(waiting) \in Nat /\ Len(unconsumed) \in Nat /\ Given \in Int
  BY <1>i DEF SeqsTyped, TimeInv, Given
<1>2. iterates # "no" /\ UNCHANGED <<emitted, iterates, hears, from, to>>
  BY DEF Iterator!NextCall
<1>3. TimeInv'
  BY <1>2, <1>i DEF TimeInv
<1>4. CASE unconsumed # << >>
  <2> DEFINE a == Iterator!ValueOf(Head(unconsumed))
  <2>1. answers' = Append(answers, a) /\ unconsumed' = Tail(unconsumed) /\ waiting' = waiting
    BY <1>4 DEF Iterator!NextCall
  <2>0. waiting = << >> /\ Len(waiting) = 0
    BY <1>4, <1>i DEF WaitQuiet
  <2>2. /\ Head(unconsumed) = unconsumed[1] /\ Len(unconsumed) \in Nat \ {0} /\ unconsumed[1] \in Nat
        /\ unconsumed' \in Seq(Nat) /\ Len(unconsumed') = Len(unconsumed) - 1
        /\ \A k \in 1 .. Len(unconsumed') : k + 1 \in 1 .. Len(unconsumed) /\ unconsumed'[k] = unconsumed[k + 1]
    BY <1>4, <1>i, <2>1, SeqTail DEF SeqsTyped
  <2>3. unconsumed[1] = Given + 1 /\ Given' = Given + 1
    BY <2>2, <1>i, <1>2, <1>n DEF KeptInOrder, Given, TimeInv
  <2>4. a = Iterator!ValueOf(Given + 1) /\ a \in AnAnswer /\ a.is = "value"
    BY <2>2, <2>3 DEF Iterator!ValueOf, AnAnswer
  <2> HIDE DEF a
  <2>5. AnswerAdded(a)
    BY <2>1, <2>4, <1>i, SeqAppend DEF AnswerAdded, SeqsTyped
  <2>6. WaitInv'
    <3>1. \A i \in 1 .. Len(answers') : answers'[i].is # "waiting"
      <4> SUFFICES ASSUME NEW i \in 1 .. Len(answers') PROVE answers'[i].is # "waiting"
        OBVIOUS
      <4>1. CASE i = Len(answers) + 1
        BY <4>1, <2>5, <2>4 DEF AnswerAdded
      <4>2. CASE i # Len(answers) + 1
        <5>1. i \in 1 .. Len(answers)
          BY <4>2, <2>5, <1>n DEF AnswerAdded
        <5> QED
          BY <5>1, <2>5, <2>0, <1>i DEF AnswerAdded, AllWait
      <4> QED
        BY <4>1, <4>2
    <3> QED
      BY <3>1, <2>0, <2>1, <2>2, <2>5, <1>i
         DEF WaitInv, SeqsTyped, WaitQuiet, WaitIs, AllWait, WaitSorted, ValuesFirst, AnswerAdded
  <2>7. KeptInOrder'
    <3>1. from' <= Given'
      BY <1>2, <2>3, <1>i, <1>n DEF KeptInOrder, TimeInv
    <3>2. ASSUME NEW k \in 1 .. Len(unconsumed') PROVE unconsumed'[k] = Given' + k
      BY <2>2, <2>3, <1>n, <1>i DEF KeptInOrder
    <3> QED
      BY <3>1, <3>2 DEF KeptInOrder
  <2>8. OrderInv'
    <3> DEFINE w == Len(answers) + 1
    <3>1. w \in Nat /\ w >= 1 /\ w <= Len(answers') /\ Len(answers') \in Nat /\ Len(answers) <= Len(answers')
          /\ answers'[w] = Iterator!ValueOf(Given + 1) /\ w \notin 1 .. Len(answers)
          /\ (\A i \in 1 .. Len(answers) : answers'[i] = answers[i] /\ i < w)
          /\ (\A i \in 1 .. Len(answers') : i <= Len(answers) \/ i = w)
      BY <2>5, <2>4, <1>n DEF AnswerAdded
    <3> HIDE DEF w
    <3> QED
      BY <3>1, <2>3, <2>7, <1>2, <1>i, <1>n, ValueGiven
  <2> QED
    BY <1>3, <2>6, <2>8 DEF IterInv
<1>5. CASE unconsumed = << >>
  <2>1. PICK how \in {"rejected", "done", "waiting"} :
          /\ answers' = Append(answers, Iterator!Is(how)) /\ unconsumed' = unconsumed
          /\ how # "waiting" => waiting' = waiting
          /\ how = "waiting" => waiting' = Append(waiting, Len(answers) + 1) /\ iterates # "finished"
    <3>1. CASE kept
      BY <1>5, <3>1 DEF Iterator!NextCall
    <3>2. CASE ~kept /\ iterates = "finished"
      BY <1>5, <3>2 DEF Iterator!NextCall
    <3>3. CASE ~kept /\ iterates # "finished"
      BY <1>5, <3>3 DEF Iterator!NextCall
    <3> QED
      BY <3>1, <3>2, <3>3
  <2> DEFINE a == Iterator!Is(how)
  <2>4. a \in AnAnswer /\ a.is = how
    BY DEF Iterator!Is, AnAnswer
  <2>41. answers' = Append(answers, a)
    BY <2>1
  <2> HIDE DEF a
  <2>5. AnswerAdded(a)
    BY <2>41, <2>4, <1>i, SeqAppend DEF AnswerAdded, SeqsTyped
  <2>6. \A i \in 1 .. Len(answers') : (i \in 1 .. Len(answers) /\ answers'[i] = answers[i]) \/ (i = Len(answers) + 1 /\ answers'[i] = a)
    BY <2>5, <1>n DEF AnswerAdded
  <2>7. OrderInv'
    <3>1. /\ Len(answers') \in Nat /\ Len(answers) <= Len(answers')
          /\ \A i \in 1 .. Len(answers) :
               (answers[i].is = "value" \/ answers'[i].is = "value") => answers'[i] = answers[i]
          /\ \A i \in 1 .. Len(answers') : answers'[i].is = "value" => i <= Len(answers)
      BY <2>5, <2>6, <2>4, <1>n DEF AnswerAdded
    <3> QED
      BY <3>1, <2>1, <1>2, <1>i, NoValueGiven
  <2>8. CASE how # "waiting"
    <3>1. waiting' = waiting /\ a.is # "waiting"
      BY <2>8, <2>1, <2>4
    <3>2. SeqsTyped' /\ WaitQuiet' /\ WaitSorted'
      BY <3>1, <2>1, <2>5, <1>2, <1>i DEF SeqsTyped, WaitQuiet, WaitSorted, AnswerAdded
    <3>3. WaitIs'
      BY <3>1, <2>5, <1>i, <1>n DEF WaitIs, AnswerAdded
    <3>4. AllWait'
      BY <3>1, <2>6, <1>i DEF AllWait
    <3>5. ValuesFirst'
      <4> SUFFICES ASSUME NEW i \in 1 .. Len(answers'), NEW k \in 1 .. Len(waiting), answers'[i].is = "value"
                   PROVE  i < waiting[k]
        BY <3>1 DEF ValuesFirst
      <4>1. i \in 1 .. Len(answers) /\ answers'[i] = answers[i]
        BY <2>6, <2>4
      <4> QED
        BY <4>1, <1>i DEF ValuesFirst
    <3> QED
      BY <3>2, <3>3, <3>4, <3>5, <1>3, <2>7 DEF IterInv, WaitInv
  <2>9. CASE how = "waiting"
    <3>1. waiting' = Append(waiting, Len(answers) + 1) /\ a.is = "waiting" /\ iterates = "open"
      BY <2>9, <2>1, <2>4, <1>2, <1>i DEF TimeInv
    <3>2. waiting' \in Seq(Nat) /\ Len(waiting') = Len(waiting) + 1 /\ waiting'[Len(waiting) + 1] = Len(answers) + 1
          /\ \A k \in 1 .. Len(waiting) : waiting'[k] = waiting[k]
      BY <3>1, <1>i, <1>n, SeqAppend DEF SeqsTyped
    <3>3. \A k \in 1 .. Len(waiting') : (k \in 1 .. Len(waiting) /\ waiting'[k] = waiting[k])
             \/ (k = Len(waiting) + 1 /\ waiting'[k] = Len(answers) + 1)
      BY <3>2, <1>n
    <3>4. SeqsTyped' /\ WaitQuiet'
      BY <3>1, <3>2, <2>1, <2>5, <1>2, <1>5, <1>i DEF SeqsTyped, WaitQuiet, AnswerAdded
    <3>5. WaitIs'
      <4> SUFFICES ASSUME NEW k \in 1 .. Len(waiting')
                   PROVE  waiting'[k] \in 1 .. Len(answers') /\ answers'[waiting'[k]].is = "waiting"
        BY DEF WaitIs
      <4>1. CASE k \in 1 .. Len(waiting) /\ waiting'[k] = waiting[k]
        BY <4>1, <2>5, <1>i, <1>n DEF WaitIs, AnswerAdded
      <4>2. CASE k = Len(waiting) + 1 /\ waiting'[k] = Len(answers) + 1
        BY <4>2, <2>5, <3>1, <1>n DEF AnswerAdded
      <4> QED
        BY <4>1, <4>2, <3>3
    <3>6. AllWait'
      <4> SUFFICES ASSUME NEW i \in 1 .. Len(answers'), answers'[i].is = "waiting"
                   PROVE  \E k \in 1 .. Len(waiting') : waiting'[k] = i
        BY DEF AllWait
      <4>1. CASE i = Len(answers) + 1
        <5>1. Len(waiting) + 1 \in 1 .. Len(waiting')
          BY <3>2, <1>n
        <5> QED
          BY <5>1, <4>1, <3>2
      <4>2. CASE i \in 1 .. Len(answers) /\ answers'[i] = answers[i]
        <5>1. PICK k \in 1 .. Len(waiting) : waiting[k] = i
          BY <4>2, <1>i DEF AllWait
        <5>2. k \in 1 .. Len(waiting') /\ waiting'[k] = i
          BY <5>1, <3>2, <1>n
        <5> QED
          BY <5>2
      <4> QED
        BY <4>1, <4>2, <2>6
    <3>7. WaitSorted'
      <4> SUFFICES ASSUME NEW k \in 1 .. Len(waiting'), NEW l \in 1 .. Len(waiting'), k < l
                   PROVE  waiting'[k] < waiting'[l]
        BY DEF WaitSorted
      <4>1. k \in 1 .. Len(waiting) /\ waiting'[k] = waiting[k]
        BY <3>2, <1>n
      <4>2. waiting[k] < Len(answers) + 1
        BY <4>1, <1>i, <1>n DEF WaitIs
      <4>3. CASE l \in 1 .. Len(waiting) /\ waiting'[l] = waiting[l]
        BY <4>1, <4>3, <1>i DEF WaitSorted
      <4>4. CASE l = Len(waiting) + 1 /\ waiting'[l] = Len(answers) + 1
        BY <4>1, <4>2, <4>4
      <4> QED
        BY <4>3, <4>4, <3>3
    <3>8. ValuesFirst'
      <4> SUFFICES ASSUME NEW i \in 1 .. Len(answers'), NEW k \in 1 .. Len(waiting'), answers'[i].is = "value"
                   PROVE  i < waiting'[k]
        BY DEF ValuesFirst
      <4>1. i \in 1 .. Len(answers) /\ answers[i].is = "value" /\ i < Len(answers) + 1
        BY <2>6, <3>1, <1>n
      <4>2. CASE k \in 1 .. Len(waiting) /\ waiting'[k] = waiting[k]
        BY <4>1, <4>2, <1>i DEF ValuesFirst
      <4>3. CASE k = Len(waiting) + 1 /\ waiting'[k] = Len(answers) + 1
        BY <4>1, <4>3
      <4> QED
        BY <4>2, <4>3, <3>3
    <3> QED
      BY <3>4, <3>5, <3>6, <3>7, <3>8, <1>3, <2>7 DEF IterInv, WaitInv
  <2> QED
    BY <2>8, <2>9
<1> QED
  BY <1>4, <1>5

LEMMA IterHolds == Iterator!Spec => []IterInv
<1>1. Iterator!Init => IterInv
  <2> SUFFICES ASSUME Iterator!Init PROVE IterInv
    OBVIOUS
  <2>1. Len(<< >>) = 0 /\ << >> \in Seq(Nat) /\ << >> \in Seq(AnAnswer)
    OBVIOUS
  <2>2. TimeInv /\ WaitInv
    BY <2>1 DEF Iterator!Init, TimeInv, WaitInv, SeqsTyped, WaitQuiet, WaitIs, AllWait, WaitSorted, ValuesFirst
  <2>3. OrderInv
    BY <2>1 DEF Iterator!Init, OrderInv, Given, KeptInOrder, GivenTyped, AllGiven, GivenInOrder
  <2> QED
    BY <2>2, <2>3 DEF IterInv
<1>2. IterInv /\ [Iterator!Next]_(Iterator!vars) => IterInv'
  <2> SUFFICES ASSUME IterInv, [Iterator!Next]_(Iterator!vars) PROVE IterInv'
    OBVIOUS
  <2>i. TimeInv /\ WaitInv /\ OrderInv /\ SeqsTyped /\ KeptInOrder
    BY DEF IterInv, WaitInv, OrderInv
  <2>n. Len(answers) \in Nat /\ Len(unconsumed) \in Nat /\ to \in Nat /\ Given \in Int
    BY <2>i DEF SeqsTyped, TimeInv, Given
  <2> USE DEF Given
  <2>1. CASE Iterator!Once \/ UNCHANGED Iterator!vars
    <3>1. UNCHANGED <<emitted, iterates, hears, unconsumed, waiting, answers, from, to>>
      BY <2>1 DEF Iterator!Once, Iterator!vars, Iterator!iteratorVars
    <3> QED
      BY <3>1, <2>i DEF IterInv, TimeInv, WaitInv, SeqsTyped, WaitQuiet, WaitIs, AllWait, WaitSorted,
         ValuesFirst, OrderInv, Given, KeptInOrder, GivenTyped, AllGiven, GivenInOrder
  <2>2. CASE Iterator!On
    <3>1. /\ iterates = "no" /\ iterates' = "open" /\ "event" \in hears' /\ from' = emitted /\ to' = emitted
          /\ UNCHANGED <<emitted, unconsumed, waiting, answers>>
      BY <2>2 DEF Iterator!On, Iterator!Added
    <3>2. unconsumed = << >> /\ answers = << >> /\ waiting = << >>
      BY <3>1, <2>i DEF TimeInv
    <3>3. TimeInv'
      BY <3>1, <2>i DEF TimeInv
    <3>4. Len(<< >>) = 0
      OBVIOUS
    <3>5. WaitInv'
      BY <3>1, <3>2, <3>4, <2>i
         DEF WaitInv, SeqsTyped, WaitQuiet, WaitIs, AllWait, WaitSorted, ValuesFirst
    <3>6. OrderInv'
      BY <3>1, <3>2, <3>3, <3>4 DEF OrderInv, KeptInOrder, GivenTyped, AllGiven, GivenInOrder, TimeInv
    <3> QED
      BY <3>3, <3>5, <3>6 DEF IterInv
  <2>3. CASE Iterator!NextCall
    BY <2>3, NextKeeps
  <2>4. CASE Iterator!ReturnCall \/ Iterator!ThrowCall
    <3>1. Iterator!Cleanup /\ iterates # "no" /\ UNCHANGED <<unconsumed, from, to, emitted>>
      BY <2>4 DEF Iterator!ReturnCall, Iterator!ThrowCall
    <3>2. TimeInv'
      BY <3>1, <2>i DEF TimeInv, Iterator!Cleanup
    <3>3. WaitInv'
      BY <3>1, <2>i, WaitCleaned DEF SeqsTyped
    <3>4. /\ Len(answers') \in Nat /\ Len(answers) <= Len(answers')
          /\ \A i \in 1 .. Len(answers) :
               (answers[i].is = "value" \/ answers'[i].is = "value") => answers'[i] = answers[i]
          /\ \A i \in 1 .. Len(answers') : answers'[i].is = "value" => i <= Len(answers)
      BY <3>1, <2>i, CleanupWait
    <3>5. OrderInv'
      BY <3>1, <3>4, <2>i, NoValueGiven
    <3> QED
      BY <3>2, <3>3, <3>5 DEF IterInv
  <2>5. CASE Iterator!EmitAfterReturn
    <3>1. Iterator!Cleanup /\ iterates = "open" /\ UNCHANGED from /\ emitted' = emitted + 1
          /\ unconsumed' = Append(unconsumed, emitted + 1) /\ to' = emitted + 1 /\ to = emitted
      BY <2>5, <2>i DEF Iterator!EmitAfterReturn, TimeInv
    <3>2. TimeInv'
      BY <3>1, <2>i DEF TimeInv, Iterator!Cleanup
    <3>3. unconsumed' \in Seq(Nat) /\ Given' = Given /\ KeptInOrder'
      BY <3>1, <2>i, EventIsKept
    <3>4. WaitInv'
      BY <3>1, <3>3, <2>i, WaitCleaned
    <3>5. OrderInv'
      <4>1. /\ Len(answers') = Len(answers)
            /\ \A i \in 1 .. Len(answers) :
                 (answers[i].is = "value" \/ answers'[i].is = "value") => answers'[i] = answers[i]
        BY <3>1, <2>i, CleanupWait
      <4> HIDE DEF Given
      <4> QED
        BY <4>1, <3>1, <3>3, <2>i DEF OrderInv, GivenTyped, AllGiven, GivenInOrder
    <3> QED
      BY <3>2, <3>4, <3>5 DEF IterInv
  <2>6. CASE Iterator!Emit
    <3>1. emitted' = emitted + 1 /\ Iterator!EventHandler(emitted + 1) /\ UNCHANGED <<iterates, hears, from>>
          /\ to' = IF iterates = "open" THEN emitted + 1 ELSE to
      BY <2>6 DEF Iterator!Emit
    <3>t. TimeInv'
      <4>1. iterates = "no" => UNCHANGED <<unconsumed, waiting, answers>>
        BY <3>1, <2>i DEF Iterator!EventHandler, TimeInv
      <4> QED
        BY <3>1, <4>1, <2>i DEF TimeInv
    <3>2. CASE iterates # "open"
      <4>1. UNCHANGED <<unconsumed, waiting, answers, to, from, iterates>>
        BY <3>1, <3>2, <2>i DEF Iterator!EventHandler, TimeInv
      <4> QED
        BY <4>1, <3>t, <2>i DEF IterInv, WaitInv, SeqsTyped, WaitQuiet, WaitIs, AllWait, WaitSorted,
           ValuesFirst, OrderInv, Given, KeptInOrder, GivenTyped, AllGiven, GivenInOrder
    <3>3. CASE iterates = "open" /\ waiting = << >>
      <4>1. unconsumed' = Append(unconsumed, emitted + 1) /\ UNCHANGED <<waiting, answers>>
            /\ to' = emitted + 1 /\ to = emitted
        BY <3>1, <3>3, <2>i DEF Iterator!EventHandler, TimeInv
      <4>2. unconsumed' \in Seq(Nat) /\ Given' = Given /\ KeptInOrder'
        BY <4>1, <3>1, <2>i, EventIsKept
      <4>3. WaitInv'
        BY <4>1, <4>2, <3>1, <3>3, <2>i
           DEF WaitInv, SeqsTyped, WaitQuiet, WaitIs, AllWait, WaitSorted, ValuesFirst
      <4>4. OrderInv'
        <5> HIDE DEF Given
        <5> QED
          BY <4>1, <4>2, <3>1, <2>i DEF OrderInv, GivenTyped, AllGiven, GivenInOrder
      <4> QED
        BY <3>t, <4>3, <4>4 DEF IterInv
    <3>4. CASE iterates = "open" /\ waiting # << >>
      <4> DEFINE a == Iterator!ValueOf(emitted + 1)
      <4>1. answers' = [answers EXCEPT ![Head(waiting)] = a]
            /\ waiting' = Tail(waiting) /\ unconsumed' = unconsumed
            /\ to = emitted /\ to' = emitted + 1
        BY <3>1, <3>4, <2>i DEF Iterator!EventHandler, TimeInv
      <4>2. a \in AnAnswer /\ a.is = "value" /\ a = Iterator!ValueOf(emitted + 1)
        BY <2>i DEF TimeInv, Iterator!ValueOf, AnAnswer
      <4> HIDE DEF a
      <4>3. /\ WaitInv' /\ AnswerGiven(waiting[1], a) /\ answers[waiting[1]].is = "waiting"
            /\ \A i \in 1 .. Len(answers) : answers[i].is = "value" => i < waiting[1]
            /\ unconsumed = << >>
        BY <4>1, <4>2, <3>1, <3>4, <2>i, FirstGiven
      <4>4. Given = emitted /\ Given' = Given + 1 /\ KeptInOrder'
        <5>1. Len(<< >>) = 0
          OBVIOUS
        <5> QED
          BY <5>1, <4>1, <4>3, <3>1, <2>i DEF KeptInOrder, TimeInv
      <4>5. OrderInv'
        <5> DEFINE w == waiting[1]
        <5>1. w \in Nat /\ w >= 1 /\ w <= Len(answers') /\ Len(answers') \in Nat /\ Len(answers) <= Len(answers')
              /\ answers'[w] = Iterator!ValueOf(Given + 1) /\ answers[w].is # "value"
              /\ (\A i \in 1 .. Len(answers) : i # w => answers'[i] = answers[i])
              /\ (\A i \in 1 .. Len(answers) : answers[i].is = "value" => i < w)
              /\ (\A i \in 1 .. Len(answers') : i <= Len(answers) \/ i = w)
          BY <4>3, <4>4, <4>2, <2>n DEF AnswerGiven
        <5> HIDE DEF w, Given
        <5> QED
          BY <5>1, <4>4, <3>1, <2>i, <2>n, ValueGiven
      <4> QED
        BY <3>t, <4>3, <4>5 DEF IterInv
    <3> QED
      BY <3>2, <3>3, <3>4
  <2>7. CASE Iterator!Fail \/ Iterator!Abort
    <3>1. PICK l \in {"error", "abort"} : Iterator!ErrorHandler(l)
             /\ ("event" \in hears' <=> "event" \in hears) /\ UNCHANGED <<emitted, iterates, unconsumed, from, to>>
             /\ (iterates = "no" => UNCHANGED <<waiting, answers>>)
      <4>1. CASE Iterator!Fail
        BY <2>i, <4>1 DEF Iterator!Fail, Iterator!ErrorHandler, TimeInv
      <4>2. CASE Iterator!Abort
        BY <2>i, <4>2 DEF Iterator!Abort, Iterator!ErrorHandler, TimeInv
      <4> QED
        BY <2>7, <4>1, <4>2
    <3>2. TimeInv'
      BY <3>1, <2>i DEF TimeInv
    <3>3. CASE UNCHANGED <<waiting, answers>>
      BY <3>1, <3>2, <3>3, <2>i
         DEF IterInv, WaitInv, SeqsTyped, WaitQuiet, WaitIs, AllWait, WaitSorted,
             ValuesFirst, OrderInv, Given, KeptInOrder, GivenTyped, AllGiven, GivenInOrder
    <3>4. CASE waiting # << >> /\ answers' = [answers EXCEPT ![Head(waiting)] = Iterator!Is("rejected")]
                /\ waiting' = Tail(waiting)
      <4> DEFINE a == Iterator!Is("rejected")
      <4>1. answers' = [answers EXCEPT ![Head(waiting)] = a]
        BY <3>4
      <4>2. a \in AnAnswer /\ a.is = "rejected"
        BY DEF Iterator!Is, AnAnswer
      <4> HIDE DEF a
      <4>3. /\ WaitInv' /\ AnswerGiven(waiting[1], a) /\ answers[waiting[1]].is = "waiting"
        BY <4>1, <4>2, <3>1, <3>4, <2>i, FirstGiven
      <4>4. /\ Len(answers') \in Nat /\ Len(answers) <= Len(answers')
            /\ \A i \in 1 .. Len(answers) :
                 (answers[i].is = "value" \/ answers'[i].is = "value") => answers'[i] = answers[i]
            /\ \A i \in 1 .. Len(answers') : answers'[i].is = "value" => i <= Len(answers)
        BY <4>3, <4>2, <2>n DEF AnswerGiven
      <4>5. OrderInv'
        BY <4>4, <3>1, <2>i, NoValueGiven
      <4> QED
        BY <3>2, <4>3, <4>5 DEF IterInv
    <3>5. UNCHANGED <<waiting, answers>> \/ (waiting # << >> /\ answers' = [answers EXCEPT ![Head(waiting)] = Iterator!Is("rejected")]
                /\ waiting' = Tail(waiting))
      BY <3>1 DEF Iterator!ErrorHandler
    <3> QED
      BY <3>3, <3>4, <3>5
  <2> QED
    BY <2>1, <2>2, <2>3, <2>4, <2>5, <2>6, <2>7 DEF Iterator!Next
<1> QED
  BY <1>1, <1>2, PTL DEF Iterator!Spec

(* The iterator of EventEmitter.on gives every event of its time, once and  *)
(* in order (eventemitter.js).                                              *)
THEOREM EventsInOrderAlways == Iterator!Spec => []Iterator!EventsInOrder
<1>1. IterInv => Iterator!EventsInOrder
  <2> SUFFICES ASSUME IterInv PROVE Iterator!EventsInOrder
    OBVIOUS
  <2> DEFINE values == {i \in DOMAIN answers : answers[i].is = "value"}
  <2>i. SeqsTyped /\ TimeInv /\ KeptInOrder /\ GivenTyped /\ AllGiven /\ GivenInOrder
    BY DEF IterInv, WaitInv, OrderInv
  <2>1. Given \in Int /\ from <= Given /\ to - Given = Len(unconsumed) /\ DOMAIN answers = 1 .. Len(answers)
    BY <2>i DEF SeqsTyped, TimeInv, Given, KeptInOrder
  <2>2. unconsumed = [i \in 1 .. (to - Given) |-> Given + i]
    BY <2>1, <2>i DEF KeptInOrder, SeqsTyped
  <2>3. {answers[i].event : i \in values} = (from + 1) .. Given
    <3>1. \A i \in values : answers[i].event \in (from + 1) .. Given
      BY <2>1, <2>i DEF GivenTyped
    <3>2. \A e \in (from + 1) .. Given : \E i \in values : answers[i].event = e
      BY <2>1, <2>i DEF AllGiven
    <3> QED
      BY <3>1, <3>2
  <2>4. \A i, j \in values : i < j => answers[i].event < answers[j].event
    BY <2>1, <2>i DEF GivenInOrder
  <2> QED
    BY <2>1, <2>2, <2>3, <2>4 DEF Iterator!EventsInOrder, Given
<1> QED
  BY <1>1, IterHolds, PTL

(* A call of next waits only while there is no event for it, and none waits *)
(* after the iteration has ended (eventemitter.js).                         *)
THEOREM NoneWaitsInVainAlways == Iterator!Spec => []Iterator!NoneWaitsInVain
<1>1. IterInv => Iterator!NoneWaitsInVain
  <2> SUFFICES ASSUME IterInv PROVE Iterator!NoneWaitsInVain
    OBVIOUS
  <2>i. SeqsTyped /\ WaitQuiet /\ WaitIs /\ AllWait
    BY DEF IterInv, WaitInv
  <2>1. DOMAIN answers = 1 .. Len(answers) /\ DOMAIN waiting = 1 .. Len(waiting)
    BY <2>i DEF SeqsTyped
  <2>2. \A i : i \in Iterator!ToSet(waiting) <=> i \in DOMAIN answers /\ answers[i].is = "waiting"
    <3>1. \A i : i \in Iterator!ToSet(waiting) <=> \E k \in 1 .. Len(waiting) : waiting[k] = i
      BY <2>1 DEF Iterator!ToSet
    <3> QED
      BY <2>1, <3>1, <2>i DEF WaitIs, AllWait
  <2>3. Iterator!ToSet(waiting) = {i \in DOMAIN answers : answers[i].is = "waiting"}
    BY <2>2
  <2> QED
    BY <2>3, <2>i DEF Iterator!NoneWaitsInVain, WaitQuiet
<1> QED
  BY <1>1, IterHolds, PTL

-----------------------------------------------------------------------------
CONSTANTS
  Run, MaxImport

VARIABLES
  globals, importer, tracked, useJsBridge, runs, imports, begun, overlapped,
  crossed

Runner == INSTANCE ScriptRunner

(* ScriptRunner: what a run of a script swaps, and puts back.               *)

RunOf == [at : {"idle", "done"} \cup Runner!Swapped, kind : Runner!Kinds, prev : {Runner!Host} \cup Run,
          prevDi : {Runner!Host, "memfs"}, batch : SUBSET Runner!Ids, status : Runner!Status]
ImportOf == [at : {"none", "busy", "done", "failed"}, run : Run, set : {Runner!None} \cup Run]

RunsTyped ==
  /\ globals \in {Runner!Host} \cup Run /\ importer \in {Runner!Host, "memfs"}
  /\ tracked \in {Runner!None} \cup Run
  /\ runs \in [Run -> RunOf] /\ imports \in [Runner!Ids -> ImportOf]
  /\ begun \in Seq(Run) /\ overlapped \subseteq Run

(* Each run between its swap and its restore is in begun, once.             *)
BegunInv ==
  /\ \A i, j \in 1 .. Len(begun) : begun[i] = begun[j] => i = j
  /\ \A r \in Run : runs[r].at \in Runner!Swapped <=> \E i \in 1 .. Len(begun) : begun[i] = r

(* Until a run ends before one that began in it, each has the globals of    *)
(* the one before it to put back.                                           *)
NestedInv ==
  ~crossed =>
    /\ \A i \in 1 .. Len(begun) :
         runs[begun[i]].prev = IF i = 1 THEN Runner!Host ELSE begun[i - 1]
    /\ globals = IF begun = << >> THEN Runner!Host ELSE Runner!Last(begun)

(* A run that is alone has the importer and the set to itself.              *)
AloneInv ==
  /\ \A r \in Run : runs[r].at \in Runner!Swapped /\ r \notin overlapped => Len(begun) = 1
  /\ \A r \in Run : runs[r].at \in Runner!Watched /\ r \notin overlapped => tracked = r
  /\ overlapped = {} =>
       /\ importer = IF \E r \in Run : runs[r].at \in Runner!Watched THEN "memfs" ELSE Runner!Host
       /\ \A r \in Run : runs[r].at \in Runner!Watched => runs[r].prevDi = Runner!Host

(* Its imports are in its set.                                              *)
ImportsInv ==
  \A i \in Runner!Ids : imports[i].at = "busy" =>
    LET r == imports[i].run
    IN  /\ runs[r].at \notin {"idle", "esbuild"}
        /\ r \notin overlapped /\ runs[r].at \in Runner!Watched => imports[i].set = r
        /\ r \notin overlapped /\ runs[r].at = "done" => runs[r].status # "ok"

RunnerInv == RunsTyped /\ BegunInv /\ NestedInv /\ AloneInv /\ ImportsInv

Assumed == Run # {} /\ Runner!None \notin Run /\ MaxImport \in Nat

LEMMA StateTyped ==
  ASSUME RunnerInv
  PROVE  /\ runs \in [Run -> RunOf] /\ \A r \in Run : runs[r] \in RunOf
         /\ globals \in {Runner!Host} \cup Run /\ importer \in {Runner!Host, "memfs"}
BY DEF RunnerInv, RunsTyped

LEMMA RunAnswers ==
  ASSUME NEW x \in RunOf, NEW status \in Runner!Status
  PROVE  [x EXCEPT !.at = "done", !.status = status] \in RunOf
BY DEF RunOf

LEMMA RunEnds ==
  ASSUME NEW x \in RunOf, NEW status \in Runner!Status, NEW batch \in SUBSET Runner!Ids
  PROVE  [x EXCEPT !.at = "done", !.status = status, !.batch = batch] \in RunOf
BY DEF RunOf

LEMMA RunDrains ==
  ASSUME NEW x \in RunOf, NEW batch \in SUBSET Runner!Ids
  PROVE  [x EXCEPT !.at = "draining", !.batch = batch] \in RunOf
BY DEF RunOf, Runner!Swapped

LEMMA RunSwaps ==
  ASSUME NEW x \in RunOf, NEW kind \in Runner!Kinds, NEW prev \in {Runner!Host} \cup Run
  PROVE  [x EXCEPT !.kind = kind, !.prev = prev] \in RunOf
BY DEF RunOf

LEMMA RunnerInit == ASSUME Assumed, Runner!Init PROVE RunnerInv
<1>1. (CHOOSE r \in Run : TRUE) \in Run
  BY DEF Assumed
<1>2. RunsTyped
  BY <1>1 DEF Runner!Init, RunsTyped, RunOf, ImportOf, Runner!Status, Runner!Kinds
<1>3. BegunInv /\ NestedInv
  BY DEF Runner!Init, BegunInv, NestedInv, Runner!Swapped
<1>4. AloneInv /\ ImportsInv
  BY DEF Runner!Init, AloneInv, ImportsInv, Runner!Swapped, Runner!Watched
<1>5. QED BY <1>2, <1>3, <1>4 DEF RunnerInv

(* A run that ends leaves begun, and the others keep their order.           *)
LEMMA TakenOut ==
  ASSUME NEW S, NEW s \in Seq(S), NEW k \in 1 .. Len(s),
         \A i \in 1 .. Len(s) : s[i] = s[k] => i = k
  PROVE  /\ Runner!RemoveFirst(s, s[k]) \in Seq(S)
         /\ Len(Runner!RemoveFirst(s, s[k])) = Len(s) - 1
         /\ \A i \in 1 .. Len(s) - 1 :
              Runner!RemoveFirst(s, s[k])[i] = IF i < k THEN s[i] ELSE s[i + 1]
<1>1. Runner!SelectInSeq(s, LAMBDA v : v = s[k]) = k
  <2> DEFINE I == {i \in 1 .. Len(s) : s[i] = s[k]}
  <2>1. I = {k}
    OBVIOUS
  <2>2. Runner!Min(I) = k
    BY <2>1 DEF Runner!Min
  <2>3. QED BY <2>1, <2>2 DEF Runner!SelectInSeq
<1>2. Runner!RemoveFirst(s, s[k]) = SubSeq(s, 1, k - 1) \o SubSeq(s, k + 1, Len(s))
  BY <1>1 DEF Runner!RemoveFirst, Runner!RemoveAt
<1> DEFINE a == SubSeq(s, 1, k - 1)
           b == SubSeq(s, k + 1, Len(s))
<1>3. /\ a \in Seq(S) /\ Len(a) = k - 1 /\ \A i \in 1 .. k - 1 : a[i] = s[i]
      /\ b \in Seq(S) /\ Len(b) = Len(s) - k
      /\ \A i \in 1 .. Len(s) - k : b[i] = s[i + k]
  OBVIOUS
<1> HIDE DEF a, b
<1>4. /\ a \o b \in Seq(S) /\ Len(a \o b) = Len(a) + Len(b)
      /\ \A i \in 1 .. Len(a) + Len(b) :
           (a \o b)[i] = IF i <= Len(a) THEN a[i] ELSE b[i - Len(a)]
  BY <1>3, ConcatProperties
<1>5. Len(s) \in Nat /\ Len(a) + Len(b) = Len(s) - 1
  BY <1>3
<1>6. ASSUME NEW i \in 1 .. Len(s) - 1
      PROVE  (a \o b)[i] = IF i < k THEN s[i] ELSE s[i + 1]
  <2>1. CASE i < k
    BY <1>3, <1>4, <1>5, <2>1
  <2>2. CASE ~(i < k)
    <3>1. (a \o b)[i] = b[i - (k - 1)]
      BY <1>3, <1>4, <1>5, <2>2
    <3>2. b[i - (k - 1)] = s[i - (k - 1) + k]
      BY <1>3, <1>5, <2>2
    <3>3. i - (k - 1) + k = i + 1
      BY <1>5
    <3>4. QED BY <2>2, <3>1, <3>2, <3>3
  <2>3. QED BY <2>1, <2>2
<1>7. QED BY <1>2, <1>4, <1>5, <1>6 DEF a, b

StateRest == <<globals, importer, tracked, imports, begun, overlapped>>

(* A run that waits, goes on or drains stays between swap and restore.      *)
LEMMA InsideStep ==
  ASSUME Assumed, RunnerInv, NEW r \in Run, NEW run \in RunOf,
         runs[r].at \in Runner!Watched, run.at \in Runner!Watched,
         run.prev = runs[r].prev, run.prevDi = runs[r].prevDi,
         runs' = [runs EXCEPT ![r] = run], UNCHANGED StateRest, crossed' = crossed
  PROVE  RunnerInv'
<1>1. RunsTyped'
  BY DEF RunnerInv, RunsTyped, StateRest
<1>2. BegunInv'
  BY DEF RunnerInv, RunsTyped, BegunInv, StateRest, Runner!Watched
<1>3. NestedInv'
  BY DEF RunnerInv, RunsTyped, NestedInv, StateRest
<1>4. AloneInv'
  BY DEF RunnerInv, RunsTyped, AloneInv, StateRest, Runner!Watched
<1>5. ImportsInv'
  BY DEF RunnerInv, RunsTyped, ImportsInv, StateRest, Runner!Watched, Runner!Swapped
<1>6. QED BY <1>1, <1>2, <1>3, <1>4, <1>5 DEF RunnerInv

(* A run that is over without having swapped anything.                      *)
LEMMA AnswerStep ==
  ASSUME Assumed, RunnerInv, NEW r \in Run, NEW status \in Runner!Status,
         runs[r].at = "idle", runs' = [runs EXCEPT ![r].at = "done", ![r].status = status],
         UNCHANGED StateRest, crossed' = crossed
  PROVE  RunnerInv'
<1>u. /\ runs' \in [Run -> RunOf] /\ \A q \in Run \ {r} : runs'[q] = runs[q]
      /\ runs'[r].at = "done"
  <2>1. [runs[r] EXCEPT !.at = "done", !.status = status] \in RunOf
    BY StateTyped, RunAnswers
  <2>2. QED BY <2>1, StateTyped DEF RunOf
<1>1. RunsTyped'
  BY <1>u DEF RunnerInv, RunsTyped, StateRest
<1>2. BegunInv'
  BY DEF RunnerInv, RunsTyped, BegunInv, StateRest, Runner!Swapped
<1>3. NestedInv'
  BY DEF RunnerInv, RunsTyped, NestedInv, StateRest, RunOf
<1>4. AloneInv'
  BY DEF RunnerInv, RunsTyped, AloneInv, StateRest, Runner!Watched, Runner!Swapped
<1>5. ImportsInv'
  <2>1. \A i \in Runner!Ids : imports[i].at = "busy" => imports[i].run \in Run \ {r}
    BY DEF RunnerInv, RunsTyped, ImportOf, ImportsInv
  <2>2. QED BY <2>1, <1>u DEF RunnerInv, ImportsInv, StateRest
<1>6. QED BY <1>1, <1>2, <1>3, <1>4, <1>5 DEF RunnerInv

(* A run begins: it is the last in begun, and has the globals.              *)
LEMMA BeginStep ==
  ASSUME Assumed, RunnerInv, NEW r \in Run, NEW kind \in Runner!Kinds, runs[r].at = "idle",
         kind # "absent", Runner!Bridge(r, kind)
  PROVE  RunnerInv'
<1> DEFINE run == [runs[r] EXCEPT !.kind = kind, !.prev = globals]
<1>0. /\ globals' = r /\ begun' = Append(begun, r)
      /\ overlapped' = overlapped \cup (IF begun = << >> THEN {} ELSE Runner!ToSet(begun) \cup {r})
      /\ imports' = imports /\ crossed' = crossed
      /\ \/ /\ kind = "commonjs" /\ tracked' = r /\ importer' = "memfs"
            /\ runs' = [runs EXCEPT ![r] = [run EXCEPT !.at = "script", !.prevDi = importer]]
         \/ /\ UNCHANGED <<importer, tracked>>
            /\ runs' = [runs EXCEPT ![r] = [run EXCEPT !.at = "esbuild"]]
  BY DEF Runner!Bridge, Runner!Call, Runner!Called
<1>t. run \in RunOf /\ run.prev = globals
  <2>1. run \in RunOf
    BY StateTyped, RunSwaps
  <2>2. QED BY <2>1, StateTyped DEF RunOf
<1> HIDE DEF run
<1>u. /\ runs' \in [Run -> RunOf] /\ \A q \in Run \ {r} : runs'[q] = runs[q]
      /\ runs'[r].prev = globals /\ runs'[r].at \in {"script", "esbuild"}
      /\ runs'[r].at = "script" =>
           runs'[r].prevDi = importer /\ tracked' = r /\ importer' = "memfs"
      /\ runs'[r].at = "esbuild" => UNCHANGED <<importer, tracked>>
  <2> DEFINE script == [run EXCEPT !.at = "script", !.prevDi = importer]
             esbuild == [run EXCEPT !.at = "esbuild"]
  <2>1. /\ script \in RunOf /\ script.at = "script" /\ script.prevDi = importer
        /\ script.prev = globals
        /\ esbuild \in RunOf /\ esbuild.at = "esbuild" /\ esbuild.prev = globals
    BY <1>t, StateTyped DEF RunOf, Runner!Swapped
  <2>2. \/ runs' = [runs EXCEPT ![r] = script] /\ tracked' = r /\ importer' = "memfs"
        \/ runs' = [runs EXCEPT ![r] = esbuild] /\ UNCHANGED <<importer, tracked>>
    BY <1>0
  <2> HIDE DEF script, esbuild
  <2>3. QED BY <2>1, <2>2, StateTyped
<1>s. /\ begun' \in Seq(Run) /\ Len(begun') = Len(begun) + 1 /\ begun'[Len(begun) + 1] = r
      /\ \A i \in 1 .. Len(begun) : begun'[i] = begun[i] /\ begun[i] \in Run /\ begun[i] # r
      /\ Len(begun) \in Nat
  <2>1. \A i \in 1 .. Len(begun) : begun[i] # r
    BY DEF RunnerInv, BegunInv, Runner!Swapped
  <2>2. QED BY <1>0, <2>1 DEF RunnerInv, RunsTyped
<1>o. /\ overlapped \subseteq overlapped'
      /\ begun # << >> => r \in overlapped'
      /\ \A i \in 1 .. Len(begun) : begun[i] \in overlapped'
      /\ overlapped' \subseteq Run
  <2>1. Runner!ToSet(begun) = {begun[i] : i \in 1 .. Len(begun)}
    BY DEF Runner!ToSet, RunnerInv, RunsTyped
  <2>2. Len(begun) # 0 => begun # << >>
    BY DEF RunnerInv, RunsTyped
  <2>3. QED BY <1>0, <1>s, <2>1, <2>2 DEF RunnerInv, RunsTyped
<1>1. RunsTyped'
  BY <1>0, <1>u, <1>s, <1>o DEF RunnerInv, RunsTyped
<1>2. BegunInv'
  <2>1. \A i, j \in 1 .. Len(begun') : begun'[i] = begun'[j] => i = j
    BY <1>s DEF RunnerInv, BegunInv
  <2>2. \A q \in Run : runs'[q].at \in Runner!Swapped <=> \E i \in 1 .. Len(begun') : begun'[i] = q
    BY <1>s, <1>u DEF RunnerInv, BegunInv, Runner!Swapped
  <2>3. QED BY <2>1, <2>2 DEF BegunInv
<1>3. NestedInv'
  <2>1. SUFFICES ASSUME ~crossed PROVE NestedInv'
    BY <1>0 DEF NestedInv
  <2>2. globals = IF begun = << >> THEN Runner!Host ELSE begun[Len(begun)]
    BY <2>1 DEF RunnerInv, NestedInv, Runner!Last
  <2>3. begun = << >> <=> Len(begun) = 0
    BY DEF RunnerInv, RunsTyped
  <2>4. \A i \in 1 .. Len(begun) :
          runs'[begun'[i]].prev = IF i = 1 THEN Runner!Host ELSE begun'[i - 1]
    BY <2>1, <1>s, <1>u DEF RunnerInv, NestedInv
  <2>5. runs'[r].prev = IF Len(begun') = 1 THEN Runner!Host ELSE begun'[Len(begun') - 1]
    BY <2>2, <2>3, <1>s, <1>u
  <2>6. begun' # << >> /\ Runner!Last(begun') = r
    BY <1>s DEF Runner!Last
  <2>7. QED BY <1>0, <1>s, <2>4, <2>5, <2>6 DEF NestedInv
<1>4. AloneInv'
  <2>1. \A q \in Run : runs'[q].at \in Runner!Swapped /\ q \notin overlapped' => q = r /\ Len(begun) = 0
    <3>1. \A q \in Run \ {r} : runs'[q].at \in Runner!Swapped => q \in overlapped'
      BY <1>u, <1>o DEF RunnerInv, BegunInv
    <3>2. Len(begun) # 0 => r \in overlapped'
      BY <1>o DEF RunnerInv, RunsTyped
    <3>3. QED BY <3>1, <3>2
  <2>2. \A q \in Run : runs'[q].at \in Runner!Watched /\ q \notin overlapped' => tracked' = q
    BY <2>1, <1>u DEF Runner!Watched
  <2>3. ASSUME overlapped' = {}
        PROVE  /\ importer' = IF \E q \in Run : runs'[q].at \in Runner!Watched THEN "memfs" ELSE Runner!Host
               /\ \A q \in Run : runs'[q].at \in Runner!Watched => runs'[q].prevDi = Runner!Host
    <3>1. \A q \in Run \ {r} : runs[q].at \notin Runner!Swapped /\ runs'[q].at \notin Runner!Swapped
      BY <2>1, <2>3, <1>u
    <3>2. importer = Runner!Host
      BY <2>3, <1>o, <3>1 DEF RunnerInv, AloneInv, Runner!Watched, Runner!Swapped
    <3>3. \A q \in Run : runs'[q].at \in Runner!Watched => q = r /\ runs'[r].at = "script"
      BY <3>1, <1>u DEF Runner!Watched
    <3>4. runs'[r].at = "script" => runs'[r].at \in Runner!Watched
      BY DEF Runner!Watched, Runner!Swapped
    <3>5. QED BY <3>2, <3>3, <3>4, <1>u
  <2>4. QED BY <2>1, <2>2, <2>3, <1>s DEF AloneInv
<1>5. ImportsInv'
  <2>1. \A i \in Runner!Ids : imports[i].at = "busy" => imports[i].run \in Run \ {r}
    BY DEF RunnerInv, RunsTyped, ImportOf, ImportsInv
  <2>2. QED BY <2>1, <1>0, <1>u, <1>o DEF RunnerInv, ImportsInv
<1>6. QED BY <1>1, <1>2, <1>3, <1>4, <1>5 DEF RunnerInv

(* A run ends: it puts back what it found, of the globals and, when its     *)
(* script was called, of the importer.                                      *)
LEMMA EndStep ==
  ASSUME Assumed, RunnerInv, NEW r \in Run, NEW status \in Runner!Status, NEW batch \in SUBSET Runner!Ids,
         runs[r].at \in Runner!Swapped,
         runs' = [runs EXCEPT ![r].at = "done", ![r].status = status, ![r].batch = batch],
         globals' = runs[r].prev, begun' = Runner!RemoveFirst(begun, r),
         crossed' = (crossed \/ Runner!Last(begun) # r),
         \/ runs[r].at = "esbuild" /\ UNCHANGED <<importer, tracked>>
         \/ runs[r].at \in Runner!Watched /\ tracked' = Runner!None /\ importer' = runs[r].prevDi,
         UNCHANGED <<imports, overlapped>>,
         \A i \in Runner!Ids : imports[i].at = "busy" /\ imports[i].run = r /\ r \notin overlapped =>
                          status # "ok"
  PROVE  RunnerInv'
<1>1. PICK k \in 1 .. Len(begun) : begun[k] = r
  BY DEF RunnerInv, BegunInv
<1>u. /\ runs' \in [Run -> RunOf] /\ \A q \in Run \ {r} : runs'[q] = runs[q]
      /\ runs'[r].at = "done" /\ runs'[r].status = status
  <2> DEFINE over == [runs[r] EXCEPT !.at = "done", !.status = status, !.batch = batch]
  <2>0. over \in RunOf
    BY StateTyped, RunEnds
  <2>1. over.at = "done" /\ over.status = status
    BY StateTyped DEF RunOf
  <2>2. runs' = [runs EXCEPT ![r] = over]
    BY StateTyped DEF RunOf
  <2> HIDE DEF over
  <2>3. runs' \in [Run -> RunOf] /\ runs'[r] = over
    BY <2>0, <2>2, StateTyped
  <2>4. \A q \in Run \ {r} : runs'[q] = runs[q]
    BY <2>2, StateTyped
  <2>5. QED BY <2>1, <2>3, <2>4
<1>s. /\ begun' \in Seq(Run) /\ Len(begun') = Len(begun) - 1 /\ Len(begun) \in Nat
      /\ \A i \in 1 .. Len(begun) - 1 : begun'[i] = IF i < k THEN begun[i] ELSE begun[i + 1]
  <2>1. begun \in Seq(Run) /\ \A i \in 1 .. Len(begun) : begun[i] = begun[k] => i = k
    BY DEF RunnerInv, RunsTyped, BegunInv
  <2>2. QED BY <1>1, <2>1, TakenOut
<1>2. RunsTyped'
  BY <1>u, <1>s DEF RunnerInv, RunsTyped, RunOf
<1>3. BegunInv'
  <2>1. \A i, j \in 1 .. Len(begun') : begun'[i] = begun'[j] => i = j
    BY SMTT(20), <1>s DEF RunnerInv, BegunInv
  <2>2. \A i \in 1 .. Len(begun') : begun'[i] # r
    BY SMTT(20), <1>1, <1>s DEF RunnerInv, BegunInv
  <2>3. ASSUME NEW q \in Run \ {r}, NEW i \in 1 .. Len(begun), begun[i] = q
        PROVE  \E j \in 1 .. Len(begun') : begun'[j] = q
    <3>1. i # k
      BY <1>1, <2>3
    <3>2. CASE i < k
      BY <1>s, <3>2, <2>3
    <3>3. CASE i > k
      <4>1. i - 1 \in 1 .. Len(begun') /\ begun'[i - 1] = q
        BY <1>s, <3>3, <2>3
      <4>2. QED BY <4>1
    <3>4. QED BY <3>1, <3>2, <3>3
  <2>4. \A q \in Run \ {r}, i \in 1 .. Len(begun') :
          begun'[i] = q => \E j \in 1 .. Len(begun) : begun[j] = q
    <3>1. ASSUME NEW q \in Run \ {r}, NEW i \in 1 .. Len(begun'), begun'[i] = q
          PROVE  \E j \in 1 .. Len(begun) : begun[j] = q
      <4>1. i \in 1 .. Len(begun) /\ i + 1 \in 1 .. Len(begun)
        BY <1>s
      <4>2. QED BY <3>1, <4>1, <1>s
    <3>2. QED BY <3>1
  <2>5. \A q \in Run : runs'[q].at \in Runner!Swapped <=> \E i \in 1 .. Len(begun') : begun'[i] = q
    <3>1. runs'[r].at \notin Runner!Swapped
      BY <1>u DEF Runner!Swapped
    <3>2. ASSUME NEW q \in Run \ {r}
          PROVE  runs'[q].at \in Runner!Swapped <=> \E i \in 1 .. Len(begun') : begun'[i] = q
      BY <1>u, <2>3, <2>4 DEF RunnerInv, BegunInv
    <3>3. QED BY <2>2, <3>1, <3>2
  <2>6. QED BY <2>1, <2>5 DEF BegunInv
<1>4. NestedInv'
  <2>1. SUFFICES ASSUME ~crossed, Runner!Last(begun) = r PROVE NestedInv'
    BY DEF NestedInv
  <2>2. k = Len(begun)
    BY <1>1, <2>1 DEF RunnerInv, BegunInv, Runner!Last
  <2>3. \A i \in 1 .. Len(begun') : begun'[i] = begun[i] /\ begun[i] \in Run \ {r}
    <3>1. \A i \in 1 .. Len(begun') : begun[i] # r
      BY <1>1, <1>s, <2>2 DEF RunnerInv, BegunInv
    <3>2. \A i \in 1 .. Len(begun) : begun[i] \in Run
      BY DEF RunnerInv, RunsTyped
    <3>3. QED BY <1>s, <2>2, <3>1, <3>2
  <2>4. globals' = IF k = 1 THEN Runner!Host ELSE begun[k - 1]
    BY <1>1, <2>1 DEF RunnerInv, NestedInv
  <2>5. Len(begun') = 0 <=> begun' = << >>
    BY <1>s
  <2>6. globals' = IF begun' = << >> THEN Runner!Host ELSE Runner!Last(begun')
    BY <2>2, <2>3, <2>4, <2>5, <1>s DEF Runner!Last
  <2>7. \A i \in 1 .. Len(begun') :
          runs'[begun'[i]].prev = IF i = 1 THEN Runner!Host ELSE begun'[i - 1]
    <3>1. ASSUME NEW i \in 1 .. Len(begun')
          PROVE  runs'[begun'[i]].prev = IF i = 1 THEN Runner!Host ELSE begun'[i - 1]
      <4>1. /\ i \in 1 .. Len(begun) /\ begun'[i] = begun[i]
            /\ i # 1 => begun'[i - 1] = begun[i - 1]
            /\ runs'[begun[i]] = runs[begun[i]]
        BY <1>u, <1>s, <2>3
      <4>2. runs[begun[i]].prev = IF i = 1 THEN Runner!Host ELSE begun[i - 1]
        BY <2>1, <4>1 DEF RunnerInv, NestedInv
      <4>3. QED BY <4>1, <4>2
    <3>2. QED BY <3>1
  <2>8. QED BY <2>6, <2>7 DEF NestedInv
<1>5. AloneInv'
  <2>1. ASSUME NEW q \in Run, runs'[q].at \in Runner!Swapped PROVE q # r /\ q \in overlapped
    <3>1. q # r /\ runs[q].at \in Runner!Swapped
      BY <1>u, <2>1 DEF Runner!Swapped
    <3>2. PICK j \in 1 .. Len(begun) : begun[j] = q
      BY <3>1 DEF RunnerInv, BegunInv
    <3>3. Len(begun) # 1
      BY <1>1, <3>1, <3>2
    <3>4. QED BY <3>1, <3>3 DEF RunnerInv, AloneInv
  <2>2. overlapped = {} => importer' = Runner!Host
    BY <2>1, <1>u DEF RunnerInv, AloneInv, Runner!Watched, Runner!Swapped
  <2>3. QED BY <2>1, <2>2 DEF AloneInv, Runner!Watched
<1>6. ImportsInv'
  <2>1. ASSUME NEW i \in Runner!Ids, imports[i].at = "busy", imports[i].run # r,
               runs[imports[i].run].at \in Runner!Watched, imports[i].run \notin overlapped
        PROVE  imports[i].set = imports[i].run
    BY <2>1 DEF RunnerInv, ImportsInv
  <2>2. \A i \in Runner!Ids : imports[i].run \in Run
    BY DEF RunnerInv, RunsTyped, ImportOf
  <2>3. QED BY <2>1, <2>2, <1>u DEF RunnerInv, ImportsInv, Runner!Watched, Runner!Swapped
<1>7. QED BY <1>2, <1>3, <1>4, <1>5, <1>6 DEF RunnerInv

LEMMA TranspileStep ==
  ASSUME Assumed, RunnerInv, NEW r \in Run, Runner!Transpile(r)
  PROVE  RunnerInv'
<1>0. /\ runs[r].at = "esbuild" /\ tracked' = r /\ importer' = "memfs"
      /\ UNCHANGED <<globals, imports, begun, overlapped, crossed>>
  BY DEF Runner!Transpile, Runner!Call
<1>u. /\ runs' \in [Run -> RunOf] /\ \A q \in Run \ {r} : runs'[q] = runs[q]
      /\ runs'[r].at \in {"awaiting", "script"} /\ runs'[r].prev = runs[r].prev
      /\ runs'[r].prevDi = importer
  <2> DEFINE at == IF runs[r].kind = "awaits" THEN "awaiting" ELSE "script"
             now == [runs[r] EXCEPT !.at = at, !.prevDi = importer]
  <2>1. runs \in [Run -> RunOf] /\ runs[r] \in RunOf /\ importer \in {Runner!Host, "memfs"}
    BY DEF RunnerInv, RunsTyped
  <2>2. at \in {"awaiting", "script"} /\ at \in Runner!Swapped
    BY DEF Runner!Swapped
  <2>3. runs' = [runs EXCEPT ![r] = now]
    BY DEF Runner!Transpile, Runner!Called
  <2> HIDE DEF at
  <2>4. now \in RunOf /\ now.at = at /\ now.prev = runs[r].prev /\ now.prevDi = importer
    BY <2>1, <2>2 DEF RunOf
  <2> HIDE DEF now
  <2>5. runs' \in [Run -> RunOf] /\ runs'[r] = now
    BY <2>1, <2>3, <2>4
  <2>6. \A q \in Run \ {r} : runs'[q] = runs[q]
    BY <2>1, <2>3
  <2>7. QED BY <2>2, <2>4, <2>5, <2>6
<1>1. RunsTyped'
  BY <1>0, <1>u DEF RunnerInv, RunsTyped
<1>2. BegunInv'
  BY <1>0, <1>u DEF RunnerInv, RunsTyped, BegunInv, Runner!Swapped
<1>3. NestedInv'
  BY <1>0, <1>u DEF RunnerInv, RunsTyped, NestedInv
<1>4. AloneInv'
  <2>1. ASSUME NEW q \in Run \ {r}, runs[q].at \in Runner!Swapped PROVE q \in overlapped /\ r \in overlapped
    <3>1. PICK j \in 1 .. Len(begun) : begun[j] = q
      BY <2>1 DEF RunnerInv, BegunInv
    <3>2. PICK k \in 1 .. Len(begun) : begun[k] = r
      BY <1>0 DEF RunnerInv, BegunInv, Runner!Swapped
    <3>3. Len(begun) # 1
      BY <3>1, <3>2
    <3>4. QED BY <3>3, <2>1, <1>0 DEF RunnerInv, AloneInv, Runner!Swapped
  <2>2. overlapped = {} => importer = Runner!Host
    BY <2>1, <1>0 DEF RunnerInv, AloneInv, Runner!Watched, Runner!Swapped
  <2>3. \A q \in Run : runs'[q].at \in Runner!Swapped /\ q \notin overlapped => Len(begun) = 1
    BY <1>0, <1>u DEF RunnerInv, AloneInv, Runner!Swapped
  <2>4. \A q \in Run : runs'[q].at \in Runner!Watched /\ q \notin overlapped => q = r
    BY <2>1, <1>u DEF Runner!Watched
  <2>5. QED BY <1>0, <1>u, <2>1, <2>2, <2>3, <2>4 DEF AloneInv, Runner!Watched, Runner!Swapped
<1>5. ImportsInv'
  <2>1. \A i \in Runner!Ids : imports[i].at = "busy" => imports[i].run \in Run \ {r}
    BY <1>0 DEF RunnerInv, RunsTyped, ImportOf, ImportsInv
  <2>2. QED BY <2>1, <1>0, <1>u DEF RunnerInv, ImportsInv
<1>6. QED BY <1>1, <1>2, <1>3, <1>4, <1>5 DEF RunnerInv

LEMMA ImportStep ==
  ASSUME Assumed, RunnerInv, NEW r \in Run, NEW i \in Runner!Ids, Runner!Import(r, i)
  PROVE  RunnerInv'
<1>0. /\ \/ runs[r].at = "script"
         \/ \E j \in Runner!Ids : imports[j].at = "busy" /\ imports[j].run = r
      /\ imports' = [imports EXCEPT ![i] = [at |-> "busy", run |-> r, set |-> tracked]]
      /\ UNCHANGED <<globals, importer, tracked, runs, begun, overlapped, crossed>>
  BY DEF Runner!Import
<1>1. RunsTyped' /\ BegunInv' /\ NestedInv' /\ AloneInv'
  BY <1>0 DEF RunnerInv, RunsTyped, BegunInv, NestedInv, AloneInv, ImportOf
<1>2. ImportsInv'
  <2>1. /\ runs[r].at \notin {"idle", "esbuild"}
        /\ r \notin overlapped /\ runs[r].at \in Runner!Watched => tracked = r
        /\ r \notin overlapped /\ runs[r].at = "done" => runs[r].status # "ok"
    BY <1>0 DEF RunnerInv, ImportsInv, AloneInv
  <2>2. QED BY <1>0, <2>1 DEF RunnerInv, RunsTyped, ImportsInv
<1>3. QED BY <1>1, <1>2 DEF RunnerInv

LEMMA SettleStep ==
  ASSUME Assumed, RunnerInv, NEW i \in Runner!Ids, NEW at \in {"done", "failed"}, Runner!ImportSettles(i, at)
  PROVE  RunnerInv'
<1>0. /\ imports' = [imports EXCEPT ![i].at = at,
                                    ![i].set = IF @ = tracked THEN Runner!None ELSE @]
      /\ UNCHANGED <<globals, importer, tracked, runs, begun, overlapped, crossed>>
  BY DEF Runner!ImportSettles
<1>1. RunsTyped' /\ BegunInv' /\ NestedInv' /\ AloneInv'
  <2>1. [imports[i] EXCEPT !.at = at, !.set = IF @ = tracked THEN Runner!None ELSE @] \in ImportOf
    <3>1. imports[i] \in ImportOf
      BY DEF RunnerInv, RunsTyped
    <3>2. QED BY <3>1 DEF ImportOf
  <2>2. imports' \in [Runner!Ids -> ImportOf]
    BY <1>0, <2>1 DEF RunnerInv, RunsTyped, ImportOf
  <2>3. RunsTyped'
    BY <1>0, <2>2 DEF RunnerInv, RunsTyped
  <2>4. BegunInv' /\ NestedInv' /\ AloneInv'
    BY <1>0 DEF RunnerInv, BegunInv, NestedInv, AloneInv
  <2>5. QED BY <2>3, <2>4
<1>2. ImportsInv'
  BY <1>0 DEF RunnerInv, RunsTyped, ImportsInv, ImportOf
<1>3. QED BY <1>1, <1>2 DEF RunnerInv

(* A run that is alone and has nothing pending has nothing busy.            *)
LEMMA DrainStep ==
  ASSUME Assumed, RunnerInv, NEW r \in Run, runs[r].at \in Runner!Watched, Runner!Drain(r)
  PROVE  RunnerInv'
<1>1. CASE Runner!Pending = {}
  <2>1. Runner!Over(r, "ok")
    BY <1>1 DEF Runner!Drain
  <2>2. \A i \in Runner!Ids : ~(imports[i].at = "busy" /\ imports[i].run = r /\ r \notin overlapped)
    BY <1>1 DEF RunnerInv, AloneInv, ImportsInv, Runner!Pending, Assumed
  <2>3. runs[r].at \in Runner!Swapped /\ "ok" \in Runner!Status /\ {} \in SUBSET Runner!Ids
    BY DEF Runner!Watched, Runner!Status
  <2>4. QED BY <2>1, <2>2, <2>3, EndStep DEF Runner!Over
<1>2. CASE Runner!Pending # {}
  <2> DEFINE run == [runs[r] EXCEPT !.at = "draining", !.batch = Runner!Pending]
  <2>1. /\ runs' = [runs EXCEPT ![r].at = "draining", ![r].batch = Runner!Pending]
        /\ UNCHANGED <<globals, importer, tracked, imports, begun, overlapped, crossed>>
    BY <1>2 DEF Runner!Drain
  <2>2. run \in RunOf /\ run.at = "draining" /\ run.prev = runs[r].prev
        /\ run.prevDi = runs[r].prevDi
    <3>1. Runner!Pending \in SUBSET Runner!Ids
      BY DEF Runner!Pending
    <3>2. run \in RunOf
      BY <3>1, StateTyped, RunDrains
    <3>3. QED BY <3>2, StateTyped DEF RunOf
  <2>3. runs' = [runs EXCEPT ![r] = run]
    BY <2>1, StateTyped DEF RunOf
  <2> HIDE DEF run
  <2>4. QED BY <2>1, <2>2, <2>3, InsideStep DEF StateRest, Runner!Watched, Runner!Swapped
<1>3. QED BY <1>1, <1>2

LEMMA OverStep ==
  ASSUME Assumed, RunnerInv, NEW r \in Run, runs[r].at \in Runner!Watched,
         NEW status \in Runner!Status \ {"ok"}, Runner!Over(r, status)
  PROVE  RunnerInv'
<1>1. runs[r].at \in Runner!Swapped /\ {} \in SUBSET Runner!Ids
  BY DEF Runner!Watched
<1>2. QED BY <1>1, EndStep DEF Runner!Over

LEMMA RunnerStep == ASSUME Assumed, RunnerInv, [Runner!Next]_(Runner!vars) PROVE RunnerInv'
<1>1. ASSUME NEW r \in Run, Runner!ExecuteCliAsync(r) PROVE RunnerInv'
  <2>1. runs[r].at = "idle"
    BY <1>1 DEF Runner!ExecuteCliAsync
  <2>2. CASE Runner!Native(r)
    BY <2>1, <2>2, AnswerStep DEF Runner!Native, StateRest
  <2>3. ASSUME NEW kind \in Runner!Kinds, Runner!Bridge(r, kind) PROVE RunnerInv'
    <3>1. CASE kind = "absent"
      <4>1. "failed" \in Runner!Status
        BY DEF Runner!Status
      <4>2. QED BY <2>1, <2>3, <3>1, <4>1, AnswerStep DEF Runner!Bridge, StateRest
    <3>2. CASE kind # "absent"
      BY <2>1, <2>3, <3>2, BeginStep
    <3>3. QED BY <3>1, <3>2
  <2>4. QED BY <1>1, <2>2, <2>3 DEF Runner!ExecuteCliAsync
<1>2. ASSUME NEW r \in Run, Runner!Refused(r) PROVE RunnerInv'
  <2>1. runs[r].at \in Runner!Swapped /\ "failed" \in Runner!Status /\ runs[r].batch \in SUBSET Runner!Ids
    BY <1>2 DEF Runner!Refused, Runner!Swapped, Runner!Status, RunnerInv, RunsTyped, RunOf
  <2>2. runs' = [runs EXCEPT ![r].at = "done", ![r].status = "failed", ![r].batch = runs[r].batch]
    BY <1>2 DEF Runner!Refused, RunnerInv, RunsTyped, RunOf
  <2>3. QED BY <1>2, <2>1, <2>2, EndStep DEF Runner!Refused
<1>3. ASSUME NEW r \in Run, Runner!Await(r) \/ Runner!Resume(r) PROVE RunnerInv'
  <2>1. PICK at \in {"awaiting", "script"} :
          /\ runs[r].at \in Runner!Watched /\ runs' = [runs EXCEPT ![r].at = at]
          /\ UNCHANGED StateRest /\ crossed' = crossed
    BY <1>3 DEF Runner!Await, Runner!Resume, StateRest, Runner!Watched, Runner!Swapped
  <2> DEFINE run == [runs[r] EXCEPT !.at = at]
  <2>2. run \in RunOf /\ run.at \in Runner!Watched /\ run.prev = runs[r].prev
        /\ run.prevDi = runs[r].prevDi
    BY StateTyped DEF RunOf, Runner!Swapped, Runner!Watched
  <2>3. runs' = [runs EXCEPT ![r] = run]
    BY <2>1, StateTyped DEF RunOf
  <2> HIDE DEF run
  <2>4. QED BY <2>1, <2>2, <2>3, InsideStep
<1>4. ASSUME NEW r \in Run, Runner!Return(r) \/ Runner!DrainAgain(r) PROVE RunnerInv'
  BY <1>4, DrainStep DEF Runner!Return, Runner!DrainAgain, Runner!Watched, Runner!Swapped
<1>5. ASSUME NEW r \in Run, Runner!Throw(r) \/ Runner!DrainFails(r) PROVE RunnerInv'
  BY <1>5, OverStep DEF Runner!Throw, Runner!DrainFails, Runner!Watched, Runner!Swapped
<1>6. ASSUME UNCHANGED Runner!vars PROVE RunnerInv'
  <2>1. UNCHANGED StateRest /\ runs' = runs /\ crossed' = crossed
    BY <1>6 DEF Runner!vars, StateRest
  <2>2. RunsTyped' /\ BegunInv' /\ NestedInv'
    BY <2>1 DEF RunnerInv, RunsTyped, BegunInv, NestedInv, StateRest
  <2>3. AloneInv' /\ ImportsInv'
    BY <2>1 DEF RunnerInv, AloneInv, ImportsInv, StateRest
  <2>4. QED BY <2>2, <2>3 DEF RunnerInv
<1>7. QED BY <1>1, <1>2, <1>3, <1>4, <1>5, <1>6, TranspileStep, ImportStep, SettleStep DEF Runner!Next

LEMMA RunnerSafe == ASSUME RunnerInv PROVE Runner!GlobalsComeBack /\ Runner!ImportsAreAwaited
<1>1. Runner!GlobalsComeBack
  BY DEF RunnerInv, NestedInv, AloneInv, Runner!GlobalsComeBack
<1>2. Runner!ImportsAreAwaited
  BY DEF RunnerInv, ImportsInv, Runner!ImportsAreAwaited
<1>3. QED BY <1>1, <1>2

(* Whatever way the runs end, the globals are those of the last run that    *)
(* has begun and is not over, and the importer is there for the code of a   *)
(* script and gone after it (ScriptRunner, script-runner.js).               *)
THEOREM GlobalsComeBackAlways ==
  ASSUME Assumed
  PROVE  Runner!Spec => []Runner!GlobalsComeBack
<1>1. Runner!Init => RunnerInv
  BY RunnerInit
<1>2. RunnerInv /\ [Runner!Next]_(Runner!vars) => RunnerInv'
  BY RunnerStep
<1>3. RunnerInv => Runner!GlobalsComeBack
  BY RunnerSafe
<1>4. QED BY <1>1, <1>2, <1>3, PTL DEF Runner!Spec

(* A run that was alone and is over with status 0 has waited for all that   *)
(* it imported (the import tracker of script-runner.js).                    *)
THEOREM ImportsAreAwaitedAlways ==
  ASSUME Assumed
  PROVE  Runner!Spec => []Runner!ImportsAreAwaited
<1>1. Runner!Init => RunnerInv
  BY RunnerInit
<1>2. RunnerInv /\ [Runner!Next]_(Runner!vars) => RunnerInv'
  BY RunnerStep
<1>3. RunnerInv => Runner!ImportsAreAwaited
  BY RunnerSafe
<1>4. QED BY <1>1, <1>2, <1>3, PTL DEF Runner!Spec

-----------------------------------------------------------------------------
CONSTANTS
  MaxRun, Waiter, BootWaiter

VARIABLES
  autorun, stage, shell, keys, runCounter, lastExitCode, exitCode, resolver,
  listener, app, byBoot, wait, said, polled

Term == INSTANCE Terminal WITH
  owner <- keys, crossed <- polled

(* Terminal: who has the keys, and who is told of an exit.                  *)

Active == {"importing", "fetching", "running"}

(* The shell has the keys, or the page's own program is to give them back:  *)
(* it is not over its start, or the page waits for its exit.                *)
KeysInv ==
  /\ stage \in {"loading", "booting"} => byBoot = 0 /\ runCounter = 0
  /\ stage = "booting" => (shell /\ ~autorun => "shell" \in keys)
  /\ stage = "ready" /\ shell =>
       \/ "shell" \in keys
       \/ /\ autorun /\ byBoot # 0
          /\ app[byBoot] \in {"importing", "fetching"} \/ wait[BootWaiter].run # 0

(* As long as runs follow each other, what the page knows of an exit is of  *)
(* the run that was started last.                                           *)
ExitInv ==
  /\ byBoot <= runCounter
  /\ \A r \in Term!Run : app[r] # "none" => r <= runCounter
  /\ \A w \in Waiter : /\ wait[w].run <= runCounter
                       /\ wait[w].run = 0 => wait[w].told = Term!NoCode
  /\ ~polled =>
       /\ \A r \in Term!Run : app[r] \in Active => r = runCounter
       /\ lastExitCode # Term!NoCode => runCounter # 0 /\ lastExitCode \in said[runCounter]
       /\ exitCode # Term!NoCode => runCounter # 0 /\ exitCode \in said[runCounter]
       /\ Term!ToldOfItsRun

TermRunsTyped ==
  /\ stage \in {"loading", "booting", "ready", "failed"}
  /\ keys \subseteq {"shell", "app"}
  /\ runCounter \in 0 .. MaxRun /\ byBoot \in 0 .. MaxRun
  /\ lastExitCode \in Term!Code \cup {Term!NoCode} /\ exitCode \in Term!Code \cup {Term!NoCode}
  /\ resolver \in 0 .. MaxRun /\ listener \in 0 .. MaxRun
  /\ app \in [Term!Run -> {"none", "over"} \cup Active]
  /\ said \in [Term!Run -> SUBSET Term!Code]
  /\ wait \in [Waiter -> [run : 0 .. MaxRun, told : Term!Code \cup {Term!NoCode, "timeout"}]]

FlagsTyped == autorun \in BOOLEAN /\ shell \in BOOLEAN /\ polled \in BOOLEAN

TermInv == FlagsTyped /\ TermRunsTyped /\ KeysInv /\ ExitInv

LEMMA TermInit == ASSUME MaxRun \in Nat, Term!Init PROVE TermInv
<1>1. FlagsTyped
  BY Zenon DEF Term!Init, FlagsTyped
<1>2. TermRunsTyped
  BY DEF Term!Init, TermRunsTyped, Term!NoCode, Term!Code
<1>3. KeysInv
  BY DEF Term!Init, KeysInv
<1>4. ExitInv
  BY DEF Term!Init, ExitInv, Term!ToldOfItsRun, Term!NoCode, Term!Code, Active, Term!Run, Term!Failure
<1>5. QED BY <1>1, <1>2, <1>3, <1>4 DEF TermInv

LEMMA FlagsStep == ASSUME FlagsTyped, [Term!Next]_(Term!vars) PROVE FlagsTyped'
<1>1. ASSUME NEW ok \in BOOLEAN, Term!LoadShell(ok) PROVE FlagsTyped'
  BY <1>1, Zenon DEF Term!LoadShell, FlagsTyped, Term!runVars
<1>2. ASSUME NEW r, NEW c, Term!StartWith(r, c) PROVE FlagsTyped'
  <2>1. /\ polled' = (polled \/ \E q \in Term!Run : app[q] \in {"importing", "fetching", "running"})
        /\ UNCHANGED <<autorun, shell>>
    BY <1>2, Zenon DEF Term!StartWith
  <2>2. QED BY <2>1, Zenon DEF FlagsTyped
<1>3. ASSUME UNCHANGED <<autorun, shell, polled>> PROVE FlagsTyped'
  BY <1>3 DEF FlagsTyped
<1>4. CASE Term!Ready \/ Term!Start
  BY <1>4, <1>2, <1>3 DEF Term!Ready, Term!Start, Term!runVars
<1>5. CASE Term!WasmFails \/ Term!BackToShell \/ UNCHANGED Term!vars
  BY <1>5, <1>3 DEF Term!WasmFails, Term!BackToShell, Term!vars, Term!pageVars, Term!runVars
<1>6. ASSUME NEW r \in Term!Run,
             \/ Term!Import(r) \/ Term!Require(r) \/ Term!OpenTty(r)
             \/ \E c \in Term!ExitOrError :
                  Term!ImportThrows(r, c) \/ Term!RequireThrows(r, c) \/ Term!MainRejects(r, c)
             \/ \E c \in Term!Code \cup {Term!NoCode} : Term!CallbackExits(r, c)
             \/ \E c \in Term!Code : Term!EmitExit(r, c)
      PROVE FlagsTyped'
  BY <1>6, <1>3 DEF Term!Import, Term!Require, Term!OpenTty, Term!ImportThrows, Term!RequireThrows, Term!MainRejects,
                    Term!CallbackExits, Term!EmitExit, Term!pageVars, Term!runVars
<1>7. ASSUME NEW w \in Waiter, Term!Wait(w) \/ Term!Poll(w) \/ Term!Timeout(w) PROVE FlagsTyped'
  BY <1>7, <1>3 DEF Term!Wait, Term!Poll, Term!Timeout, Term!pageVars, Term!runVars
<1>8. QED BY <1>1, <1>4, <1>5, <1>6, <1>7 DEF Term!Next

RestInv == TermRunsTyped /\ KeysInv /\ ExitInv

(* What a run does to what is known of its exit: it says codes, and what is *)
(* recorded or told is one of them.                                         *)
LEMMA RunSays ==
  ASSUME MaxRun \in Nat, RestInv, TermRunsTyped', NEW r \in Term!Run, app[r] \in Active,
         NEW S \in SUBSET Term!Code, NEW a \in {"none", "over"} \cup Active,
         UNCHANGED <<runCounter, polled, byBoot>>,
         said' = [said EXCEPT ![r] = @ \cup S], app' = [app EXCEPT ![r] = a],
         exitCode' \in {exitCode} \cup S, lastExitCode' \in {lastExitCode} \cup S,
         \A w \in Waiter :
           \/ wait'[w] = wait[w]
           \/ wait[w].run # 0 /\ wait'[w].run = wait[w].run /\ wait'[w].told \in S
           \/ wait'[w].run = runCounter /\ wait'[w].told = Term!NoCode
  PROVE  ExitInv'
<1>1. app[r] # "none" /\ r <= runCounter
  BY DEF RestInv, ExitInv, Active
<1>2. \A q \in Term!Run : said[q] \subseteq said'[q] /\ S \subseteq said'[r]
  BY DEF RestInv, TermRunsTyped
<1>3. \A q \in Term!Run : app'[q] # "none" => q <= runCounter
  BY <1>1 DEF RestInv, TermRunsTyped, ExitInv
<1>4. \A w \in Waiter : /\ wait'[w].run <= runCounter
                        /\ wait'[w].run = 0 => wait'[w].told = Term!NoCode
  BY DEF RestInv, TermRunsTyped, ExitInv
<1>5. ASSUME ~polled
      PROVE  /\ \A q \in Term!Run : app'[q] \in Active => q = runCounter
             /\ lastExitCode' # Term!NoCode => runCounter # 0 /\ lastExitCode' \in said'[runCounter]
             /\ exitCode' # Term!NoCode => runCounter # 0 /\ exitCode' \in said'[runCounter]
             /\ Term!ToldOfItsRun'
  <2>1. r = runCounter /\ r # 0 /\ r \in Nat
    BY <1>5 DEF RestInv, ExitInv, Term!Run
  <2>2. \A q \in Term!Run : app'[q] \in Active => q = runCounter
    BY <1>5, <2>1 DEF RestInv, TermRunsTyped, ExitInv
  <2>3. /\ lastExitCode' # Term!NoCode => lastExitCode' \in said'[runCounter]
        /\ exitCode' # Term!NoCode => exitCode' \in said'[runCounter]
    BY <1>2, <1>5, <2>1 DEF RestInv, ExitInv
  <2>4. ASSUME NEW w \in Waiter, wait'[w].told \in Term!Code
        PROVE  \E q \in Term!Run : q >= wait'[w].run /\ wait'[w].told \in said'[q]
    <3>1. CASE wait'[w] = wait[w]
      BY <1>2, <1>5, <2>4, <3>1 DEF RestInv, ExitInv, Term!ToldOfItsRun
    <3>2. CASE wait'[w].told \in S
      <4>1. r >= wait'[w].run
        BY <1>4, <2>1 DEF RestInv, TermRunsTyped
      <4>2. QED BY <1>2, <3>2, <4>1
    <3>3. CASE wait'[w].told = Term!NoCode
      BY <2>4, <3>3 DEF Term!Code, Term!NoCode, Term!Failure
    <3>4. QED BY <3>1, <3>2, <3>3
  <2>5. QED BY <2>1, <2>2, <2>3, <2>4 DEF Term!ToldOfItsRun
<1>6. byBoot' <= runCounter'
  BY DEF RestInv, ExitInv
<1>7. QED BY <1>3, <1>4, <1>5, <1>6 DEF ExitInv

LEMMA RunStarts ==
  ASSUME MaxRun \in Nat, RestInv, NEW r, Term!StartWith(r, Term!NoCode)
  PROVE  /\ r \in Term!Run /\ runCounter' = r /\ UNCHANGED <<autorun, shell, keys, wait>>
         /\ app' = [app EXCEPT ![r] = "importing"]
         /\ TermRunsTyped' \/ ~(byBoot' \in 0 .. MaxRun) \/ ~(stage' = "ready")
         /\ ExitInv' \/ ~(byBoot' <= r)
<1>1. /\ r \in Term!Run /\ runCounter' = r /\ r = runCounter + 1 /\ runCounter \in Nat
      /\ r \in Nat /\ r # 0
  BY DEF Term!StartWith, RestInv, TermRunsTyped, Term!Run
<1>2. /\ UNCHANGED <<autorun, shell, keys, said, wait>>
      /\ app' = [app EXCEPT ![r] = "importing"]
      /\ lastExitCode' = Term!NoCode /\ exitCode' = Term!NoCode /\ resolver' = r /\ listener' = r
      /\ ~polled' => ~polled /\ \A q \in Term!Run : app[q] \notin Active
  BY DEF Term!StartWith, Active
<1>3. ASSUME byBoot' \in 0 .. MaxRun, stage' = "ready" PROVE TermRunsTyped'
  BY <1>1, <1>2, <1>3 DEF RestInv, TermRunsTyped, Term!Run, Active
<1>4. ASSUME byBoot' <= r PROVE ExitInv'
  <2>1. \A q \in Term!Run : app'[q] # "none" => q <= r
    BY <1>1, <1>2 DEF RestInv, TermRunsTyped, ExitInv, Term!Run
  <2>2. \A w \in Waiter : wait[w].run <= r
    BY <1>1 DEF RestInv, TermRunsTyped, ExitInv
  <2>3. ~polled' => \A q \in Term!Run : app'[q] \in Active => q = r
    BY <1>1, <1>2 DEF RestInv, TermRunsTyped, Term!Run
  <2>4. ~polled' => Term!ToldOfItsRun'
    BY <1>2 DEF RestInv, ExitInv, Term!ToldOfItsRun
  <2>5. QED BY <1>1, <1>2, <1>4, <2>1, <2>2, <2>3, <2>4 DEF RestInv, ExitInv
<1>5. QED BY <1>1, <1>2, <1>3, <1>4

LEMMA StartStep ==
  ASSUME MaxRun \in Nat, BootWaiter \in Waiter, RestInv,
         (\E ok \in BOOLEAN : Term!LoadShell(ok)) \/ Term!Ready \/ Term!WasmFails \/ Term!Start \/ Term!BackToShell
  PROVE  RestInv'
<1>1. ASSUME UNCHANGED <<Term!exitVars, Term!runVars, wait>>, byBoot' <= byBoot, byBoot' \in Nat,
             stage' \in {"loading", "booting", "ready", "failed"},
             keys' \subseteq {"shell", "app"}
      PROVE  TermRunsTyped' /\ ExitInv'
  BY <1>1 DEF RestInv, TermRunsTyped, ExitInv, Term!ToldOfItsRun, Term!exitVars, Term!runVars
<1>2. ASSUME NEW ok \in BOOLEAN, Term!LoadShell(ok) PROVE RestInv'
  BY <1>1, <1>2 DEF Term!LoadShell, RestInv, TermRunsTyped, KeysInv, Term!exitVars, Term!runVars
<1>3. CASE Term!Ready
  <2>1. CASE autorun
    <3>1. Term!StartWith(1, Term!NoCode) /\ byBoot' = 1 /\ stage' = "ready"
      BY <1>3, <2>1 DEF Term!Ready
    <3>2. /\ TermRunsTyped' /\ ExitInv' /\ app'[1] = "importing"
          /\ UNCHANGED <<autorun, shell, keys, wait>>
      BY <3>1, RunStarts DEF RestInv, TermRunsTyped, Term!Run
    <3>3. QED BY <2>1, <3>1, <3>2 DEF RestInv, KeysInv
  <2>2. CASE ~autorun
    <3>1. UNCHANGED <<autorun, shell, keys, Term!exitVars, Term!runVars, byBoot, wait>>
      BY <1>3, <2>2 DEF Term!Ready
    <3>2. TermRunsTyped' /\ ExitInv'
      BY <1>1, <1>3, <3>1 DEF RestInv, TermRunsTyped, Term!Ready
    <3>3. QED BY <1>3, <2>2, <3>1, <3>2 DEF RestInv, KeysInv, Term!Ready
  <2>3. QED BY <2>1, <2>2
<1>4. CASE Term!Start
  <2>1. /\ Term!StartWith(runCounter + 1, Term!NoCode) /\ stage = "ready" /\ stage' = "ready"
        /\ byBoot' = byBoot
    BY <1>4 DEF Term!Start
  <2>2. /\ TermRunsTyped' /\ ExitInv'
        /\ UNCHANGED <<autorun, shell, keys, wait>>
        /\ app' = [app EXCEPT ![runCounter + 1] = "importing"]
    BY <2>1, RunStarts DEF RestInv, TermRunsTyped, ExitInv
  <2>3. byBoot # 0 => app'[byBoot] = app[byBoot]
    BY <2>2 DEF RestInv, TermRunsTyped, ExitInv, Term!Run
  <2>4. QED BY <2>1, <2>2, <2>3 DEF RestInv, KeysInv
<1>5. CASE Term!WasmFails
  BY <1>1, <1>5 DEF Term!WasmFails, RestInv, TermRunsTyped, KeysInv
<1>6. CASE Term!BackToShell
  BY <1>1, <1>6 DEF Term!BackToShell, RestInv, TermRunsTyped, KeysInv, Term!pageVars, Term!runVars
<1>7. QED BY <1>2, <1>3, <1>4, <1>5, <1>6

LEMMA ProgramStep ==
  ASSUME MaxRun \in Nat, BootWaiter \in Waiter, RestInv, NEW r \in Term!Run,
         \/ Term!Import(r) \/ Term!Require(r) \/ Term!OpenTty(r)
         \/ \E c \in Term!ExitOrError :
              Term!ImportThrows(r, c) \/ Term!RequireThrows(r, c) \/ Term!MainRejects(r, c)
         \/ \E c \in Term!Code \cup {Term!NoCode} : Term!CallbackExits(r, c)
         \/ \E c \in Term!Code : Term!EmitExit(r, c)
  PROVE  RestInv'
<1>1. CASE Term!Import(r) \/ Term!Require(r)
  <2>1. /\ app[r] \in Active /\ app' = [app EXCEPT ![r] = "running"] /\ Term!BootWaits(r)
        /\ UNCHANGED <<Term!pageVars, keys, Term!exitVars, runCounter, said, polled, byBoot>>
    BY <1>1 DEF Term!Import, Term!Require, Active
  <2>2. TermRunsTyped'
    BY <2>1 DEF Term!BootWaits, RestInv, TermRunsTyped, Active, Term!pageVars, Term!exitVars
  <2>3. \A w \in Waiter : \/ wait'[w] = wait[w]
                          \/ wait'[w].run = runCounter /\ wait'[w].told = Term!NoCode
    BY <2>1 DEF Term!BootWaits, RestInv, TermRunsTyped
  <2>4. said' = [said EXCEPT ![r] = @ \cup {}]
    BY <2>1 DEF RestInv, TermRunsTyped
  <2>5. ExitInv'
    BY <2>1, <2>2, <2>3, <2>4, RunSays DEF Term!exitVars, Active
  <2>6. byBoot = r => wait'[BootWaiter].run = runCounter /\ runCounter # 0
    BY <2>1 DEF Term!BootWaits, RestInv, TermRunsTyped, ExitInv, Term!Run, Active
  <2>7. wait'[BootWaiter].run = wait[BootWaiter].run \/ byBoot = r
    BY <2>1 DEF Term!BootWaits
  <2>8. byBoot # r => app'[byBoot] = app[byBoot]
    BY <2>1 DEF RestInv, TermRunsTyped
  <2>9. KeysInv'
    BY <2>1, <2>6, <2>7, <2>8 DEF RestInv, KeysInv, Term!pageVars
  <2>10. QED BY <2>2, <2>5, <2>9 DEF RestInv
<1>3. CASE Term!OpenTty(r)
  <2>1. /\ keys' = keys \cup {"app"}
        /\ UNCHANGED <<Term!pageVars, Term!exitVars, Term!runVars, byBoot, wait>>
    BY <1>3 DEF Term!OpenTty
  <2>2. TermRunsTyped' /\ ExitInv'
    BY <2>1 DEF RestInv, TermRunsTyped, ExitInv, Term!ToldOfItsRun, Term!exitVars, Term!runVars, Term!pageVars
  <2>3. KeysInv'
    BY <2>1 DEF RestInv, KeysInv, Term!runVars, Term!pageVars
  <2>4. QED BY <2>2, <2>3 DEF RestInv
<1>4. ASSUME NEW c \in Term!ExitOrError, Term!ImportThrows(r, c) PROVE RestInv'
  <2> DEFINE S == IF c = "error" THEN {} ELSE {c} \cap Term!Code
  <2>1. /\ S \in SUBSET Term!Code /\ said' = [said EXCEPT ![r] = @ \cup S]
        /\ exitCode' \in {exitCode} \cup S
    <3>1. CASE c = "error"
      BY <1>4, <3>1 DEF Term!ImportThrows, Term!Throws, RestInv, TermRunsTyped
    <3>2. CASE c # "error"
      <4>1. said' = [said EXCEPT ![r] = @ \cup ({c} \cap Term!Code)]
        BY <1>4, <3>2 DEF Term!ImportThrows, Term!Throws, Term!Exit
      <4>2. exitCode' \in {exitCode} \cup ({c} \cap Term!Code)
        BY <1>4, <3>2 DEF Term!ImportThrows, Term!Throws, Term!Exit, Term!ExitOrError
      <4>3. QED BY <3>2, <4>1, <4>2
    <3>3. QED BY <3>1, <3>2
  <2> HIDE DEF S
  <2>2. /\ app[r] = "importing" /\ app' = [app EXCEPT ![r] = "fetching"]
        /\ UNCHANGED <<Term!pageVars, keys, lastExitCode, resolver, listener, runCounter,
                       polled, byBoot, wait>>
    BY <1>4 DEF Term!ImportThrows
  <2>3. TermRunsTyped'
    BY <2>1, <2>2 DEF RestInv, TermRunsTyped, Term!pageVars, Active
  <2>4. ExitInv'
    BY <2>1, <2>2, <2>3, RunSays DEF Active
  <2>5. KeysInv'
    BY <2>2 DEF RestInv, TermRunsTyped, KeysInv, Term!pageVars
  <2>6. QED BY <2>3, <2>4, <2>5 DEF RestInv
<1>5. ASSUME NEW c \in Term!ExitOrError, Term!RequireThrows(r, c) \/ Term!MainRejects(r, c) PROVE RestInv'
  <2> DEFINE S == ({c} \cap Term!Code) \cup {Term!Failure}
  <2>1. /\ S \in SUBSET Term!Code
        /\ said' = [said EXCEPT ![r] = @ \cup S]
        /\ exitCode' \in {exitCode} \cup S /\ lastExitCode' \in {lastExitCode} \cup S
        /\ app[r] \in {"fetching", "running"} /\ app' = [app EXCEPT ![r] = "over"]
        /\ Term!FinishExit(Term!Failure)
        /\ UNCHANGED <<Term!pageVars, listener, runCounter, polled, byBoot>>
    <3>1. said' = [said EXCEPT ![r] = @ \cup ({c} \cap Term!Code) \cup {Term!Failure}]
      BY <1>5 DEF Term!RequireThrows, Term!MainRejects
    <3>2. said' = [said EXCEPT ![r] = @ \cup S]
      BY <3>1 DEF RestInv, TermRunsTyped
    <3>3. exitCode' = IF c \in Term!Code THEN c ELSE exitCode
      BY <1>5 DEF Term!RequireThrows, Term!MainRejects
    <3>4. QED BY <1>5, <3>2, <3>3 DEF Term!RequireThrows, Term!MainRejects, Term!FinishExit, Term!Code
  <2>2. \A w \in Waiter : \/ wait'[w] = wait[w]
                          \/ /\ wait[w].run # 0 /\ wait'[w].run = wait[w].run
                             /\ wait'[w].told = Term!Failure
    BY <2>1 DEF Term!FinishExit, RestInv, TermRunsTyped
  <2>3. \/ keys' = keys
        \/ keys' = {"shell"} /\ app[r] = "fetching" /\ byBoot = r
    BY <1>5 DEF Term!RequireThrows, Term!MainRejects
  <2>4. app[r] = "fetching" /\ byBoot = r /\ shell => keys' = {"shell"}
    BY <1>5 DEF Term!RequireThrows, Term!MainRejects
  <2>5. TermRunsTyped'
    <3>1. wait' \in [Waiter -> [run : 0 .. MaxRun, told : Term!Code \cup {Term!NoCode, "timeout"}]]
      BY <2>1 DEF Term!FinishExit, RestInv, TermRunsTyped, Term!Code
    <3>2. exitCode' \in Term!Code \cup {Term!NoCode} /\ lastExitCode' \in Term!Code \cup {Term!NoCode}
      BY <2>1 DEF RestInv, TermRunsTyped
    <3>3. /\ app' \in [Term!Run -> {"none", "over"} \cup Active] /\ said' \in [Term!Run -> SUBSET Term!Code]
          /\ keys' \subseteq {"shell", "app"}
      BY <2>1, <2>3 DEF RestInv, TermRunsTyped
    <3>4. resolver' \in 0 .. MaxRun
      BY <2>1 DEF Term!FinishExit
    <3>5. QED BY <2>1, <3>1, <3>2, <3>3, <3>4 DEF RestInv, TermRunsTyped, Term!pageVars
  <2>6. ExitInv'
    BY <2>1, <2>2, <2>5, RunSays DEF Active
  <2>7. KeysInv'
    <3>1. wait'[BootWaiter].run = wait[BootWaiter].run
      BY <2>2
    <3>2. byBoot # r => app'[byBoot] = app[byBoot]
      BY <2>1 DEF RestInv, TermRunsTyped
    <3>3. byBoot = r => app[byBoot] \in {"fetching", "running"}
      BY <2>1
    <3>4. UNCHANGED <<autorun, stage, shell, runCounter, byBoot>>
      BY <2>1 DEF Term!pageVars
    <3>5. QED BY <2>3, <2>4, <3>1, <3>2, <3>3, <3>4 DEF RestInv, KeysInv
  <2>8. QED BY <2>5, <2>6, <2>7 DEF RestInv
<1>7. ASSUME NEW c \in Term!Code \cup {Term!NoCode}, Term!CallbackExits(r, c) PROVE RestInv'
  <2> DEFINE S == {c} \cap Term!Code
  <2>0. PICK a \in {"running", "over"} : app' = [app EXCEPT ![r] = a]
    BY <1>7 DEF Term!CallbackExits
  <2>1. /\ said' = [said EXCEPT ![r] = @ \cup S] /\ exitCode' \in {exitCode} \cup S
        /\ app[r] = "running" /\ app' = [app EXCEPT ![r] = a]
        /\ UNCHANGED <<Term!pageVars, keys, lastExitCode, resolver, listener, runCounter,
                       polled, byBoot, wait>>
    BY <1>7, <2>0 DEF Term!CallbackExits, Term!Exit
  <2>2. TermRunsTyped'
    BY <2>1, <2>0 DEF RestInv, TermRunsTyped, Term!pageVars, Active
  <2>3. ExitInv'
    BY <2>1, <2>2, RunSays DEF Active
  <2>4. KeysInv'
    BY <2>1, <2>0 DEF RestInv, TermRunsTyped, KeysInv, Term!pageVars
  <2>5. QED BY <2>2, <2>3, <2>4 DEF RestInv
<1>8. ASSUME NEW c \in Term!Code, Term!EmitExit(r, c) PROVE RestInv'
  <2>1. /\ said' = [said EXCEPT ![r] = @ \cup {c}]
        /\ lastExitCode' \in {lastExitCode} \cup {c}
        /\ app[r] = "running" /\ app' = [app EXCEPT ![r] = "over"]
        /\ resolver' \in {resolver, 0} /\ listener' = 0
        /\ UNCHANGED <<Term!pageVars, keys, exitCode, runCounter, polled, byBoot>>
    BY <1>8 DEF Term!EmitExit, Term!RecordExit, Term!FinishExit
  <2>2. wait' = wait \/ Term!FinishExit(c)
    BY <1>8 DEF Term!EmitExit, Term!RecordExit
  <2>3. \A w \in Waiter : \/ wait'[w] = wait[w]
                          \/ /\ wait[w].run # 0 /\ wait'[w].run = wait[w].run
                             /\ wait'[w].told = c
    BY <2>2 DEF Term!FinishExit, RestInv, TermRunsTyped
  <2>4. TermRunsTyped'
    <3>1. wait' \in [Waiter -> [run : 0 .. MaxRun, told : Term!Code \cup {Term!NoCode, "timeout"}]]
      BY <2>2 DEF Term!FinishExit, RestInv, TermRunsTyped
    <3>2. QED BY <2>1, <3>1 DEF RestInv, TermRunsTyped, Term!pageVars, Active
  <2>5. ExitInv'
    BY <2>1, <2>3, <2>4, RunSays DEF Active
  <2>6. KeysInv'
    <3>1. wait'[BootWaiter].run = wait[BootWaiter].run
      BY <2>3
    <3>2. QED BY <2>1, <3>1 DEF RestInv, TermRunsTyped, KeysInv, Term!pageVars
  <2>7. QED BY <2>4, <2>5, <2>6 DEF RestInv
<1>9. QED BY <1>1, <1>3, <1>4, <1>5, <1>7, <1>8

LEMMA WaiterStep ==
  ASSUME MaxRun \in Nat, BootWaiter \in Waiter, RestInv, NEW w \in Waiter,
         Term!Wait(w) \/ Term!Poll(w) \/ Term!Timeout(w)
  PROVE  RestInv'
<1>1. ASSUME TermRunsTyped', UNCHANGED <<Term!pageVars, keys, exitCode, Term!runVars, byBoot>>,
             lastExitCode' \in {lastExitCode, exitCode},
             wait'[BootWaiter].run = wait[BootWaiter].run,
             \A v \in Waiter :
               \/ wait'[v].told \in {Term!NoCode, "timeout"} /\ wait'[v].run \in 1 .. runCounter
               \/ /\ wait'[v].run = wait[v].run
                  /\ \/ wait'[v].told = wait[v].told
                     \/ wait[v].run # 0 /\ wait'[v].told \in {lastExitCode, exitCode} \ {Term!NoCode}
      PROVE  RestInv'
  <2>1. \A v \in Waiter : /\ wait'[v].run <= runCounter
                          /\ wait'[v].run = 0 => wait'[v].told = Term!NoCode
    BY <1>1 DEF RestInv, TermRunsTyped, ExitInv
  <2>2. ASSUME ~polled, NEW v \in Waiter, wait'[v].told \in Term!Code
        PROVE  \E q \in Term!Run : q >= wait'[v].run /\ wait'[v].told \in said[q]
    <3>1. CASE wait'[v].told = wait[v].told /\ wait'[v].run = wait[v].run
      BY <2>2, <3>1 DEF RestInv, ExitInv, Term!ToldOfItsRun
    <3>2. CASE wait'[v].told \in {lastExitCode, exitCode} \ {Term!NoCode}
      <4>1. runCounter \in Term!Run /\ wait'[v].told \in said[runCounter]
        BY <2>2, <3>2 DEF RestInv, TermRunsTyped, ExitInv, Term!Run
      <4>2. runCounter >= wait'[v].run
        BY <1>1, <2>1 DEF TermRunsTyped, RestInv
      <4>3. QED BY <4>1, <4>2
    <3>3. wait'[v].told \notin {Term!NoCode, "timeout"}
      BY <2>2 DEF Term!Code, Term!NoCode, Term!Failure
    <3>4. QED BY <1>1, <3>1, <3>2, <3>3
  <2>3. ExitInv'
    BY <1>1, <2>1, <2>2 DEF RestInv, ExitInv, Term!ToldOfItsRun, Term!runVars
  <2>4. KeysInv'
    BY <1>1 DEF RestInv, KeysInv, Term!pageVars, Term!runVars
  <2>5. QED BY <1>1, <2>3, <2>4 DEF RestInv
<1>2. CASE Term!Wait(w)
  <2>1. /\ w # BootWaiter /\ wait[w].run = 0 /\ runCounter > 0
        /\ wait' = [wait EXCEPT ![w].run = runCounter]
        /\ UNCHANGED <<Term!pageVars, keys, Term!exitVars, Term!runVars, byBoot>>
    BY <1>2 DEF Term!Wait
  <2>2. TermRunsTyped'
    BY <2>1 DEF RestInv, TermRunsTyped, Term!pageVars, Term!exitVars, Term!runVars
  <2>3. \A v \in Waiter : IF v = w
          THEN wait'[v].told = Term!NoCode /\ wait'[v].run \in 1 .. runCounter
          ELSE wait'[v].run = wait[v].run /\ wait'[v].told = wait[v].told
    BY <2>1 DEF RestInv, TermRunsTyped, ExitInv
  <2>4. wait'[BootWaiter].run = wait[BootWaiter].run
    BY <2>1, <2>3
  <2>5. QED BY <1>1, <2>1, <2>2, <2>3, <2>4 DEF Term!exitVars
<1>3. CASE Term!Poll(w)
  <2>1. /\ wait[w].run # 0 /\ wait[w].told = Term!NoCode
        /\ UNCHANGED <<Term!pageVars, keys, exitCode, listener, Term!runVars, byBoot>>
    BY <1>3 DEF Term!Poll
  <2>2. CASE lastExitCode # Term!NoCode
    <3>1. wait' = [wait EXCEPT ![w].told = lastExitCode] /\ UNCHANGED <<lastExitCode, resolver>>
      BY <1>3, <2>2 DEF Term!Poll
    <3>2. TermRunsTyped'
      BY <2>1, <3>1 DEF RestInv, TermRunsTyped, Term!pageVars, Term!runVars
    <3>3. \A v \in Waiter : /\ wait'[v].run = wait[v].run
                            /\ IF v = w THEN wait'[v].told = lastExitCode
                                         ELSE wait'[v].told = wait[v].told
      BY <3>1 DEF RestInv, TermRunsTyped
    <3>4. QED BY <1>1, <2>1, <2>2, <3>1, <3>2, <3>3
  <2>3. CASE lastExitCode = Term!NoCode
    <3>1. /\ exitCode # Term!NoCode
          /\ lastExitCode' = exitCode /\ resolver' = 0
          /\ wait' = [v \in Waiter |->
                IF v = w \/ (resolver # 0 /\ wait[v].run = resolver /\ wait[v].told = Term!NoCode)
                THEN [wait[v] EXCEPT !.told = exitCode] ELSE wait[v]]
      BY <1>3, <2>3 DEF Term!Poll
    <3>2. wait' \in [Waiter -> [run : 0 .. MaxRun, told : Term!Code \cup {Term!NoCode, "timeout"}]]
      BY <3>1 DEF RestInv, TermRunsTyped
    <3>3. TermRunsTyped'
      BY <2>1, <3>1, <3>2 DEF RestInv, TermRunsTyped, Term!pageVars, Term!runVars
    <3>4. \A v \in Waiter : /\ wait'[v].run = wait[v].run
                            /\ \/ wait'[v].told = wait[v].told
                               \/ wait[v].run # 0 /\ wait'[v].told = exitCode
      BY <2>1, <3>1 DEF RestInv, TermRunsTyped
    <3>5. QED BY <1>1, <2>1, <3>1, <3>3, <3>4
  <2>4. QED BY <2>2, <2>3
<1>4. CASE Term!Timeout(w)
  <2>1. /\ w # BootWaiter /\ wait[w].run # 0 /\ wait' = [wait EXCEPT ![w].told = "timeout"]
        /\ UNCHANGED <<Term!pageVars, keys, Term!exitVars, Term!runVars, byBoot>>
    BY <1>4 DEF Term!Timeout
  <2>2. TermRunsTyped'
    BY <2>1 DEF RestInv, TermRunsTyped, Term!pageVars, Term!exitVars, Term!runVars
  <2>3. \A v \in Waiter : /\ wait'[v].run = wait[v].run /\ wait[v].run <= runCounter
                          /\ IF v = w THEN wait'[v].told = "timeout"
                                       ELSE wait'[v].told = wait[v].told
    BY <2>1 DEF RestInv, TermRunsTyped, ExitInv
  <2>4. wait[w].run \in 1 .. runCounter
    BY <2>1 DEF RestInv, TermRunsTyped, ExitInv
  <2>5. QED BY <1>1, <2>1, <2>2, <2>3, <2>4 DEF Term!exitVars
<1>5. QED BY <1>2, <1>3, <1>4

LEMMA TermStep ==
  ASSUME MaxRun \in Nat, BootWaiter \in Waiter, TermInv, [Term!Next]_(Term!vars)
  PROVE  TermInv'
<1>1. RestInv
  BY DEF TermInv, RestInv
<1>2. ASSUME UNCHANGED Term!vars PROVE RestInv'
  <2>1. UNCHANGED <<autorun, stage, shell, keys, lastExitCode, exitCode, resolver, listener>>
    BY <1>2 DEF Term!vars, Term!pageVars, Term!exitVars
  <2>2. UNCHANGED <<runCounter, app, said, polled, byBoot, wait>>
    BY <1>2 DEF Term!vars, Term!runVars
  <2>3. TermRunsTyped' /\ KeysInv'
    BY <1>1, <2>1, <2>2 DEF RestInv, TermRunsTyped, KeysInv
  <2>4. ExitInv'
    BY <1>1, <2>1, <2>2 DEF RestInv, ExitInv, Term!ToldOfItsRun
  <2>5. QED BY <2>3, <2>4 DEF RestInv
<1>3. RestInv'
  BY <1>1, <1>2, StartStep, ProgramStep, WaiterStep DEF Term!Next
<1>4. FlagsTyped'
  BY FlagsStep DEF TermInv
<1>5. QED BY <1>3, <1>4 DEF TermInv, RestInv

LEMMA TermSafe == ASSUME MaxRun \in Nat, BootWaiter \in Waiter, TermInv PROVE Term!ShellHasKeys /\ Term!ToldOfItsRun
<1>1. Term!ShellHasKeys
  BY DEF TermInv, TermRunsTyped, KeysInv, Term!ShellHasKeys
<1>2. Term!ToldOfItsRun
  BY DEF TermInv, ExitInv, Term!ToldOfItsRun
<1>3. QED BY <1>1, <1>2

(* Once the page is settled the shell has the keys, or the page's own       *)
(* program is still to give them back (terminal.js).                        *)
THEOREM ShellHasKeysAlways ==
  ASSUME MaxRun \in Nat, BootWaiter \in Waiter
  PROVE  Term!Spec => []Term!ShellHasKeys
<1>1. Term!Init => TermInv
  BY TermInit
<1>2. TermInv /\ [Term!Next]_(Term!vars) => TermInv'
  BY TermStep
<1>3. TermInv => Term!ShellHasKeys
  BY TermSafe
<1>4. QED BY <1>1, <1>2, <1>3, PTL DEF Term!Spec

(* As long as runs follow each other, a waiter is told a code of the run it *)
(* asked about or of a later one, never of an earlier one (terminal.js).    *)
THEOREM ToldOfItsRunAlways ==
  ASSUME MaxRun \in Nat, BootWaiter \in Waiter
  PROVE  Term!Spec => []Term!ToldOfItsRun
<1>1. Term!Init => TermInv
  BY TermInit
<1>2. TermInv /\ [Term!Next]_(Term!vars) => TermInv'
  BY TermStep
<1>3. TermInv => Term!ToldOfItsRun
  BY TermSafe
<1>4. QED BY <1>1, <1>2, <1>3, PTL DEF Term!Spec

-----------------------------------------------------------------------------
CONSTANTS
  Call

VARIABLES
  hostFailed, ran, effects, fellBack, microtasks, suspended, awaiting,
  scheduled, printed, shown

Host == INSTANCE ScriptHost WITH
  useJsBridge <- hostFailed, called <- ran, pending <- awaiting

(* ScriptHost: the scripts a runtime was asked to run, and its output.      *)

(* A call that has not answered has done nothing, nor has one that was put  *)
(* off; main() is given up once.                                            *)
OnePerScript ==
  /\ \A c \in Call : /\ ran[c] = Host!NoStatus \/ c \in microtasks =>
                          effects[c] = 0 /\ c \notin suspended
                     /\ ran[c] = Host!NoStatus => c \notin microtasks
                     /\ c \in suspended => effects[c] <= 1
                     /\ effects[c] <= 2
                     /\ c \notin fellBack => effects[c] <= 1
  /\ \A c, d \in fellBack \cup suspended : c = d
  /\ ~hostFailed => fellBack \cup suspended = {}

CallsTyped ==
  /\ ran \in [Call -> Host!Status] /\ effects \in [Call -> Nat]
  /\ fellBack \subseteq Call /\ microtasks \subseteq Call /\ suspended \subseteq Call

OutputTyped ==
  /\ awaiting \in Seq(1 .. MaxChunk) /\ shown \in Seq(1 .. MaxChunk)
  /\ printed \in 0 .. MaxChunk

OutputInv == OutputTyped /\ Host!OutputIsWhole
CallsInv == CallsTyped /\ OnePerScript

HostInv == hostFailed \in BOOLEAN /\ scheduled \in BOOLEAN /\ CallsInv /\ OutputInv

callState == <<ran, effects, fellBack, microtasks, suspended, hostFailed>>

LEMMA HostInit == ASSUME MaxChunk \in Nat, Host!Init PROVE HostInv
<1>1. hostFailed \in BOOLEAN /\ scheduled \in BOOLEAN
  BY Zenon DEF Host!Init
<1>2. CallsInv
  BY DEF Host!Init, CallsInv, CallsTyped, OnePerScript, Host!Status, Host!NoStatus
<1>3. OutputTyped /\ (awaiting # << >> => scheduled)
  BY DEF Host!Init, OutputTyped
<1>4. shown \o awaiting = [i \in 1 .. printed |-> i]
  BY DEF Host!Init
<1>5. QED BY <1>1, <1>2, <1>3, <1>4 DEF HostInv, OutputInv, Host!OutputIsWhole

(* A step of one call: its effects, its answer, and how it fell back.       *)
LEMMA CallStep ==
  ASSUME CallsInv, NEW c \in Call,
         \/ Host!RunNative(c) \/ Host!Resume(c) \/ Host!ExecuteScript(c) \/ Host!RunMicrotask(c)
         \/ \E status \in {"ok", "failed", "refused"} :
              Host!RunAborted(c, status) \/ Host!RunSuspended(c, status) \/ Host!RunInJavaScript(c, status)
  PROVE  CallsInv'
<1> USE DEF CallsInv, CallsTyped, OnePerScript, Host!Status, Host!NoStatus
<1>1. CASE Host!RunNative(c)
  BY <1>1 DEF Host!RunNative, Host!MainAnswers, Host!Main, Host!Fresh
<1>2. CASE Host!Resume(c)
  BY <1>2 DEF Host!Resume
<1>3. CASE Host!ExecuteScript(c)
  BY <1>3 DEF Host!ExecuteScript, Host!Fresh
<1>4. CASE Host!RunMicrotask(c)
  BY <1>4 DEF Host!RunMicrotask, Host!Main
<1>5. ASSUME NEW status \in {"ok", "failed", "refused"}, Host!RunAborted(c, status) PROVE CallsInv'
  BY <1>5 DEF Host!RunAborted, Host!Bridged, Host!Fresh
<1>6. ASSUME NEW status \in {"ok", "failed", "refused"}, Host!RunSuspended(c, status)
      PROVE CallsInv'
  BY <1>6 DEF Host!RunSuspended, Host!Bridged, Host!Fresh
<1>7. ASSUME NEW status \in {"ok", "failed", "refused"}, Host!RunInJavaScript(c, status)
      PROVE CallsInv'
  BY <1>7 DEF Host!RunInJavaScript, Host!Bridged, Host!Fresh
<1>8. QED BY <1>1, <1>2, <1>3, <1>4, <1>5, <1>6, <1>7

LEMMA CountOneMore ==
  ASSUME NEW n \in Nat
  PROVE  Append([i \in 1 .. n |-> i], n + 1) = [i \in 1 .. n + 1 |-> i]
<1> DEFINE s == [i \in 1 .. n |-> i]
<1>1. s \in Seq(Nat) /\ Len(s) = n
  OBVIOUS
<1>2. QED BY <1>1

LEMMA OutputStep ==
  ASSUME MaxChunk \in Nat, OutputInv, Host!Write \/ Host!Flush
  PROVE  OutputInv'
<1>1. CASE Host!Write
  <2>1. OutputTyped' /\ awaiting' = Append(awaiting, printed + 1) /\ shown' = shown
        /\ printed' = printed + 1 /\ scheduled'
    BY <1>1 DEF Host!Write, OutputInv, OutputTyped
  <2>2. shown' \o awaiting' = Append(shown \o awaiting, printed + 1)
    BY <2>1 DEF OutputInv, OutputTyped
  <2>3. shown' \o awaiting' = [i \in 1 .. printed' |-> i]
    <3>1. shown \o awaiting = [i \in 1 .. printed |-> i] /\ printed \in Nat
      BY DEF OutputInv, OutputTyped, Host!OutputIsWhole
    <3>2. Append([i \in 1 .. printed |-> i], printed + 1) = [i \in 1 .. printed + 1 |-> i]
      BY <3>1, CountOneMore
    <3>3. QED BY <2>1, <2>2, <3>1, <3>2
  <2>4. QED BY <2>1, <2>3 DEF OutputInv, Host!OutputIsWhole
<1>2. CASE Host!Flush
  <2>1. OutputTyped' /\ awaiting' = << >> /\ shown' = shown \o awaiting /\ printed' = printed
    BY <1>2 DEF Host!Flush, OutputInv, OutputTyped
  <2>2. shown' \o awaiting' = shown \o awaiting
    BY <2>1 DEF OutputInv, OutputTyped
  <2>3. QED BY <2>1, <2>2 DEF OutputInv, Host!OutputIsWhole
<1>3. QED BY <1>1, <1>2

LEMMA HostStep == ASSUME MaxChunk \in Nat, HostInv, [Host!Next]_(Host!vars) PROVE HostInv'
<1>1. ASSUME NEW c \in Call,
             \/ Host!RunNative(c) \/ Host!Resume(c) \/ Host!ExecuteScript(c) \/ Host!RunMicrotask(c)
             \/ \E status \in {"ok", "failed", "refused"} :
                  Host!RunAborted(c, status) \/ Host!RunSuspended(c, status) \/ Host!RunInJavaScript(c, status)
      PROVE HostInv'
  <2>1. CallsInv'
    BY <1>1, CallStep DEF HostInv
  <2>2. UNCHANGED Host!output /\ hostFailed' \in {hostFailed, TRUE}
    BY <1>1 DEF Host!RunNative, Host!Resume, Host!ExecuteScript, Host!RunMicrotask, Host!RunAborted, Host!RunSuspended,
                Host!RunInJavaScript
  <2>3. OutputInv' /\ scheduled' \in BOOLEAN
    BY <2>2 DEF HostInv, OutputInv, OutputTyped, Host!OutputIsWhole, Host!output
  <2>4. hostFailed' \in BOOLEAN
    BY <2>2 DEF HostInv
  <2>5. QED BY <2>1, <2>3, <2>4 DEF HostInv
<1>2. CASE Host!Write \/ Host!Flush
  <2>1. OutputInv'
    BY <1>2, OutputStep DEF HostInv
  <2>2. UNCHANGED callState /\ scheduled' \in BOOLEAN
    BY <1>2 DEF Host!Write, Host!Flush, callState
  <2>3. CallsInv' /\ hostFailed' \in BOOLEAN
    BY <2>2 DEF HostInv, CallsInv, CallsTyped, OnePerScript, callState
  <2>4. QED BY <2>1, <2>2, <2>3 DEF HostInv
<1>3. CASE UNCHANGED Host!vars
  <2>1. UNCHANGED callState /\ UNCHANGED Host!output
    BY <1>3 DEF Host!vars, callState, Host!output
  <2>2. CallsInv' /\ hostFailed' \in BOOLEAN
    BY <2>1 DEF HostInv, CallsInv, CallsTyped, OnePerScript, callState
  <2>3. OutputInv' /\ scheduled' \in BOOLEAN
    BY <2>1 DEF HostInv, OutputInv, OutputTyped, Host!OutputIsWhole, Host!output
  <2>4. QED BY <2>2, <2>3 DEF HostInv
<1>4. QED BY <1>1, <1>2, <1>3 DEF Host!Next

LEMMA HostSafe == ASSUME HostInv PROVE Host!RunsOnce
<1>1. \A c, d \in fellBack : c = d
  BY DEF HostInv, CallsInv, OnePerScript
<1>2. QED BY <1>1 DEF HostInv, CallsInv, OnePerScript, Host!RunsOnce

(* Of all that is asked of a runtime one script at most runs twice, the one *)
(* that main() gave up half-way (napi-bridge/index.js).                     *)
THEOREM ScriptsRunOnce ==
  ASSUME MaxChunk \in Nat
  PROVE  Host!Spec => []Host!RunsOnce
<1>1. Host!Init => HostInv
  BY HostInit
<1>2. HostInv /\ [Host!Next]_(Host!vars) => HostInv'
  BY HostStep
<1>3. HostInv => Host!RunsOnce
  BY HostSafe
<1>4. QED BY <1>1, <1>2, <1>3, PTL DEF Host!Spec

(* Nothing that is written to the terminal is lost, doubled or exchanged on *)
(* its way through the timers (napi-bridge/index.js).                       *)
THEOREM OutputStaysWhole ==
  ASSUME MaxChunk \in Nat
  PROVE  Host!Spec => []Host!OutputIsWhole
<1>1. Host!Init => HostInv
  BY HostInit
<1>2. HostInv /\ [Host!Next]_(Host!vars) => HostInv'
  BY HostStep
<1>3. HostInv => Host!OutputIsWhole
  BY DEF HostInv, OutputInv
<1>4. QED BY <1>1, <1>2, <1>3, PTL DEF Host!Spec

-----------------------------------------------------------------------------
CONSTANTS
  Module, EsModule, MaxLoad, MaxVersion

VARIABLES
  file, absent, moduleCache, imported, loads, loadStack, unseen, reentered

Loader == INSTANCE ModuleLoader WITH
  imports <- imported, stack <- loadStack

(* ModuleLoader: the cache of require() and the promises of import().       *)

LoaderAssumed == MaxLoad \in Nat /\ MaxVersion \in Nat /\ Module # {}

LoadOf == [at : {"none", "waiting", "running", "done", "failed"}, of : Module,
           version : Nat, via : {"require", "import"}]
LoaderActive == {"waiting", "running", "done"}

LoadsTyped ==
  /\ file \in [Module -> Nat] /\ loads \in [Loader!Ids -> LoadOf] /\ loadStack \in Seq(Loader!Ids)
  /\ moduleCache \in [Module -> {Loader!NoLoad} \cup Loader!Ids]
  /\ imported \in [Module -> {Loader!NoLoad} \cup Loader!Ids]

(* The loads that run are those of the stack, each once; loads are numbered *)
(* as they come.                                                            *)
RunningInv ==
  /\ \A i \in 1 .. Len(loadStack) : loads[loadStack[i]].at = "running"
  /\ \A i, j \in 1 .. Len(loadStack) : loadStack[i] = loadStack[j] => i = j
  /\ \A l \in Loader!Ids : loads[l].at = "running" => \E i \in 1 .. Len(loadStack) : loadStack[i] = l
  /\ \A k, l \in Loader!Ids : k < l /\ loads[l].at # "none" => loads[k].at # "none"

(* What is cached was required, and is the file as it is unless it changed  *)
(* unseen.                                                                  *)
CachedInv ==
  \A m \in Module : moduleCache[m] # Loader!NoLoad =>
    LET l == loads[moduleCache[m]]
    IN  /\ l.of = m /\ l.via = "require" /\ l.at \in {"done", "running"}
        /\ m \notin unseen => l.version = file[m]

(* A module that runs and was required is in the cache, or its file is gone *)
(* or newer; and those that run of one file are of ever newer versions.     *)
VersionsInv ==
  /\ \A l \in Loader!Ids : loads[l].at # "none" => loads[l].version <= file[loads[l].of]
  /\ \A l \in Loader!Ids : loads[l].at = "running" /\ loads[l].via = "require" =>
       \/ moduleCache[loads[l].of] = l \/ loads[l].of \in absent
       \/ loads[l].version < file[loads[l].of]
  /\ \A i, j \in 1 .. Len(loadStack) :
       /\ i < j /\ loads[loadStack[i]].via = "require" /\ loads[loadStack[j]].via = "require"
       /\ loads[loadStack[i]].of = loads[loadStack[j]].of
       => loads[loadStack[i]].version < loads[loadStack[j]].version

(* The promise of a module that was imported is in the map, but for one that*)
(* runs at once; and no other is made of it.                                *)
PromisesInv ==
  /\ \A l \in Loader!Ids :
       /\ loads[l].via = "import" /\ loads[l].at \in LoaderActive
       /\ loads[l].of \notin reentered
       => \/ imported[loads[l].of] = l
          \/ loads[l].of \notin EsModule /\ loads[l].at = "running"
  /\ \A k, l \in Loader!Ids :
       /\ k < l /\ loads[k].of = loads[l].of
       /\ loads[k].via = "import" /\ loads[l].via = "import"
       /\ loads[k].at \in LoaderActive /\ loads[l].at # "none"
       => loads[l].of \in reentered

\* Only an import waits for esbuild.
WaitingInv == \A l \in Loader!Ids : loads[l].at = "waiting" => loads[l].via = "import"

LoaderInv ==
  LoadsTyped /\ RunningInv /\ WaitingInv /\ CachedInv /\ VersionsInv /\ PromisesInv

-----------------------------------------------------------------------------
\* A set of numbers that is not empty has a least member.
LEMMA LeastLoad ==
  ASSUME NEW T, T \subseteq Nat, T # {}
  PROVE  \E x \in T : \A y \in T : x <= y
<1> DEFINE Less == OpToRel(<, Nat)
<1>1. PICK x \in T : \A y \in T : ~(<<y, x>> \in Less)
  BY NatLessThanWellFounded, WFMin
<1>2. ASSUME NEW y \in T PROVE x <= y
  <2>1. x \in Nat /\ y \in Nat
    OBVIOUS
  <2>2. y < x => <<y, x>> \in Less
    BY <2>1 DEF OpToRel
  <2> HIDE DEF Less
  <2> QED BY <1>1, <2>1, <2>2
<1> QED BY <1>2

\* The next load is one that has not begun, after all that have.
LEMMA NextLoad ==
  ASSUME LoaderAssumed, LoadsTyped, Loader!MayLoad
  PROVE  Loader!Next1 \in Loader!Ids /\ loads[Loader!Next1].at = "none"
         /\ \A k \in Loader!Ids : k < Loader!Next1 => loads[k].at # "none"
<1> DEFINE T == {l \in Loader!Ids : loads[l].at = "none"}
<1>1. T \subseteq Nat /\ T # {}
  BY DEF Loader!MayLoad, Loader!Ids, LoaderAssumed
<1>2. PICK x \in T : \A y \in T : x <= y
  BY <1>1, LeastLoad
<1>3. x \in Loader!Ids /\ loads[x].at = "none" /\ x \in Nat
  BY <1>1, <1>2
<1>4. \A k \in 1 .. x - 1 : loads[k].at # "none"
  <2>1. \A k \in 1 .. x - 1 : k \in Loader!Ids /\ k < x /\ k \in Nat
    BY <1>3 DEF Loader!Ids, LoaderAssumed
  <2>2. QED BY <1>2, <1>3, <2>1
<1>5. Loader!Next1 \in Loader!Ids /\ loads[Loader!Next1].at = "none" /\ \A k \in 1 .. Loader!Next1 - 1 : loads[k].at # "none"
  BY <1>3, <1>4 DEF Loader!Next1
<1> DEFINE n == Loader!Next1
<1> HIDE DEF n
<1>6. n \in Loader!Ids /\ \A k \in 1 .. n - 1 : loads[k].at # "none"
  BY <1>5 DEF n
<1>7. \A k \in Loader!Ids : k < n => k \in 1 .. n - 1
  BY <1>6 DEF Loader!Ids, LoaderAssumed
<1>8. QED BY <1>5, <1>6, <1>7 DEF n

\* A load begins.
LEMMA LoadBegins ==
  ASSUME LoaderAssumed, LoadsTyped, RunningInv, Loader!MayLoad, NEW m \in Module,
         NEW via \in {"require", "import"}, NEW at \in {"waiting", "running"},
         loads' = [loads EXCEPT ![Loader!Next1] = Loader!Load(m, via, at)]
  PROVE  /\ loads' \in [Loader!Ids -> LoadOf]
         /\ \A l \in Loader!Ids : l # Loader!Next1 => loads'[l] = loads[l]
         /\ loads'[Loader!Next1].at = at /\ loads'[Loader!Next1].of = m
         /\ loads'[Loader!Next1].via = via /\ loads'[Loader!Next1].version = file[m]
         /\ \A k, l \in Loader!Ids : k < l /\ loads'[l].at # "none" => loads'[k].at # "none"
         /\ \A i \in 1 .. Len(loadStack) : loadStack[i] \in Loader!Ids /\ loadStack[i] # Loader!Next1
         /\ \A l \in Loader!Ids : l > Loader!Next1 => loads'[l].at = "none"
<1> DEFINE n == Loader!Next1
           new == Loader!Load(m, via, at)
<1>1. n \in Loader!Ids /\ loads[n].at = "none" /\ \A k \in Loader!Ids : k < n => loads[k].at # "none"
  BY NextLoad
<1>2. new \in LoadOf /\ new.at = at /\ new.of = m /\ new.via = via /\ new.version = file[m]
  BY DEF Loader!Load, LoadOf, LoadsTyped
<1>3. loads' = [loads EXCEPT ![n] = new]
  OBVIOUS
<1> HIDE DEF n, new
<1>4. loads' \in [Loader!Ids -> LoadOf] /\ loads'[n] = new /\ \A l \in Loader!Ids : l # n => loads'[l] = loads[l]
  BY <1>1, <1>2, <1>3 DEF LoadsTyped
<1>5. \A i \in 1 .. Len(loadStack) : loadStack[i] \in Loader!Ids /\ loadStack[i] # n
  BY <1>1, ElementOfSeq DEF LoadsTyped, RunningInv
<1>6. \A k, l \in Loader!Ids : k < l /\ loads[l].at # "none" => loads[k].at # "none"
  BY DEF RunningInv
<1>7. \A l \in Loader!Ids : l > n => loads[l].at = "none"
  <2>1. \A l \in Loader!Ids : l > n => n < l
    BY <1>1 DEF Loader!Ids, LoaderAssumed
  <2>2. QED BY <1>1, <1>6, <2>1
<1>8. at # "none"
  OBVIOUS
<1>9. \A l \in Loader!Ids : l > n => loads'[l].at = "none"
  <2>1. \A l \in Loader!Ids : l > n => l # n
    BY <1>1 DEF Loader!Ids, LoaderAssumed
  <2>2. QED BY <1>4, <1>7, <2>1
<1>10. \A k, l \in Loader!Ids : k < l /\ loads'[l].at # "none" => loads'[k].at # "none"
  <2> TAKE k, l \in Loader!Ids
  <2>1. k = n \/ k < n \/ k > n
    BY <1>1 DEF Loader!Ids, LoaderAssumed
  <2>2. k < l /\ k > n => l > n
    BY <1>1 DEF Loader!Ids, LoaderAssumed
  <2>3. CASE k = n
    BY <1>2, <1>4, <1>8, <2>3
  <2>4. CASE k < n /\ k # n
    BY <1>1, <1>4, <2>4
  <2>5. CASE k > n
    BY <1>9, <2>2, <2>5
  <2>6. QED BY <2>1, <2>3, <2>4, <2>5
<1>11. QED BY <1>2, <1>4, <1>5, <1>9, <1>10 DEF n

\* What is above the last of a stack, and the last is gone.
LEMMA LoaderTopIs ==
  ASSUME LoadsTyped, loadStack # << >>
  PROVE  /\ Len(loadStack) \in Nat /\ Len(loadStack) \in 1 .. Len(loadStack)
         /\ Loader!Top = loadStack[Len(loadStack)] /\ Loader!Top \in Loader!Ids
         /\ Loader!Front(loadStack) \in Seq(Loader!Ids) /\ Len(Loader!Front(loadStack)) = Len(loadStack) - 1
         /\ \A i \in 1 .. Len(loadStack) - 1 : Loader!Front(loadStack)[i] = loadStack[i]
<1> DEFINE n == Len(loadStack)
<1>1. n \in Nat /\ n >= 1 /\ n \in 1 .. n
  BY EmptySeq, LenProperties DEF LoadsTyped
<1>2. Loader!Top = loadStack[n] /\ Loader!Top \in Loader!Ids
  BY <1>1, ElementOfSeq DEF Loader!Top, Loader!Last, LoadsTyped
<1>3. \A i \in 1 .. n - 1 : loadStack[i] \in Loader!Ids
  BY <1>1, ElementOfSeq DEF LoadsTyped
<1> DEFINE f == Loader!Front(loadStack)
           m == n - 1
<1>4. f = SubSeq(loadStack, 1, m) /\ m \in Nat /\ \A i \in 1 .. m : loadStack[i] \in Loader!Ids
  BY <1>1, <1>3 DEF Loader!Front
<1> HIDE DEF f, m
<1>5. /\ f \in Seq(Loader!Ids) /\ Len(f) = IF 1 <= m THEN m - 1 + 1 ELSE 0
      /\ \A i \in 1 .. m - 1 + 1 : f[i] = loadStack[1 + i - 1]
  BY <1>4, SubSeqProperties
<1>6. f \in Seq(Loader!Ids) /\ Len(f) = m /\ \A i \in 1 .. m : f[i] = loadStack[i]
  BY <1>4, <1>5
<1>7. QED BY <1>1, <1>2, <1>6 DEF f, m

\* A load that has begun changes its state.
LEMMA LoadGoes ==
  ASSUME LoadsTyped, NEW l \in Loader!Ids, NEW at \in {"running", "done", "failed"},
         loads' = Loader!Ran(l, at)
  PROVE  /\ loads' \in [Loader!Ids -> LoadOf]
         /\ \A k \in Loader!Ids : k # l => loads'[k] = loads[k]
         /\ loads'[l].at = at /\ loads'[l].of = loads[l].of
         /\ loads'[l].via = loads[l].via /\ loads'[l].version = loads[l].version
<1> DEFINE new == [loads[l] EXCEPT !.at = at]
<1>1. loads \in [Loader!Ids -> LoadOf] /\ loads[l] \in LoadOf
  BY DEF LoadsTyped
<1>2. /\ new \in LoadOf /\ new.at = at /\ new.of = loads[l].of
      /\ new.via = loads[l].via /\ new.version = loads[l].version
  BY <1>1 DEF LoadOf
<1>3. loads' = [loads EXCEPT ![l] = new]
  BY DEF Loader!Ran
<1> HIDE DEF new
<1>4. loads' \in [Loader!Ids -> LoadOf] /\ loads'[l] = new /\ \A k \in Loader!Ids : k # l => loads'[k] = loads[k]
  BY <1>1, <1>2, <1>3
<1>5. QED BY <1>2, <1>4

\* The load on the top of the stack comes to its end.
LEMMA TopGoes ==
  ASSUME LoaderAssumed, LoadsTyped, RunningInv, loadStack # << >>,
         NEW at \in {"done", "failed"}, loads' = Loader!Ran(Loader!Top, at), loadStack' = Loader!Front(loadStack)
  PROVE  /\ RunningInv' /\ loads' \in [Loader!Ids -> LoadOf] /\ loadStack' \in Seq(Loader!Ids)
         /\ Loader!Top \in Loader!Ids /\ loads[Loader!Top].at = "running"
         /\ \A k \in Loader!Ids : k # Loader!Top => loads'[k] = loads[k]
         /\ loads'[Loader!Top].at = at /\ loads'[Loader!Top].of = loads[Loader!Top].of
         /\ loads'[Loader!Top].via = loads[Loader!Top].via /\ loads'[Loader!Top].version = loads[Loader!Top].version
         /\ Len(loadStack') \in Nat /\ Len(loadStack) = Len(loadStack') + 1 /\ loadStack[Len(loadStack)] = Loader!Top
         /\ \A i \in 1 .. Len(loadStack') : /\ i \in 1 .. Len(loadStack) /\ loadStack'[i] = loadStack[i]
                                            /\ loadStack[i] # Loader!Top /\ loadStack[i] \in Loader!Ids
<1> DEFINE n == Len(loadStack)
           l == Loader!Top
<1>1. /\ n \in Nat /\ n \in 1 .. n /\ l = loadStack[n] /\ l \in Loader!Ids
      /\ loadStack' \in Seq(Loader!Ids) /\ Len(loadStack') = n - 1
      /\ \A i \in 1 .. n - 1 : loadStack'[i] = loadStack[i]
  BY LoaderTopIs
<1>2. /\ loads' \in [Loader!Ids -> LoadOf]
      /\ \A k \in Loader!Ids : k # l => loads'[k] = loads[k]
      /\ loads'[l].at = at /\ loads'[l].of = loads[l].of
      /\ loads'[l].via = loads[l].via /\ loads'[l].version = loads[l].version
  BY <1>1, LoadGoes
<1>3. /\ \A i \in 1 .. n : loads[loadStack[i]].at = "running"
      /\ \A i, j \in 1 .. n : loadStack[i] = loadStack[j] => i = j
      /\ \A k \in Loader!Ids : loads[k].at = "running" => \E i \in 1 .. n : loadStack[i] = k
      /\ \A j, k \in Loader!Ids : j < k /\ loads[k].at # "none" => loads[j].at # "none"
  BY DEF RunningInv
<1>4. \A i \in 1 .. n : loadStack[i] \in Loader!Ids
  BY ElementOfSeq DEF LoadsTyped
<1> HIDE DEF n, l
<1>5. \A i \in 1 .. n - 1 : i \in 1 .. n /\ i # n
  BY <1>1
<1>6. \A i \in 1 .. n : i \in 1 .. n - 1 \/ i = n
  BY <1>1
<1>7. \A i \in 1 .. n - 1 : loadStack'[i] = loadStack[i] /\ loadStack[i] # l /\ loadStack[i] \in Loader!Ids
  BY <1>1, <1>3, <1>4, <1>5
<1>8. \A i \in 1 .. n - 1 : loads'[loadStack'[i]].at = "running"
  BY <1>2, <1>3, <1>5, <1>7
<1>9. \A i, j \in 1 .. n - 1 : loadStack'[i] = loadStack'[j] => i = j
  BY <1>3, <1>5, <1>7
<1>10. \A k \in Loader!Ids : loads'[k].at = "running" => \E i \in 1 .. n - 1 : loadStack'[i] = k
  <2> TAKE k \in Loader!Ids
  <2> HAVE loads'[k].at = "running"
  <2>1. k # l /\ loads[k].at = "running"
    BY <1>2
  <2>2. PICK i \in 1 .. n : loadStack[i] = k
    BY <1>3, <2>1
  <2>3. i \in 1 .. n - 1
    BY <1>1, <1>6, <2>1, <2>2
  <2>4. QED BY <1>1, <2>2, <2>3
<1>11. \A j, k \in Loader!Ids : j < k /\ loads'[k].at # "none" => loads'[j].at # "none"
  <2> TAKE j, k \in Loader!Ids
  <2> HAVE j < k /\ loads'[k].at # "none"
  <2>1. loads[k].at # "none"
    BY <1>1, <1>2, <1>3
  <2>2. loads[j].at # "none"
    BY <1>3, <2>1
  <2>3. QED BY <1>2, <2>2
<1>12. Len(loadStack') = n - 1 /\ n - 1 \in Nat /\ n = n - 1 + 1
  BY <1>1
<1>13. RunningInv'
  BY <1>8, <1>9, <1>10, <1>11, <1>12 DEF RunningInv
<1>14. /\ \A i \in 1 .. Len(loadStack') : /\ i \in 1 .. n /\ loadStack'[i] = loadStack[i]
                                          /\ loadStack[i] # l /\ loadStack[i] \in Loader!Ids
  BY <1>5, <1>7, <1>12
<1>15. Len(loadStack') \in Nat /\ n = Len(loadStack') + 1
  BY <1>12
<1>16. QED BY <1>1, <1>2, <1>3, <1>13, <1>14, <1>15 DEF n, l

-----------------------------------------------------------------------------
(* A module's code comes to its end, well or not.                           *)
LEMMA EndKeeps ==
  ASSUME LoaderAssumed, LoaderInv, Loader!Finish \/ Loader!Throw
  PROVE  LoaderInv'
<1> DEFINE l == Loader!Top
           m == loads[Loader!Top].of
           n == Len(loadStack')
<1>1. PICK at \in {"done", "failed"} :
        /\ loads' = Loader!Ran(Loader!Top, at) /\ loadStack' = Loader!Front(loadStack) /\ loadStack # << >>
        /\ UNCHANGED <<file, absent, unseen, reentered>>
        /\ loads[l].via = "import" =>
             imported' = [imported EXCEPT ![m] = l] /\ UNCHANGED moduleCache
        /\ loads[l].via # "import" =>
             /\ UNCHANGED imported
             /\ (moduleCache' = moduleCache /\ at = "done") \/ moduleCache' = Loader!Evicted(m)
  BY DEF Loader!Finish, Loader!Throw
<1>2. LoadsTyped /\ RunningInv /\ CachedInv /\ VersionsInv /\ PromisesInv
  BY DEF LoaderInv
<1>3. /\ RunningInv' /\ loads' \in [Loader!Ids -> LoadOf] /\ loadStack' \in Seq(Loader!Ids)
      /\ l \in Loader!Ids /\ loads[l].at = "running"
      /\ \A k \in Loader!Ids : k # l => loads'[k] = loads[k]
      /\ loads'[l].at = at /\ loads'[l].of = loads[l].of
      /\ loads'[l].via = loads[l].via /\ loads'[l].version = loads[l].version
      /\ n \in Nat /\ Len(loadStack) = n + 1 /\ loadStack[Len(loadStack)] = l
      /\ \A i \in 1 .. n : /\ i \in 1 .. Len(loadStack) /\ loadStack'[i] = loadStack[i]
                           /\ loadStack[i] # l /\ loadStack[i] \in Loader!Ids
  BY <1>1, <1>2, TopGoes
<1>4. m \in Module /\ m = loads[l].of
  BY <1>2, <1>3 DEF LoadsTyped, LoadOf
<1>5. /\ moduleCache' \in [Module -> {Loader!NoLoad} \cup Loader!Ids]
      /\ imported' \in [Module -> {Loader!NoLoad} \cup Loader!Ids]
      /\ \A k \in Module : moduleCache'[k] = moduleCache[k]
                           \/ (k = m /\ moduleCache'[k] = Loader!NoLoad)
      /\ at = "failed" /\ loads[l].via = "require" => moduleCache'[m] = Loader!NoLoad
      /\ \A k \in Module : imported'[k] = imported[k]
                           \/ (k = m /\ imported'[k] = l /\ loads[l].via = "import")
      /\ loads[l].via = "import" => imported'[m] = l /\ UNCHANGED moduleCache
  BY <1>1, <1>2, <1>3, <1>4 DEF LoadsTyped, Loader!Evicted
<1> HIDE DEF l, m, n
<1>6. LoadsTyped'
  BY <1>1, <1>2, <1>3, <1>5 DEF LoadsTyped
<1>7. CachedInv'
  <2> SUFFICES ASSUME NEW k \in Module, moduleCache'[k] # Loader!NoLoad
               PROVE  LET c == loads'[moduleCache'[k]]
                      IN  /\ c.of = k /\ c.via = "require" /\ c.at \in {"done", "running"}
                          /\ k \notin unseen => c.version = file[k]
    BY <1>1 DEF CachedInv
  <2>1. moduleCache'[k] = moduleCache[k] /\ moduleCache[k] \in Loader!Ids /\ moduleCache[k] # Loader!NoLoad
    BY <1>2, <1>5 DEF LoadsTyped
  <2>2. LET c == loads[moduleCache[k]]
        IN  /\ c.of = k /\ c.via = "require" /\ c.at \in {"done", "running"}
            /\ k \notin unseen => c.version = file[k]
    BY <1>2, <2>1 DEF CachedInv
  <2>3. CASE moduleCache[k] # l
    BY <1>3, <2>1, <2>2, <2>3
  <2>4. CASE moduleCache[k] = l
    <3>1. k = m /\ loads[l].via = "require"
      BY <1>4, <2>2, <2>4
    <3>2. at = "done"
      BY <1>1, <1>5, <2>1, <3>1
    <3>3. QED BY <1>3, <2>1, <2>2, <2>4, <3>2
  <2>5. QED BY <2>3, <2>4
<1>8. VersionsInv'
  <2>1. \A k \in Loader!Ids : loads'[k].at # "none" => loads'[k].version <= file[loads'[k].of]
    <3> TAKE k \in Loader!Ids
    <3>1. loads[k].at # "none" => loads[k].version <= file[loads[k].of]
      BY <1>2 DEF VersionsInv
    <3>2. CASE k = l
      BY <1>3, <3>1, <3>2
    <3>3. CASE k # l
      BY <1>3, <3>1, <3>3
    <3>4. QED BY <3>2, <3>3
  <2>2. ASSUME NEW k \in Loader!Ids, loads'[k].at = "running", loads'[k].via = "require"
        PROVE  \/ moduleCache'[loads'[k].of] = k \/ loads'[k].of \in absent
               \/ loads'[k].version < file[loads'[k].of]
    <3>1. k # l /\ loads'[k] = loads[k]
      BY <1>1, <1>3, <2>2
    <3>2. \/ moduleCache[loads[k].of] = k \/ loads[k].of \in absent
          \/ loads[k].version < file[loads[k].of]
      BY <1>2, <2>2, <3>1 DEF VersionsInv
    <3>3. loads[k].of \in Module
      BY <1>2 DEF LoadsTyped, LoadOf
    <3>4. CASE moduleCache[loads[k].of] = k /\ moduleCache'[loads[k].of] # k
      <4>1. loads[k].of = m /\ loads[l].via = "require"
        BY <1>2, <1>3, <1>5, <3>3, <3>4 DEF LoadsTyped, LoadOf
      <4>2. PICK i \in 1 .. n : loadStack[i] = k
        <5>1. PICK i \in 1 .. Len(loadStack) : loadStack[i] = k
          BY <1>2, <2>2, <3>1 DEF RunningInv
        <5>2. i \in 1 .. n
          BY <1>3, <3>1, <5>1
        <5>3. QED BY <5>1, <5>2
      <4>3. i \in 1 .. Len(loadStack) /\ Len(loadStack) \in 1 .. Len(loadStack) /\ i < Len(loadStack)
        BY <1>3
      <4>4. loads[k].version < loads[l].version
        BY <1>2, <1>3, <1>4, <2>2, <3>1, <4>1, <4>2, <4>3 DEF VersionsInv
      <4>5. loads[l].version <= file[m]
        BY <1>2, <1>3, <1>4 DEF VersionsInv
      <4>6. loads[k].version \in Nat /\ loads[l].version \in Nat /\ file[m] \in Nat
        BY <1>2, <1>3, <1>4 DEF LoadsTyped, LoadOf
      <4>7. QED BY <3>1, <4>1, <4>4, <4>5, <4>6
    <3>5. QED BY <3>1, <3>2, <3>4
  <2>3. \A i, j \in 1 .. n :
          /\ i < j /\ loads'[loadStack'[i]].via = "require" /\ loads'[loadStack'[j]].via = "require"
          /\ loads'[loadStack'[i]].of = loads'[loadStack'[j]].of
          => loads'[loadStack'[i]].version < loads'[loadStack'[j]].version
    <3> TAKE i, j \in 1 .. n
    <3>1. /\ i \in 1 .. Len(loadStack) /\ j \in 1 .. Len(loadStack)
          /\ loads'[loadStack'[i]] = loads[loadStack[i]] /\ loads'[loadStack'[j]] = loads[loadStack[j]]
      BY <1>3
    <3>2. QED BY <1>2, <3>1 DEF VersionsInv
  <2>4. UNCHANGED <<file, absent>> /\ Len(loadStack') = n
    BY <1>1 DEF n
  <2>5. QED BY <2>1, <2>2, <2>3, <2>4 DEF VersionsInv
<1>9. PromisesInv'
  <2>1. \A k \in Loader!Ids : /\ loads'[k].of = loads[k].of /\ loads'[k].via = loads[k].via
                              /\ loads'[k].at \in LoaderActive => loads[k].at \in LoaderActive
                              /\ loads'[k].at # "none" => loads[k].at # "none"
                              /\ k # l => loads'[k].at = loads[k].at
    <3> TAKE k \in Loader!Ids
    <3>1. CASE k = l
      BY <1>3, <3>1 DEF LoaderActive
    <3>2. CASE k # l
      BY <1>3, <3>2
    <3>3. QED BY <3>1, <3>2
  <2>2. \A j, k \in Loader!Ids :
          /\ j < k /\ loads[j].of = loads[k].of
          /\ loads[j].via = "import" /\ loads[k].via = "import"
          /\ loads[j].at \in LoaderActive /\ loads[k].at # "none"
          => loads[k].of \in reentered
    BY <1>2 DEF PromisesInv
  <2>3. ASSUME NEW k \in Loader!Ids, loads'[k].via = "import", loads'[k].at \in LoaderActive,
               loads'[k].of \notin reentered
        PROVE  \/ imported'[loads'[k].of] = k
               \/ loads'[k].of \notin EsModule /\ loads'[k].at = "running"
    <3>1. loads[k].of \in Module
      BY <1>2 DEF LoadsTyped, LoadOf
    <3>2. CASE k = l
      BY <1>3, <1>4, <1>5, <2>3, <3>2
    <3>3. CASE k # l
      <4>1. \/ imported[loads[k].of] = k
            \/ loads[k].of \notin EsModule /\ loads[k].at = "running"
        BY <1>2, <2>1, <2>3 DEF PromisesInv
      <4>2. ASSUME imported'[loads[k].of] # imported[loads[k].of] PROVE FALSE
        <5>1. loads[k].of = loads[l].of /\ loads[l].via = "import"
          BY <1>4, <1>5, <3>1, <4>2
        <5>2. loads[l].at \in LoaderActive /\ loads[l].at # "none"
              /\ loads[k].at \in LoaderActive /\ loads[k].at # "none"
              /\ loads[k].via = "import" /\ loads[k].of \notin reentered
          BY <1>3, <2>1, <2>3 DEF LoaderActive
        <5>3. k < l \/ l < k
          BY <1>3, <3>3 DEF Loader!Ids, LoaderAssumed
        <5>4. QED BY <1>3, <2>2, <5>1, <5>2, <5>3
      <4>3. QED BY <2>1, <3>3, <4>1, <4>2
    <3>4. QED BY <3>2, <3>3
  <2>4. UNCHANGED reentered
    BY <1>1
  <2>5. QED BY <2>1, <2>2, <2>3, <2>4 DEF PromisesInv
<1>10. WaitingInv'
  BY <1>3 DEF LoaderInv, WaitingInv
<1>11. QED BY <1>3, <1>6, <1>7, <1>8, <1>9, <1>10 DEF LoaderInv

-----------------------------------------------------------------------------
\* A load that begins runs at once, or waits.
LEMMA RunsAtOnce ==
  ASSUME LoaderAssumed, LoadsTyped, RunningInv, Loader!MayLoad, NEW m \in Module,
         NEW via \in {"require", "import"},
         loads' = [loads EXCEPT ![Loader!Next1] = Loader!Load(m, via, "running")],
         loadStack' = Append(loadStack, Loader!Next1)
  PROVE  /\ RunningInv' /\ loadStack' \in Seq(Loader!Ids) /\ Len(loadStack) \in Nat
         /\ Len(loadStack') = Len(loadStack) + 1 /\ loadStack'[Len(loadStack) + 1] = Loader!Next1
         /\ \A i \in 1 .. Len(loadStack) : loadStack'[i] = loadStack[i]
<1> DEFINE n == Len(loadStack)
           new == Loader!Next1
<1>1. /\ loads' \in [Loader!Ids -> LoadOf] /\ \A l \in Loader!Ids : l # new => loads'[l] = loads[l]
      /\ loads'[new].at = "running"
      /\ \A k, l \in Loader!Ids : k < l /\ loads'[l].at # "none" => loads'[k].at # "none"
      /\ \A i \in 1 .. n : loadStack[i] \in Loader!Ids /\ loadStack[i] # new
  BY LoadBegins
<1>2. new \in Loader!Ids /\ loads[new].at = "none"
  BY NextLoad
<1>3. n \in Nat /\ loadStack \in Seq(Loader!Ids)
  BY LenProperties DEF LoadsTyped
<1>4. /\ \A i \in 1 .. n : loads[loadStack[i]].at = "running"
      /\ \A i, j \in 1 .. n : loadStack[i] = loadStack[j] => i = j
      /\ \A k \in Loader!Ids : loads[k].at = "running" => \E i \in 1 .. n : loadStack[i] = k
  BY DEF RunningInv
<1>5. loadStack' = Append(loadStack, new)
  OBVIOUS
<1> HIDE DEF new
<1>6. /\ loadStack' \in Seq(Loader!Ids) /\ Len(loadStack') = n + 1 /\ loadStack'[n + 1] = new
      /\ \A i \in 1 .. n : loadStack'[i] = loadStack[i]
  BY <1>2, <1>3, <1>5, AppendProperties
<1> HIDE DEF n
<1>7. \A i \in 1 .. n + 1 : i \in 1 .. n \/ i = n + 1
  BY <1>3
<1>8. \A i \in 1 .. n : i \in 1 .. n + 1
  BY <1>3
<1>9. n + 1 \in 1 .. n + 1
  BY <1>3
<1>10. \A i \in 1 .. n + 1 : loads'[loadStack'[i]].at = "running"
  BY <1>1, <1>4, <1>6, <1>7
<1>11. \A i, j \in 1 .. n + 1 : loadStack'[i] = loadStack'[j] => i = j
  BY <1>1, <1>4, <1>6, <1>7
<1>12. \A k \in Loader!Ids : loads'[k].at = "running" => \E i \in 1 .. n + 1 : loadStack'[i] = k
  <2> TAKE k \in Loader!Ids
  <2> HAVE loads'[k].at = "running"
  <2>1. CASE k = new
    BY <1>6, <1>9, <2>1
  <2>2. CASE k # new
    <3>1. PICK i \in 1 .. n : loadStack[i] = k
      BY <1>1, <1>4, <2>2
    <3>2. QED BY <1>6, <1>8, <3>1
  <2>3. QED BY <2>1, <2>2
<1>13. RunningInv'
  BY <1>1, <1>6, <1>10, <1>11, <1>12 DEF RunningInv
<1>14. QED BY <1>3, <1>6, <1>13 DEF n, new

(* _memfsRequire of a module that is not in the cache.                      *)
LEMMA RequireKeeps ==
  ASSUME LoaderAssumed, LoaderInv, NEW m \in Module, Loader!Require(m)
  PROVE  LoaderInv'
<1> DEFINE new == Loader!Next1
           n == Len(loadStack)
<1>1. /\ m \notin absent /\ moduleCache[m] = Loader!NoLoad /\ Loader!MayLoad
      /\ loads' = [loads EXCEPT ![Loader!Next1] = Loader!Load(m, "require", "running")]
      /\ moduleCache' = [moduleCache EXCEPT ![m] = new]
      /\ loadStack' = Append(loadStack, Loader!Next1) /\ unseen' = unseen \ {m}
      /\ UNCHANGED <<file, absent, imported, reentered>>
  BY DEF Loader!Require, Loader!Cached
<1>2. LoadsTyped /\ RunningInv /\ CachedInv /\ VersionsInv /\ PromisesInv
  BY DEF LoaderInv
<1>3. /\ loads' \in [Loader!Ids -> LoadOf] /\ \A l \in Loader!Ids : l # new => loads'[l] = loads[l]
      /\ loads'[new].at = "running" /\ loads'[new].of = m
      /\ loads'[new].via = "require" /\ loads'[new].version = file[m]
      /\ \A i \in 1 .. n : loadStack[i] \in Loader!Ids /\ loadStack[i] # new
  BY <1>1, <1>2, LoadBegins
<1>4. new \in Loader!Ids /\ loads[new].at = "none"
  BY <1>1, <1>2, NextLoad
<1>5. /\ RunningInv' /\ loadStack' \in Seq(Loader!Ids) /\ n \in Nat /\ Len(loadStack') = n + 1
      /\ loadStack'[n + 1] = new /\ \A i \in 1 .. n : loadStack'[i] = loadStack[i]
  BY <1>1, <1>2, RunsAtOnce
<1> HIDE DEF new, n
<1>6. /\ moduleCache' \in [Module -> {Loader!NoLoad} \cup Loader!Ids] /\ moduleCache'[m] = new
      /\ \A k \in Module : k # m => moduleCache'[k] = moduleCache[k]
  BY <1>1, <1>2, <1>4 DEF LoadsTyped
<1>7. LoadsTyped'
  BY <1>1, <1>2, <1>3, <1>5, <1>6 DEF LoadsTyped
<1>8. new # Loader!NoLoad /\ file[m] \in Nat /\ \A l \in Loader!Ids : loads[l].of \in Module
  BY <1>2, <1>4 DEF Loader!Ids, Loader!NoLoad, LoadsTyped, LoadOf, LoaderAssumed
<1>9. CachedInv'
  <2> SUFFICES ASSUME NEW k \in Module, moduleCache'[k] # Loader!NoLoad
               PROVE  LET c == loads'[moduleCache'[k]]
                      IN  /\ c.of = k /\ c.via = "require" /\ c.at \in {"done", "running"}
                          /\ k \notin unseen' => c.version = file[k]
    BY <1>1 DEF CachedInv
  <2>1. CASE k = m
    BY <1>3, <1>6, <2>1
  <2>2. CASE k # m
    <3>1. moduleCache'[k] = moduleCache[k] /\ moduleCache[k] \in Loader!Ids
      BY <1>2, <1>6, <2>2 DEF LoadsTyped
    <3>2. LET c == loads[moduleCache[k]]
          IN  /\ c.of = k /\ c.via = "require" /\ c.at \in {"done", "running"}
              /\ k \notin unseen => c.version = file[k]
      BY <1>2, <3>1 DEF CachedInv
    <3>3. moduleCache[k] # new
      BY <1>4, <3>2
    <3>4. QED BY <1>1, <1>3, <2>2, <3>1, <3>2, <3>3
  <2>3. QED BY <2>1, <2>2
<1>10. VersionsInv'
  <2>1. \A l \in Loader!Ids : loads'[l].at # "none" => loads'[l].version <= file[loads'[l].of]
    <3> TAKE l \in Loader!Ids
    <3>1. CASE l = new
      BY <1>3, <1>8, <3>1
    <3>2. CASE l # new
      BY <1>2, <1>3, <3>2 DEF VersionsInv
    <3>3. QED BY <3>1, <3>2
  <2>2. ASSUME NEW l \in Loader!Ids, loads[l].at = "running", loads[l].via = "require"
        PROVE  /\ \/ moduleCache[loads[l].of] = l \/ loads[l].of \in absent
                  \/ loads[l].version < file[loads[l].of]
               /\ loads[l].of = m => loads[l].version < file[m]
    <3>1. \/ moduleCache[loads[l].of] = l \/ loads[l].of \in absent
          \/ loads[l].version < file[loads[l].of]
      BY <1>2, <2>2 DEF VersionsInv
    <3>2. l # Loader!NoLoad
      BY DEF Loader!Ids, Loader!NoLoad
    <3>3. QED BY <1>1, <3>1, <3>2
  <2>3. ASSUME NEW l \in Loader!Ids, loads'[l].at = "running", loads'[l].via = "require"
        PROVE  \/ moduleCache'[loads'[l].of] = l \/ loads'[l].of \in absent
               \/ loads'[l].version < file[loads'[l].of]
    <3>1. CASE l = new
      BY <1>3, <1>6, <3>1
    <3>2. CASE l # new
      BY <1>3, <1>6, <1>8, <2>2, <2>3, <3>2
    <3>3. QED BY <3>1, <3>2
  <2>4. \A i, j \in 1 .. n + 1 :
          /\ i < j /\ loads'[loadStack'[i]].via = "require" /\ loads'[loadStack'[j]].via = "require"
          /\ loads'[loadStack'[i]].of = loads'[loadStack'[j]].of
          => loads'[loadStack'[i]].version < loads'[loadStack'[j]].version
    <3> TAKE i, j \in 1 .. n + 1
    <3> HAVE /\ i < j /\ loads'[loadStack'[i]].via = "require"
             /\ loads'[loadStack'[j]].via = "require"
             /\ loads'[loadStack'[i]].of = loads'[loadStack'[j]].of
    <3>1. i \in 1 .. n /\ (j \in 1 .. n \/ j = n + 1)
      BY <1>5
    <3>2. loadStack'[i] = loadStack[i] /\ loadStack[i] \in Loader!Ids /\ loads'[loadStack[i]] = loads[loadStack[i]]
          /\ loads[loadStack[i]].at = "running"
      BY <1>2, <1>3, <1>5, <3>1 DEF RunningInv, n
    <3>3. CASE j \in 1 .. n
      <4>1. loadStack'[j] = loadStack[j] /\ loads'[loadStack[j]] = loads[loadStack[j]]
        BY <1>3, <1>5, <3>3
      <4>2. QED BY <1>2, <3>1, <3>2, <3>3, <4>1 DEF VersionsInv, n
    <3>4. CASE j = n + 1
      BY <1>3, <1>5, <2>2, <3>2, <3>4
    <3>5. QED BY <3>1, <3>3, <3>4
  <2>5. QED BY <1>1, <1>5, <2>1, <2>3, <2>4 DEF VersionsInv
<1>11. PromisesInv'
  <2>1. \A k \in Loader!Ids : loads'[k].via = "import" => k # new /\ loads'[k] = loads[k]
    BY <1>3
  <2>2. QED BY <1>1, <1>2, <2>1 DEF PromisesInv
<1>12. WaitingInv'
  BY <1>3 DEF LoaderInv, WaitingInv
<1>13. QED BY <1>5, <1>7, <1>9, <1>10, <1>11, <1>12 DEF LoaderInv

(* _memfsDynamicImport of a module that is not in the map.                  *)
LEMMA ImportKeeps ==
  ASSUME LoaderAssumed, LoaderInv, NEW m \in Module, Loader!Import(m)
  PROVE  LoaderInv'
<1> DEFINE new == Loader!Next1
           n == Len(loadStack)
<1>1. PICK at \in {"waiting", "running"} :
        /\ Loader!MayLoad /\ imported[m] = Loader!NoLoad
        /\ loads' = [loads EXCEPT ![Loader!Next1] = Loader!Load(m, "import", at)]
        /\ at = "waiting" => /\ m \in EsModule /\ imported' = [imported EXCEPT ![m] = new]
                             /\ UNCHANGED loadStack
        /\ at = "running" => /\ m \notin EsModule /\ loadStack' = Append(loadStack, Loader!Next1)
                             /\ UNCHANGED imported
  BY DEF Loader!Import
<1>2. /\ UNCHANGED <<file, absent, moduleCache, unseen>>
      /\ reentered \subseteq reentered'
      /\ (\E k \in Loader!ToSet(loadStack) : loads[k].of = m /\ loads[k].via = "import") =>
           m \in reentered'
  BY DEF Loader!Import
<1>3. LoadsTyped /\ RunningInv /\ CachedInv /\ VersionsInv /\ PromisesInv
  BY DEF LoaderInv
<1>4. /\ loads' \in [Loader!Ids -> LoadOf] /\ \A l \in Loader!Ids : l # new => loads'[l] = loads[l]
      /\ loads'[new].at = at /\ loads'[new].of = m
      /\ loads'[new].via = "import" /\ loads'[new].version = file[m]
      /\ \A k, l \in Loader!Ids : k < l /\ loads'[l].at # "none" => loads'[k].at # "none"
      /\ \A i \in 1 .. n : loadStack[i] \in Loader!Ids /\ loadStack[i] # new
      /\ \A l \in Loader!Ids : l > new => loads'[l].at = "none"
  BY <1>1, <1>3, LoadBegins
<1>5. new \in Loader!Ids /\ loads[new].at = "none" /\ n \in Nat
  BY <1>1, <1>3, NextLoad, LenProperties DEF LoadsTyped
<1>6. /\ RunningInv' /\ loadStack' \in Seq(Loader!Ids)
      /\ at = "running" => /\ Len(loadStack') = n + 1 /\ loadStack'[n + 1] = new
                           /\ \A i \in 1 .. n : loadStack'[i] = loadStack[i]
  <2>1. CASE at = "running"
    BY <1>1, <1>3, <2>1, RunsAtOnce
  <2>2. CASE at = "waiting"
    <3>1. UNCHANGED loadStack /\ loads'[new].at # "running"
      BY <1>1, <1>4, <2>2
    <3>2. \A i \in 1 .. n : loads'[loadStack[i]].at = "running"
      BY <1>3, <1>4 DEF RunningInv
    <3>3. \A l \in Loader!Ids : loads'[l].at = "running" => \E i \in 1 .. n : loadStack[i] = l
      BY <1>3, <1>4, <3>1 DEF RunningInv
    <3>4. RunningInv'
      BY <1>3, <1>4, <3>1, <3>2, <3>3 DEF RunningInv
    <3>5. QED BY <1>3, <2>2, <3>1, <3>4 DEF LoadsTyped
  <2>3. QED BY <2>1, <2>2
<1> HIDE DEF new, n
<1>7. /\ imported' \in [Module -> {Loader!NoLoad} \cup Loader!Ids]
      /\ \A k \in Module : k # m => imported'[k] = imported[k]
      /\ at = "waiting" => imported'[m] = new
      /\ at = "running" => imported' = imported
  BY <1>1, <1>3, <1>5 DEF LoadsTyped
<1>8. LoadsTyped'
  BY <1>2, <1>3, <1>4, <1>6, <1>7 DEF LoadsTyped
<1>9. CachedInv'
  <2>1. \A k \in Module : moduleCache[k] # Loader!NoLoad =>
          moduleCache[k] \in Loader!Ids /\ moduleCache[k] # new
    BY <1>3, <1>5 DEF CachedInv, LoadsTyped
  <2>2. QED BY <1>2, <1>3, <1>4, <2>1 DEF CachedInv
<1>10. VersionsInv'
  <2>1. file[m] \in Nat
    BY <1>3 DEF LoadsTyped
  <2>2. \A l \in Loader!Ids : loads'[l].at # "none" => loads'[l].version <= file[loads'[l].of]
    BY <1>3, <1>4, <2>1 DEF VersionsInv
  <2>3. \A l \in Loader!Ids : loads'[l].via = "require" => l # new /\ loads'[l] = loads[l]
    BY <1>4
  <2>4. \A i, j \in 1 .. Len(loadStack') :
          /\ i < j /\ loads'[loadStack'[i]].via = "require" /\ loads'[loadStack'[j]].via = "require"
          /\ loads'[loadStack'[i]].of = loads'[loadStack'[j]].of
          => loads'[loadStack'[i]].version < loads'[loadStack'[j]].version
    <3>1. ASSUME NEW i \in 1 .. Len(loadStack'), loads'[loadStack'[i]].via = "require"
          PROVE  i \in 1 .. n /\ loadStack'[i] = loadStack[i] /\ loads'[loadStack[i]] = loads[loadStack[i]]
      <4>1. CASE at = "waiting"
        BY <1>1, <1>4, <4>1 DEF n
      <4>2. CASE at = "running"
        <5>1. i \in 1 .. n \/ i = n + 1
          BY <1>5, <1>6, <4>2
        <5>2. QED BY <1>4, <1>6, <3>1, <4>2, <5>1
      <4>3. QED BY <4>1, <4>2
    <3>2. QED BY <1>3, <3>1 DEF VersionsInv, n
  <2>5. QED BY <1>2, <1>3, <2>2, <2>3, <2>4 DEF VersionsInv
<1>11. PromisesInv'
  <2>1. \A l \in Loader!Ids : loads[l].of \in Module
    BY <1>3 DEF LoadsTyped, LoadOf
  <2>2. ASSUME NEW l \in Loader!Ids, loads[l].via = "import", loads[l].at \in LoaderActive,
               loads[l].of = m
        PROVE  m \in reentered'
    <3>1. CASE m \in reentered
      BY <1>2, <3>1
    <3>2. CASE m \notin reentered
      <4>1. imported[m] # l
        BY <1>1 DEF Loader!Ids, Loader!NoLoad
      <4>2. loads[l].at = "running"
        BY <1>3, <2>2, <3>2, <4>1 DEF PromisesInv
      <4>3. l \in Loader!ToSet(loadStack)
        BY <1>3, <4>2 DEF RunningInv, Loader!ToSet
      <4>4. QED BY <1>2, <2>2, <4>3
    <3>3. QED BY <3>1, <3>2
  <2>3. ASSUME NEW l \in Loader!Ids, loads'[l].via = "import", loads'[l].at \in LoaderActive,
               loads'[l].of \notin reentered'
        PROVE  \/ imported'[loads'[l].of] = l
               \/ loads'[l].of \notin EsModule /\ loads'[l].at = "running"
    <3>1. CASE l = new
      BY <1>1, <1>4, <1>7, <3>1
    <3>2. CASE l # new
      <4>1. loads'[l] = loads[l] /\ loads[l].of # m /\ loads[l].of \notin reentered
        BY <1>2, <1>4, <2>2, <2>3, <3>2
      <4>2. QED BY <1>3, <1>7, <2>1, <2>3, <4>1 DEF PromisesInv
    <3>3. QED BY <3>1, <3>2
  <2>4. ASSUME NEW k \in Loader!Ids, NEW l \in Loader!Ids, k < l, loads'[k].of = loads'[l].of,
               loads'[k].via = "import", loads'[l].via = "import",
               loads'[k].at \in LoaderActive, loads'[l].at # "none"
        PROVE  loads'[l].of \in reentered'
    <3>1. CASE l = new
      <4>1. k # new
        BY <1>5, <2>4, <3>1 DEF Loader!Ids, LoaderAssumed
      <4>2. QED BY <1>4, <2>2, <2>4, <3>1, <4>1
    <3>2. CASE k = new
      <4>1. l > new
        BY <1>5, <2>4, <3>2 DEF Loader!Ids, LoaderAssumed
      <4>2. QED BY <1>4, <2>4, <4>1
    <3>3. CASE k # new /\ l # new
      <4>1. loads'[k] = loads[k] /\ loads'[l] = loads[l]
        BY <1>4, <3>3
      <4>2. loads[l].of \in reentered
        BY <1>3, <2>4, <4>1 DEF PromisesInv
      <4>3. QED BY <1>2, <4>1, <4>2
    <3>4. QED BY <3>1, <3>2, <3>3
  <2>5. QED BY <2>3, <2>4 DEF PromisesInv
<1>12. WaitingInv'
  BY <1>4 DEF LoaderInv, WaitingInv
<1>13. QED BY <1>6, <1>8, <1>9, <1>10, <1>11, <1>12 DEF LoaderInv

(* esbuild answers.                                                         *)
LEMMA TranspiledKeeps ==
  ASSUME LoaderAssumed, LoaderInv, NEW l \in Loader!Ids, Loader!Transpiled(l)
  PROVE  LoaderInv'
<1>1. PICK at \in {"running", "failed"} :
        /\ loads' = Loader!Ran(l, at) /\ loads[l].at = "waiting" /\ loadStack = << >>
        /\ loadStack' = IF at = "running" THEN <<l>> ELSE << >>
        /\ UNCHANGED <<file, absent, moduleCache, imported, unseen, reentered>>
  BY DEF Loader!Transpiled
<1>2. LoadsTyped /\ RunningInv /\ CachedInv /\ VersionsInv /\ PromisesInv
  BY DEF LoaderInv
<1>3. /\ loads' \in [Loader!Ids -> LoadOf] /\ \A k \in Loader!Ids : k # l => loads'[k] = loads[k]
      /\ loads'[l].at = at /\ loads'[l].of = loads[l].of
      /\ loads'[l].via = loads[l].via /\ loads'[l].version = loads[l].version
  BY <1>1, <1>2, LoadGoes
<1>4. \A k \in Loader!Ids : loads[k].at # "running"
  <2>1. Len(loadStack) = 0
    BY <1>1
  <2>2. QED BY <1>2, <2>1 DEF RunningInv
<1>5. /\ loadStack' \in Seq(Loader!Ids) /\ \A i, j \in 1 .. Len(loadStack') : i = j
      /\ \A i \in 1 .. Len(loadStack') : loadStack'[i] = l /\ at = "running"
      /\ at = "running" => \E i \in 1 .. Len(loadStack') : loadStack'[i] = l
  <2>1. CASE at = "running"
    <3>1. loadStack' = <<l>>
      BY <1>1, <2>1
    <3>2. Len(loadStack') = 1 /\ loadStack'[1] = l /\ loadStack' \in Seq(Loader!Ids) /\ 1 .. 1 = {1}
      BY <3>1
    <3>3. QED BY <2>1, <3>2
  <2>2. CASE at = "failed"
    <3>1. loadStack' = << >> /\ Len(loadStack') = 0
      BY <1>1, <2>2
    <3>2. QED BY <2>2, <3>1
  <2>3. QED BY <2>1, <2>2
<1>6. LoadsTyped'
  BY <1>1, <1>2, <1>3, <1>5 DEF LoadsTyped
<1>7. RunningInv'
  BY <1>1, <1>2, <1>3, <1>4, <1>5 DEF RunningInv
<1>8. CachedInv'
  <2>1. \A k \in Module : moduleCache[k] # Loader!NoLoad =>
          moduleCache[k] \in Loader!Ids /\ moduleCache[k] # l
    BY <1>1, <1>2 DEF CachedInv, LoadsTyped
  <2>2. QED BY <1>1, <1>2, <1>3, <2>1 DEF CachedInv
<1>9. loads[l].via = "import" /\ WaitingInv'
  BY <1>1, <1>3 DEF LoaderInv, WaitingInv
<1>10. \A k \in Loader!Ids : /\ loads'[k].of = loads[k].of /\ loads'[k].via = loads[k].via
                             /\ loads'[k].version = loads[k].version
                             /\ loads'[k].at \in LoaderActive => loads[k].at \in LoaderActive
                             /\ loads'[k].at # "none" => loads[k].at # "none"
                             /\ k # l => loads'[k].at = loads[k].at
  BY <1>1, <1>3 DEF LoaderActive
<1>11. VersionsInv'
  <2>1. \A k \in Loader!Ids : loads'[k].at # "none" => loads'[k].version <= file[loads'[k].of]
    BY <1>2, <1>10 DEF VersionsInv
  <2>2. \A k \in Loader!Ids : ~(loads'[k].at = "running" /\ loads'[k].via = "require")
    BY <1>4, <1>9, <1>10
  <2>3. \A i, j \in 1 .. Len(loadStack') : ~(i < j)
    BY <1>5
  <2>4. QED BY <1>1, <2>1, <2>2, <2>3 DEF VersionsInv
<1>12. PromisesInv'
  <2>1. ASSUME NEW k \in Loader!Ids, loads'[k].via = "import", loads'[k].at \in LoaderActive,
               loads'[k].of \notin reentered
        PROVE  \/ imported[loads'[k].of] = k
               \/ loads'[k].of \notin EsModule /\ loads'[k].at = "running"
    <3>1. \/ imported[loads[k].of] = k
          \/ loads[k].of \notin EsModule /\ loads[k].at = "running"
      BY <1>2, <1>10, <2>1 DEF PromisesInv
    <3>2. QED BY <1>4, <1>10, <3>1
  <2>2. QED BY <1>1, <1>2, <1>10, <2>1 DEF PromisesInv
<1>13. QED BY <1>6, <1>7, <1>8, <1>9, <1>11, <1>12 DEF LoaderInv

(* A promise that has failed is forgotten.                                  *)
LEMMA ForgetKeeps ==
  ASSUME LoaderAssumed, LoaderInv, NEW m \in Module, Loader!Forget(m)
  PROVE  LoaderInv'
<1>1. /\ imported[m] # Loader!NoLoad /\ loads[imported[m]].at = "failed"
      /\ imported' = [imported EXCEPT ![m] = Loader!NoLoad]
      /\ UNCHANGED <<file, absent, moduleCache, loads, loadStack, unseen, reentered>>
  BY DEF Loader!Forget, Loader!Forgotten
<1>2. LoadsTyped /\ RunningInv /\ WaitingInv /\ CachedInv /\ VersionsInv /\ PromisesInv
  BY DEF LoaderInv
<1>3. /\ imported' \in [Module -> {Loader!NoLoad} \cup Loader!Ids]
      /\ \A k \in Module : k # m => imported'[k] = imported[k]
  BY <1>1, <1>2 DEF LoadsTyped
<1>4. LoadsTyped' /\ RunningInv' /\ WaitingInv' /\ CachedInv' /\ VersionsInv'
  BY <1>1, <1>2, <1>3 DEF LoadsTyped, RunningInv, WaitingInv, CachedInv, VersionsInv
<1>5. PromisesInv'
  <2>1. ASSUME NEW l \in Loader!Ids, loads[l].at \in LoaderActive, imported[loads[l].of] = l
        PROVE  imported'[loads[l].of] = l
    <3>1. loads[l].of \in Module
      BY <1>2 DEF LoadsTyped, LoadOf
    <3>2. loads[l].of # m
      BY <1>1, <2>1 DEF LoaderActive
    <3>3. QED BY <1>3, <2>1, <3>1, <3>2
  <2>2. QED BY <1>1, <1>2, <2>1 DEF PromisesInv
<1>6. QED BY <1>4, <1>5 DEF LoaderInv

\* A file changes, goes or comes, and what the cache has of it.
LEMMA FileChanges ==
  ASSUME LoaderAssumed, LoaderInv, UNCHANGED <<imported, loads, loadStack, reentered>>,
         file' \in [Module -> Nat], moduleCache' \in [Module -> {Loader!NoLoad} \cup Loader!Ids],
         \A m \in Module :
           /\ file'[m] >= file[m]
           /\ moduleCache'[m] # Loader!NoLoad => moduleCache'[m] = moduleCache[m]
           /\ m \in absent /\ m \notin absent' => file'[m] > file[m]
           /\ moduleCache'[m] # moduleCache[m] => file'[m] > file[m] \/ m \in absent'
           /\ moduleCache'[m] # Loader!NoLoad =>
                m \in unseen' \/ (m \notin unseen /\ file'[m] = file[m])
  PROVE  LoaderInv'
<1>1. LoadsTyped /\ RunningInv /\ WaitingInv /\ CachedInv /\ VersionsInv /\ PromisesInv
  BY DEF LoaderInv
<1>2. LoadsTyped' /\ RunningInv' /\ WaitingInv' /\ PromisesInv'
  BY <1>1 DEF LoadsTyped, RunningInv, WaitingInv, PromisesInv
<1>3. CachedInv'
  BY <1>1 DEF CachedInv
<1>4. \A l \in Loader!Ids : loads[l].of \in Module /\ loads[l].version \in Nat
                     /\ file[loads[l].of] \in Nat /\ file'[loads[l].of] \in Nat
  BY <1>1, <1>2 DEF LoadsTyped, LoadOf
<1>5. \A l \in Loader!Ids : loads[l].at # "none" => loads[l].version <= file'[loads[l].of]
  <2> TAKE l \in Loader!Ids
  <2>1. loads[l].at # "none" => loads[l].version <= file[loads[l].of]
    BY <1>1 DEF VersionsInv
  <2>2. file'[loads[l].of] >= file[loads[l].of]
    BY <1>4
  <2>3. QED BY <1>4, <2>1, <2>2
<1>6. ASSUME NEW l \in Loader!Ids, loads[l].at = "running", loads[l].via = "require"
      PROVE  \/ moduleCache'[loads[l].of] = l \/ loads[l].of \in absent'
             \/ loads[l].version < file'[loads[l].of]
  <2> DEFINE m == loads[l].of
             v == loads[l].version
  <2>1. \/ moduleCache[m] = l \/ m \in absent \/ v < file[m]
    BY <1>1, <1>6 DEF VersionsInv
  <2>2. v <= file[m] /\ m \in Module /\ v \in Nat /\ file[m] \in Nat /\ file'[m] \in Nat
    BY <1>1, <1>4, <1>6 DEF VersionsInv
  <2> HIDE DEF m, v
  <2>3. file'[m] >= file[m] /\ (file'[m] > file[m] => v < file'[m])
    BY <2>2
  <2>4. v < file[m] => v < file'[m]
    BY <2>2, <2>3
  <2>5. moduleCache'[m] = l \/ m \in absent' \/ v < file'[m]
    BY <2>1, <2>2, <2>3, <2>4
  <2>6. QED BY <2>5 DEF m, v
<1>7. VersionsInv'
  BY <1>1, <1>5, <1>6 DEF VersionsInv
<1>8. QED BY <1>2, <1>3, <1>7 DEF LoaderInv

LEMMA FilesKeep ==
  ASSUME LoaderAssumed, LoaderInv, NEW m \in Module,
         \/ Loader!WriteFile(m) \/ Loader!WriteFd(m) \/ Loader!Unlink(m)
         \/ \E n \in Module : Loader!Rename(m, n)
  PROVE  LoaderInv'
<1>1. file \in [Module -> Nat] /\ moduleCache \in [Module -> {Loader!NoLoad} \cup Loader!Ids]
  BY DEF LoaderInv, LoadsTyped
<1>2. ASSUME NEW n \in Module, file' = Loader!Versioned(n)
      PROVE  /\ file' \in [Module -> Nat] /\ file'[n] > file[n]
             /\ \A k \in Module : k # n => file'[k] = file[k]
             /\ \A k \in Module : file[k] \in Nat /\ file'[k] >= file[k]
  BY <1>1, <1>2 DEF Loader!Versioned
<1>3. CASE Loader!WriteFile(m)
  <2>1. /\ file' = Loader!Versioned(m) /\ absent' = absent \ {m} /\ moduleCache' = Loader!Evicted(m)
        /\ unseen' = unseen \ {m} /\ UNCHANGED <<imported, loads, loadStack, reentered>>
    BY <1>3 DEF Loader!WriteFile
  <2>2. /\ moduleCache' \in [Module -> {Loader!NoLoad} \cup Loader!Ids] /\ moduleCache'[m] = Loader!NoLoad
        /\ \A k \in Module : k # m => moduleCache'[k] = moduleCache[k]
    BY <1>1, <2>1 DEF Loader!Evicted
  <2>3. ASSUME NEW k \in Module
        PROVE
          /\ file'[k] >= file[k]
          /\ moduleCache'[k] # Loader!NoLoad => moduleCache'[k] = moduleCache[k]
          /\ k \in absent /\ k \notin absent' => file'[k] > file[k]
          /\ moduleCache'[k] # moduleCache[k] => file'[k] > file[k] \/ k \in absent'
          /\ moduleCache'[k] # Loader!NoLoad =>
                k \in unseen' \/ (k \notin unseen /\ file'[k] = file[k])
    <3>1. file[k] \in Nat /\ file'[k] \in Nat /\ file'[k] >= file[k]
      BY <1>1, <1>2, <2>1
    <3>2. CASE k = m
      BY <1>1, <1>2, <2>1, <2>2, <3>1, <3>2
    <3>3. CASE k # m
      BY <1>1, <1>2, <2>1, <2>2, <3>1, <3>3
    <3>4. QED BY <3>2, <3>3
  <2>4. file' \in [Module -> Nat]
    BY <1>2, <2>1
  <2>5. QED BY <2>1, <2>2, <2>3, <2>4, FileChanges
<1>4. CASE Loader!WriteFd(m)
  <2>1. /\ file' = Loader!Versioned(m) /\ unseen' = unseen \cup {m}
        /\ UNCHANGED <<absent, moduleCache, imported, loads, loadStack, reentered>>
    BY <1>4 DEF Loader!WriteFd
  <2>2. ASSUME NEW k \in Module
        PROVE
          /\ file'[k] >= file[k]
          /\ moduleCache'[k] # Loader!NoLoad => moduleCache'[k] = moduleCache[k]
          /\ k \in absent /\ k \notin absent' => file'[k] > file[k]
          /\ moduleCache'[k] # moduleCache[k] => file'[k] > file[k] \/ k \in absent'
          /\ moduleCache'[k] # Loader!NoLoad =>
                k \in unseen' \/ (k \notin unseen /\ file'[k] = file[k])
    <3>1. file[k] \in Nat /\ file'[k] \in Nat /\ file'[k] >= file[k]
      BY <1>1, <1>2, <2>1
    <3>2. CASE k = m
      BY <1>1, <1>2, <2>1, <3>1, <3>2
    <3>3. CASE k # m
      BY <1>1, <1>2, <2>1, <3>1, <3>3
    <3>4. QED BY <3>2, <3>3
  <2>3. file' \in [Module -> Nat] /\ moduleCache' \in [Module -> {Loader!NoLoad} \cup Loader!Ids]
    BY <1>1, <1>2, <2>1
  <2>4. QED BY <2>1, <2>2, <2>3, FileChanges
<1>5. CASE Loader!Unlink(m)
  <2>1. /\ absent' = absent \cup {m} /\ moduleCache' = Loader!Evicted(m)
        /\ unseen' = unseen \ {m} /\ UNCHANGED <<file, imported, loads, loadStack, reentered>>
    BY <1>5 DEF Loader!Unlink
  <2>2. /\ moduleCache' \in [Module -> {Loader!NoLoad} \cup Loader!Ids] /\ moduleCache'[m] = Loader!NoLoad
        /\ \A k \in Module : k # m => moduleCache'[k] = moduleCache[k]
    BY <1>1, <2>1 DEF Loader!Evicted
  <2>3. QED BY <1>1, <2>1, <2>2, FileChanges
<1>6. ASSUME NEW n \in Module, Loader!Rename(m, n) PROVE LoaderInv'
  <2>1. /\ m # n /\ file' = Loader!Versioned(n) /\ absent' = (absent \ {n}) \cup {m}
        /\ moduleCache' = Loader!Renamed(m, n) /\ unseen' = unseen \ {m, n}
        /\ UNCHANGED <<imported, loads, loadStack, reentered>>
    BY <1>6 DEF Loader!Rename
  <2>2. /\ moduleCache' \in [Module -> {Loader!NoLoad} \cup Loader!Ids]
        /\ moduleCache'[m] = Loader!NoLoad /\ moduleCache'[n] = Loader!NoLoad
        /\ \A k \in Module : k # m /\ k # n => moduleCache'[k] = moduleCache[k]
    BY <1>1, <2>1 DEF Loader!Evicted, Loader!Renamed
  <2>3. ASSUME NEW k \in Module
        PROVE
          /\ file'[k] >= file[k]
          /\ moduleCache'[k] # Loader!NoLoad => moduleCache'[k] = moduleCache[k]
          /\ k \in absent /\ k \notin absent' => file'[k] > file[k]
          /\ moduleCache'[k] # moduleCache[k] => file'[k] > file[k] \/ k \in absent'
          /\ moduleCache'[k] # Loader!NoLoad =>
                k \in unseen' \/ (k \notin unseen /\ file'[k] = file[k])
    <3>1. file[k] \in Nat /\ file'[k] \in Nat /\ file'[k] >= file[k]
      BY <1>1, <1>2, <2>1
    <3>2. CASE k = m
      BY <1>1, <1>2, <2>1, <2>2, <3>1, <3>2
    <3>3. CASE k = n
      BY <1>1, <1>2, <2>1, <2>2, <3>1, <3>3
    <3>4. CASE k # m /\ k # n
      BY <1>1, <1>2, <2>1, <2>2, <3>1, <3>4
    <3>5. QED BY <3>2, <3>3, <3>4
  <2>4. file' \in [Module -> Nat]
    BY <1>2, <2>1
  <2>5. QED BY <2>1, <2>2, <2>3, <2>4, FileChanges
<1>7. QED BY <1>3, <1>4, <1>5, <1>6

-----------------------------------------------------------------------------
\* Nothing is loaded before the first load.
LEMMA LoaderStarts ==
  ASSUME LoaderAssumed, Loader!Init
  PROVE  LoaderInv
<1>1. PICK m \in Module : m = CHOOSE k \in Module : TRUE
  BY DEF LoaderAssumed
<1>2. \A l \in Loader!Ids : loads[l].at = "none" /\ loads[l].version = 0
  BY DEF Loader!Init
<1>3. \A l \in Loader!Ids : loads[l].via = "require" /\ loads[l].of = m
  BY <1>1 DEF Loader!Init
<1>4. /\ file = [k \in Module |-> 1] /\ loadStack = << >>
      /\ moduleCache = [k \in Module |-> Loader!NoLoad] /\ imported = moduleCache
  BY DEF Loader!Init
<1>5. LoadsTyped
  <2>1. loads \in [Loader!Ids -> LoadOf]
    <3>1. [at : {"none"}, of : {m}, version : {0}, via : {"require"}] \subseteq LoadOf
      BY DEF LoadOf
    <3>2. QED BY <1>1, <3>1 DEF Loader!Init
  <2>2. QED BY <1>4, <2>1 DEF LoadsTyped
<1>6. RunningInv /\ WaitingInv /\ CachedInv
  BY <1>2, <1>4 DEF RunningInv, WaitingInv, CachedInv
<1>7. VersionsInv /\ PromisesInv
  BY <1>2, <1>4 DEF VersionsInv, PromisesInv, LoaderActive
<1>8. QED BY <1>5, <1>6, <1>7 DEF LoaderInv

LEMMA LoaderKeeps ==
  ASSUME LoaderAssumed, LoaderInv, [Loader!Next]_(Loader!vars)
  PROVE  LoaderInv'
<1>1. CASE Loader!Finish \/ Loader!Throw
  BY <1>1, EndKeeps
<1>2. ASSUME NEW m \in Module, Loader!Require(m)
      PROVE  LoaderInv'
  BY <1>2, RequireKeeps
<1>3. ASSUME NEW m \in Module, Loader!Import(m)
      PROVE  LoaderInv'
  BY <1>3, ImportKeeps
<1>4. ASSUME NEW m \in Module, Loader!Forget(m)
      PROVE  LoaderInv'
  BY <1>4, ForgetKeeps
<1>5. ASSUME NEW m \in Module,
             \/ Loader!WriteFile(m) \/ Loader!WriteFd(m) \/ Loader!Unlink(m)
             \/ \E n \in Module : Loader!Rename(m, n)
      PROVE  LoaderInv'
  BY <1>5, FilesKeep
<1>6. ASSUME NEW l \in Loader!Ids, Loader!Transpiled(l)
      PROVE  LoaderInv'
  BY <1>6, TranspiledKeeps
<1>7. CASE UNCHANGED Loader!vars
  BY <1>7 DEF Loader!vars, LoaderInv, LoadsTyped, RunningInv, WaitingInv, CachedInv, VersionsInv,
              PromisesInv
<1>8. QED BY <1>1, <1>2, <1>3, <1>4, <1>5, <1>6, <1>7 DEF Loader!Next

\* What the invariant says of the cache and of the promises.
LEMMA LoaderIsTrue ==
  ASSUME LoaderAssumed, LoaderInv
  PROVE  Loader!CacheIsTrue /\ Loader!ImportedOnce
<1>1. LoadsTyped /\ RunningInv /\ WaitingInv /\ CachedInv /\ VersionsInv /\ PromisesInv
  BY DEF LoaderInv
<1>2. ASSUME NEW m \in Module, moduleCache[m] # Loader!NoLoad
      PROVE  /\ \/ loads[moduleCache[m]].at = "done"
                \/ moduleCache[m] \in Loader!ToSet(loadStack)
             /\ m \notin unseen => loads[moduleCache[m]].version = file[m]
  <2>1. /\ moduleCache[m] \in Loader!Ids /\ loads[moduleCache[m]].at \in {"done", "running"}
        /\ m \notin unseen => loads[moduleCache[m]].version = file[m]
    BY <1>1, <1>2 DEF LoadsTyped, CachedInv
  <2>2. loads[moduleCache[m]].at = "running" => moduleCache[m] \in Loader!ToSet(loadStack)
    <3> HAVE loads[moduleCache[m]].at = "running"
    <3>1. PICK i \in 1 .. Len(loadStack) : loadStack[i] = moduleCache[m]
      BY <1>1, <2>1 DEF RunningInv
    <3>2. i \in DOMAIN loadStack
      BY <1>1 DEF LoadsTyped
    <3>3. QED BY <3>1, <3>2 DEF Loader!ToSet
  <2>3. QED BY <2>1, <2>2
<1>3. ASSUME NEW j \in DOMAIN loadStack, NEW k \in DOMAIN loadStack, j < k,
             loads[loadStack[j]].via = "require", loads[loadStack[k]].via = "require",
             loads[loadStack[j]].of = loads[loadStack[k]].of
      PROVE  loads[loadStack[j]].version # loads[loadStack[k]].version
  <2>1. j \in 1 .. Len(loadStack) /\ k \in 1 .. Len(loadStack)
    BY <1>1 DEF LoadsTyped
  <2>2. loads[loadStack[j]].version < loads[loadStack[k]].version
    BY <1>1, <1>3, <2>1 DEF VersionsInv
  <2>3. loads[loadStack[j]].version \in Nat
    BY <1>1, <2>1 DEF LoadsTyped, LoadOf
  <2>4. QED BY <2>2, <2>3
<1>4. Loader!CacheIsTrue
  BY <1>2, <1>3 DEF Loader!CacheIsTrue
<1>5. Loader!ImportedOnce
  BY <1>1 DEF Loader!ImportedOnce, PromisesInv, LoaderActive
<1>6. QED BY <1>4, <1>5

(* What require() finds in the cache is the file as it is, loaded or on its *)
(* way, and a cycle loads nothing twice: for any modules, loads, versions.  *)
THEOREM CacheIsTrueAlways ==
  ASSUME LoaderAssumed
  PROVE  Loader!Spec => []Loader!CacheIsTrue
<1>1. Loader!Init => LoaderInv
  BY LoaderStarts
<1>2. LoaderInv /\ [Loader!Next]_(Loader!vars) => LoaderInv'
  BY LoaderKeeps
<1>3. LoaderInv => Loader!CacheIsTrue
  BY LoaderIsTrue
<1>4. QED BY <1>1, <1>2, <1>3, PTL DEF Loader!Spec

(* A module is evaluated once for all who import it, failures apart, unless *)
(* it is imported while an import runs it.                                  *)
THEOREM ImportedOnceAlways ==
  ASSUME LoaderAssumed
  PROVE  Loader!Spec => []Loader!ImportedOnce
<1>1. Loader!Init => LoaderInv
  BY LoaderStarts
<1>2. LoaderInv /\ [Loader!Next]_(Loader!vars) => LoaderInv'
  BY LoaderKeeps
<1>3. LoaderInv => Loader!ImportedOnce
  BY LoaderIsTrue
<1>4. QED BY <1>1, <1>2, <1>3, PTL DEF Loader!Spec

-----------------------------------------------------------------------------
CONSTANTS
  MaxLevel, Trees, Cwd, MaxResolve, MaxScript

VARIABLES
  where, mode, prev, dirs, load, script, scripts, run, detoured, cut,
  bundled, found

Resolver == INSTANCE Resolution WITH
  MaxDepth <- MaxLevel, MaxLoad <- MaxResolve, tree <- where, crossed <-
  detoured, last <- found

(* Resolution: whom a search for a package is made for, and what it finds.  *)

\* What a package exports, and which files it names, its package.json says.
ResolverAssumed ==
  /\ MaxLevel \in Nat /\ MaxResolve \in Nat /\ MaxScript \in Nat /\ Cwd \in Resolver!Dir
  /\ Trees \subseteq [Resolver!Dir -> Resolver!PackageType]
  /\ \A t \in Trees : \A d \in Resolver!Dir : ~t[d].json => t[d].exports = {} /\ t[d].fields = {}

LoadRecord == [at : {"none", "waiting", "running", "bundling", "done", "refused"},
               kind : {"plain", "esm", "tla"}, home : Resolver!Dir]

ResolverTyped ==
  /\ where \in Trees /\ mode \in Resolver!Mode /\ prev \in [Resolver!Load -> Resolver!Mode]
  /\ dirs \in Seq(Resolver!Dir) /\ run \in Seq(Resolver!Load) /\ load \in [Resolver!Load -> LoadRecord]
  /\ script \in Resolver!Dir \cup {Resolver!NoScript} /\ bundled \in BOOLEAN
  /\ found.base \in Resolver!Dir /\ found.subpath \in Resolver!Subpath /\ found.mode \in Resolver!Mode

(* The modules whose code runs are those of run, each once; before the first*)
(* script nothing is loaded.                                                *)
ResolverRunsInv ==
  /\ \A i \in 1 .. Len(run) : load[run[i]].at = "running"
  /\ \A i, j \in 1 .. Len(run) : run[i] = run[j] => i = j
  /\ \A l \in Resolver!Load : load[l].at = "running" => \E i \in 1 .. Len(run) : run[i] = l
  /\ script = Resolver!NoScript => \A l \in Resolver!Load : load[l].at = "none"

CountInv ==
  ~cut => Len(dirs) = Cardinality(Resolver!InProgress) + (IF script = Resolver!NoScript THEN 0 ELSE 1)

\* The directories of the loads that run, or of the one that waits.
Waits(l) == load[l].at \in {"waiting", "bundling"}
OwnDirs ==
  /\ Len(dirs) = Len(run) + 1 /\ dirs[1] = script
  /\ \A i \in 1 .. Len(run) : dirs[i + 1] = load[run[i]].home
WaitingDirs(l) ==
  /\ Waits(l) /\ Resolver!InProgress = {l} /\ run = << >>
  /\ Len(dirs) = 2 /\ dirs[1] = script /\ dirs[2] = load[l].home
DirsInv ==
  ~detoured /\ ~cut /\ script # Resolver!NoScript =>
    \/ OwnDirs /\ \A l \in Resolver!Load : ~Waits(l)
    \/ \E l \in Resolver!Load : WaitingDirs(l)

(* One bundle at a time finds the mode of require, and puts it back.        *)
ModeInv ==
  ~bundled =>
    /\ \A k, l \in Resolver!Load : load[k].at = "bundling" /\ load[l].at = "bundling" => k = l
    /\ \A l \in Resolver!Load : load[l].at = "bundling" => mode = "import" /\ prev[l] = "require"
    /\ (\A l \in Resolver!Load : load[l].at # "bundling") => mode = "require"

LastInv ==
  /\ found.by # "none" => found.file = Resolver!Resolve(found.base, found.subpath, found.mode)
  /\ ~detoured /\ ~cut => found.base = IF found.own THEN found.home ELSE found.body
  /\ found.by = "require" => found.mode = "require"
  /\ found.by = "import" => found.mode = "import"
  /\ found.by = "bundle" /\ ~bundled => found.mode = "import"

ResolverInv ==
  ResolverTyped /\ ResolverRunsInv /\ CountInv /\ DirsInv /\ ModeInv /\ LastInv

-----------------------------------------------------------------------------
\* A set of depths that is not empty has a greatest member.
LEMMA Deepest ==
  ASSUME NEW n \in Nat, NEW S \in SUBSET (0 .. n), S # {}
  PROVE  \E d \in S : \A e \in S : e <= d
<1> DEFINE T == {k \in Nat : n - k \in S}
<1>1. T # {}
  <2>1. PICK d \in S : TRUE
    OBVIOUS
  <2>2. n - d \in Nat /\ n - (n - d) = d
    OBVIOUS
  <2>3. QED BY <2>1, <2>2
<1>2. PICK k \in T : \A j \in T : ~(<<j, k>> \in OpToRel(<, Nat))
  BY <1>1, WFMin, NatLessThanWellFounded
<1>3. \A j \in T : ~(j < k)
  BY <1>2 DEF OpToRel
<1>4. n - k \in S /\ \A e \in S : e <= n - k
  <2>1. n - k \in S
    OBVIOUS
  <2>2. ASSUME NEW e \in S PROVE e <= n - k
    <3>1. n - e \in Nat /\ n - (n - e) = e
      OBVIOUS
    <3>2. n - e \in T
      BY <3>1
    <3>3. ~(n - e < k)
      BY <1>3, <3>2
    <3>4. k \in Nat /\ e \in Nat
      OBVIOUS
    <3>5. QED BY <3>3, <3>4
  <2>3. QED BY <2>1, <2>2
<1>5. QED BY <1>4

\* A package that has what is asked for is found to have it.
LEMMA HasIsFound ==
  ASSUME NEW p \in Resolver!PackageType, NEW s \in Resolver!Subpath, NEW m \in Resolver!Mode, Resolver!Has(p, s, m),
         ~p.json => p.exports = {} /\ p.fields = {}
  PROVE  Resolver!InPackage(p, s, m) # "none"
<1>1. "none" \notin p.files
  BY DEF Resolver!PackageType
<1>2. p.exports \subseteq Resolver!Subpath /\ p.fields \subseteq {"main", "module"}
  BY DEF Resolver!PackageType
<1>3. CASE p.exports # {} /\ s = "."
  <2>1. Resolver!InPackage(p, s, m) = Resolver!FirstOf(p, Resolver!Target(p, s, m), Resolver!Direct(p))
    BY <1>3 DEF Resolver!InPackage
  <2>2. \/ Resolver!Target(p, s, m) \in p.files
        \/ Resolver!Direct(p) \in p.files
    BY <1>2, <1>3 DEF Resolver!Has, Resolver!Direct, Resolver!Subpath
  <2>3. QED BY <1>1, <2>1, <2>2 DEF Resolver!FirstOf
<1>4. CASE p.exports # {} /\ s = "sub"
  <2>1. Resolver!Target(p, s, m) \in p.files
    BY <1>4 DEF Resolver!Has
  <2>2. QED BY <1>1, <1>4, <2>1 DEF Resolver!InPackage, Resolver!FirstOf
<1>5. CASE p.exports = {} /\ s = "sub"
  <2>1. "sub" \in p.files
    BY <1>1, <1>5 DEF Resolver!Has, Resolver!Target
  <2>2. QED BY <1>5, <2>1 DEF Resolver!InPackage, Resolver!FirstOf
<1>6. CASE p.exports = {} /\ s = "."
  <2>1. \/ "index" \in p.files
        \/ "main" \in p.fields \cap p.files
        \/ "module" \in p.fields \cap p.files
    BY <1>1, <1>6 DEF Resolver!Has, Resolver!Target
  <2>2. p.json => Resolver!Entry(p) \in p.files \/ Resolver!Direct(p) \in p.files
    BY <2>1 DEF Resolver!Entry, Resolver!Direct
  <2>3. ~p.json => Resolver!Direct(p) \in p.files
    BY <2>1 DEF Resolver!Direct
  <2>4. Resolver!InPackage(p, s, m) = IF p.json THEN Resolver!FirstOf(p, Resolver!Entry(p), Resolver!Direct(p))
                             ELSE Resolver!FirstOf(p, Resolver!Direct(p), "none")
    BY <1>6 DEF Resolver!InPackage
  <2>5. CASE p.json
    BY <1>1, <2>2, <2>4, <2>5 DEF Resolver!FirstOf
  <2>6. CASE ~p.json
    BY <1>1, <2>3, <2>4, <2>6 DEF Resolver!FirstOf
  <2>7. QED BY <2>5, <2>6
<1>7. QED BY <1>3, <1>4, <1>5, <1>6 DEF Resolver!Subpath

\* The file of a subpath is entered by that subpath.
LEMMA SubIsExported ==
  ASSUME NEW p \in Resolver!PackageType, NEW s \in Resolver!Subpath, NEW m \in Resolver!Mode,
         Resolver!InPackage(p, s, m) = "sub", p.exports # {}
  PROVE  s \in p.exports
<1>1. Resolver!Target(p, s, m) \in {"none", m, "main", "sub"} /\ m # "sub"
  BY DEF Resolver!Target, Resolver!Mode
<1>2. Resolver!Direct(p) # "sub"
  BY DEF Resolver!Direct
<1>3. CASE s = "."
  <2>1. Resolver!Target(p, s, m) # "sub"
    BY <1>1, <1>3 DEF Resolver!Target
  <2>2. QED BY <1>2, <1>3, <2>1 DEF Resolver!InPackage, Resolver!FirstOf
<1>4. CASE s = "sub"
  <2>1. Resolver!Target(p, s, m) = "sub"
    BY <1>4 DEF Resolver!InPackage, Resolver!FirstOf
  <2>2. QED BY <2>1 DEF Resolver!Target
<1>5. QED BY <1>3, <1>4 DEF Resolver!Subpath

\* The search ends in the deepest directory that has what is asked for.
LEMMA NearestOne ==
  ASSUME ResolverAssumed, where \in Trees,
         NEW base \in Resolver!Dir, NEW s \in Resolver!Subpath, NEW m \in Resolver!Mode
  PROVE  /\ \A d \in 1 .. base :
              Resolver!Has(where[d], s, m) =>
                /\ Resolver!Resolve(base, s, m) # Resolver!NoFile /\ Resolver!Resolve(base, s, m).dir >= d
         /\ LET f == Resolver!Resolve(base, s, m)
            IN  f.name = "sub" /\ where[f.dir].exports # {} => s \in where[f.dir].exports
<1> DEFINE hits == {d \in Resolver!Searched(base) : Resolver!InPackage(where[d], s, m) # "none"}
           best == CHOOSE d \in hits : \A e \in hits : e <= d
<1>1. \A d \in Resolver!Dir : /\ where[d] \in Resolver!PackageType
                              /\ ~where[d].json => where[d].exports = {} /\ where[d].fields = {}
  BY DEF ResolverAssumed
<1>2. MaxLevel \in Nat /\ Resolver!Searched(base) \subseteq Resolver!Dir
  BY DEF ResolverAssumed, Resolver!Searched, Resolver!Dir
<1>3. hits # {} => best \in hits /\ \A e \in hits : e <= best
  <2>1. hits \in SUBSET (0 .. MaxLevel)
    BY <1>2 DEF Resolver!Dir
  <2>2. hits # {} => \E d \in hits : \A e \in hits : e <= d
    BY <1>2, <2>1, Deepest
  <2>3. QED BY <2>2
<1>4. Resolver!Resolve(base, s, m) = IF hits = {} THEN Resolver!NoFile
                            ELSE [dir |-> best, name |-> Resolver!InPackage(where[best], s, m)]
  BY DEF Resolver!Resolve
<1>5. hits \subseteq Resolver!Dir
  BY <1>2
<1>6. ASSUME NEW d \in 1 .. base, Resolver!Has(where[d], s, m)
      PROVE  d \in hits
  <2>1. d \in Resolver!Searched(base) /\ d \in Resolver!Dir
    BY <1>2 DEF Resolver!Searched, Resolver!Dir
  <2>2. Resolver!InPackage(where[d], s, m) # "none"
    BY <1>1, <1>6, <2>1, HasIsFound
  <2>3. QED BY <2>1, <2>2
<1>7. hits # {} => Resolver!InPackage(where[best], s, m) # "none"
  BY <1>3
<1> HIDE DEF hits, best
<1>8. ASSUME NEW d \in 1 .. base, Resolver!Has(where[d], s, m)
      PROVE  Resolver!Resolve(base, s, m) # Resolver!NoFile /\ Resolver!Resolve(base, s, m).dir >= d
  <2>1. d \in hits /\ best \in hits /\ d <= best
    BY <1>3, <1>6, <1>8
  <2>2. best \in Nat /\ d \in Nat
    BY <1>5, <2>1 DEF Resolver!Dir
  <2>3. Resolver!Resolve(base, s, m).dir = best
    BY <1>4, <2>1
  <2>4. Resolver!Resolve(base, s, m) # Resolver!NoFile
    BY <2>2, <2>3 DEF Resolver!NoFile
  <2>5. QED BY <2>1, <2>2, <2>3, <2>4
<1>9. ASSUME Resolver!Resolve(base, s, m).name = "sub",
             where[Resolver!Resolve(base, s, m).dir].exports # {}
      PROVE  s \in where[Resolver!Resolve(base, s, m).dir].exports
  <2>1. hits # {}
    BY <1>4, <1>9 DEF Resolver!NoFile
  <2>2. Resolver!Resolve(base, s, m).dir = best /\ Resolver!InPackage(where[best], s, m) = "sub"
    BY <1>4, <1>9, <2>1
  <2>3. where[best] \in Resolver!PackageType
    BY <1>1, <1>3, <1>5, <2>1
  <2>4. QED BY <1>9, <2>2, <2>3, SubIsExported
<1>10. QED BY <1>8, <1>9

-----------------------------------------------------------------------------
\* What is left of a sequence without its last.
LEMMA WithoutLast ==
  ASSUME NEW S, NEW s \in Seq(S), s # << >>
  PROVE  /\ Len(s) \in Nat /\ Len(s) >= 1 /\ Resolver!Last(s) = s[Len(s)] /\ Resolver!Last(s) \in S
         /\ Resolver!Front(s) \in Seq(S) /\ Len(Resolver!Front(s)) = Len(s) - 1
         /\ \A i \in 1 .. Len(s) - 1 : Resolver!Front(s)[i] = s[i]
<1> DEFINE n == Len(s)
<1>1. n \in Nat /\ n >= 1 /\ n \in 1 .. n
  BY EmptySeq, LenProperties
<1>2. Resolver!Last(s) = s[n] /\ Resolver!Last(s) \in S
  BY <1>1, ElementOfSeq DEF Resolver!Last
<1>3. \A i \in 1 .. n - 1 : s[i] \in S
  BY <1>1, ElementOfSeq
<1> DEFINE f == Resolver!Front(s)
           m == n - 1
<1>4. f = SubSeq(s, 1, m) /\ m \in Nat /\ \A i \in 1 .. m : s[i] \in S
  BY <1>1, <1>3 DEF Resolver!Front
<1> HIDE DEF f, m
<1>5. /\ f \in Seq(S) /\ Len(f) = IF 1 <= m THEN m - 1 + 1 ELSE 0
      /\ \A i \in 1 .. m - 1 + 1 : f[i] = s[1 + i - 1]
  BY <1>4, SubSeqProperties
<1>6. f \in Seq(S) /\ Len(f) = m /\ \A i \in 1 .. m : f[i] = s[i]
  BY <1>4, <1>5
<1>7. QED BY <1>1, <1>2, <1>6 DEF f, m

\* And of one that has one more.
LEMMA WithOneMore ==
  ASSUME NEW S, NEW s \in Seq(S), NEW e \in S
  PROVE  /\ Append(s, e) \in Seq(S) /\ Len(s) \in Nat /\ Len(Append(s, e)) = Len(s) + 1
         /\ \A i \in 1 .. Len(s) : Append(s, e)[i] = s[i]
         /\ Append(s, e)[Len(s) + 1] = e
  BY AppendProperties

\* The directory of the module whose body runs, and the one that import() starts from.
LEMMA HomeIs ==
  ASSUME ResolverAssumed, ResolverTyped
  PROVE  Resolver!Home = IF run = << >> THEN script ELSE load[Resolver!Last(run)].home
<1>1. run # << >> => Resolver!Last(run) \in Resolver!Load
  BY WithoutLast DEF ResolverTyped
<1>2. run # << >> => Resolver!Last(run) # Resolver!Script
  BY <1>1 DEF Resolver!Load, Resolver!Script, ResolverAssumed
<1>3. QED BY <1>2 DEF Resolver!Home, Resolver!HomeOf, Resolver!Body

LEMMA BaseIsDir ==
  ASSUME ResolverAssumed, ResolverTyped
  PROVE  /\ Resolver!Base \in Resolver!Dir /\ (run # << >> => Resolver!Home \in Resolver!Dir)
         /\ run = << >> /\ script # Resolver!NoScript => Resolver!Home \in Resolver!Dir
<1>1. dirs # << >> => Resolver!Last(dirs) \in Resolver!Dir
  BY WithoutLast DEF ResolverTyped
<1>2. run # << >> => Resolver!Last(run) \in Resolver!Load
  BY WithoutLast DEF ResolverTyped
<1>3. QED BY <1>1, <1>2, HomeIs DEF Resolver!Base, ResolverAssumed, ResolverTyped, LoadRecord

\* A load goes from one place to the next.
LEMMA LoadMoves ==
  ASSUME ResolverTyped, NEW l \in Resolver!Load,
         NEW at \in {"waiting", "running", "bundling", "done", "refused"}, Resolver!At(l, at)
  PROVE  /\ load' \in [Resolver!Load -> LoadRecord] /\ load'[l].at = at
         /\ \A k \in Resolver!Load : load'[k].home = load[k].home
         /\ \A k \in Resolver!Load : k # l => load'[k].at = load[k].at
<1> DEFINE new == [load[l] EXCEPT !.at = at]
<1>1. load \in [Resolver!Load -> LoadRecord] /\ load[l] \in LoadRecord
  BY DEF ResolverTyped
<1>2. new \in LoadRecord /\ new.at = at /\ new.home = load[l].home
  BY <1>1 DEF LoadRecord
<1>3. load' = [load EXCEPT ![l] = new]
  BY DEF Resolver!At
<1> HIDE DEF new
<1>4. /\ load' \in [Resolver!Load -> LoadRecord] /\ load'[l] = new
      /\ \A k \in Resolver!Load : k # l => load'[k] = load[k]
  BY <1>1, <1>2, <1>3
<1>5. QED BY <1>2, <1>4

\* How many loads are in progress, and how many when one of them ends.
LEMMA ProgressIsFinite ==
  ASSUME ResolverAssumed
  PROVE  IsFiniteSet(Resolver!InProgress) /\ Cardinality(Resolver!InProgress) \in Nat
<1>1. IsFiniteSet(Resolver!Load)
  BY FS_Interval DEF Resolver!Load, ResolverAssumed
<1>2. Resolver!InProgress \subseteq Resolver!Load
  BY DEF Resolver!InProgress
<1>3. QED BY <1>1, <1>2, FS_Subset, FS_CardinalityType

LEMMA ProgressEnds ==
  ASSUME ResolverAssumed, ResolverTyped, NEW l \in Resolver!Load, l \in Resolver!InProgress,
         NEW at \in {"done", "refused"}, Resolver!At(l, at)
  PROVE  /\ Resolver!InProgress' = Resolver!InProgress \ {l}
         /\ Cardinality(Resolver!InProgress') = Cardinality(Resolver!InProgress) - 1
         /\ Cardinality(Resolver!InProgress) >= 1
<1>1. Resolver!InProgress' = Resolver!InProgress \ {l}
  BY LoadMoves DEF Resolver!InProgress
<1>2. /\ IsFiniteSet(Resolver!InProgress) /\ Cardinality(Resolver!InProgress) \in Nat
      /\ Cardinality(Resolver!InProgress \ {l}) = Cardinality(Resolver!InProgress) - 1
  BY ProgressIsFinite, FS_RemoveElement
<1>3. Cardinality(Resolver!InProgress) # 0
  BY <1>2, FS_EmptySet
<1>4. QED BY <1>1, <1>2, <1>3

\* What was pushed is popped: the count of the directories comes out even.
LEMMA CountEnds ==
  ASSUME ResolverAssumed, ResolverTyped, CountInv, NEW l \in Resolver!Load, l \in Resolver!InProgress,
         NEW at \in {"done", "refused"}, Resolver!At(l, at), NEW failing \in BOOLEAN, Resolver!Pop(failing),
         UNCHANGED <<script, cut>>
  PROVE  /\ CountInv' /\ dirs' \in Seq(Resolver!Dir)
         /\ ~cut => dirs # << >> /\ dirs' = Resolver!Front(dirs)
<1>1. /\ Cardinality(Resolver!InProgress') = Cardinality(Resolver!InProgress) - 1
      /\ Cardinality(Resolver!InProgress) >= 1 /\ Cardinality(Resolver!InProgress) \in Nat
  BY ProgressEnds, ProgressIsFinite
<1>2. dirs' \in Seq(Resolver!Dir)
  BY WithoutLast DEF Resolver!Pop, ResolverTyped
<1>3. ~cut => dirs # << >>
  <2>1. ~cut => Len(dirs) = Cardinality(Resolver!InProgress) + (IF script = Resolver!NoScript THEN 0 ELSE 1)
    BY DEF CountInv
  <2>2. ~cut => Len(dirs) # 0
    BY <1>1, <2>1
  <2>3. QED BY <2>2, EmptySeq
<1>4. ~cut => dirs' = Resolver!Front(dirs)
  BY <1>3 DEF Resolver!Pop
<1>5. CountInv'
  <2>1. ~cut => Len(dirs') = Len(dirs) - 1
    BY <1>3, <1>4, WithoutLast DEF ResolverTyped
  <2>2. ~cut => Len(dirs) = Cardinality(Resolver!InProgress) + (IF script = Resolver!NoScript THEN 0 ELSE 1)
    BY DEF CountInv
  <2>3. ~cut => Len(dirs') = Cardinality(Resolver!InProgress') + (IF script = Resolver!NoScript THEN 0 ELSE 1)
    BY <1>1, <2>1, <2>2
  <2>4. QED BY <2>3 DEF CountInv
<1>6. QED BY <1>2, <1>3, <1>4, <1>5

-----------------------------------------------------------------------------
\* What is remembered of the search of a step, when it makes one and when not.
LEMMA SearchIsKept ==
  ASSUME ResolverTyped, NEW by \in {"require", "import", "bundle", "resolve"},
         NEW home, NEW own \in BOOLEAN, NEW base \in Resolver!Dir, NEW m \in Resolver!Mode, NEW s \in Resolver!Subpath,
         Resolver!Resolved(by, home, own, base, m, s), where' = where,
         ~detoured' /\ ~cut' => base = IF own THEN home ELSE Resolver!Home,
         by = "require" => m = "require", by = "import" => m = "import",
         by = "bundle" /\ ~bundled' => m = "import"
  PROVE  LastInv' /\ found'.base \in Resolver!Dir /\ found'.subpath \in Resolver!Subpath /\ found'.mode \in Resolver!Mode
<1>1. /\ found'.by = by /\ found'.home = home /\ found'.own = own
      /\ found'.body = (IF own THEN home ELSE Resolver!Home) /\ found'.base = base /\ found'.mode = m
      /\ found'.subpath = s /\ found'.file = Resolver!Resolve(base, s, m)
  BY DEF Resolver!Resolved
<1>2. where' = where
  OBVIOUS
<1>3. (found.file = Resolver!Resolve(found.base, found.subpath, found.mode))'
  BY <1>1, <1>2 DEF Resolver!Resolve
<1>4. /\ found'.base \in Resolver!Dir /\ found'.subpath \in Resolver!Subpath /\ found'.mode \in Resolver!Mode
      /\ (~detoured /\ ~cut => found.base = IF found.own THEN found.home ELSE found.body)'
      /\ (found.by = "require" => found.mode = "require")'
      /\ (found.by = "import" => found.mode = "import")'
      /\ (found.by = "bundle" /\ ~bundled => found.mode = "import")'
  BY <1>1
<1>5. QED BY <1>3, <1>4 DEF LastInv

LEMMA LastIsKept ==
  ASSUME LastInv, UNCHANGED <<where, found>>,
         detoured => detoured', cut => cut', bundled => bundled'
  PROVE  LastInv'
<1>1. Resolver!Resolve(found.base, found.subpath, found.mode)'
        = Resolver!Resolve(found.base, found.subpath, found.mode)
  BY DEF Resolver!Resolve
<1>2. QED BY <1>1 DEF LastInv

LEMMA NothingIsLast ==
  ASSUME ResolverAssumed, found' = Resolver!Nothing
  PROVE  LastInv' /\ found'.base \in Resolver!Dir /\ found'.subpath \in Resolver!Subpath /\ found'.mode \in Resolver!Mode
<1>1. 0 \in Resolver!Dir
  BY DEF Resolver!Dir, ResolverAssumed
<1>2. QED BY <1>1 DEF LastInv, Resolver!Nothing, Resolver!Subpath, Resolver!Mode

\* Where no load waits, import() starts from the module that asks.
LEMMA OwnBase ==
  ASSUME ResolverAssumed, ResolverTyped, OwnDirs
  PROVE  Resolver!Base = Resolver!Home
<1>1. Len(run) \in Nat /\ Len(dirs) = Len(run) + 1 /\ dirs[1] = script
      /\ \A i \in 1 .. Len(run) : dirs[i + 1] = load[run[i]].home
  BY LenProperties DEF OwnDirs, ResolverTyped
<1>2. dirs # << >> /\ Resolver!Last(dirs) = dirs[Len(run) + 1]
  <2>1. dirs # << >>
    BY <1>1, EmptySeq
  <2>2. QED BY <1>1, <2>1 DEF Resolver!Last
<1>3. CASE run = << >>
  BY <1>1, <1>2, <1>3, HomeIs DEF Resolver!Base
<1>4. CASE run # << >>
  <2>1. Len(run) >= 1 /\ Resolver!Last(run) = run[Len(run)]
    BY <1>4, WithoutLast DEF ResolverTyped
  <2>2. dirs[Len(run) + 1] = load[run[Len(run)]].home
    BY <1>1, <2>1
  <2>3. QED BY <1>2, <1>4, <2>1, <2>2, HomeIs DEF Resolver!Base
<1>5. QED BY <1>3, <1>4

\* A script is run.
LEMMA RunScriptKeeps ==
  ASSUME ResolverAssumed, ResolverInv, NEW h \in Resolver!Dir, Resolver!RunScript(h)
  PROVE  ResolverInv'
<1>1. /\ run = << >> /\ dirs' = <<h>> /\ script' = h /\ cut' = (cut \/ Resolver!InProgress # {})
      /\ UNCHANGED <<where, mode, prev, load, run, detoured, bundled>>
      /\ found' = Resolver!Nothing
  BY DEF Resolver!RunScript
<1>2. ResolverTyped /\ ResolverRunsInv /\ ModeInv /\ LastInv
  BY DEF ResolverInv
<1>3. h # Resolver!NoScript /\ dirs' \in Seq(Resolver!Dir) /\ Len(dirs') = 1 /\ dirs'[1] = h
  BY <1>1 DEF Resolver!Dir, Resolver!NoScript, ResolverAssumed
<1>4. ResolverTyped'
  BY <1>1, <1>2, <1>3, NothingIsLast DEF ResolverTyped
<1>5. ResolverRunsInv' /\ ModeInv'
  BY <1>1, <1>2, <1>3 DEF ResolverRunsInv, ModeInv
<1>6. Resolver!InProgress' = Resolver!InProgress
  BY <1>1 DEF Resolver!InProgress
<1>7. CountInv'
  <2>1. ~cut' => Cardinality(Resolver!InProgress') = 0
    BY <1>1, <1>6, FS_EmptySet
  <2>2. QED BY <1>1, <1>3, <2>1 DEF CountInv
<1>8. DirsInv'
  <2>1. OwnDirs'
    <3>1. Len(run') = 0
      BY <1>1
    <3>2. QED BY <1>1, <1>3, <3>1 DEF OwnDirs
  <2>2. ~cut' => \A l \in Resolver!Load : ~Waits(l)'
    BY <1>1 DEF Resolver!InProgress, Waits
  <2>3. QED BY <2>1, <2>2 DEF DirsInv
<1>9. LastInv'
  BY <1>1, NothingIsLast
<1>10. QED BY <1>4, <1>5, <1>7, <1>8, <1>9 DEF ResolverInv

\* A load begins: it is one more of those in progress.
LEMMA LoadComes ==
  ASSUME ResolverAssumed, ResolverTyped, NEW l \in Resolver!Load, load[l].at = "none",
         NEW new \in LoadRecord, new.at \in {"running", "waiting"},
         load' = [load EXCEPT ![l] = new]
  PROVE  /\ load' \in [Resolver!Load -> LoadRecord] /\ load'[l] = new
         /\ \A k \in Resolver!Load : k # l => load'[k] = load[k]
         /\ Resolver!InProgress' = Resolver!InProgress \cup {l}
         /\ Cardinality(Resolver!InProgress') = Cardinality(Resolver!InProgress) + 1
<1>1. /\ load' \in [Resolver!Load -> LoadRecord] /\ load'[l] = new
      /\ \A k \in Resolver!Load : k # l => load'[k] = load[k]
  BY DEF ResolverTyped
<1>2. Resolver!InProgress' = Resolver!InProgress \cup {l} /\ l \notin Resolver!InProgress
  BY <1>1 DEF Resolver!InProgress
<1>3. QED BY <1>1, <1>2, ProgressIsFinite, FS_AddElement

LEMMA ResolverImportKeeps ==
  ASSUME ResolverAssumed, ResolverInv, NEW l \in Resolver!Load, NEW kind \in {"plain", "esm", "tla"},
         NEW s \in Resolver!Subpath, NEW h \in Resolver!Dir, NEW of \in Resolver!Load \cup {Resolver!Script},
         Resolver!Import(l, kind, s, h, of)
  PROVE  ResolverInv'
<1> DEFINE new == [at |-> IF kind = "plain" THEN "running" ELSE "waiting",
                   kind |-> kind, home |-> h]
<1>1. /\ script # Resolver!NoScript /\ load[l].at = "none"
      /\ Resolver!Resolved("import", Resolver!HomeOf(of), of = Resolver!Body, Resolver!Base, "import", s)
      /\ dirs' = Append(dirs, h) /\ load' = [load EXCEPT ![l] = new]
      /\ run' = IF kind = "plain" THEN Append(run, l) ELSE run
      /\ detoured' = (\/ detoured
                      \/ kind # "plain" /\ Resolver!InProgress # {}
                      \/ \E k \in Resolver!Load : load[k].at \in {"waiting", "bundling"})
      /\ UNCHANGED <<where, mode, prev, script, cut, bundled>>
  BY DEF Resolver!Import
<1>2. /\ new \in LoadRecord /\ new.home = h
      /\ new.at = IF kind = "plain" THEN "running" ELSE "waiting"
  BY DEF LoadRecord
<1> HIDE DEF new
<1>3. ResolverTyped /\ ResolverRunsInv /\ CountInv /\ DirsInv /\ ModeInv /\ LastInv
  BY DEF ResolverInv
<1>4. /\ load' \in [Resolver!Load -> LoadRecord] /\ load'[l] = new
      /\ \A k \in Resolver!Load : k # l => load'[k] = load[k]
      /\ Resolver!InProgress' = Resolver!InProgress \cup {l}
      /\ Cardinality(Resolver!InProgress') = Cardinality(Resolver!InProgress) + 1
  BY <1>1, <1>2, <1>3, LoadComes
<1>5. /\ dirs' \in Seq(Resolver!Dir) /\ Len(dirs) \in Nat /\ Len(dirs') = Len(dirs) + 1
      /\ \A i \in 1 .. Len(dirs) : dirs'[i] = dirs[i]
      /\ dirs'[Len(dirs) + 1] = h
  BY <1>1, <1>3, WithOneMore DEF ResolverTyped
<1>6. /\ Append(run, l) \in Seq(Resolver!Load) /\ Len(run) \in Nat
      /\ Len(Append(run, l)) = Len(run) + 1
      /\ \A i \in 1 .. Len(run) : Append(run, l)[i] = run[i]
      /\ Append(run, l)[Len(run) + 1] = l
  BY <1>3, WithOneMore DEF ResolverTyped
<1>7. \A i \in 1 .. Len(run) : run[i] \in Resolver!Load /\ run[i] # l
  <2>1. \A i \in 1 .. Len(run) : run[i] \in Resolver!Load
    BY <1>3, <1>6, ElementOfSeq DEF ResolverTyped
  <2>2. QED BY <1>1, <1>3, <2>1 DEF ResolverRunsInv
<1>8. ~detoured' => \A k \in Resolver!Load : ~Waits(k)
  BY <1>1 DEF Waits
<1>9. ~detoured' /\ ~cut => OwnDirs
  BY <1>1, <1>3, <1>8 DEF DirsInv, WaitingDirs
<1>10. LastInv' /\ found'.base \in Resolver!Dir /\ found'.subpath \in Resolver!Subpath /\ found'.mode \in Resolver!Mode
  <2>1. Resolver!Base \in Resolver!Dir
    BY <1>3, BaseIsDir
  <2>2. ~detoured' /\ ~cut' => Resolver!Base = Resolver!Home
    BY <1>1, <1>3, <1>9, OwnBase
  <2>3. of = Resolver!Body => Resolver!HomeOf(of) = Resolver!Home
    BY DEF Resolver!Home
  <2>4. (of = Resolver!Body) \in BOOLEAN /\ "import" \in Resolver!Mode
    BY DEF Resolver!Mode
  <2>5. QED BY <1>1, <1>3, <2>1, <2>2, <2>3, <2>4, SearchIsKept
<1>11. ResolverTyped'
  BY <1>1, <1>3, <1>4, <1>5, <1>6, <1>10 DEF ResolverTyped
<1>12. ResolverRunsInv'
  <2>1. CASE kind = "plain"
    <3>1. run' = Append(run, l) /\ load'[l].at = "running" /\ Len(run') = Len(run) + 1
      BY <1>1, <1>2, <1>4, <1>6, <2>1
    <3>2. \A i \in 1 .. Len(run') : i \in 1 .. Len(run) \/ i = Len(run) + 1
      BY <1>6, <3>1
    <3>3. \A i \in 1 .. Len(run) : run'[i] = run[i] /\ i \in 1 .. Len(run')
      BY <1>6, <3>1
    <3>4. run'[Len(run) + 1] = l /\ Len(run) + 1 \in 1 .. Len(run')
      BY <1>6, <3>1
    <3>5. \A i \in 1 .. Len(run') : load'[run'[i]].at = "running"
      BY <1>3, <1>4, <1>7, <3>1, <3>2, <3>3, <3>4 DEF ResolverRunsInv
    <3>6. \A i, j \in 1 .. Len(run') : run'[i] = run'[j] => i = j
      BY <1>3, <1>7, <3>2, <3>3, <3>4 DEF ResolverRunsInv
    <3>7. \A k \in Resolver!Load : load'[k].at = "running" => \E i \in 1 .. Len(run') : run'[i] = k
      BY <1>3, <1>4, <3>3, <3>4 DEF ResolverRunsInv
    <3>8. QED BY <1>1, <3>5, <3>6, <3>7 DEF ResolverRunsInv
  <2>2. CASE kind # "plain"
    <3>1. run' = run /\ load'[l].at = "waiting"
      BY <1>1, <1>2, <1>4, <2>2
    <3>2. QED BY <1>1, <1>3, <1>4, <1>7, <3>1 DEF ResolverRunsInv
  <2>3. QED BY <2>1, <2>2
<1>13. CountInv'
  <2>1. Cardinality(Resolver!InProgress) \in Nat
    BY ProgressIsFinite
  <2>2. ~cut => Len(dirs) = Cardinality(Resolver!InProgress) + (IF script = Resolver!NoScript THEN 0 ELSE 1)
    BY <1>3 DEF CountInv
  <2>3. ~cut => Len(dirs') = Cardinality(Resolver!InProgress') + (IF script = Resolver!NoScript THEN 0 ELSE 1)
    BY <1>4, <1>5, <2>1, <2>2
  <2>4. QED BY <1>1, <2>3 DEF CountInv
<1>14. DirsInv'
  <2> SUFFICES ASSUME ~detoured', ~cut'
               PROVE  \/ OwnDirs' /\ \A k \in Resolver!Load : ~Waits(k)'
                      \/ \E k \in Resolver!Load : WaitingDirs(k)'
    BY DEF DirsInv
  <2>1. /\ Len(dirs) = Len(run) + 1 /\ dirs[1] = script
        /\ \A i \in 1 .. Len(run) : dirs[i + 1] = load[run[i]].home
    BY <1>1, <1>9 DEF OwnDirs
  <2>2. dirs'[1] = script'
    BY <1>1, <1>5, <1>6, <2>1
  <2>3. CASE kind = "plain"
    <3>1. run' = Append(run, l) /\ load'[l].at = "running" /\ load'[l].home = h
      BY <1>1, <1>2, <1>4, <2>3
    <3>2. \A k \in Resolver!Load : ~Waits(k)'
      BY <1>4, <1>8, <3>1 DEF Waits
    <3>3. Len(dirs') = Len(run') + 1
      BY <1>5, <1>6, <2>1, <3>1
    <3>4. ASSUME NEW i \in 1 .. Len(run') PROVE dirs'[i + 1] = load'[run'[i]].home
      <4>1. CASE i = Len(run) + 1
        BY <1>5, <1>6, <2>1, <3>1, <4>1
      <4>2. CASE i \in 1 .. Len(run)
        <5>1. i + 1 \in 1 .. Len(dirs)
          BY <1>6, <2>1, <4>2
        <5>2. dirs'[i + 1] = load[run[i]].home /\ run'[i] = run[i]
          BY <1>5, <1>6, <2>1, <3>1, <4>2, <5>1
        <5>3. QED BY <1>4, <1>7, <4>2, <5>2
      <4>3. QED BY <1>6, <3>1, <4>1, <4>2
    <3>5. OwnDirs'
      BY <2>2, <3>3, <3>4 DEF OwnDirs
    <3>6. QED BY <3>2, <3>5
  <2>4. CASE kind # "plain"
    <3>1. Resolver!InProgress = {} /\ run' = run /\ load'[l].at = "waiting" /\ load'[l].home = h
      BY <1>1, <1>2, <1>4, <2>4
    <3>2. Len(run) = 0
      <4>1. ASSUME Len(run) # 0 PROVE FALSE
        <5>1. 1 \in 1 .. Len(run)
          BY <1>6, <4>1
        <5>2. run[1] \in Resolver!InProgress
          BY <1>3, <1>7, <5>1 DEF ResolverRunsInv, Resolver!InProgress
        <5>3. QED BY <3>1, <5>2
      <4>2. QED BY <4>1
    <3>3. run = << >>
      BY <1>3, <3>2, EmptySeq DEF ResolverTyped
    <3>4. Len(dirs') = 2 /\ dirs'[2] = h
      BY <1>5, <2>1, <3>2
    <3>5. WaitingDirs(l)'
      BY <1>4, <2>2, <3>1, <3>3, <3>4 DEF WaitingDirs, Waits
    <3>6. QED BY <3>5
  <2>5. QED BY <2>3, <2>4
<1>15. ModeInv'
  <2>1. \A k \in Resolver!Load : load'[k].at = "bundling" <=> load[k].at = "bundling"
    BY <1>1, <1>2, <1>4
  <2>2. QED BY <1>1, <1>3, <2>1 DEF ModeInv
<1>16. QED BY <1>10, <1>11, <1>12, <1>13, <1>14, <1>15 DEF ResolverInv

-----------------------------------------------------------------------------
\* The one load that waits is where DirsInv has it, unless loads have crossed.
LEMMA WaiterIsAlone ==
  ASSUME ResolverTyped, ResolverRunsInv, DirsInv, ~detoured, ~cut, NEW l \in Resolver!Load, Waits(l)
  PROVE  WaitingDirs(l) /\ script # Resolver!NoScript
<1>1. script # Resolver!NoScript
  BY DEF ResolverRunsInv, Waits
<1>2. PICK k \in Resolver!Load : WaitingDirs(k)
  BY <1>1 DEF DirsInv
<1>3. l \in Resolver!InProgress
  BY DEF Resolver!InProgress, Waits
<1>4. l = k
  BY <1>2, <1>3 DEF WaitingDirs
<1>5. QED BY <1>1, <1>2, <1>4

LEMMA ResolverTranspiledKeeps ==
  ASSUME ResolverAssumed, ResolverInv, NEW l \in Resolver!Load, Resolver!Transpiled(l)
  PROVE  ResolverInv'
<1>1. /\ run = << >> /\ load[l].at = "waiting" /\ Resolver!At(l, "running") /\ run' = <<l>>
      /\ UNCHANGED <<where, mode, prev, dirs, script, scripts, cut, detoured, bundled>>
      /\ found' = Resolver!Nothing
  BY DEF Resolver!Transpiled, Resolver!running
<1>2. ResolverTyped /\ ResolverRunsInv /\ CountInv /\ DirsInv /\ ModeInv /\ LastInv
  BY DEF ResolverInv
<1>3. /\ load' \in [Resolver!Load -> LoadRecord] /\ load'[l].at = "running"
      /\ \A k \in Resolver!Load : load'[k].home = load[k].home
      /\ \A k \in Resolver!Load : k # l => load'[k].at = load[k].at
  BY <1>1, <1>2, LoadMoves
<1>4. run' \in Seq(Resolver!Load) /\ Len(run') = 1 /\ run'[1] = l /\ Len(run) = 0
  BY <1>1
<1>5. Resolver!InProgress' = Resolver!InProgress
  BY <1>1, <1>3 DEF Resolver!InProgress
<1>6. ResolverTyped'
  BY <1>1, <1>2, <1>3, <1>4, NothingIsLast DEF ResolverTyped
<1>7. ResolverRunsInv'
  <2>1. \A k \in Resolver!Load : load[k].at # "running"
    BY <1>2, <1>4 DEF ResolverRunsInv
  <2>2. \A i \in 1 .. Len(run') : i = 1
    BY <1>4
  <2>3. script # Resolver!NoScript
    BY <1>1, <1>2 DEF ResolverRunsInv
  <2>4. 1 \in 1 .. Len(run')
    BY <1>4
  <2>5. QED BY <1>1, <1>3, <1>4, <2>1, <2>2, <2>3, <2>4 DEF ResolverRunsInv
<1>8. CountInv'
  BY <1>1, <1>2, <1>5 DEF CountInv
<1>9. DirsInv'
  <2> SUFFICES ASSUME ~detoured', ~cut'
               PROVE  OwnDirs' /\ \A k \in Resolver!Load : ~Waits(k)'
    BY DEF DirsInv
  <2>1. WaitingDirs(l)
    BY <1>1, <1>2, WaiterIsAlone DEF Waits
  <2>2. \A i \in 1 .. Len(run') : i = 1
    BY <1>4
  <2>3. OwnDirs'
    BY <1>1, <1>3, <1>4, <2>1, <2>2 DEF OwnDirs, WaitingDirs
  <2>4. \A k \in Resolver!Load : ~Waits(k)'
    BY <1>3, <2>1 DEF WaitingDirs, Waits, Resolver!InProgress
  <2>5. QED BY <2>3, <2>4
<1>10. ModeInv'
  <2>1. \A k \in Resolver!Load : load'[k].at = "bundling" <=> load[k].at = "bundling"
    BY <1>1, <1>3
  <2>2. QED BY <1>1, <1>2, <2>1 DEF ModeInv
<1>11. LastInv'
  BY <1>1, NothingIsLast
<1>12. QED BY <1>6, <1>7, <1>8, <1>9, <1>10, <1>11 DEF ResolverInv

LEMMA BundleBeginsKeeps ==
  ASSUME ResolverAssumed, ResolverInv, NEW l \in Resolver!Load, Resolver!BundleBegins(l)
  PROVE  ResolverInv'
<1>1. /\ run = << >> /\ load[l].at = "waiting" /\ Resolver!At(l, "bundling")
      /\ prev' = [prev EXCEPT ![l] = mode] /\ mode' = "import"
      /\ bundled' = (bundled \/ \E k \in Resolver!Load : load[k].at = "bundling")
      /\ UNCHANGED <<where, dirs, script, scripts, cut, run, detoured>>
      /\ found' = Resolver!Nothing
  BY DEF Resolver!BundleBegins, Resolver!running
<1>2. ResolverTyped /\ ResolverRunsInv /\ CountInv /\ DirsInv /\ ModeInv /\ LastInv
  BY DEF ResolverInv
<1>3. /\ load' \in [Resolver!Load -> LoadRecord] /\ load'[l].at = "bundling"
      /\ \A k \in Resolver!Load : load'[k].home = load[k].home
      /\ \A k \in Resolver!Load : k # l => load'[k].at = load[k].at
  BY <1>1, <1>2, LoadMoves
<1>4. Resolver!InProgress' = Resolver!InProgress
  BY <1>1, <1>3 DEF Resolver!InProgress
<1>5. ResolverTyped' /\ prev'[l] = mode
  BY <1>1, <1>2, <1>3, NothingIsLast DEF ResolverTyped, Resolver!Mode
<1>6. ResolverRunsInv'
  <2>1. Len(run') = 0
    BY <1>1
  <2>2. \A k \in Resolver!Load : load[k].at # "running"
    BY <1>1, <1>2, <2>1 DEF ResolverRunsInv
  <2>3. script # Resolver!NoScript
    BY <1>1, <1>2 DEF ResolverRunsInv
  <2>4. QED BY <1>1, <1>3, <2>1, <2>2, <2>3 DEF ResolverRunsInv
<1>7. CountInv'
  BY <1>1, <1>2, <1>4 DEF CountInv
<1>8. DirsInv'
  <2> SUFFICES ASSUME ~detoured', ~cut'
               PROVE  WaitingDirs(l)'
    BY DEF DirsInv
  <2>1. WaitingDirs(l)
    BY <1>1, <1>2, WaiterIsAlone DEF Waits
  <2>2. QED BY <1>1, <1>3, <1>4, <2>1 DEF WaitingDirs, Waits
<1>9. ModeInv'
  <2> SUFFICES ASSUME ~bundled'
               PROVE  /\ \A k, j \in Resolver!Load : load'[k].at = "bundling" /\ load'[j].at = "bundling" => k = j
                      /\ \A k \in Resolver!Load : load'[k].at = "bundling" => mode' = "import" /\ prev'[k] = "require"
                      /\ (\A k \in Resolver!Load : load'[k].at # "bundling") => mode' = "require"
    BY DEF ModeInv
  <2>1. ~bundled /\ \A k \in Resolver!Load : load[k].at # "bundling"
    BY <1>1
  <2>2. mode = "require"
    BY <1>2, <2>1 DEF ModeInv
  <2>3. QED BY <1>1, <1>3, <1>5, <2>1, <2>2
<1>10. LastInv'
  BY <1>1, NothingIsLast
<1>11. QED BY <1>5, <1>6, <1>7, <1>8, <1>9, <1>10 DEF ResolverInv

\* A load that waits comes to its end: transpiled by nobody, or bundled.
LEMMA WaiterEnds ==
  ASSUME ResolverAssumed, ResolverInv, NEW l \in Resolver!Load, Waits(l), run = << >>,
         NEW failing \in BOOLEAN, Resolver!Pop(failing),
         NEW at \in {"done", "refused"}, Resolver!At(l, at),
         UNCHANGED <<where, prev, script, scripts, cut, run, detoured, bundled>>,
         found' = Resolver!Nothing,
         mode' = IF load[l].at = "bundling" THEN prev[l] ELSE mode
  PROVE  ResolverInv'
<1>1. ResolverTyped /\ ResolverRunsInv /\ CountInv /\ DirsInv /\ ModeInv /\ LastInv
  BY DEF ResolverInv
<1>2. /\ load' \in [Resolver!Load -> LoadRecord] /\ load'[l].at = at
      /\ \A k \in Resolver!Load : load'[k].home = load[k].home
      /\ \A k \in Resolver!Load : k # l => load'[k].at = load[k].at
  BY <1>1, LoadMoves
<1>3. l \in Resolver!InProgress
  BY DEF Resolver!InProgress, Waits
<1>4. /\ CountInv' /\ dirs' \in Seq(Resolver!Dir)
      /\ ~cut => dirs # << >> /\ dirs' = Resolver!Front(dirs)
  BY <1>1, <1>3, CountEnds
<1>5. ResolverTyped'
  BY <1>1, <1>2, <1>4, NothingIsLast DEF ResolverTyped
<1>6. ResolverRunsInv'
  <2>1. Len(run') = 0
    OBVIOUS
  <2>2. \A k \in Resolver!Load : load[k].at # "running"
    BY <1>1, <2>1 DEF ResolverRunsInv
  <2>3. script # Resolver!NoScript
    BY <1>1 DEF ResolverRunsInv, Waits
  <2>4. QED BY <1>2, <2>1, <2>2, <2>3 DEF ResolverRunsInv
<1>7. DirsInv'
  <2> SUFFICES ASSUME ~detoured', ~cut'
               PROVE  OwnDirs' /\ \A k \in Resolver!Load : ~Waits(k)'
    BY DEF DirsInv
  <2>1. WaitingDirs(l)
    BY <1>1, WaiterIsAlone
  <2>2. Len(dirs) = 2 /\ dirs[1] = script /\ Len(run') = 0
    BY <2>1 DEF WaitingDirs
  <2>3. Len(dirs') = 1 /\ dirs'[1] = dirs[1]
    <3>1. dirs \in Seq(Resolver!Dir) /\ dirs # << >> /\ dirs' = Resolver!Front(dirs)
      BY <1>1, <1>4 DEF ResolverTyped
    <3>2. /\ Len(Resolver!Front(dirs)) = Len(dirs) - 1
          /\ \A i \in 1 .. Len(dirs) - 1 : Resolver!Front(dirs)[i] = dirs[i]
      BY <3>1, WithoutLast
    <3>3. 1 \in 1 .. Len(dirs) - 1 /\ Len(dirs) - 1 = 1
      BY <2>2
    <3>4. QED BY <3>1, <3>2, <3>3
  <2>4. OwnDirs'
    BY <2>2, <2>3 DEF OwnDirs
  <2>5. \A k \in Resolver!Load : ~Waits(k)'
    BY <1>2, <2>1 DEF WaitingDirs, Waits, Resolver!InProgress
  <2>6. QED BY <2>4, <2>5
<1>8. ModeInv'
  <2> SUFFICES ASSUME ~bundled'
               PROVE  /\ \A k, j \in Resolver!Load : load'[k].at = "bundling" /\ load'[j].at = "bundling" => k = j
                      /\ \A k \in Resolver!Load : load'[k].at = "bundling" => mode' = "import" /\ prev'[k] = "require"
                      /\ (\A k \in Resolver!Load : load'[k].at # "bundling") => mode' = "require"
    BY DEF ModeInv
  <2>1. /\ \A k, j \in Resolver!Load : load[k].at = "bundling" /\ load[j].at = "bundling" => k = j
        /\ \A k \in Resolver!Load : load[k].at = "bundling" => mode = "import" /\ prev[k] = "require"
        /\ (\A k \in Resolver!Load : load[k].at # "bundling") => mode = "require"
    BY <1>1 DEF ModeInv
  <2>2. CASE load[l].at = "bundling"
    BY <1>2, <2>1, <2>2
  <2>3. CASE load[l].at # "bundling"
    BY <1>2, <2>1, <2>3
  <2>4. QED BY <2>2, <2>3
<1>9. LastInv'
  BY NothingIsLast
<1>10. QED BY <1>4, <1>5, <1>6, <1>7, <1>8, <1>9 DEF ResolverInv

\* A module's code comes to its end.
LEMMA BodyEndsKeeps ==
  ASSUME ResolverAssumed, ResolverInv, NEW failing \in BOOLEAN, Resolver!BodyEnds(failing)
  PROVE  ResolverInv'
<1> DEFINE l == Resolver!Last(run)
           n == Len(run)
<1>1. /\ run # << >> /\ Resolver!At(l, "done") /\ run' = Resolver!Front(run) /\ Resolver!Pop(failing)
      /\ UNCHANGED <<where, mode, prev, script, scripts, cut, detoured, bundled>>
      /\ found' = Resolver!Nothing
  BY DEF Resolver!BodyEnds
<1>2. ResolverTyped /\ ResolverRunsInv /\ CountInv /\ DirsInv /\ ModeInv /\ LastInv
  BY DEF ResolverInv
<1>3. /\ n \in Nat /\ n >= 1 /\ l = run[n] /\ l \in Resolver!Load
      /\ run' \in Seq(Resolver!Load) /\ Len(run') = n - 1
      /\ \A i \in 1 .. n - 1 : run'[i] = run[i]
  BY <1>1, <1>2, WithoutLast DEF ResolverTyped
<1>4. n \in 1 .. Len(run) /\ \A i \in 1 .. n - 1 : i \in 1 .. Len(run) /\ i # n
  BY <1>3
<1> HIDE DEF l
<1>5. load[l].at = "running"
  BY <1>2, <1>3, <1>4 DEF ResolverRunsInv
<1>6. /\ load' \in [Resolver!Load -> LoadRecord] /\ load'[l].at = "done"
      /\ \A k \in Resolver!Load : load'[k].home = load[k].home
      /\ \A k \in Resolver!Load : k # l => load'[k].at = load[k].at
  BY <1>1, <1>2, <1>3, LoadMoves
<1>7. l \in Resolver!InProgress
  BY <1>3, <1>5 DEF Resolver!InProgress
<1>8. /\ CountInv' /\ dirs' \in Seq(Resolver!Dir)
      /\ ~cut => dirs # << >> /\ dirs' = Resolver!Front(dirs)
  BY <1>1, <1>2, <1>3, <1>7, CountEnds
<1>9. ResolverTyped'
  BY <1>1, <1>2, <1>3, <1>6, <1>8, NothingIsLast DEF ResolverTyped
<1>10. \A i \in 1 .. n - 1 : run[i] # l /\ run[i] \in Resolver!Load
  BY <1>2, <1>3, <1>4, ElementOfSeq DEF ResolverRunsInv, ResolverTyped
<1>11. \A i \in 1 .. Len(run) : i = n \/ i \in 1 .. n - 1
  BY <1>3
<1>12. ResolverRunsInv'
  <2>1. \A i \in 1 .. Len(run') : load'[run'[i]].at = "running"
    <3> TAKE i \in 1 .. Len(run')
    <3>1. i \in 1 .. n - 1 /\ run'[i] = run[i] /\ i \in 1 .. Len(run)
      BY <1>3, <1>4
    <3>2. load[run[i]].at = "running" /\ run[i] # l /\ run[i] \in Resolver!Load
      BY <1>2, <1>10, <3>1 DEF ResolverRunsInv
    <3>3. QED BY <1>6, <3>1, <3>2
  <2>2. \A i, j \in 1 .. Len(run') : run'[i] = run'[j] => i = j
    BY <1>2, <1>3, <1>4 DEF ResolverRunsInv
  <2>3. ASSUME NEW k \in Resolver!Load, load'[k].at = "running"
        PROVE  \E i \in 1 .. Len(run') : run'[i] = k
    <3>1. k # l /\ load[k].at = "running"
      BY <1>6, <2>3
    <3>2. PICK i \in 1 .. Len(run) : run[i] = k
      BY <1>2, <3>1 DEF ResolverRunsInv
    <3>3. i \in 1 .. n - 1
      BY <1>3, <1>11, <3>1, <3>2
    <3>4. QED BY <1>3, <3>2, <3>3
  <2>4. script # Resolver!NoScript
    BY <1>2, <1>3, <1>5 DEF ResolverRunsInv
  <2>5. QED BY <1>1, <2>1, <2>2, <2>3, <2>4 DEF ResolverRunsInv
<1>13. DirsInv'
  <2> SUFFICES ASSUME ~detoured', ~cut', script' # Resolver!NoScript
               PROVE  OwnDirs' /\ \A k \in Resolver!Load : ~Waits(k)'
    BY DEF DirsInv
  <2>1. OwnDirs /\ \A k \in Resolver!Load : ~Waits(k)
    BY <1>1, <1>2 DEF DirsInv, WaitingDirs
  <2>2. /\ Len(dirs) = n + 1 /\ dirs[1] = script
        /\ \A i \in 1 .. n : dirs[i + 1] = load[run[i]].home
    BY <2>1 DEF OwnDirs
  <2>3. Len(dirs') = n /\ \A i \in 1 .. n : dirs'[i] = dirs[i]
    <3>1. dirs \in Seq(Resolver!Dir) /\ dirs # << >> /\ dirs' = Resolver!Front(dirs)
      BY <1>1, <1>2, <1>8 DEF ResolverTyped
    <3>2. /\ Len(Resolver!Front(dirs)) = Len(dirs) - 1
          /\ \A i \in 1 .. Len(dirs) - 1 : Resolver!Front(dirs)[i] = dirs[i]
      BY <3>1, WithoutLast
    <3>3. Len(dirs) - 1 = n
      BY <1>3, <2>2
    <3>4. QED BY <3>1, <3>2, <3>3
  <2>4. dirs'[1] = script'
    BY <1>1, <1>3, <2>2, <2>3
  <2>5. ASSUME NEW i \in 1 .. n - 1 PROVE dirs'[i + 1] = load'[run'[i]].home
    <3>1. i \in 1 .. n /\ i + 1 \in 1 .. n
      BY <1>3
    <3>2. dirs'[i + 1] = load[run[i]].home
      BY <2>2, <2>3, <3>1
    <3>3. QED BY <1>3, <1>6, <1>10, <3>2
  <2>6. OwnDirs'
    BY <1>3, <2>3, <2>4, <2>5 DEF OwnDirs
  <2>7. \A k \in Resolver!Load : ~Waits(k)'
    BY <1>6, <2>1 DEF Waits
  <2>8. QED BY <2>6, <2>7
<1>14. ModeInv'
  <2>1. \A k \in Resolver!Load : load'[k].at = "bundling" <=> load[k].at = "bundling"
    BY <1>3, <1>5, <1>6
  <2>2. QED BY <1>1, <1>2, <2>1 DEF ModeInv
<1>15. LastInv'
  BY <1>1, NothingIsLast
<1>16. QED BY <1>8, <1>9, <1>12, <1>13, <1>14, <1>15 DEF ResolverInv

\* A search by anyone but import() changes nothing else.
LEMMA SearchKeeps ==
  ASSUME ResolverAssumed, ResolverInv,
         NEW by \in {"require", "bundle", "resolve"}, NEW base \in Resolver!Dir, NEW m \in Resolver!Mode,
         NEW s \in Resolver!Subpath, Resolver!Resolved(by, base, TRUE, base, m, s),
         UNCHANGED <<where, mode, prev, Resolver!running, load, run, detoured, bundled>>,
         by = "require" => m = "require", by = "bundle" /\ ~bundled => m = "import"
  PROVE  ResolverInv'
<1>1. ResolverTyped /\ ResolverRunsInv /\ CountInv /\ DirsInv /\ ModeInv /\ LastInv
  BY DEF ResolverInv
<1>2. LastInv' /\ found'.base \in Resolver!Dir /\ found'.subpath \in Resolver!Subpath /\ found'.mode \in Resolver!Mode
  BY <1>1, SearchIsKept
<1>3. UNCHANGED <<dirs, script, scripts, cut>>
  BY DEF Resolver!running
<1>4. ResolverTyped' /\ ResolverRunsInv' /\ ModeInv'
  BY <1>1, <1>2, <1>3 DEF ResolverTyped, ResolverRunsInv, ModeInv
<1>5. Resolver!InProgress' = Resolver!InProgress /\ \A l \in Resolver!Load : Waits(l)' = Waits(l)
  BY DEF Resolver!InProgress, Waits
<1>6. CountInv' /\ DirsInv'
  BY <1>1, <1>3, <1>5 DEF CountInv, DirsInv, OwnDirs, WaitingDirs
<1>7. QED BY <1>2, <1>4, <1>6 DEF ResolverInv

LEMMA ResolverKeeps ==
  ASSUME ResolverAssumed, ResolverInv, [Resolver!Next]_(Resolver!vars)
  PROVE  ResolverInv'
<1>1. ResolverTyped /\ ModeInv
  BY DEF ResolverInv
<1>2. ASSUME NEW h \in Resolver!Dir, Resolver!RunScript(h) PROVE ResolverInv'
  BY <1>2, RunScriptKeeps
<1>3. ASSUME NEW l \in Resolver!Load, NEW kind \in {"plain", "esm", "tla"}, NEW s \in Resolver!Subpath,
             NEW h \in Resolver!Dir, NEW of \in Resolver!Load \cup {Resolver!Script}, Resolver!Import(l, kind, s, h, of)
      PROVE  ResolverInv'
  BY <1>3, ResolverImportKeeps
<1>4. ASSUME NEW l \in Resolver!Load, Resolver!Transpiled(l) PROVE ResolverInv'
  BY <1>4, ResolverTranspiledKeeps
<1>5. ASSUME NEW l \in Resolver!Load, Resolver!BundleBegins(l) PROVE ResolverInv'
  BY <1>5, BundleBeginsKeeps
<1>6. ASSUME NEW l \in Resolver!Load, Resolver!NotTranspiled(l) PROVE ResolverInv'
  BY <1>6, WaiterEnds DEF Resolver!NotTranspiled, Waits
<1>7. ASSUME NEW l \in Resolver!Load, NEW failing \in BOOLEAN, Resolver!BundleEnds(l, failing)
      PROVE  ResolverInv'
  BY <1>7, WaiterEnds DEF Resolver!BundleEnds, Waits, Resolver!ModeBack
<1>8. ASSUME NEW l \in Resolver!Load, NEW s \in Resolver!Subpath, Resolver!BundleResolves(l, s) PROVE ResolverInv'
  <2>1. load[l].home \in Resolver!Dir /\ mode \in Resolver!Mode
    BY <1>1 DEF ResolverTyped, LoadRecord
  <2>2. ~bundled => mode = "import"
    BY <1>1, <1>8 DEF ModeInv, Resolver!BundleResolves
  <2>3. QED BY <1>8, <2>1, <2>2, SearchKeeps DEF Resolver!BundleResolves
<1>9. ASSUME NEW failing \in BOOLEAN, Resolver!BodyEnds(failing) PROVE ResolverInv'
  BY <1>9, BodyEndsKeeps
<1>10. ASSUME NEW s \in Resolver!Subpath, Resolver!Require(s) PROVE ResolverInv'
  <2> DEFINE start == IF run = << >> THEN Cwd ELSE Resolver!Home
  <2>1. start \in Resolver!Dir
    BY <1>1, BaseIsDir DEF ResolverAssumed
  <2>2. /\ Resolver!Resolved("require", start, TRUE, start, "require", s)
        /\ UNCHANGED <<where, mode, prev, Resolver!running, load, run, detoured, bundled>>
    BY <1>10 DEF Resolver!Require
  <2> HIDE DEF start
  <2>3. QED BY <2>1, <2>2, SearchKeeps DEF Resolver!Mode
<1>11. ASSUME NEW s \in Resolver!Subpath, Resolver!RequireResolve(s) PROVE ResolverInv'
  BY <1>1, <1>11, SearchKeeps DEF Resolver!RequireResolve, ResolverAssumed, ResolverTyped
<1>12. CASE UNCHANGED Resolver!vars
  <2>1. UNCHANGED <<where, mode, prev, dirs, script, scripts, cut, load, run, detoured,
                    bundled, found>>
    BY <1>12 DEF Resolver!vars, Resolver!running
  <2>2. ResolverTyped /\ ResolverRunsInv /\ CountInv /\ DirsInv /\ ModeInv /\ LastInv
    BY DEF ResolverInv
  <2>3. Resolver!InProgress' = Resolver!InProgress /\ \A l \in Resolver!Load : Waits(l)' = Waits(l)
    BY <2>1 DEF Resolver!InProgress, Waits
  <2>4. ResolverTyped' /\ ResolverRunsInv' /\ ModeInv'
    BY <2>1, <2>2 DEF ResolverTyped, ResolverRunsInv, ModeInv
  <2>5. CountInv' /\ DirsInv'
    BY <2>1, <2>2, <2>3 DEF CountInv, DirsInv, OwnDirs, WaitingDirs
  <2>6. LastInv'
    BY <2>1, <2>2, LastIsKept
  <2>7. QED BY <2>4, <2>5, <2>6 DEF ResolverInv
<1>13. QED
  BY <1>2, <1>3, <1>4, <1>5, <1>6, <1>7, <1>8, <1>9, <1>10, <1>11, <1>12 DEF Resolver!Next

LEMMA ResolverStarts ==
  ASSUME ResolverAssumed, Resolver!Init
  PROVE  ResolverInv
<1>1. /\ where \in Trees /\ mode = "require" /\ prev = [l \in Resolver!Load |-> "require"]
      /\ dirs = << >> /\ script = Resolver!NoScript /\ cut = FALSE /\ run = << >>
      /\ load = [l \in Resolver!Load |-> [at |-> "none", kind |-> "plain", home |-> 0]]
      /\ detoured = FALSE /\ bundled = FALSE /\ found = Resolver!Nothing
  BY DEF Resolver!Init
<1>2. 0 \in Resolver!Dir /\ Len(dirs) = 0 /\ Len(run) = 0
  BY <1>1 DEF Resolver!Dir, ResolverAssumed
<1>3. ResolverTyped
  <2>1. load \in [Resolver!Load -> LoadRecord] /\ prev \in [Resolver!Load -> Resolver!Mode]
    BY <1>1, <1>2 DEF LoadRecord, Resolver!Mode
  <2>2. found.base \in Resolver!Dir /\ found.subpath \in Resolver!Subpath /\ found.mode \in Resolver!Mode
    BY <1>1, <1>2 DEF Resolver!Nothing, Resolver!Subpath, Resolver!Mode
  <2>3. dirs \in Seq(Resolver!Dir) /\ run \in Seq(Resolver!Load) /\ mode \in Resolver!Mode
    BY <1>1 DEF Resolver!Mode
  <2>4. QED BY <1>1, <2>1, <2>2, <2>3 DEF ResolverTyped
<1>4. ResolverRunsInv /\ DirsInv /\ ModeInv /\ LastInv
  BY <1>1, <1>2 DEF ResolverRunsInv, DirsInv, ModeInv, LastInv, Resolver!Nothing
<1>5. Cardinality(Resolver!InProgress) = 0
  <2>1. Resolver!InProgress = {}
    BY <1>1 DEF Resolver!InProgress
  <2>2. QED BY <2>1, FS_EmptySet
<1>6. CountInv
  BY <1>1, <1>2, <1>5 DEF CountInv
<1>7. QED BY <1>3, <1>4, <1>6 DEF ResolverInv

-----------------------------------------------------------------------------
(* However loads overlap and fail, the list of directories is as long as the*)
(* loads in progress and the script make it.                                *)
THEOREM DirsComeBackAlways ==
  ASSUME ResolverAssumed
  PROVE  Resolver!Spec => []Resolver!DirsComeBack
<1>1. Resolver!Init => ResolverInv
  BY ResolverStarts
<1>2. ResolverInv /\ [Resolver!Next]_(Resolver!vars) => ResolverInv'
  BY ResolverKeeps
<1>3. ResolverInv => Resolver!DirsComeBack
  <2>1. \A S : Resolver!Cardinality(S) = Cardinality(S)
    BY DEF Resolver!Cardinality, Cardinality
  <2>2. QED BY <2>1 DEF ResolverInv, CountInv, Resolver!DirsComeBack
<1>4. QED BY <1>1, <1>2, <1>3, PTL DEF Resolver!Spec

(* Unless loads cross, an import() by a body that runs starts from its own  *)
(* directory, one by any other code from the directory of that body.        *)
THEOREM ResolvedFromHomeAlways ==
  ASSUME ResolverAssumed
  PROVE  Resolver!Spec => []Resolver!ResolvedFromHome
<1>1. Resolver!Init => ResolverInv
  BY ResolverStarts
<1>2. ResolverInv /\ [Resolver!Next]_(Resolver!vars) => ResolverInv'
  BY ResolverKeeps
<1>3. ResolverInv => Resolver!ResolvedFromHome
  BY DEF ResolverInv, LastInv, Resolver!ResolvedFromHome
<1>4. QED BY <1>1, <1>2, <1>3, PTL DEF Resolver!Spec

(* A search is made by the conditions it was asked for, and the mode that a *)
(* bundle has set is put back, unless two bundles are made at once.         *)
THEOREM ResolvedAsAskedAlways ==
  ASSUME ResolverAssumed
  PROVE  Resolver!Spec => []Resolver!ResolvedAsAsked
<1>1. Resolver!Init => ResolverInv
  BY ResolverStarts
<1>2. ResolverInv /\ [Resolver!Next]_(Resolver!vars) => ResolverInv'
  BY ResolverKeeps
<1>3. ResolverInv => Resolver!ResolvedAsAsked
  BY DEF ResolverInv, LastInv, ModeInv, Resolver!ResolvedAsAsked
<1>4. QED BY <1>1, <1>2, <1>3, PTL DEF Resolver!Spec

(* What is found is in the nearest package that has it, for any tree of     *)
(* packages; and no package is entered by a subpath it does not export.     *)
THEOREM NearestIsFoundAlways ==
  ASSUME ResolverAssumed
  PROVE  Resolver!Spec => []Resolver!NearestIsFound
<1>1. Resolver!Init => ResolverInv
  BY ResolverStarts
<1>2. ResolverInv /\ [Resolver!Next]_(Resolver!vars) => ResolverInv'
  BY ResolverKeeps
<1>3. ResolverInv => Resolver!NearestIsFound
  <2> HAVE ResolverInv
  <2>1. /\ where \in Trees /\ found.base \in Resolver!Dir /\ found.subpath \in Resolver!Subpath
        /\ found.mode \in Resolver!Mode
    BY DEF ResolverInv, ResolverTyped
  <2>2. found.by # "none" => found.file = Resolver!Resolve(found.base, found.subpath, found.mode)
    BY DEF ResolverInv, LastInv
  <2>3. QED BY <2>1, <2>2, NearestOne DEF Resolver!NearestIsFound
<1>4. QED BY <1>1, <1>2, <1>3, PTL DEF Resolver!Spec

-----------------------------------------------------------------------------
CONSTANTS
  Package, Graphs, MaxNest, Cap, Large, MaxCommand, MaxTrouble

VARIABLES
  deps, files, specs, installed, stack, store, bad, puts, limited, spent,
  disturbed, crowded

Npm == INSTANCE NpmInstall WITH
  MaxDepth <- MaxNest

(* NpmInstall: what an install leaves in node_modules and in the cache.     *)

(* What the constants are: a limit of depth, the room of the cache, and     *)
(* graphs over the packages, however deep.                                  *)
NpmConstants ==
  /\ MaxNest \in Nat /\ Cap \in Nat \ {0}
  /\ Graphs \subseteq [Package -> SUBSET Package]

Names(s) == {s[i].package : i \in 1 .. Len(s)}

NpmTyped ==
  /\ deps \in [Package -> SUBSET Package] /\ deps \in Graphs
  /\ files \subseteq Package /\ specs \subseteq Package /\ installed \subseteq Package
  /\ stack \in Seq(Npm!Frame)

(* The calls are a chain of dependencies of packages that differ; all but   *)
(* the last have extracted theirs.                                          *)
ChainOf(s, across, there, needs) ==
  /\ \A i, j \in 1 .. Len(s) : s[i].package = s[j].package => i = j
  /\ \A i \in 1 .. Len(s) :
       /\ s[i].package \in across /\ s[i].todo \subseteq needs[s[i].package]
       /\ s[i].at = "deps" => s[i].package \in there
  /\ \A i \in 1 .. Len(s) - 1 :
       s[i].at = "deps" /\ s[i + 1].package \in needs[s[i].package]
NpmChainInv == ChainOf(stack, installed, files, deps)

(* What the command has come across is there or on its way, and so is what  *)
(* a package needs that is there, unless its call has yet to come to it or  *)
(* was made at the limit of depth.                                          *)
AcrossInv == ~disturbed => installed \subseteq files \cup Names(stack)

Coming(p, d, s) == \E i \in 1 .. Len(s) : s[i].package = p /\ d \in s[i].todo
NeedsInv ==
  ~disturbed => \A p \in files \ limited : \A d \in deps[p] :
                  d \in files \cup Names(stack) \/ Coming(p, d, stack)

TreeInv == NpmTyped /\ NpmChainInv /\ AcrossInv /\ NeedsInv

(* Puts that do not overlap find room for the one that they store; one that *)
(* is larger than the cache finds it empty.                                 *)
Small == Package \ Large
Fits(s) == Len(s) <= Cap /\ (s \in Seq(Small) \/ Len(s) <= 1)
Roomy(s, p) == Len(s) < Cap /\ s \in Seq(Small) /\ (p \in Large => Len(s) = 0)
CacheInv ==
  /\ store \in Seq(Package) /\ puts \in [Package -> {"no", "evict", "put"}]
  /\ ~crowded =>
       /\ \A p, q \in Package : puts[p] # "no" /\ puts[q] # "no" => p = q
       /\ Fits(store)
       /\ \A p \in Package : puts[p] = "put" => Roomy(store, p)

-----------------------------------------------------------------------------
\* A set of numbers that is not empty has a least member.
LEMMA LeastMember ==
  ASSUME NEW T, T \subseteq Nat, T # {}
  PROVE  \E x \in T : \A y \in T : x <= y
<1> DEFINE Less == OpToRel(<, Nat)
<1>1. PICK x \in T : \A y \in T : ~(<<y, x>> \in Less)
  BY NatLessThanWellFounded, WFMin
<1>2. ASSUME NEW y \in T PROVE x <= y
  <2>1. x \in Nat /\ y \in Nat
    OBVIOUS
  <2>2. y < x => <<y, x>> \in Less
    BY <2>1 DEF OpToRel
  <2> HIDE DEF Less
  <2> QED BY <1>1, <2>1, <2>2
<1> QED BY <1>2

\* A sequence without a member: the others, and one less if it was there.
LEMMA WithoutShorter ==
  ASSUME NEW S, NEW s \in Seq(S), NEW p
  PROVE  /\ Npm!Without(s, p) \in Seq(S) /\ Len(Npm!Without(s, p)) <= Len(s)
         /\ p \in Npm!ToSet(s) => Len(Npm!Without(s, p)) = Len(s) - 1
<1>1. CASE ~ \E i \in 1 .. Len(s) : s[i] = p
  BY <1>1 DEF Npm!Without, Npm!RemoveFirst, Npm!ToSet
<1>2. CASE \E i \in 1 .. Len(s) : s[i] = p
  <2> DEFINE I == {i \in 1 .. Len(s) : s[i] = p}
  <2>1. I \subseteq Nat /\ I # {}
    BY <1>2
  <2>2. Npm!Min(I) \in I
    BY <2>1, LeastMember DEF Npm!Min
  <2>3. Npm!SelectInSeq(s, LAMBDA v : v = p) = Npm!Min(I)
    BY <2>1 DEF Npm!SelectInSeq
  <2> DEFINE k == Npm!Min(I)
             a == SubSeq(s, 1, k - 1)
             b == SubSeq(s, k + 1, Len(s))
  <2>4. k \in 1 .. Len(s)
    BY <2>2
  <2>5. Npm!Without(s, p) = a \o b
    BY <1>2, <2>3 DEF Npm!Without, Npm!RemoveFirst, Npm!RemoveAt
  <2> HIDE DEF k
  <2>6. a \in Seq(S) /\ Len(a) = k - 1 /\ b \in Seq(S) /\ Len(b) = Len(s) - k
    BY <2>4
  <2> HIDE DEF a, b
  <2>7. a \o b \in Seq(S) /\ Len(a \o b) = Len(a) + Len(b)
    BY <2>6, ConcatProperties
  <2>8. Len(a \o b) = Len(s) - 1
    BY <2>6, <2>7, <2>4
  <2>9. QED
    BY <2>5, <2>7, <2>8, LenProperties
<1>3. QED BY <1>1, <1>2

\* What a lookup and a dropped entry leave: no longer, nothing else in it.
LEMMA WithoutFits ==
  ASSUME NpmConstants, NEW s \in Seq(Package), NEW p
  PROVE  /\ Fits(s) => Fits(Npm!Without(s, p))
         /\ \A q : Roomy(s, q) => Roomy(Npm!Without(s, p), q)
<1> DEFINE w == Npm!Without(s, p)
<1>1. w \in Seq(Package) /\ Len(w) <= Len(s) /\ (s \in Seq(Small) => w \in Seq(Small))
  BY WithoutShorter
<1>2. Len(w) \in Nat /\ Len(s) \in Nat /\ Cap \in Nat
  BY <1>1, LenProperties DEF NpmConstants
<1> HIDE DEF w
<1>3. /\ Len(s) <= Cap => Len(w) <= Cap
      /\ Len(s) < Cap => Len(w) < Cap
      /\ Len(s) <= 1 => Len(w) <= 1
      /\ Len(s) = 0 => Len(w) = 0
  BY <1>1, <1>2
<1>4. (Fits(s) => Fits(w)) /\ \A q : Roomy(s, q) => Roomy(w, q)
  BY <1>1, <1>3, Zenon DEF Fits, Roomy
<1> QED BY <1>4 DEF w

\* A hit that becomes the most recently used.
LEMMA HitFits ==
  ASSUME NEW s \in Seq(Package), NEW p \in Npm!ToSet(s)
  PROVE  /\ Append(Npm!Without(s, p), p) \in Seq(Package)
         /\ Fits(s) => Fits(Append(Npm!Without(s, p), p))
         /\ \A q : Roomy(s, q) => Roomy(Append(Npm!Without(s, p), p), q)
<1> DEFINE w == Npm!Without(s, p)
           t == Append(w, p)
<1>0. p \in Package /\ (s \in Seq(Small) => p \in Small)
  BY ElementOfSeq DEF Npm!ToSet
<1>1. w \in Seq(Package) /\ Len(w) = Len(s) - 1
  BY WithoutShorter
<1>2. s \in Seq(Small) => w \in Seq(Small)
  BY WithoutShorter
<1>3. Len(w) \in Nat /\ Len(s) \in Nat
  BY <1>1, LenProperties
<1> HIDE DEF w
<1>4. t \in Seq(Package) /\ Len(t) = Len(w) + 1
  BY <1>0, <1>1, AppendProperties
<1>5. s \in Seq(Small) => t \in Seq(Small)
  BY <1>0, <1>2, AppendProperties
<1>6. Len(t) = Len(s)
  BY <1>1, <1>3, <1>4
<1> HIDE DEF t
<1>7. t \in Seq(Package) /\ (Fits(s) => Fits(t)) /\ \A q : Roomy(s, q) => Roomy(t, q)
  BY <1>4, <1>5, <1>6 DEF Fits, Roomy
<1> QED BY <1>7 DEF t, w

\* The eviction makes the room it is for.
LEMMA EvictedIsRoomy ==
  ASSUME NpmConstants, NEW s \in Seq(Package), NEW p
  PROVE  Npm!Evicted(s, p) \in Seq(Package) /\ Roomy(Npm!Evicted(s, p), p)
<1> DEFINE n == Len(s)
           I == {m \in 0 .. n : Npm!Room(s, m, p) \/ m = n}
           k == Npm!Min(I)
           e == SubSeq(s, k + 1, n)
<1>0. n \in Nat /\ Cap \in Nat \ {0} /\ \A i \in 1 .. n : s[i] \in Package
  BY LenProperties, ElementOfSeq DEF NpmConstants
<1>1. I \subseteq Nat /\ I # {}
  <2>1. n \in I BY <1>0
  <2> QED BY <1>0, <2>1
<1>2. k \in I
  <2> HIDE DEF I
  <2> QED BY <1>1, LeastMember DEF Npm!Min
<1>3. Npm!Evicted(s, p) = e
  BY DEF Npm!Evicted
<1>4. k \in 0 .. n /\ (Npm!Room(s, k, p) \/ k = n)
  BY <1>2
<1> HIDE DEF k, I, n
<1>5. k + 1 \in Int /\ n \in Int /\ \A i \in k + 1 .. n : i \in 1 .. n
  BY <1>0, <1>4
<1>6. e \in Seq(Package) /\ Len(e) = IF k + 1 <= n THEN n - (k + 1) + 1 ELSE 0
  BY <1>0, <1>5, SubSeqProperties
<1>7. Len(e) = n - k
  BY <1>0, <1>4, <1>6
<1>8. e \in Seq(Small) /\ Len(e) < Cap
  <2>1. CASE k = n
    <3>1. \A i \in k + 1 .. n : s[i] \in Small
      BY <1>0, <2>1
    <3>2. e \in Seq(Small)
      BY <1>5, <3>1, SubSeqProperties
    <3> QED BY <1>0, <1>7, <2>1, <3>2
  <2>2. CASE Npm!Room(s, k, p)
    <3>1. n - k < Cap /\ \A i \in k + 1 .. n : s[i] \in Small
      BY <1>0, <1>5, <2>2 DEF Npm!Room, Small, n
    <3>2. e \in Seq(Small)
      BY <1>5, <3>1, SubSeqProperties
    <3> QED BY <1>7, <3>1, <3>2
  <2> QED BY <1>4, <2>1, <2>2
<1>9. p \in Large => Len(e) = 0
  <2>1. p \in Large => k = n
    BY <1>4 DEF Npm!Room
  <2> QED BY <1>0, <1>7, <2>1
<1> QED BY <1>3, <1>6, <1>8, <1>9 DEF Roomy

\* What is stored where there is room fits.
LEMMA PutFits ==
  ASSUME NpmConstants, NEW s \in Seq(Package), NEW p \in Package
  PROVE  /\ Append(Npm!Without(s, p), p) \in Seq(Package)
         /\ Roomy(s, p) => Fits(Append(Npm!Without(s, p), p)) /\ Fits(s)
<1> DEFINE w == Npm!Without(s, p)
           t == Append(w, p)
<1>1. w \in Seq(Package) /\ Len(w) <= Len(s)
  BY WithoutShorter
<1>2. s \in Seq(Small) => w \in Seq(Small)
  BY WithoutShorter
<1>3. Len(w) \in Nat /\ Len(s) \in Nat
  BY <1>1, LenProperties
<1> HIDE DEF w
<1>4. t \in Seq(Package) /\ Len(t) = Len(w) + 1
  BY <1>1, AppendProperties
<1>5. s \in Seq(Small) /\ p \notin Large => t \in Seq(Small)
  BY <1>2, AppendProperties DEF Small
<1> HIDE DEF t
<1>6. ASSUME Roomy(s, p) PROVE Fits(t) /\ Fits(s)
  <2>1. Len(s) < Cap /\ s \in Seq(Small) /\ (p \in Large => Len(s) = 0) /\ Cap \in Nat
    BY <1>6 DEF Roomy, NpmConstants
  <2>2. Len(t) <= Cap /\ Len(s) <= Cap
    BY <1>1, <1>3, <1>4, <2>1
  <2>3. p \in Large => Len(t) <= 1
    BY <1>1, <1>3, <1>4, <2>1
  <2> QED BY <1>5, <2>1, <2>2, <2>3 DEF Fits
<1> QED BY <1>4, <1>6 DEF t, w

LEMMA CacheStays ==
  ASSUME NpmConstants, CacheInv, [Npm!Next]_(Npm!vars)
  PROVE  CacheInv'
<1>1. CASE \/ Npm!Command \/ Npm!NextSpec \/ Npm!Metadata \/ Npm!Extract \/ Npm!Throws \/ Npm!Descend \/ Npm!Return
           \/ (\E p \in Package : Npm!Corrupt(p) \/ Npm!Uninstall(p)) \/ UNCHANGED Npm!vars
  <2>1. UNCHANGED <<store, puts, crowded>>
    BY <1>1 DEF Npm!Command, Npm!NextSpec, Npm!Metadata, Npm!Extract, Npm!Throws, Npm!Descend, Npm!Return,
                Npm!Corrupt, Npm!Uninstall, Npm!vars
  <2> QED BY <2>1 DEF CacheInv, Fits, Roomy
<1>2. CASE Npm!Lookup
  <2>1. CASE Npm!Top.package \in Npm!ToSet(store)
    <3>1. store' = Append(Npm!Without(store, Npm!Top.package), Npm!Top.package)
          /\ UNCHANGED <<puts, crowded>>
      BY <1>2, <2>1 DEF Npm!Lookup
    <3>2. /\ store' \in Seq(Package) /\ (Fits(store) => Fits(store'))
          /\ \A q : Roomy(store, q) => Roomy(store', q)
      BY <2>1, <3>1, HitFits DEF CacheInv
    <3>3. QED BY <3>1, <3>2 DEF CacheInv, Fits, Roomy
  <2>2. CASE Npm!Top.package \notin Npm!ToSet(store)
    BY <1>2, <2>2 DEF Npm!Lookup, CacheInv, Fits, Roomy
  <2>3. QED BY <2>1, <2>2
<1>3. CASE Npm!ExtractCorrupt
  <2>1. store' = Npm!Without(store, Npm!Top.package) /\ UNCHANGED <<puts, crowded>>
    BY <1>3 DEF Npm!ExtractCorrupt
  <2>2. /\ store' \in Seq(Package) /\ (Fits(store) => Fits(store'))
        /\ \A q : Roomy(store, q) => Roomy(store', q)
    BY <2>1, WithoutShorter, WithoutFits DEF CacheInv
  <2>3. QED BY <2>1, <2>2 DEF CacheInv, Fits, Roomy
<1>4. CASE Npm!Fetch
  <2>1. /\ puts' = [puts EXCEPT ![Npm!Top.package] = "evict"]
        /\ crowded' = (crowded \/ Npm!Pending # {}) /\ UNCHANGED store
    BY <1>4 DEF Npm!Fetch, Npm!PutStarts
  <2>2. puts' \in [Package -> {"no", "evict", "put"}]
    BY <2>1 DEF CacheInv
  <2>3. SUFFICES ASSUME ~crowded' PROVE
          /\ \A p, q \in Package : puts'[p] # "no" /\ puts'[q] # "no" => p = q
          /\ Fits(store)
          /\ \A p \in Package : puts'[p] # "put"
    BY <2>1, <2>2 DEF CacheInv, Fits
  <2>4. \A p \in Package : puts[p] = "no"
    BY <2>1, <2>3 DEF Npm!Pending
  <2>5. QED BY <2>1, <2>3, <2>4 DEF CacheInv
<1>5. CASE Npm!ClosePage
  BY <1>5 DEF Npm!ClosePage, CacheInv, Fits
<1>6. ASSUME NEW p \in Package, Npm!Evict(p) PROVE CacheInv'
  <2>1. /\ puts[p] = "evict" /\ puts' = [puts EXCEPT ![p] = "put"]
        /\ store' = Npm!Evicted(store, p) /\ crowded' = (crowded /\ Npm!Pending # {p})
    BY <1>6 DEF Npm!Evict
  <2>2. puts' \in [Package -> {"no", "evict", "put"}]
    BY <2>1 DEF CacheInv
  <2>3. store' \in Seq(Package) /\ Roomy(store', p)
    BY <2>1, EvictedIsRoomy DEF CacheInv
  <2>4. ASSUME ~crowded', NEW q \in Package, puts'[q] # "no" PROVE q = p
    <3>1. CASE crowded
      BY <3>1, <2>1, <2>4 DEF Npm!Pending, CacheInv
    <3>2. CASE ~crowded
      BY <3>2, <2>1, <2>4 DEF CacheInv
    <3>3. QED BY <3>1, <3>2
  <2>5. Fits(store')
    BY <2>3, PutFits
  <2>6. \A q \in Package : ~crowded' /\ puts'[q] = "put" => Roomy(store', q)
    BY <2>3, <2>4
  <2>7. QED BY <2>2, <2>3, <2>4, <2>5, <2>6 DEF CacheInv, Fits, Roomy
<1>7. ASSUME NEW p \in Package, Npm!Put(p) PROVE CacheInv'
  <2>1. /\ puts[p] = "put" /\ puts' = [puts EXCEPT ![p] = "no"] /\ UNCHANGED crowded
        /\ store' = Append(Npm!Without(store, p), p) \/ store' = store
    BY <1>7 DEF Npm!Put
  <2>2. puts' \in [Package -> {"no", "evict", "put"}]
    BY <2>1 DEF CacheInv
  <2>3. ASSUME ~crowded PROVE \A q \in Package : puts'[q] = "no"
    BY <2>1, <2>3 DEF CacheInv
  <2>4. store' \in Seq(Package) /\ (~crowded => Fits(store'))
    BY <2>1, PutFits DEF CacheInv
  <2>5. QED BY <2>1, <2>2, <2>3, <2>4 DEF CacheInv, Fits
<1>8. QED BY <1>1, <1>2, <1>3, <1>4, <1>5, <1>6, <1>7 DEF Npm!Next

-----------------------------------------------------------------------------
(* The calls of installPackage.                                             *)

LEMMA NoCalls ==
  ASSUME NEW s, s = << >>
  PROVE  Len(s) = 0 /\ Names(s) = {} /\ \A p, d : ~Coming(p, d, s)
BY DEF Names, Coming

\* A call goes on to another part of its work, is made, and is over.
GoneOn(s, f) == [s EXCEPT ![Len(s)] = f]
Pushed(s, p) == Append(s, Npm!Call(p))
Popped(s) == SubSeq(s, 1, Len(s) - 1)

LEMMA CallGoes ==
  ASSUME NEW s \in Seq(Npm!Frame), s # << >>, NEW f \in Npm!Frame, f.package = s[Len(s)].package
  PROVE  /\ GoneOn(s, f) \in Seq(Npm!Frame) /\ Len(GoneOn(s, f)) = Len(s)
         /\ \A i \in 1 .. Len(s) - 1 : GoneOn(s, f)[i] = s[i]
         /\ GoneOn(s, f)[Len(s)] = f /\ Len(s) \in 1 .. Len(s)
         /\ Names(GoneOn(s, f)) = Names(s)
<1> DEFINE t == GoneOn(s, f)
<1>1. /\ t \in Seq(Npm!Frame) /\ Len(t) = Len(s) /\ Len(s) \in 1 .. Len(s)
      /\ t[Len(s)] = f /\ \A i \in 1 .. Len(s) - 1 : t[i] = s[i]
  BY DEF GoneOn
<1> HIDE DEF t
<1>2. \A i \in 1 .. Len(s) : t[i].package = s[i].package
  BY <1>1
<1>3. Names(t) = Names(s)
  BY <1>1, <1>2 DEF Names
<1>4. QED BY <1>1, <1>3 DEF t

LEMMA CallMade ==
  ASSUME NEW s \in Seq(Npm!Frame), NEW p \in Package
  PROVE  /\ Pushed(s, p) \in Seq(Npm!Frame) /\ Len(Pushed(s, p)) = Len(s) + 1
         /\ \A i \in 1 .. Len(s) : Pushed(s, p)[i] = s[i]
         /\ Pushed(s, p)[Len(s) + 1] = Npm!Call(p) /\ Len(s) \in Nat
         /\ Names(Pushed(s, p)) = Names(s) \cup {p}
         /\ Npm!Call(p).package = p /\ Npm!Call(p).todo = {} /\ Npm!Call(p).at = "metadata"
<1> DEFINE f == Npm!Call(p)
           t == Append(s, f)
<1>1. f \in Npm!Frame /\ f.package = p /\ f.todo = {} /\ f.at = "metadata"
  BY DEF Npm!Call, Npm!Frame
<1> HIDE DEF f
<1>2. /\ t \in Seq(Npm!Frame) /\ Len(t) = Len(s) + 1 /\ Len(s) \in Nat
      /\ \A i \in 1 .. Len(s) : t[i] = s[i]
      /\ t[Len(s) + 1] = f
  BY <1>1, AppendProperties, LenProperties
<1> HIDE DEF t
<1>3. Names(t) = Names(s) \cup {p}
  <2>1. \A i \in 1 .. Len(t) : i \in 1 .. Len(s) \/ i = Len(s) + 1
    BY <1>2
  <2>2. \A i \in 1 .. Len(s) : i \in 1 .. Len(t)
    BY <1>2
  <2>3. Len(s) + 1 \in 1 .. Len(t)
    BY <1>2
  <2>4. QED BY <1>1, <1>2, <2>1, <2>2, <2>3 DEF Names
<1>4. QED BY <1>1, <1>2, <1>3 DEF f, t, Pushed

\* A call is over.
LEMMA CallReturns ==
  ASSUME NEW s \in Seq(Npm!Frame), s # << >>
  PROVE  /\ Popped(s) \in Seq(Npm!Frame) /\ Len(Popped(s)) = Len(s) - 1
         /\ Len(s) \in 1 .. Len(s)
         /\ \A i \in 1 .. Len(s) - 1 : Popped(s)[i] = s[i]
         /\ Names(s) = Names(Popped(s)) \cup {s[Len(s)].package}
<1> DEFINE t == SubSeq(s, 1, Len(s) - 1)
<1>0. Len(s) \in Nat /\ Len(s) >= 1 /\ Len(s) \in 1 .. Len(s)
  BY EmptySeq, LenProperties
<1>1. /\ t \in Seq(Npm!Frame) /\ Len(t) = Len(s) - 1 /\ Len(s) \in 1 .. Len(s)
      /\ \A i \in 1 .. Len(s) - 1 : t[i] = s[i]
  <2>1. \A i \in 1 .. Len(s) - 1 : s[i] \in Npm!Frame
    BY <1>0, ElementOfSeq
  <2> DEFINE n == Len(s) - 1
  <2>2. n \in Nat /\ n + 1 = Len(s) /\ n \in Int
    BY <1>0
  <2>3. t = SubSeq(s, 1, n) /\ \A i \in 1 .. n : s[i] \in Npm!Frame
    BY <2>1
  <2> HIDE DEF n, t
  <2>4. /\ t \in Seq(Npm!Frame) /\ Len(t) = IF 1 <= n THEN n - 1 + 1 ELSE 0
        /\ \A i \in 1 .. n - 1 + 1 : t[i] = s[1 + i - 1]
    BY <2>2, <2>3, SubSeqProperties
  <2>5. t \in Seq(Npm!Frame) /\ Len(t) = n /\ \A i \in 1 .. n : t[i] = s[i]
    BY <2>2, <2>4
  <2>6. QED BY <1>0, <2>5 DEF n
<1> HIDE DEF t
<1>2. Names(s) = Names(t) \cup {s[Len(s)].package}
  <2>1. \A i \in 1 .. Len(s) : i \in 1 .. Len(t) \/ i = Len(s)
    BY <1>1
  <2>2. \A i \in 1 .. Len(t) : i \in 1 .. Len(s) /\ i \in 1 .. Len(s) - 1
    BY <1>1
  <2>3. QED BY <1>1, <2>1, <2>2 DEF Names
<1>3. QED BY <1>1, <1>2 DEF t, Popped

-----------------------------------------------------------------------------
(* What the calls do to the tree.                                           *)

\* A call goes on, without extracting.
LEMMA GoesKeeps ==
  ASSUME TreeInv, stack # << >>, Npm!Top.at # "deps",
         NEW at \in {"metadata", "cache", "fetch", "extract", "extractCached"},
         stack' = Npm!Goes(at), UNCHANGED <<deps, files, specs, installed, limited, disturbed>>
  PROVE  TreeInv'
<1> DEFINE n == Len(stack)
           f == [Npm!Top EXCEPT !.at = at]
<1>0. stack \in Seq(Npm!Frame) /\ Npm!Top \in Npm!Frame
  BY EmptySeq, LenProperties, ElementOfSeq DEF TreeInv, NpmTyped, Npm!Top
<1>1. f \in Npm!Frame /\ f.package = Npm!Top.package /\ f.todo = Npm!Top.todo /\ f.at # "deps"
  BY <1>0 DEF Npm!Frame
<1>2. stack' = [stack EXCEPT ![n] = f]
  BY DEF Npm!Goes, Npm!Top
<1> HIDE DEF f
<1>3. /\ stack' \in Seq(Npm!Frame) /\ Len(stack') = n /\ n \in 1 .. n
      /\ \A i \in 1 .. n - 1 : stack'[i] = stack[i]
      /\ stack'[n] = f /\ Names(stack') = Names(stack)
  <2>1. stack # << >> /\ f.package = stack[Len(stack)].package
        /\ stack' = GoneOn(stack, f)
    BY <1>1, <1>2 DEF Npm!Top, GoneOn
  <2> HIDE DEF n
  <2>2. Len(stack) = n
    BY DEF n
  <2>3. /\ stack' \in Seq(Npm!Frame) /\ Len(stack') = Len(stack) /\ Len(stack) \in 1 .. Len(stack)
        /\ \A i \in 1 .. Len(stack) - 1 : stack'[i] = stack[i]
        /\ stack'[Len(stack)] = f /\ Names(stack') = Names(stack)
    BY <1>0, <1>1, <2>1, CallGoes
  <2>4. QED BY <2>2, <2>3
<1>4. n \in Nat /\ Npm!Top = stack[n]
  BY <1>0, LenProperties DEF Npm!Top
<1> HIDE DEF n
<1>5. \A i \in 1 .. n : /\ stack'[i].package = stack[i].package
                        /\ stack'[i].todo = stack[i].todo
                        /\ stack'[i].at = "deps" => stack[i].at = "deps"
                        /\ i # n => stack'[i].at = stack[i].at
  BY <1>1, <1>3, <1>4
<1>6. NpmTyped'
  BY <1>3 DEF TreeInv, NpmTyped
<1>7. NpmChainInv'
  <2>1. \A i \in 1 .. n - 1 : i \in 1 .. n /\ i + 1 \in 1 .. n /\ i # n
    BY <1>4
  <2>2. Len(stack) = n
    BY DEF n
  <2>3. QED BY <1>3, <1>5, <2>1, <2>2 DEF TreeInv, NpmChainInv, ChainOf
<1>8. \A p, d : Coming(p, d, stack') <=> Coming(p, d, stack)
  BY <1>3, <1>5 DEF Coming, n
<1>9. AcrossInv' /\ NeedsInv'
  BY <1>3, <1>8 DEF TreeInv, AcrossInv, NeedsInv
<1>10. QED BY <1>6, <1>7, <1>9 DEF TreeInv

\* What is downloaded, or found in the cache, is extracted.
LEMMA ExtractKeeps ==
  ASSUME NpmConstants, TreeInv, Npm!Extract
  PROVE  TreeInv'
<1> DEFINE n == Len(stack)
           p == Npm!Top.package
           f == [Npm!Top EXCEPT !.at = "deps", !.todo = Npm!Dependencies(p)]
<1>0. stack \in Seq(Npm!Frame) /\ stack # << >> /\ Npm!Top \in Npm!Frame /\ n \in Nat /\ n \in 1 .. n
  BY EmptySeq, LenProperties, ElementOfSeq DEF TreeInv, NpmTyped, Npm!Top, Npm!Extract
<1>1. p \in Package /\ Npm!Dependencies(p) \subseteq deps[p] /\ deps[p] \subseteq Package
  BY <1>0 DEF Npm!Frame, Npm!Dependencies, TreeInv, NpmTyped
<1>2. f \in Npm!Frame /\ f.package = p /\ f.todo = Npm!Dependencies(p) /\ f.at = "deps"
  BY <1>0, <1>1 DEF Npm!Frame
<1>3. stack' = [stack EXCEPT ![n] = f] /\ files' = files \cup {p}
      /\ UNCHANGED <<deps, specs, installed, disturbed>>
      /\ limited' = IF Npm!Depth >= MaxNest THEN limited \cup {p} ELSE limited
  BY DEF Npm!Extract, Npm!Top
<1>4. Npm!Top = stack[n] /\ p = stack[n].package
  BY DEF Npm!Top
<1> HIDE DEF f, p
<1>5. /\ stack' \in Seq(Npm!Frame) /\ Len(stack') = n /\ n \in 1 .. n
      /\ \A i \in 1 .. n - 1 : stack'[i] = stack[i]
      /\ stack'[n] = f /\ Names(stack') = Names(stack)
  <2>1. f.package = stack[Len(stack)].package /\ stack' = GoneOn(stack, f)
    BY <1>2, <1>3, <1>4 DEF GoneOn
  <2> HIDE DEF n
  <2>2. Len(stack) = n
    BY DEF n
  <2>3. /\ stack' \in Seq(Npm!Frame) /\ Len(stack') = Len(stack) /\ Len(stack) \in 1 .. Len(stack)
        /\ \A i \in 1 .. Len(stack) - 1 : stack'[i] = stack[i]
        /\ stack'[Len(stack)] = f /\ Names(stack') = Names(stack)
    BY <1>0, <1>2, <2>1, CallGoes
  <2>4. QED BY <2>2, <2>3
<1>6. \A i \in 1 .. n : /\ stack'[i].package = stack[i].package
                        /\ i # n => stack'[i] = stack[i]
  <2>1. \A i \in 1 .. n : i \in 1 .. n - 1 \/ i = n
    BY <1>0
  <2>2. QED BY <1>2, <1>4, <1>5, <2>1
<1>7. NpmTyped'
  BY <1>1, <1>3, <1>5 DEF TreeInv, NpmTyped
<1>8. NpmChainInv'
  <2>1. \A i \in 1 .. n - 1 : i \in 1 .. n /\ i + 1 \in 1 .. n /\ i # n
    BY <1>0
  <2>2. NpmChainInv
    BY DEF TreeInv
  <2>3. \A i, j \in 1 .. n : stack'[i].package = stack'[j].package => i = j
    BY <1>6, <2>2 DEF NpmChainInv, ChainOf
  <2>4. \A i \in 1 .. n : /\ stack'[i].package \in installed
                          /\ stack'[i].todo \subseteq deps[stack'[i].package]
                          /\ stack'[i].at = "deps" => stack'[i].package \in files'
    <3> TAKE i \in 1 .. n
    <3>1. /\ stack[i].package \in installed /\ stack[i].todo \subseteq deps[stack[i].package]
          /\ stack[i].at = "deps" => stack[i].package \in files
      BY <2>2 DEF NpmChainInv, ChainOf, n
    <3>2. CASE i = n
      <4>1. stack'[i].package = p /\ stack'[i].todo = Npm!Dependencies(p) /\ p = stack[i].package
        BY <1>2, <1>4, <1>5, <3>2
      <4>2. p \in files'
        BY <1>3
      <4>3. QED BY <1>1, <3>1, <4>1, <4>2
    <3>3. CASE i # n
      BY <1>3, <1>6, <3>1, <3>3
    <3>4. QED BY <3>2, <3>3
  <2>5. \A i \in 1 .. n - 1 :
          stack'[i].at = "deps" /\ stack'[i + 1].package \in deps[stack'[i].package]
    BY <1>6, <2>1, <2>2 DEF NpmChainInv, ChainOf
  <2>6. Len(stack') = n /\ UNCHANGED <<deps, installed>>
    BY <1>3, <1>5
  <2> HIDE DEF n
  <2>7. QED BY <2>3, <2>4, <2>5, <2>6 DEF NpmChainInv, ChainOf
<1>9. AcrossInv'
  BY <1>3, <1>5 DEF TreeInv, AcrossInv
<1>10. NeedsInv'
  <2> SUFFICES ASSUME ~disturbed, NEW q \in files' \ limited', NEW d \in deps[q],
                      d \notin files, d \notin Names(stack)
               PROVE  Coming(q, d, stack')
    BY <1>3, <1>5 DEF NeedsInv
  <2>1. CASE q = p
    <3>1. n <= MaxNest
      BY <1>0, <1>3, <2>1 DEF NpmConstants, Npm!Depth, n
    <3>2. d \in Npm!Dependencies(p)
      BY <2>1, <3>1 DEF Npm!Dependencies, n
    <3>3. QED BY <1>2, <1>5, <2>1, <3>2 DEF Coming
  <2>2. CASE q # p
    <3>1. q \in files \ limited /\ Coming(q, d, stack)
      BY <1>3, <2>2 DEF TreeInv, NeedsInv
    <3>2. PICK i \in 1 .. n : stack[i].package = q /\ d \in stack[i].todo
      BY <3>1 DEF Coming
    <3>3. i # n
      BY <1>4, <2>2, <3>2
    <3>4. stack'[i] = stack[i]
      BY <1>6, <3>3
    <3>5. QED BY <1>5, <3>2, <3>4 DEF Coming
  <2>3. QED BY <2>1, <2>2
<1>11. QED BY <1>7, <1>8, <1>9, <1>10 DEF TreeInv

\* A call for a package that the last call needs, or for one of a command.
LEMMA ChainGrows ==
  ASSUME NEW s \in Seq(Npm!Frame), NEW p \in Package, NEW across, p \notin across,
         NEW there, NEW needs, ChainOf(s, across, there, needs),
         s # << >> => s[Len(s)].at = "deps" /\ p \in needs[s[Len(s)].package]
  PROVE  ChainOf(Pushed(s, p), across \cup {p}, there, needs)
<1> DEFINE t == Pushed(s, p)
           n == Len(s)
<1>1. /\ Len(t) = n + 1 /\ \A i \in 1 .. n : t[i] = s[i]
      /\ t[n + 1].package = p /\ t[n + 1].todo = {} /\ t[n + 1].at = "metadata"
      /\ n \in Nat
  BY CallMade
<1>2. /\ \A i, j \in 1 .. n : s[i].package = s[j].package => i = j
      /\ \A i \in 1 .. n :
           /\ s[i].package \in across /\ s[i].todo \subseteq needs[s[i].package]
           /\ s[i].at = "deps" => s[i].package \in there
      /\ \A i \in 1 .. n - 1 : s[i].at = "deps" /\ s[i + 1].package \in needs[s[i].package]
  BY DEF ChainOf
<1>3. n # 0 => s[n].at = "deps" /\ p \in needs[s[n].package]
  BY EmptySeq
<1> HIDE DEF t, n
<1>4. \A i \in 1 .. n + 1 : i \in 1 .. n \/ i = n + 1
  BY <1>1
<1>5. \A i, j \in 1 .. n + 1 : t[i].package = t[j].package => i = j
  BY <1>1, <1>2, <1>4
<1>6. \A i \in 1 .. n + 1 :
        /\ t[i].package \in across \cup {p} /\ t[i].todo \subseteq needs[t[i].package]
        /\ t[i].at = "deps" => t[i].package \in there
  BY <1>1, <1>2, <1>4
<1>7. \A i \in 1 .. n : t[i].at = "deps" /\ t[i + 1].package \in needs[t[i].package]
  <2> TAKE i \in 1 .. n
  <2>1. CASE i = n
    BY <1>1, <1>3, <2>1
  <2>2. CASE i # n
    <3>1. i \in 1 .. n - 1 /\ i + 1 \in 1 .. n
      BY <1>1, <2>2
    <3>2. QED BY <1>1, <1>2, <3>1
  <2>3. QED BY <2>1, <2>2
<1>8. Len(t) = n + 1 /\ Len(t) - 1 = n
  BY <1>1
<1>9. ChainOf(t, across \cup {p}, there, needs)
  BY <1>5, <1>6, <1>7, <1>8 DEF ChainOf
<1>10. QED BY <1>9 DEF t

\* A call is over.
LEMMA ChainShrinks ==
  ASSUME NEW s \in Seq(Npm!Frame), s # << >>, NEW across, NEW there, NEW needs,
         ChainOf(s, across, there, needs)
  PROVE  /\ ChainOf(Popped(s), across, there, needs)
         /\ \A i \in 1 .. Len(s) - 1 : s[i].package \in there
<1> DEFINE t == Popped(s)
           n == Len(s)
<1>1. Len(t) = n - 1 /\ n \in 1 .. n /\ \A i \in 1 .. n - 1 : t[i] = s[i]
  BY CallReturns
<1>2. /\ \A i, j \in 1 .. n : s[i].package = s[j].package => i = j
      /\ \A i \in 1 .. n :
           /\ s[i].package \in across /\ s[i].todo \subseteq needs[s[i].package]
           /\ s[i].at = "deps" => s[i].package \in there
      /\ \A i \in 1 .. n - 1 : s[i].at = "deps" /\ s[i + 1].package \in needs[s[i].package]
  BY DEF ChainOf
<1>0. n \in Nat
  BY LenProperties
<1> HIDE DEF t, n
<1>3. \A i \in 1 .. n - 1 : i \in 1 .. n
  BY <1>0
<1>4. \A i \in 1 .. n - 1 - 1 : i \in 1 .. n - 1 /\ i + 1 \in 1 .. n - 1
  BY <1>0, <1>1
<1>5. \A i \in 1 .. n - 1 - 1 : t[i].at = "deps" /\ t[i + 1].package \in needs[t[i].package]
  BY <1>1, <1>2, <1>4
<1>6. ChainOf(t, across, there, needs)
  BY <1>1, <1>2, <1>3, <1>5 DEF ChainOf
<1>7. \A i \in 1 .. n - 1 : s[i].package \in there
  BY <1>2, <1>3
<1>8. QED BY <1>6, <1>7 DEF t, n

LEMMA NpmReturnKeeps ==
  ASSUME TreeInv, Npm!Return
  PROVE  TreeInv'
<1> DEFINE n == Len(stack)
<1>1. /\ stack \in Seq(Npm!Frame) /\ stack # << >> /\ stack' = Popped(stack)
      /\ Npm!Top.at = "deps" /\ Npm!Top.todo = {} /\ Npm!Top = stack[n]
      /\ UNCHANGED <<deps, files, specs, installed, limited, disturbed>>
  BY DEF TreeInv, NpmTyped, Npm!Return, Npm!Returned, Popped, Npm!Top
<1>2. /\ stack' \in Seq(Npm!Frame) /\ Len(stack') = n - 1 /\ n \in 1 .. n
      /\ \A i \in 1 .. n - 1 : stack'[i] = stack[i]
      /\ Names(stack) = Names(stack') \cup {Npm!Top.package}
  BY <1>1, CallReturns
<1>3. n \in Nat
  BY <1>1, LenProperties
<1>4. NpmTyped'
  BY <1>1, <1>2 DEF TreeInv, NpmTyped
<1>5. NpmChainInv'
  BY <1>1, ChainShrinks DEF TreeInv, NpmChainInv
<1>6. Npm!Top.package \in files
  BY <1>1, <1>2 DEF TreeInv, NpmChainInv, ChainOf
<1>7. AcrossInv'
  BY <1>1, <1>2, <1>6 DEF TreeInv, AcrossInv
<1>8. NeedsInv'
  <2> SUFFICES ASSUME ~disturbed, NEW q \in files \ limited, NEW d \in deps[q],
                      d \notin files, d \notin Names(stack')
               PROVE  Coming(q, d, stack')
    BY <1>1 DEF NeedsInv
  <2>1. Coming(q, d, stack)
    BY <1>2, <1>6 DEF TreeInv, NeedsInv
  <2>2. PICK i \in 1 .. n : stack[i].package = q /\ d \in stack[i].todo
    BY <2>1 DEF Coming
  <2>3. i \in 1 .. n - 1
    BY <1>1, <1>3, <2>2
  <2>4. QED BY <1>2, <2>2, <2>3 DEF Coming
<1>9. QED BY <1>4, <1>5, <1>7, <1>8 DEF TreeInv

LEMMA DescendKeeps ==
  ASSUME NpmConstants, TreeInv, Npm!Descend
  PROVE  TreeInv'
<1> DEFINE n == Len(stack)
<1>1. PICK d \in Npm!Top.todo :
        /\ stack' = Npm!Called([stack EXCEPT ![n].todo = @ \ {d}], d)
        /\ installed' = installed \cup {d}
  BY DEF Npm!Descend
<1>2. stack \in Seq(Npm!Frame) /\ stack # << >> /\ Npm!Top.at = "deps" /\ Npm!Top = stack[n]
      /\ UNCHANGED <<deps, files, specs, limited, disturbed>>
  BY DEF TreeInv, NpmTyped, Npm!Descend, Npm!Top
<1>3. n \in Nat /\ n \in 1 .. n /\ Npm!Top \in Npm!Frame
  BY <1>2, EmptySeq, LenProperties, ElementOfSeq
<1> DEFINE f == [Npm!Top EXCEPT !.todo = @ \ {d}]
           s == GoneOn(stack, f)
<1>4. f \in Npm!Frame /\ f.package = stack[n].package /\ f.at = "deps" /\ f.todo = Npm!Top.todo \ {d}
  BY <1>2, <1>3 DEF Npm!Frame
<1>5. stack' = Npm!Called(s, d)
  BY <1>1, <1>2 DEF GoneOn
<1> HIDE DEF f
<1>6. /\ s \in Seq(Npm!Frame) /\ Len(s) = n
      /\ \A i \in 1 .. n - 1 : s[i] = stack[i]
      /\ s[n] = f /\ Names(s) = Names(stack)
  BY <1>2, <1>4, CallGoes
<1> HIDE DEF s, n
<1>7. ChainOf(stack, installed, files, deps)
  BY DEF TreeInv, NpmChainInv
<1>8. d \in deps[stack[n].package] /\ d \in Package
  BY <1>2, <1>3, <1>7 DEF TreeInv, NpmTyped, ChainOf, n, Npm!Frame
<1>9. \A i \in 1 .. n : /\ s[i].package = stack[i].package /\ s[i].at = stack[i].at
                        /\ s[i].todo \subseteq stack[i].todo
                        /\ \A e \in stack[i].todo : e # d => e \in s[i].todo
                        /\ i # n => s[i] = stack[i]
  <2>1. \A i \in 1 .. n : i \in 1 .. n - 1 \/ i = n
    BY <1>3
  <2>2. QED BY <1>2, <1>4, <1>6, <2>1
<1>10. ChainOf(s, installed, files, deps)
  <2>1. \A i \in 1 .. n - 1 : i \in 1 .. n /\ i + 1 \in 1 .. n
    BY <1>3
  <2>2. Len(stack) = n
    BY DEF n
  <2>3. QED BY <1>6, <1>7, <1>9, <2>1, <2>2 DEF ChainOf
<1>11. d \notin files /\ d \notin Names(s) /\ ~disturbed => d \notin installed
  BY <1>6 DEF TreeInv, AcrossInv
<1>12. ASSUME ~disturbed, NEW q \in files \ limited, NEW e \in deps[q], e # d,
              e \notin files, e \notin Names(stack)
       PROVE  Coming(q, e, s)
  <2>1. PICK i \in 1 .. n : stack[i].package = q /\ e \in stack[i].todo
    BY <1>12 DEF TreeInv, NeedsInv, Coming, n
  <2>2. QED BY <1>6, <1>9, <1>12, <2>1 DEF Coming
<1>13. CASE d \in installed \/ d \in files
  <2>1. stack' = s
    BY <1>5, <1>13 DEF Npm!Called
  <2>2. NpmTyped'
    BY <1>1, <1>2, <1>6, <1>8, <2>1 DEF TreeInv, NpmTyped
  <2>3. NpmChainInv'
    BY <1>1, <1>2, <1>10, <2>1 DEF NpmChainInv, ChainOf
  <2>4. ~disturbed => d \in files \cup Names(stack)
    BY <1>13 DEF TreeInv, AcrossInv
  <2>5. AcrossInv'
    BY <1>1, <1>2, <1>6, <2>1, <2>4 DEF TreeInv, AcrossInv
  <2>6. NeedsInv'
    BY <1>2, <1>6, <1>12, <2>1, <2>4 DEF NeedsInv
  <2>7. QED BY <2>2, <2>3, <2>5, <2>6 DEF TreeInv
<1>14. CASE d \notin installed /\ d \notin files
  <2>1. stack' = Pushed(s, d)
    BY <1>5, <1>14 DEF Npm!Called, Pushed
  <2>2. /\ stack' \in Seq(Npm!Frame) /\ Len(stack') = n + 1
        /\ \A i \in 1 .. n : stack'[i] = s[i]
        /\ Names(stack') = Names(stack) \cup {d}
    BY <1>6, <1>8, <2>1, CallMade
  <2>3. NpmTyped'
    BY <1>1, <1>2, <1>8, <2>2 DEF TreeInv, NpmTyped
  <2>4. s[Len(s)].at = "deps" /\ d \in deps[s[Len(s)].package]
    BY <1>4, <1>6, <1>8
  <2>5. NpmChainInv'
    BY <1>1, <1>2, <1>6, <1>8, <1>10, <1>14, <2>1, <2>4, ChainGrows DEF NpmChainInv
  <2>6. AcrossInv'
    BY <1>1, <1>2, <2>2 DEF TreeInv, AcrossInv
  <2>7. ASSUME NEW q, NEW e, Coming(q, e, s) PROVE Coming(q, e, stack')
    <3>1. \A i \in 1 .. n : i \in 1 .. n + 1
      BY <1>3
    <3>2. QED BY <1>6, <2>2, <2>7, <3>1 DEF Coming
  <2>8. NeedsInv'
    BY <1>2, <1>12, <2>2, <2>7 DEF NeedsInv
  <2>9. QED BY <2>3, <2>5, <2>6, <2>8 DEF TreeInv
<1>15. QED BY <1>13, <1>14

\* Where no call is in progress nothing is left to come.
LEMMA NoneInProgress ==
  ASSUME NpmTyped', stack' = << >>,
         ~disturbed' => installed' \subseteq files' /\ \A p \in files' \ limited' : deps'[p] \subseteq files'
  PROVE  TreeInv'
<1>1. Len(stack') = 0
  OBVIOUS
<1>2. NpmChainInv'
  BY <1>1 DEF NpmChainInv, ChainOf
<1>3. QED BY <1>2 DEF TreeInv, AcrossInv, NeedsInv

\* ... and all that is there has what it needs.
LEMMA NoneIsMissing ==
  ASSUME TreeInv, stack = << >>, ~disturbed
  PROVE  installed \subseteq files /\ \A p \in files \ limited : deps[p] \subseteq files
<1>1. Names(stack) = {} /\ \A p, d : ~Coming(p, d, stack)
  BY NoCalls
<1>2. installed \subseteq files
  BY <1>1 DEF TreeInv, AcrossInv
<1>3. ASSUME NEW p \in files \ limited PROVE deps[p] \subseteq files
  BY <1>1 DEF TreeInv, NeedsInv
<1>4. QED BY <1>2, <1>3

LEMMA NextSpecKeeps ==
  ASSUME TreeInv, Npm!NextSpec
  PROVE  TreeInv'
<1>1. PICK p \in specs : /\ specs' = specs \ {p} /\ stack' = Npm!Called(stack, p)
                         /\ installed' = installed \cup {p}
  BY DEF Npm!NextSpec
<1>2. stack = << >> /\ UNCHANGED <<deps, files, limited, disturbed>> /\ NpmTyped /\ p \in Package
  BY DEF Npm!NextSpec, TreeInv, NpmTyped
<1>3. CASE p \in installed \/ p \in files
  <2>1. stack' = << >>
    BY <1>1, <1>2, <1>3 DEF Npm!Called
  <2>2. NpmTyped'
    BY <1>1, <1>2, <2>1 DEF NpmTyped
  <2>3. QED BY <1>1, <1>2, <1>3, <2>1, <2>2, NoneIsMissing, NoneInProgress
<1>4. CASE p \notin installed /\ p \notin files
  <2>1. stack' = Pushed(stack, p)
    BY <1>1, <1>2, <1>4 DEF Npm!Called, Pushed
  <2>2. stack \in Seq(Npm!Frame)
    BY <1>2 DEF NpmTyped
  <2>3. stack' \in Seq(Npm!Frame) /\ Names(stack') = Names(stack) \cup {p}
    BY <1>2, <2>1, <2>2, CallMade
  <2>4. NpmTyped'
    BY <1>1, <1>2, <2>3 DEF NpmTyped
  <2>5. NpmChainInv'
    BY <1>1, <1>2, <1>4, <2>1, <2>2, ChainGrows DEF TreeInv, NpmChainInv
  <2>6. ASSUME ~disturbed PROVE /\ installed \subseteq files
                                /\ \A q \in files \ limited : deps[q] \subseteq files
    BY <1>2, <2>6, NoneIsMissing
  <2>7. AcrossInv' /\ NeedsInv'
    BY <1>1, <1>2, <2>3, <2>6 DEF AcrossInv, NeedsInv
  <2>8. QED BY <2>4, <2>5, <2>7 DEF TreeInv
<1>5. QED BY <1>3, <1>4

LEMMA TreeStays ==
  ASSUME NpmConstants, TreeInv, [Npm!Next]_(Npm!vars)
  PROVE  TreeInv'
<1>1. CASE Npm!Command
  <2>1. /\ stack = << >> /\ specs' \subseteq Package /\ installed' = {}
        /\ UNCHANGED <<deps, files, stack, limited, disturbed>>
    BY <1>1 DEF Npm!Command
  <2>2. NpmTyped'
    BY <2>1 DEF TreeInv, NpmTyped
  <2>3. QED BY <2>1, <2>2, NoneIsMissing, NoneInProgress
<1>2. CASE Npm!Metadata
  BY <1>2, GoesKeeps DEF Npm!Metadata
<1>3. CASE Npm!Lookup
  BY <1>3, GoesKeeps DEF Npm!Lookup
<1>4. CASE Npm!Fetch
  BY <1>4, GoesKeeps DEF Npm!Fetch
<1>5. CASE Npm!ExtractCorrupt
  BY <1>5, GoesKeeps DEF Npm!ExtractCorrupt
<1>6. CASE Npm!Throws
  <2>1. /\ stack \in Seq(Npm!Frame) /\ stack # << >> /\ stack' = Popped(stack)
        /\ disturbed' /\ UNCHANGED <<deps, files, installed>> /\ specs' \in {{}, specs}
    BY <1>6 DEF Npm!Throws, Npm!Returned, Popped, TreeInv, NpmTyped
  <2>2. stack' \in Seq(Npm!Frame) /\ NpmChainInv'
    BY <2>1, CallReturns, ChainShrinks DEF TreeInv, NpmChainInv
  <2>3. NpmTyped'
    BY <2>1, <2>2 DEF TreeInv, NpmTyped
  <2>4. QED BY <2>1, <2>2, <2>3 DEF TreeInv, AcrossInv, NeedsInv
<1>7. ASSUME NEW p \in Package, Npm!Uninstall(p) PROVE TreeInv'
  <2>1. NpmTyped' /\ stack' = << >> /\ disturbed'
    BY <1>7 DEF Npm!Uninstall, TreeInv, NpmTyped
  <2>2. QED BY <2>1, NoneInProgress
<1>8. CASE Npm!ClosePage
  <2>1. /\ stack' = << >> /\ specs' = {} /\ installed' = {} /\ UNCHANGED <<deps, files, limited>>
        /\ disturbed' = (disturbed \/ specs # {} \/ stack # << >>)
    BY <1>8 DEF Npm!ClosePage
  <2>2. NpmTyped'
    BY <2>1 DEF TreeInv, NpmTyped
  <2>3. ASSUME ~disturbed' PROVE \A p \in files \ limited : deps[p] \subseteq files
    BY <2>1, <2>3, NoneIsMissing
  <2>4. QED BY <2>1, <2>2, <2>3, NoneInProgress
<1>9. CASE (\E p \in Package : Npm!Evict(p) \/ Npm!Put(p) \/ Npm!Corrupt(p)) \/ UNCHANGED Npm!vars
  <2>1. UNCHANGED <<deps, files, specs, installed, stack, limited, disturbed>>
    BY <1>9 DEF Npm!Evict, Npm!Put, Npm!Corrupt, Npm!vars
  <2>2. QED BY <2>1
      DEF TreeInv, NpmTyped, NpmChainInv, ChainOf, AcrossInv, NeedsInv, Names, Coming
<1>10. QED
  BY <1>1, <1>2, <1>3, <1>4, <1>5, <1>6, <1>7, <1>8, <1>9, NextSpecKeeps, ExtractKeeps,
     DescendKeeps, NpmReturnKeeps DEF Npm!Next

LEMMA NpmStarts ==
  ASSUME NpmConstants, Npm!Init
  PROVE  TreeInv /\ CacheInv
<1>1. deps \in [Package -> SUBSET Package]
  BY DEF Npm!Init, NpmConstants
<1>2. Len(stack) = 0 /\ Len(store) = 0 /\ stack \in Seq(Npm!Frame) /\ store \in Seq(Package)
  BY DEF Npm!Init
<1>3. TreeInv
  BY <1>1, <1>2 DEF Npm!Init, TreeInv, NpmTyped, NpmChainInv, ChainOf, AcrossInv, NeedsInv
<1>4. CacheInv
  BY <1>2 DEF Npm!Init, CacheInv, Fits, NpmConstants
<1>5. QED BY <1>3, <1>4

(* When a command has ended all packages have their dependencies there, in  *)
(* whatever order, cycle or sharing they came and however deep the graph is,*)
(* but for those that npm.js first met at its limit of depth, until an      *)
(* install fails or is cut short or something is uninstalled.               *)
THEOREM TreeIsCompleteAlways ==
  ASSUME NpmConstants
  PROVE  Npm!Spec => []Npm!TreeIsComplete
<1>1. Npm!Init => TreeInv
  BY NpmStarts
<1>2. TreeInv /\ [Npm!Next]_(Npm!vars) => TreeInv'
  BY TreeStays
<1>3. TreeInv => Npm!TreeIsComplete
  BY NoneIsMissing DEF Npm!TreeIsComplete
<1>4. QED BY <1>1, <1>2, <1>3, PTL DEF Npm!Spec

(* The cache of tarballs keeps to its limit, or holds a larger one alone,   *)
(* unless puts overlap, and the next put that is alone brings it back       *)
(* (runtime-cache.js).                                                      *)
THEOREM CacheKeepsItsCapAlways ==
  ASSUME NpmConstants
  PROVE  Npm!Spec => []Npm!CacheKeepsItsCap
<1>1. Npm!Init => CacheInv
  BY NpmStarts
<1>2. CacheInv /\ [Npm!Next]_(Npm!vars) => CacheInv'
  BY CacheStays
<1>3. CacheInv => Npm!CacheKeepsItsCap
  <2> SUFFICES ASSUME CacheInv, ~crowded, NEW p \in Npm!ToSet(store) \cap Large
               PROVE  Len(store) = 1
    BY DEF CacheInv, Fits, Npm!CacheKeepsItsCap
  <2>1. store \in Seq(Package) /\ (store \in Seq(Small) \/ Len(store) <= 1)
    BY DEF CacheInv, Fits
  <2>2. store \notin Seq(Small)
    BY ElementOfSeq DEF Npm!ToSet, Small
  <2>3. Len(store) \in Nat /\ 1 .. Len(store) # {}
    BY <2>1, LenProperties DEF Npm!ToSet
  <2>4. Len(store) <= 1 BY <2>1, <2>2, Zenon
  <2> QED BY <2>3, <2>4
<1>4. QED BY <1>1, <1>2, <1>3, PTL DEF Npm!Spec

=============================================================================
