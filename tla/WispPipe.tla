------------------------------ MODULE WispPipe ------------------------------
(***************************************************************************)
(* What a Wisp stream promises to an application that writes to it, as     *)
(* far as the code keeps a promise: the destination receives the chunks in *)
(* the order they were written, each at most once and without a hole. What *)
(* is lost is lost at the two ends only: a prefix, before the destination  *)
(* has received anything, and a suffix.                                    *)
(***************************************************************************)
EXTENDS Integers, Sequences

CONSTANTS Ids, MaxUp

VARIABLES
  written,    \* number of chunks the application has written
  lost,       \* length of the lost prefix
  delivered   \* chunks the destination's socket has been given

pipe == <<written, lost, delivered>>

Init ==
  /\ written = [id \in Ids |-> 0]
  /\ lost = [id \in Ids |-> 0]
  /\ delivered = [id \in Ids |-> << >>]

Write(id) ==
  /\ written[id] < MaxUp
  /\ written' = [written EXCEPT ![id] = @ + 1]
  /\ UNCHANGED <<lost, delivered>>

LosePrefix(id) ==
  /\ delivered[id] = << >>
  /\ lost[id] < written[id]
  /\ lost' = [lost EXCEPT ![id] = @ + 1]
  /\ UNCHANGED <<written, delivered>>

Deliver(id) ==
  LET next == lost[id] + Len(delivered[id]) + 1
  IN /\ next <= written[id]
     /\ delivered' = [delivered EXCEPT ![id] = Append(@, next)]
     /\ UNCHANGED <<written, lost>>

Next == \E id \in Ids : Write(id) \/ LosePrefix(id) \/ Deliver(id)

Spec == Init /\ [][Next]_pipe
=============================================================================
