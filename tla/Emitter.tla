------------------------------- MODULE Emitter -------------------------------
(***************************************************************************)
(* EventEmitter: the listeners of one event, and of 'removeListener', as   *)
(* calls run inside calls: a listener that emit calls, and the one that    *)
(* 'removeListener' calls, may use the emitter again.                      *)
(*   The table keeps an array per event that is changed in place and taken *)
(* out when empty, so a call that holds an array may find another there.   *)
(***************************************************************************)
EXTENDS Naturals, Sequences, FiniteSets, SequencesExt

CONSTANTS
  Fn,        \* the functions that listen
  MaxAdd,    \* listeners added in all
  MaxDepth   \* calls inside calls

VARIABLES
  arrays,    \* the arrays made so far: sequences of entries
  current,   \* which of them the table has for the event, 0 when none
  watched,   \* whether 'removeListener' is listened to
  stack,     \* the calls under way, the innermost last
  added,     \* entries added in all
  registered,\* the entries added and not removed, in order (history)
  runs,      \* how often each once entry ran (history)
  reentered  \* whether an emit, or a removal in a removal, ran inside (history)

vars == <<arrays, current, watched, stack, added, registered, runs, reentered>>

\* An entry is one listener that was added: once wraps the function.
EntryOf == [id : 1 .. MaxAdd, fn : Fn, once : BOOLEAN]
FrameOf == [kind : {"emit"}, copy : Seq(EntryOf), at : Nat, running : BOOLEAN]
             \cup [kind : {"removed"}, array : Nat]
             \cup [kind : {"all"}, array : Nat, at : Nat, every : BOOLEAN]

Init ==
  /\ arrays = << >> /\ current = 0 /\ watched = FALSE /\ stack = << >>
  /\ added = 0 /\ registered = << >>
  /\ runs = [i \in 1 .. MaxAdd |-> 0]
  /\ reentered = FALSE

TypeOK ==
  /\ \A i \in DOMAIN arrays : arrays[i] \in Seq(EntryOf)
  /\ current \in 0 .. Len(arrays)
  /\ watched \in BOOLEAN /\ reentered \in BOOLEAN
  /\ stack \in Seq(FrameOf) /\ Len(stack) <= MaxDepth + 1
  /\ added \in 0 .. MaxAdd
  /\ registered \in Seq(EntryOf)

Top == stack[Len(stack)]
WithTop(f) == [stack EXCEPT ![Len(stack)] = f]
\* User code runs at the top level, in a listener, or told of a removal.
UserRuns ==
  stack # << >> => CASE Top.kind = "removed" -> TRUE
                     [] Top.kind = "emit" -> Top.running
                     [] OTHER -> FALSE
TellsRemoval(calls) == \E i \in DOMAIN calls : calls[i].kind = "removed"
Listeners == IF current = 0 THEN << >> ELSE arrays[current]

-----------------------------------------------------------------------------
(* on and prependListener; once and prependOnceListener add a wrapper.      *)
Add(fn, once, first) ==
  LET entry == [id |-> added + 1, fn |-> fn, once |-> once]
      Put(s) == IF first THEN <<entry>> \o s ELSE Append(s, entry)
  IN /\ UserRuns /\ added < MaxAdd
     /\ added' = added + 1
     /\ IF current = 0
        THEN /\ arrays' = Append(arrays, <<entry>>)
             /\ current' = Len(arrays) + 1
        ELSE /\ arrays' = [arrays EXCEPT ![current] = Put(@)]
             /\ UNCHANGED current
     /\ registered' = Put(registered)
     /\ UNCHANGED <<watched, stack, runs, reentered>>

(* What removeListener does: the last entry that matches goes. Someone      *)
(* who watches is told of it first; then an array that is empty is taken    *)
(* out of the table, whichever array is there.                              *)
Without(s, matching) ==
  LET k == SelectLastInSeq(s, LAMBDA e : e \in matching)
  IN IF k = 0 THEN s ELSE RemoveAt(s, k)

Drop(matching, rest) ==
  LET s == Without(Listeners, matching)
      found == s # Listeners
  IN /\ arrays' = IF found THEN [arrays EXCEPT ![current] = s] ELSE arrays
     /\ IF found /\ watched
        THEN /\ stack' = Append(rest, [kind |-> "removed", array |-> current])
             /\ UNCHANGED current
        ELSE /\ stack' = rest
             /\ current' = IF s = << >> THEN 0 ELSE current
     /\ registered' = Without(registered, matching)
     /\ reentered' = (reentered \/ TellsRemoval(rest))

Off(fn) ==
  /\ UserRuns /\ Len(stack) < MaxDepth
  /\ current # 0
  /\ Drop({e \in EntryOf : e.fn = fn}, stack)
  /\ UNCHANGED <<watched, added, runs>>

(* removeAllListeners, of the event or of every event. If someone watches,  *)
(* each listener of the array is removed by a call of its own, from the end *)
(* of what the array was; every event's includes 'removeListener' last.     *)
OffAll(every) ==
  /\ UserRuns /\ Len(stack) < MaxDepth
  /\ IF watched /\ current # 0
     THEN /\ stack' = Append(stack, [kind |-> "all", array |-> current,
                                     at |-> Len(Listeners), every |-> every])
          /\ UNCHANGED <<current, registered, watched>>
     ELSE /\ current' = 0 /\ registered' = << >>
          /\ watched' = (watched /\ ~every)
          /\ UNCHANGED stack
  /\ reentered' = (reentered \/ TellsRemoval(stack))
  /\ UNCHANGED <<arrays, added, runs>>

OffNext ==
  /\ stack # << >> /\ Top.kind = "all" /\ Top.at > 0
  /\ IF Top.at > Len(arrays[Top.array])
     THEN stack' = << >> /\ UNCHANGED <<arrays, current, registered, reentered>>
     ELSE LET fn == arrays[Top.array][Top.at].fn
          IN Drop({e \in EntryOf : e.fn = fn}, WithTop([Top EXCEPT !.at = @ - 1]))
  /\ UNCHANGED <<watched, added, runs>>

OffAllEnds ==
  /\ stack # << >> /\ Top.kind = "all" /\ Top.at = 0
  /\ stack' = Front(stack)
  /\ watched' = (watched /\ ~Top.every)
  /\ UNCHANGED <<arrays, current, added, registered, runs, reentered>>

Watch ==
  /\ stack = << >>
  /\ watched' = ~watched
  /\ UNCHANGED <<arrays, current, stack, added, registered, runs, reentered>>

(* The listener of 'removeListener' returns: back in removeListener.        *)
RemovalTold ==
  /\ stack # << >> /\ Top.kind = "removed"
  /\ current' = IF arrays[Top.array] = << >> THEN 0 ELSE current
  /\ stack' = Front(stack)
  /\ UNCHANGED <<arrays, watched, added, registered, runs, reentered>>

-----------------------------------------------------------------------------
(* emit works on a copy: a listener that is removed meanwhile still runs.   *)
Emit ==
  /\ UserRuns /\ Len(stack) < MaxDepth
  /\ current # 0
  /\ stack' = Append(stack, [kind |-> "emit", copy |-> Listeners, at |-> 1, running |-> FALSE])
  /\ reentered' = (reentered \/ \E i \in DOMAIN stack : stack[i].kind = "emit")
  /\ UNCHANGED <<arrays, current, watched, added, registered, runs>>

\* Mutant: the wrapper of once calls its function and stays.
CallStays ==
  /\ stack # << >> /\ Top.kind = "emit" /\ ~Top.running /\ Top.at <= Len(Top.copy)
  /\ runs' = [runs EXCEPT ![Top.copy[Top.at].id] = @ + (IF Top.copy[Top.at].once THEN 1 ELSE 0)]
  /\ stack' = WithTop([Top EXCEPT !.running = TRUE])
  /\ UNCHANGED <<arrays, current, registered, reentered, watched, added>>

(* The next listener of the copy: the wrapper of once removes itself, if it *)
(* is still there, and then calls the function in any case.                 *)
Call ==
  /\ stack # << >> /\ Top.kind = "emit" /\ ~Top.running /\ Top.at <= Len(Top.copy)
  /\ LET entry == Top.copy[Top.at]
         rest == WithTop([Top EXCEPT !.running = TRUE])
     IN /\ runs' = [runs EXCEPT ![entry.id] = @ + (IF entry.once THEN 1 ELSE 0)]
        /\ IF entry.once /\ current # 0
           THEN Drop({entry}, rest)
           ELSE stack' = rest /\ UNCHANGED <<arrays, current, registered, reentered>>
  /\ UNCHANGED <<watched, added>>

Return ==
  /\ stack # << >> /\ Top.kind = "emit" /\ Top.running
  /\ stack' = WithTop([Top EXCEPT !.running = FALSE, !.at = @ + 1])
  /\ UNCHANGED <<arrays, current, watched, added, registered, runs, reentered>>

EmitEnds ==
  /\ stack # << >> /\ Top.kind = "emit" /\ ~Top.running /\ Top.at > Len(Top.copy)
  /\ stack' = Front(stack)
  /\ UNCHANGED <<arrays, current, watched, added, registered, runs, reentered>>

(* A listener throws: emit and every call around it end, up to whoever      *)
(* catches it, here the top level.                                          *)
Throw ==
  /\ stack # << >> /\ UserRuns
  /\ stack' = << >>
  /\ UNCHANGED <<arrays, current, watched, added, registered, runs, reentered>>

Next ==
  \/ \E fn \in Fn, once, first \in BOOLEAN : Add(fn, once, first)
  \/ \E fn \in Fn : Off(fn)
  \/ \E every \in BOOLEAN : OffAll(every)
  \/ OffNext \/ OffAllEnds \/ Watch \/ RemovalTold \/ Emit \/ Call \/ Return \/ EmitEnds \/ Throw

Spec == Init /\ [][Next]_vars

-----------------------------------------------------------------------------
(* As long as no emit runs in a listener and nothing is removed while a     *)
(* removal is being told: the table has the listeners that were added and   *)
(* not removed, in their order; and a once listener runs once. With either, *)
(* the code loses listeners (eventemitter.js, line 119, which deletes an    *)
(* array it does not hold any more) and runs a once listener again (line    *)
(* 74, where nothing says that it has run).                                 *)
ListenersAreKept == reentered \/ Listeners = registered
OnceRunsOnce ==
  \/ reentered
  \/ /\ \A i \in 1 .. MaxAdd : runs[i] <= 1
     /\ \A i \in DOMAIN registered : runs[registered[i].id] = 0
=============================================================================
