--------------------------- MODULE EventIterator ---------------------------
(***************************************************************************)
(* EventEmitter.once and EventEmitter.on: one emitter, one event of it, an *)
(* abort signal, the promise of a call of once and the iterator of a call  *)
(* of on. An event is the number of the emit it came with.                 *)
(***************************************************************************)
EXTENDS Naturals, Sequences, SequencesExt

CONSTANTS MaxEvent, MaxError, MaxNext   \* bounds: events, errors, calls of next

VARIABLES
  ofError,     \* whether the event is 'error' itself
  signal,      \* the abort signal
  emitted, failed,   \* events and errors so far
  promise,     \* what once gave
  onceHears,   \* the listeners that once has in place
  first,       \* what the call of once met first (history)
  iterates,    \* "no", "open" or "finished"
  hears,       \* the listeners that the iterator has in place
  unconsumed,  \* unconsumedEvents
  waiting,     \* unconsumedPromises: calls of next
  error,       \* whether an error is kept for a later next
  answers,     \* what each call of next was given
  from, to     \* the events of the iterator's time (history)

vars == <<ofError, signal, emitted, failed, promise, onceHears, first, iterates,
          hears, unconsumed, waiting, error, answers, from, to>>
onceVars == <<promise, onceHears, first>>
iteratorVars == <<iterates, hears, unconsumed, waiting, error, answers, from, to>>

Event == 1 .. MaxEvent
Listener == {"event", "error", "abort"}
Answer == [is : {"none", "waiting", "rejected", "done", "doneInside"}, event : {0}]
            \cup [is : {"value"}, event : Event]

Is(how) == [is |-> how, event |-> 0]
ValueOf(n) == [is |-> "value", event |-> n]

TypeOK ==
  /\ ofError \in BOOLEAN /\ signal \in {"none", "live", "aborted"}
  /\ emitted \in 0 .. MaxEvent /\ failed \in 0 .. MaxError
  /\ promise \in Answer /\ first \in Answer /\ onceHears \subseteq Listener
  /\ iterates \in {"no", "open", "finished"} /\ hears \subseteq Listener
  /\ unconsumed \in Seq(Event) /\ waiting \in Seq(1 .. MaxNext)
  /\ error \in BOOLEAN /\ answers \in Seq(Answer) /\ Len(answers) <= MaxNext
  /\ from \in 0 .. MaxEvent /\ to \in 0 .. MaxEvent

Init ==
  /\ ofError \in BOOLEAN /\ signal \in {"none", "live", "aborted"}
  /\ emitted = 0 /\ failed = 0
  /\ promise = Is("none") /\ first = Is("none") /\ onceHears = {}
  /\ iterates = "no" /\ hears = {} /\ unconsumed = << >> /\ waiting = << >>
  /\ error = FALSE /\ answers = << >> /\ from = 0 /\ to = 0

\* Mutant: with a signal that is aborted nothing is listened to.
AddedIfAlive ==
  IF signal = "aborted" THEN {}
  ELSE {"event"} \cup (IF ofError THEN {} ELSE {"error"})
                 \cup (IF signal = "live" THEN {"abort"} ELSE {})

\* The listeners a call adds: 'error' has one of its own unless it is the event.
Added ==
  {"event"} \cup (IF ofError THEN {} ELSE {"error"})
            \cup (IF signal = "live" THEN {"abort"} ELSE {})

-----------------------------------------------------------------------------
(* once: the first event resolves the promise; 'error' or the signal rejects*)
(* it. Each takes all the listeners away.                                   *)
Once ==
  /\ promise.is = "none"
  /\ LET aborted == signal = "aborted"
         outcome == Is(IF aborted THEN "rejected" ELSE "waiting")
     IN /\ promise' = outcome /\ first' = outcome
        /\ onceHears' = IF aborted THEN {} ELSE Added
  /\ UNCHANGED <<ofError, signal, emitted, failed, iteratorVars>>

\* Mutant: an abort leaves the promise as it is.
OnceMeetsNoAbort(listener, outcome) ==
  /\ first' = IF first.is = "waiting" THEN outcome ELSE first
  /\ IF listener \in onceHears /\ listener # "abort"
     THEN promise' = (IF promise.is = "waiting" THEN outcome ELSE promise) /\ onceHears' = {}
     ELSE UNCHANGED <<promise, onceHears>>

OnceMeets(listener, outcome) ==
  /\ first' = IF first.is = "waiting" THEN outcome ELSE first
  /\ IF listener \in onceHears
     THEN promise' = (IF promise.is = "waiting" THEN outcome ELSE promise) /\ onceHears' = {}
     ELSE UNCHANGED <<promise, onceHears>>

-----------------------------------------------------------------------------
(* on: with a signal that is aborted it starts with an error to tell.       *)
On ==
  /\ iterates = "no" /\ iterates' = "open" /\ hears' = Added
  /\ error' = (signal = "aborted") /\ from' = emitted /\ to' = emitted
  /\ UNCHANGED <<ofError, signal, emitted, failed, onceVars, unconsumed, waiting, answers>>

\* Mutant: an event is kept for later though a next waits for one.
EventKept(n) ==
  /\ unconsumed' = IF iterates = "open" THEN Append(unconsumed, n) ELSE unconsumed
  /\ UNCHANGED <<waiting, answers>>

(* eventHandler: the first next that waits gets the event.                  *)
EventHandler(n) ==
  IF "event" \notin hears THEN UNCHANGED <<unconsumed, waiting, answers>>
  ELSE IF waiting # << >>
  THEN /\ answers' = [answers EXCEPT ![Head(waiting)] = ValueOf(n)]
       /\ waiting' = Tail(waiting) /\ UNCHANGED unconsumed
  ELSE unconsumed' = Append(unconsumed, n) /\ UNCHANGED <<waiting, answers>>

(* errorHandler: the error is kept, and the first next that waits is told.  *)
ErrorHandler(listener) ==
  IF listener \notin hears THEN UNCHANGED <<error, waiting, answers>>
  ELSE /\ error' = TRUE
       /\ IF waiting # << >>
          THEN /\ answers' = [answers EXCEPT ![Head(waiting)] = Is("rejected")]
               /\ waiting' = Tail(waiting)
          ELSE UNCHANGED <<waiting, answers>>

(* cleanup: the calls of next that wait are resolved by a function that     *)
(* wraps what it is given: the "done" is inside the value they get.         *)
Cleanup ==
  /\ iterates' = "finished" /\ hears' = {} /\ waiting' = << >>
  /\ answers' = [i \in DOMAIN answers |->
                   IF i \in ToSet(waiting) THEN Is("doneInside") ELSE answers[i]]

NextCall ==
  /\ iterates # "no" /\ Len(answers) < MaxNext
  /\ LET Answered(a) == answers' = Append(answers, a)
     IN CASE unconsumed # << >> ->
               /\ Answered(ValueOf(Head(unconsumed)))
               /\ unconsumed' = Tail(unconsumed) /\ UNCHANGED <<waiting, error>>
          [] unconsumed = << >> /\ error ->
               Answered(Is("rejected")) /\ error' = FALSE /\ UNCHANGED <<unconsumed, waiting>>
          [] unconsumed = << >> /\ ~error /\ iterates = "finished" ->
               Answered(Is("done")) /\ UNCHANGED <<unconsumed, waiting, error>>
          [] OTHER -> /\ Answered(Is("waiting")) /\ waiting' = Append(waiting, Len(answers) + 1)
                      /\ UNCHANGED <<unconsumed, error>>
  /\ UNCHANGED <<ofError, signal, emitted, failed, onceVars, iterates, hears, from, to>>

ReturnCall ==
  /\ iterates # "no" /\ Cleanup
  /\ UNCHANGED <<ofError, signal, emitted, failed, onceVars, unconsumed, error, from, to>>

ThrowCall ==
  /\ iterates # "no" /\ Cleanup /\ error' = TRUE
  /\ UNCHANGED <<ofError, signal, emitted, failed, onceVars, unconsumed, from, to>>

-----------------------------------------------------------------------------
(* What reaches both: an event, an 'error', the signal.                     *)
Emit ==
  /\ emitted < MaxEvent /\ emitted' = emitted + 1
  /\ OnceMeets("event", ValueOf(emitted + 1)) /\ EventHandler(emitted + 1)
  /\ to' = IF iterates = "open" THEN emitted + 1 ELSE to
  /\ UNCHANGED <<ofError, signal, failed, iterates, hears, error, from>>

(* A listener ahead of the iterator's, in the emit's copy, ends the         *)
(* iteration: the handler still runs and keeps the event.                   *)
EmitAfterReturn ==
  /\ emitted < MaxEvent /\ emitted' = emitted + 1
  /\ iterates = "open" /\ Cleanup
  /\ OnceMeets("event", ValueOf(emitted + 1))
  /\ unconsumed' = Append(unconsumed, emitted + 1) /\ to' = emitted + 1
  /\ UNCHANGED <<ofError, signal, failed, error, from>>

Fail ==
  /\ ~ofError /\ failed < MaxError /\ failed' = failed + 1
  /\ "error" \in onceHears \cup hears       \* with no listener emit throws
  /\ OnceMeets("error", Is("rejected")) /\ ErrorHandler("error")
  /\ UNCHANGED <<ofError, signal, emitted, iterates, hears, unconsumed, from, to>>

Abort ==
  /\ signal = "live" /\ signal' = "aborted"
  /\ OnceMeets("abort", Is("rejected")) /\ ErrorHandler("abort")
  /\ hears' = hears \ {"abort"}
  /\ UNCHANGED <<ofError, emitted, failed, iterates, unconsumed, from, to>>

Next ==
  \/ Once \/ On \/ NextCall \/ ReturnCall \/ ThrowCall
  \/ Emit \/ EmitAfterReturn \/ Fail \/ Abort

Spec == Init /\ [][Next]_vars

-----------------------------------------------------------------------------
(* The promise of once has what came first since the call, event, error or  *)
(* abort, and once it is settled nothing of the call listens any more.      *)
OnceIsTheFirst == promise = first /\ (promise.is # "waiting" => onceHears = {})

(* The iterator gives every event of its time, once and in order, to the    *)
(* calls of next: none is lost, whatever errors come between and however    *)
(* far ahead of the events, or behind them, the calls are.                  *)
EventsInOrder ==
  LET values == {i \in DOMAIN answers : answers[i].is = "value"}
      given == to - Len(unconsumed)
  IN /\ {answers[i].event : i \in values} = (from + 1) .. given
     /\ \A i, j \in values : i < j => answers[i].event < answers[j].event
     /\ from <= given /\ unconsumed = [i \in 1 .. (to - given) |-> given + i]

(* A call of next waits only while there is no event for it, and none after *)
(* the iteration has ended.                                                 *)
NoneWaitsInVain ==
  /\ waiting # << >> => unconsumed = << >> /\ iterates = "open"
  /\ ToSet(waiting) = {i \in DOMAIN answers : answers[i].is = "waiting"}
=============================================================================
