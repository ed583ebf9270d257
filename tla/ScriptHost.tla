----------------------------- MODULE ScriptHost ------------------------------
(***************************************************************************)
(* The synchronous ways to run a script (eval, runFile, execute of the     *)
(* object initEdgeJS returns), main() of the native runtime under them,    *)
(* and the way of what a script prints to the terminal.                    *)
(*   executeCli asks main() first. Main may answer, throw, say that it     *)
(* could not start, or suspend and return a Promise; in the last two cases *)
(* the call runs the script again as plain JavaScript, and so do all later *)
(* calls. A suspended main goes on by itself: its script runs twice.       *)
(*   executeScript puts main() in a microtask and answers at once, always  *)
(* that the execution did not complete; the script runs after the answer.  *)
(***************************************************************************)
EXTENDS Naturals, Sequences

CONSTANTS
  Call,        \* the calls, each one for a script of its own
  MaxChunk     \* bound: chunks written to the terminal

VARIABLES
  useJsBridge, \* native main() has given up
  called,      \* calls that have answered: the status of each
  effects,     \* history: how often each script's effects happened
  fellBack,    \* history: the calls that ran their script in both ways
  microtasks,  \* scripts that executeScript has put off
  suspended,   \* mains that returned a Promise and wait
  pending,     \* _makeBatchedWriter: what is to be given to the terminal
  scheduled,   \* ... and whether a microtask will do it
  printed,     \* chunks written so far
  shown        \* what the terminal has got

vars == <<useJsBridge, called, effects, fellBack, microtasks, suspended,
          pending, scheduled, printed, shown>>

NoStatus == "none"
Status == {"ok", "failed", "refused", NoStatus}

Init ==
  /\ useJsBridge = FALSE
  /\ called = [c \in Call |-> NoStatus] /\ effects = [c \in Call |-> 0]
  /\ fellBack = {} /\ microtasks = {} /\ suspended = {}
  /\ pending = << >> /\ scheduled = FALSE /\ printed = 0 /\ shown = << >>

TypeOK ==
  /\ useJsBridge \in BOOLEAN
  /\ called \in [Call -> Status] /\ effects \in [Call -> Nat]
  /\ fellBack \subseteq Call /\ microtasks \subseteq Call /\ suspended \subseteq Call
  /\ pending \in Seq(1 .. MaxChunk) /\ scheduled \in BOOLEAN
  /\ printed \in 0 .. MaxChunk /\ shown \in Seq(1 .. MaxChunk)

output == <<pending, scheduled, printed, shown>>

(* invokeMain: the scopes it opens are closed and its arguments are freed   *)
(* when main returns, if only a Promise.                                    *)
Main(c, ran) == effects' = [effects EXCEPT ![c] = @ + ran]

MainAnswers(c, status) ==
  /\ \E ran \in {0, 1} : Main(c, ran) /\ (status = "ok" => ran = 1)
  /\ called' = [called EXCEPT ![c] = status]

(* executeViaBridge: an ES module is refused before it runs, and a script   *)
(* that returns a Promise is a failure, though it has run.                  *)
Bridged(c, before, status) ==
  /\ effects' = [effects EXCEPT ![c] = @ + before + (IF status = "refused" THEN 0 ELSE 1)]
  /\ called' = [called EXCEPT ![c] = status]
  /\ fellBack' = IF before > 0 /\ status # "refused" THEN fellBack \cup {c} ELSE fellBack

Fresh(c) == called[c] = NoStatus /\ c \notin microtasks

(* executeCli: native main() does what it is asked ...                      *)
RunNative(c) ==
  /\ Fresh(c) /\ ~useJsBridge
  /\ \E status \in {"ok", "failed"} : MainAnswers(c, status)
  /\ UNCHANGED <<useJsBridge, fellBack, microtasks, suspended, output>>

(* ... or has no libuv and aborts, perhaps after the script has run ...     *)
RunAborted(c, status) ==
  /\ Fresh(c) /\ ~useJsBridge
  /\ \E before \in {0, 1} : Bridged(c, before, status)
  /\ useJsBridge' = TRUE
  /\ UNCHANGED <<microtasks, suspended, output>>

(* ... or returns a Promise.                                                *)
\* Mutant: only this call goes on in JavaScript.
RunSuspendedOnce(c, status) ==
  /\ Fresh(c) /\ ~useJsBridge
  /\ Bridged(c, 0, status)
  /\ suspended' = suspended \cup {c}
  /\ UNCHANGED <<useJsBridge, microtasks, output>>

RunSuspended(c, status) ==
  /\ Fresh(c) /\ ~useJsBridge
  /\ Bridged(c, 0, status)
  /\ suspended' = suspended \cup {c}
  /\ useJsBridge' = TRUE
  /\ UNCHANGED <<microtasks, output>>

RunInJavaScript(c, status) ==
  /\ Fresh(c) /\ useJsBridge
  /\ Bridged(c, 0, status)
  /\ UNCHANGED <<useJsBridge, microtasks, suspended, output>>

(* A suspended main goes on: its script runs, and the scope it works in is  *)
(* whatever is open by then.                                                *)
Resume(c) ==
  /\ c \in suspended
  /\ suspended' = suspended \ {c}
  /\ \E ran \in {0, 1} :
       /\ effects' = [effects EXCEPT ![c] = @ + ran]
       /\ fellBack' = IF effects'[c] > 1 THEN fellBack \cup {c} ELSE fellBack
  /\ UNCHANGED <<useJsBridge, called, microtasks, output>>

(* executeScript.                                                           *)
ExecuteScript(c) ==
  /\ Fresh(c)
  /\ called' = [called EXCEPT ![c] = "failed"]
  /\ microtasks' = microtasks \cup {c}
  /\ UNCHANGED <<useJsBridge, effects, fellBack, suspended, output>>

(* The microtask runs main() without the globals that name its script; what *)
(* main answers goes nowhere.                                               *)
RunMicrotask(c) ==
  /\ c \in microtasks
  /\ microtasks' = microtasks \ {c}
  /\ \E ran \in {0, 1} : Main(c, ran)
  /\ UNCHANGED <<useJsBridge, called, fellBack, suspended, output>>

-----------------------------------------------------------------------------
(* The batching writer under process.stdout.                                *)
Write ==
  /\ printed < MaxChunk
  /\ printed' = printed + 1
  /\ pending' = Append(pending, printed + 1)
  /\ scheduled' = TRUE
  /\ UNCHANGED <<useJsBridge, called, effects, fellBack, microtasks, suspended,
                 shown>>

\* Mutant: what is given away is given away again.
FlushAgain ==
  /\ scheduled
  /\ scheduled' = FALSE
  /\ shown' = shown \o pending
  /\ UNCHANGED <<useJsBridge, called, effects, fellBack, microtasks, suspended,
                 pending, printed>>

Flush ==
  /\ scheduled
  /\ scheduled' = FALSE /\ pending' = << >>
  /\ shown' = shown \o pending
  /\ UNCHANGED <<useJsBridge, called, effects, fellBack, microtasks, suspended,
                 printed>>

Next ==
  \/ \E c \in Call :
       \/ RunNative(c) \/ Resume(c) \/ ExecuteScript(c) \/ RunMicrotask(c)
       \/ \E status \in {"ok", "failed", "refused"} :
            RunAborted(c, status) \/ RunSuspended(c, status) \/ RunInJavaScript(c, status)
  \/ Write \/ Flush

Spec == Init /\ [][Next]_vars

-----------------------------------------------------------------------------
(* A script runs twice only because native main() gave it up half-way, and  *)
(* main gives up once in the life of a runtime (index.js, lines 4122 to     *)
(* 4125): whatever is asked, of however many scripts, one at most suffers.  *)
RunsOnce ==
  /\ \A c \in Call \ fellBack : effects[c] <= 1
  /\ \A c, d \in fellBack : c = d
  /\ \A c \in Call : effects[c] <= 2

(* Nothing that is written to the terminal is lost, doubled or exchanged    *)
(* (index.js, lines 3300 to 3315): the rest of it is on its way.            *)
OutputIsWhole ==
  /\ shown \o pending = [i \in 1 .. printed |-> i]
  /\ pending # << >> => scheduled
=============================================================================
