---------------------------- MODULE ChildProcess ----------------------------
(***************************************************************************)
(* child_process (napi-bridge/child-process.js): spawn, exec and fork run a*)
(* command in the same realm, later, as a microtask. Everything that is put*)
(* off goes through the one microtask queue (Promise.resolve().then), which*)
(* runs each microtask to its end, in order. Callers act between any two   *)
(* microtasks; kill() is called while a command runs as well.              *)
(*                                                                         *)
(* Output is whether a command wrote any; a message is its number. The     *)
(* listeners of the caller return: only 'error' without a listener throws  *)
(* (eventemitter.js, lines 166-174), and so may the callback of exec.      *)
(***************************************************************************)
EXTENDS Integers, Sequences, FiniteSets

CONSTANTS
  Child,           \* the children that may be started
  Waiter,          \* calls of waitForChild
  MaxSend          \* bound: messages of each direction of a fork

ASSUME ChildAssumption == MaxSend \in Nat

VARIABLES
  tasks,     \* the microtask queue
  child,     \* the ChildProcess objects, their contexts and IPC channels
  table,     \* _processTable: the settled outcome of each pid
  events,    \* history: what callers saw of each child, and their kill()
  waiting    \* waitForChild: the child each call waits for, and its result

vars == <<tasks, child, table, events, waiting>>

Kind == {"spawn", "exec", "fork"}

NoCode == -1
Code == {0, 1}

(* What 'exit' reports: a code, or that a signal ended the child.           *)
Outcome == [code : Code, signal : {FALSE}] \cup [code : {NoCode}, signal : {TRUE}]
Returned(code) == [code |-> code, signal |-> FALSE]
Signalled == [code |-> NoCode, signal |-> TRUE]
Unsettled == [code |-> NoCode, signal |-> FALSE]

Task(type, c, n, outcome) ==
  [type |-> type, child |-> c, n |-> n, outcome |-> outcome]
Event(type, n, outcome) == [type |-> type, n |-> n, outcome |-> outcome]

(* kind "none": not started. handler: has the forked module called          *)
(* process.on('message')? handled: the messages its handler was given.      *)
NewChild(kind, listens, throws) ==
  [kind |-> kind, listens |-> listens, throws |-> throws,
   cancelled |-> FALSE, killed |-> FALSE, exited |-> FALSE,
   code |-> NoCode, signal |-> FALSE,
   connected |-> kind = "fork", channel |-> kind = "fork",
   ready |-> FALSE, handler |-> FALSE,
   sentDown |-> 0, sentUp |-> 0, handled |-> << >>]

Init ==
  /\ tasks = << >>
  /\ child = [c \in Child |-> NewChild("none", TRUE, FALSE)]
  /\ table = [c \in Child |-> Unsettled]
  /\ events = [c \in Child |-> << >>]
  /\ waiting = [w \in Waiter |-> [child |-> {}, result |-> Unsettled]]

Tasks ==
  [type : {"run"}, child : Child, n : {0}, outcome : {Unsettled}]
  \cup [type : {"exit", "close"}, child : Child, n : {0}, outcome : Outcome]
  \cup [type : {"toChild", "toParent"}, child : Child, n : Nat,
        outcome : {Unsettled}]

Events ==
  [type : {"output", "error", "callback", "kill", "exit", "close",
           "disconnect", "message"},
   n : Nat, outcome : Outcome \cup {Unsettled}]

Children ==
  [kind : Kind \cup {"none"}, listens : BOOLEAN, throws : BOOLEAN,
   cancelled : BOOLEAN, killed : BOOLEAN, exited : BOOLEAN,
   code : Code \cup {NoCode}, signal : BOOLEAN,
   connected : BOOLEAN, channel : BOOLEAN, ready : BOOLEAN, handler : BOOLEAN,
   sentDown : Nat, sentUp : Nat,
   handled : Seq(Nat)]

TypeOK ==
  /\ tasks \in Seq(Tasks)
  /\ child \in [Child -> Children]
  /\ table \in [Child -> Outcome \cup {Unsettled}]
  /\ events \in [Child -> Seq(Events)]
  /\ waiting \in [Waiter -> [child : SUBSET Child,
                             result : Outcome \cup {Unsettled}]]

Started(c) == child[c].kind # "none"

(* Several steps of one call are composed over a state of one child: its    *)
(* object r, its entry in the process table, the tasks it has queued and the*)
(* events its callers have seen.                                            *)
At(c) == [r |-> child[c], entry |-> table[c], queued |-> << >>, seen |-> << >>]

Becomes(c, s, queue) ==
  /\ child' = [child EXCEPT ![c] = s.r]
  /\ table' = [table EXCEPT ![c] = s.entry]
  /\ tasks' = queue \o s.queued
  /\ events' = [events EXCEPT ![c] = @ \o s.seen]

Emit(s, type) == [s EXCEPT !.seen = Append(@, Event(type, 0, Unsettled))]

-----------------------------------------------------------------------------
(* A bug: without the guard on _exited.                                     *)
EmitExitAgain(c, s, outcome) ==
  [s EXCEPT !.r.exited = TRUE, !.r.code = outcome.code, !.entry = outcome,
            !.queued = Append(@, Task("exit", c, 0, outcome))]

(* ChildProcess._emitExit: 'exit' is put off, 'close' after it.             *)
EmitExit(c, s, outcome) ==
  IF s.r.exited THEN s
  ELSE [s EXCEPT !.r.exited = TRUE, !.r.code = outcome.code,
                 !.entry = outcome,
                 !.queued = Append(@, Task("exit", c, 0, outcome))]

(* A bug: kill() settles the process table itself.                          *)
KilledSettles(c, s) ==
  IF s.r.killed THEN s
  ELSE [EmitExit(c,
          [Emit(s, "kill") EXCEPT
             !.r.killed = TRUE, !.r.cancelled = TRUE,
             !.r.signal = TRUE, !.r.code = NoCode],
          Signalled) EXCEPT !.entry = Signalled]

(* ChildProcess.kill                                                        *)
Killed(c, s) ==
  IF s.r.killed THEN s
  ELSE EmitExit(c,
         [Emit(s, "kill") EXCEPT
            !.r.killed = TRUE, !.r.cancelled = TRUE,
            !.r.signal = TRUE, !.r.code = NoCode],
         Signalled)

Kill(c) ==
  /\ Started(c) /\ ~child[c].killed
  /\ Becomes(c, Killed(c, At(c)), tasks)
  /\ UNCHANGED waiting

(* spawn, exec (and execFile, which calls it) and fork.                     *)
Start(c, kind, listens, throws) ==
  /\ ~Started(c)
  /\ child' = [child EXCEPT ![c] = NewChild(kind, listens, throws)]
  /\ tasks' = Append(tasks, Task("run", c, 0, Unsettled))
  /\ UNCHANGED <<table, events, waiting>>

(* A bug: a command that throws reports the error only.                     *)
FailQuietly(c, s) == IF s.r.listens THEN Emit(s, "error") ELSE s

(* child.emit('error', err), then _emitExit(1): without a listener emit     *)
(* throws, and the rest is not reached.                                     *)
Fail(c, s) ==
  IF ~s.r.listens THEN s
  ELSE EmitExit(c, Emit(s, "error"), Returned(1))

(* exec: the callback runs inside the try block, so when it throws it is    *)
(* reported as an error, and called again.                                  *)
Called(s) == Emit(s, "callback")

Callback(c, s) ==
  IF s.r.kind # "exec" THEN s
  ELSE IF ~s.r.throws THEN Called(s)
  ELSE IF s.r.listens THEN Called(Fail(c, Called(s)))
  ELSE Called(s)

Output(s, wrote) == IF wrote THEN Emit(s, "output") ELSE s

(* A bug: cancellation is not looked at again after the command has run.    *)
CommandRunsOn(c, s, kills, wrote, code) ==
  LET ran == IF kills THEN Killed(c, s) ELSE s
  IN IF s.r.cancelled THEN s
     ELSE IF code = NoCode THEN Fail(c, ran)
     ELSE Callback(c, EmitExit(c, Output(ran, wrote), Returned(code)))

(* The microtask of spawn or exec. The command may call kill(), write, and  *)
(* return a code or throw.                                                  *)
CommandRuns(c, s, kills, wrote, code) ==
  LET ran == IF kills THEN Killed(c, s) ELSE s
  IN IF s.r.cancelled THEN s
     ELSE IF ran.r.cancelled THEN ran
     ELSE IF code = NoCode THEN
       IF ran.r.kind = "exec" /\ ran.r.listens
         THEN Called(Fail(c, ran)) ELSE Fail(c, ran)
     ELSE Callback(c, EmitExit(c, Output(ran, wrote), Returned(code)))

(* A bug: the newest message is delivered first.                            *)
PostNewestFirst(c, s, n) ==
  [s EXCEPT !.r.sentUp = @ + n,
            !.queued = @ \o [k \in 1 .. n |->
               Task("toParent", c, s.r.sentUp + n + 1 - k, Unsettled)]]

(* IPCChannel.postToParent, n times.                                        *)
Post(c, s, n) ==
  [s EXCEPT !.r.sentUp = @ + n,
            !.queued = @ \o [k \in 1 .. n |-> Task("toParent", c, s.r.sentUp + k, Unsettled)]]

(* The microtask of fork: the module registers a handler or not, sends,     *)
(* may kill its own ChildProcess, and returns or throws. Its process.exit   *)
(* is the parent's.                                                         *)
ModuleRuns(c, s, kills, n, handles, throws) ==
  LET ready == [s EXCEPT !.r.ready = TRUE, !.r.handler = handles]
      posted == Post(c, ready, n)
      ran == IF kills THEN Killed(c, posted) ELSE posted
  IN IF s.r.cancelled THEN s
     ELSE IF ~throws THEN EmitExit(c, ran, Returned(0))
     ELSE IF ran.r.cancelled THEN ran
     ELSE Fail(c, ran)

RunCommand(c, rest) ==
  /\ child[c].kind \in {"spawn", "exec"}
  /\ \E kills, wrote \in BOOLEAN, code \in Code \cup {NoCode} :
       Becomes(c, CommandRuns(c, At(c), kills, wrote, code), rest)
  /\ UNCHANGED waiting

RunModule(c, rest) ==
  /\ child[c].kind = "fork"
  /\ \E kills, handles, throws \in BOOLEAN, n \in 0 .. MaxSend :
       Becomes(c, ModuleRuns(c, At(c), kills, n, handles, throws), rest)
  /\ UNCHANGED waiting

(* The microtask that _emitExit queued: 'exit', which resolves the promises *)
(* of waitForChild, and another one for 'close'.                            *)
RunExit(c, outcome, rest) ==
  /\ tasks' = Append(rest, Task("close", c, 0, outcome))
  /\ events' = [events EXCEPT ![c] = Append(@, Event("exit", 0, outcome))]
  /\ waiting' = [w \in Waiter |->
       IF c \in waiting[w].child /\ waiting[w].result = Unsettled
         THEN [waiting[w] EXCEPT !.result = outcome] ELSE waiting[w]]
  /\ UNCHANGED <<child, table>>

(* ChildProcess.disconnect: the channel is dropped, not closed.             *)
Disconnected(s) ==
  IF ~s.r.channel THEN s
  ELSE Emit([s EXCEPT !.r.connected = FALSE, !.r.channel = FALSE],
            "disconnect")

Disconnect(c) ==
  /\ Started(c) /\ child[c].channel
  /\ Becomes(c, Disconnected(At(c)), tasks)
  /\ UNCHANGED waiting

RunClose(c, outcome, rest) ==
  LET closed == [At(c) EXCEPT !.seen = << Event("close", 0, outcome) >>]
  IN /\ Becomes(c, IF child[c].connected THEN Disconnected(closed) ELSE closed,
                rest)
     /\ UNCHANGED waiting

(* A bug: a message overtakes what is already queued.                       *)
SendAtOnce(c) ==
  /\ Started(c) /\ child[c].channel /\ child[c].sentDown < MaxSend
  /\ child' = [child EXCEPT ![c].sentDown = @ + 1]
  /\ tasks' = << Task("toChild", c, child[c].sentDown + 1, Unsettled) >> \o tasks
  /\ UNCHANGED <<table, events, waiting>>

-----------------------------------------------------------------------------
(* ChildProcess.send: a message to the module.                              *)
Send(c) ==
  /\ Started(c) /\ child[c].channel /\ child[c].sentDown < MaxSend
  /\ child' = [child EXCEPT ![c].sentDown = @ + 1]
  /\ tasks' = Append(tasks, Task("toChild", c, child[c].sentDown + 1, Unsettled))
  /\ UNCHANGED <<table, events, waiting>>

RunToChild(c, k, rest) ==
  /\ tasks' = rest
  /\ child' = IF child[c].ready /\ child[c].handler
                THEN [child EXCEPT ![c].handled = Append(@, k)] ELSE child
  /\ UNCHANGED <<table, events, waiting>>

(* The module's code goes on in callbacks of its own: it may send, and set  *)
(* its handler, at any later time.                                          *)
ModuleSends(c) ==
  /\ child[c].ready /\ child[c].sentUp < MaxSend
  /\ Becomes(c, Post(c, At(c), 1), tasks)
  /\ UNCHANGED waiting

ModuleListens(c) ==
  /\ child[c].ready /\ ~child[c].handler
  /\ child' = [child EXCEPT ![c].handler = TRUE]
  /\ UNCHANGED <<tasks, table, events, waiting>>

RunToParent(c, k, rest) ==
  /\ tasks' = rest
  /\ events' = [events EXCEPT ![c] = Append(@, Event("message", k, Unsettled))]
  /\ UNCHANGED <<child, table, waiting>>

(* waitForChild: the settled outcome, or the 'exit' event.                  *)
WaitForChild(w, c) ==
  /\ Started(c) /\ waiting[w].child = {}
  /\ waiting' = [waiting EXCEPT ![w] = [child |-> {c}, result |-> table[c]]]
  /\ UNCHANGED <<tasks, child, table, events>>

-----------------------------------------------------------------------------
(* One microtask, the oldest.                                               *)
RunTask ==
  /\ tasks # << >>
  /\ LET t == Head(tasks)
         rest == Tail(tasks)
     IN \/ t.type = "run" /\ RunCommand(t.child, rest)
        \/ t.type = "run" /\ RunModule(t.child, rest)
        \/ t.type = "exit" /\ RunExit(t.child, t.outcome, rest)
        \/ t.type = "close" /\ RunClose(t.child, t.outcome, rest)
        \/ t.type = "toChild" /\ RunToChild(t.child, t.n, rest)
        \/ t.type = "toParent" /\ RunToParent(t.child, t.n, rest)

CallerNext ==
  \E c \in Child :
    \/ \E kind \in Kind, listens, throws \in BOOLEAN :
         Start(c, kind, listens, throws)
    \/ Kill(c) \/ Disconnect(c) \/ Send(c)
    \/ ModuleSends(c) \/ ModuleListens(c)
    \/ \E w \in Waiter : WaitForChild(w, c)

Next == RunTask \/ CallerNext

Spec == Init /\ [][Next]_vars

(* The event loop runs microtasks until none is left.                       *)
FairSpec == Spec /\ WF_vars(RunTask)

-----------------------------------------------------------------------------
Seen(c, type) == {i \in DOMAIN events[c] : events[c][i].type = type}

(* However kill, a failing command and exec's callback meet, a child exits  *)
(* once and closes once, in this order, and shows no output or error after  *)
(* that (_exited, line 236).                                                *)
LifeCycle ==
  \A c \in Child :
    /\ Cardinality(Seen(c, "exit")) <= 1 /\ Cardinality(Seen(c, "close")) <= 1
    /\ \A i \in Seen(c, "exit"), j \in Seen(c, "close") : i < j
    /\ \A i \in Seen(c, "output") \cup Seen(c, "error"),
          j \in Seen(c, "exit") \cup Seen(c, "close") : i < j
    /\ Seen(c, "close") # {} => Seen(c, "exit") # {}

(* A killed child shows no more output and no error, also when it was killed*)
(* before its command ran or by the command itself (line 8).                *)
KillStopsOutput ==
  \A c \in Child : \A i \in Seen(c, "kill"),
    j \in Seen(c, "output") \cup Seen(c, "error") \cup Seen(c, "callback") : j < i

(* A child ends once, and is quiet after its end and after a kill.          *)
ChildrenEndOnce == LifeCycle /\ KillStopsOutput

(* Whoever waits for a child, before or after it has ended, learns the same *)
(* outcome as a listener of 'exit', also if the child is killed meanwhile   *)
(* (line 699).                                                              *)
WaitersAgree ==
  \A w \in Waiter, c \in Child :
    c \in waiting[w].child /\ waiting[w].result # Unsettled =>
      /\ waiting[w].result = table[c]
      /\ \A i \in Seen(c, "exit") : events[c][i].outcome = waiting[w].result

(* A message sent to a fork, as early as right after fork() returned, is not*)
(* delivered before the module has run (and could set its handler): it is   *)
(* lost only if the child was killed, or set no handler (lines 302 and 611).*)
MessagesFollowTheModule ==
  \A i \in DOMAIN tasks :
    LET c == tasks[i].child
    IN tasks[i].type = "toChild" =>
         \/ child[c].ready \/ child[c].cancelled
         \/ \E j \in 1 .. i - 1 : tasks[j].type = "run" /\ tasks[j].child = c

(* Each side gets the messages of the other in order and at most once,      *)
(* whoever ended or disconnected meanwhile (lines 280 and 292).             *)
MessagesInOrder ==
  \A c \in Child :
    /\ \A i, j \in Seen(c, "message") :
         i < j => events[c][i].n < events[c][j].n
    /\ \A i, j \in DOMAIN child[c].handled :
         i < j => child[c].handled[i] < child[c].handled[j]

(* However a started child fails or is killed, 'close' is seen, if its      *)
(* caller listens for 'error' (without, emit throws and the exit is never   *)
(* reached, line 401).                                                      *)
EveryChildCloses ==
  \A c \in Child :
    (Started(c) /\ child[c].listens) ~> Seen(c, "close") # {}

(* child-process.js, line 8: "kill() prevents all further stdout/stderr/exit*)
(* emission": an exit seen after kill() is that of the signal.              *)
KillIsReported ==
  \A c \in Child : \A i \in Seen(c, "kill"), j \in Seen(c, "exit") :
    i < j => events[c][j].outcome = Signalled
=============================================================================
