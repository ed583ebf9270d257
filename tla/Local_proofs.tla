---------------------------- MODULE Local_proofs ----------------------------
(***************************************************************************)
(* Proofs about two parts that MCLocal takes, children and pipes.          *)
(*                                                                         *)
(* ChildProcess, for any number of children, callers and messages: first   *)
(* the types, and that a message never overtakes the module it is for;     *)
(* then the life of a child: it exits once and closes once, it is quiet    *)
(* after a kill, whoever waits for it learns what a listener of 'exit'     *)
(* learns, and messages come in order both ways.                           *)
(*                                                                         *)
(* StreamPipe, for any destinations, chunks, lengths and high-water mark:  *)
(* a pipe delivers in order and finishes when all is written; and, for one *)
(* destination and chunks as long in bytes as in UTF-16 units, whoever was *)
(* told to wait has a 'drain' coming, the source pauses for a reason and   *)
(* what the destination holds is bounded.                                  *)
(***************************************************************************)
EXTENDS ChildProcess, StreamPipe, SequenceTheorems, FiniteSetTheorems,
        WellFoundedInduction, TLAPS

-----------------------------------------------------------------------------
(* Children: ChildProcess.                                                  *)

(* What a call composes its steps over: see At and Becomes.                 *)
States ==
  [r : Children, entry : Outcome \cup {Unsettled}, queued : Seq(Tasks),
   seen : Seq(Events)]

LEMMA Values ==
  /\ Unsettled \in Outcome \cup {Unsettled}
  /\ Signalled \in Outcome
  /\ \A code \in Code : Returned(code) \in Outcome
BY DEF Unsettled, Signalled, Returned, Outcome, Code, NoCode

LEMMA OutcomeParts ==
  \A o \in Outcome : o.code \in Code \cup {NoCode}
BY DEF Outcome

LEMMA EmitTyped ==
  ASSUME NEW s \in States,
         NEW type \in {"output", "error", "callback", "kill", "exit", "close",
                       "disconnect", "message"}
  PROVE  Emit(s, type) \in States /\ Emit(s, type).r = s.r
<1>1. Event(type, 0, Unsettled) \in Events
  BY Values DEF Event, Events
<1>2. Append(s.seen, Event(type, 0, Unsettled)) \in Seq(Events)
  BY <1>1 DEF States
<1> HIDE DEF Events
<1> QED
  BY <1>2 DEF Emit, States

LEMMA EmitExitTyped ==
  ASSUME NEW c \in Child, NEW s \in States, NEW outcome \in Outcome
  PROVE  EmitExit(c, s, outcome) \in States
<1>1. Task("exit", c, 0, outcome) \in Tasks
  BY DEF Task, Tasks
<1>2. [s.r EXCEPT !.exited = TRUE, !.code = outcome.code] \in Children
  BY OutcomeParts DEF States, Children
<1>3. Append(s.queued, Task("exit", c, 0, outcome)) \in Seq(Tasks)
  BY <1>1 DEF States
<1> QED
  BY <1>2, <1>3 DEF EmitExit, States

LEMMA KilledTyped ==
  ASSUME NEW c \in Child, NEW s \in States
  PROVE  Killed(c, s) \in States
<1> DEFINE k == [Emit(s, "kill") EXCEPT
                   !.r.killed = TRUE, !.r.cancelled = TRUE,
                   !.r.signal = TRUE, !.r.code = NoCode]
<1>1. Emit(s, "kill") \in States
  BY EmitTyped
<1>2. k \in States
  BY <1>1 DEF States, Children
<1>3. EmitExit(c, k, Signalled) \in States
  BY <1>2, Values, EmitExitTyped
<1> QED
  BY <1>3 DEF Killed

LEMMA FailTyped ==
  ASSUME NEW c \in Child, NEW s \in States
  PROVE  Fail(c, s) \in States
<1>1. Returned(1) \in Outcome
  BY Values DEF Code
<1> QED
  BY <1>1, EmitTyped, EmitExitTyped DEF Fail

LEMMA CallbackTyped ==
  ASSUME NEW c \in Child, NEW s \in States
  PROVE  Called(s) \in States /\ Callback(c, s) \in States
<1>1. \A t \in States : Called(t) \in States
  BY EmitTyped DEF Called
<1> QED
  BY <1>1, FailTyped DEF Callback

LEMMA CommandRunsTyped ==
  ASSUME NEW c \in Child, NEW s \in States, NEW kills \in BOOLEAN,
         NEW wrote \in BOOLEAN, NEW code \in Code \cup {NoCode}
  PROVE  CommandRuns(c, s, kills, wrote, code) \in States
<1> DEFINE ran == IF kills THEN Killed(c, s) ELSE s
<1>1. ran \in States
  BY KilledTyped
<1>2. Fail(c, ran) \in States /\ Called(Fail(c, ran)) \in States
  BY <1>1, FailTyped, CallbackTyped
<1>3. ASSUME code \in Code
      PROVE  Callback(c, EmitExit(c, Output(ran, wrote), Returned(code)))
               \in States
  <2>1. Output(ran, wrote) \in States
    BY <1>1, EmitTyped DEF Output
  <2>2. EmitExit(c, Output(ran, wrote), Returned(code)) \in States
    BY <1>3, <2>1, EmitExitTyped, Values
  <2> QED
    BY <2>2, CallbackTyped
<1> QED
  BY <1>1, <1>2, <1>3 DEF CommandRuns

LEMMA PostTyped ==
  ASSUME NEW c \in Child, NEW s \in States, NEW n \in Nat
  PROVE  Post(c, s, n) \in States
<1>1. [k \in 1 .. n |-> Task("toParent", c, s.r.sentUp + k, Unsettled)]
        \in Seq(Tasks)
  <2>1. \A k \in 1 .. n : Task("toParent", c, s.r.sentUp + k, Unsettled) \in Tasks
    BY DEF Task, Tasks, States, Children
  <2> QED
    BY <2>1
<1>2. s.r \in Children /\ s.r.sentUp + n \in Nat
  BY DEF States, Children
<1>3. [s.r EXCEPT !.sentUp = @ + n] \in Children
  BY <1>2 DEF Children
<1>4. s.queued \o [k \in 1 .. n |-> Task("toParent", c, s.r.sentUp + k, Unsettled)]
        \in Seq(Tasks)
  BY <1>1 DEF States
<1> QED
  BY <1>3, <1>4 DEF Post, States

LEMMA ModuleRunsTyped ==
  ASSUME NEW c \in Child, NEW s \in States, NEW kills \in BOOLEAN,
         NEW n \in Nat, NEW handles \in BOOLEAN, NEW throws \in BOOLEAN
  PROVE  ModuleRuns(c, s, kills, n, handles, throws) \in States
<1> DEFINE ready == [s EXCEPT !.r.ready = TRUE, !.r.handler = handles]
           posted == Post(c, ready, n)
           ran == IF kills THEN Killed(c, posted) ELSE posted
<1>1. ready \in States
  BY DEF States, Children
<1>2. posted \in States
  BY <1>1, PostTyped
<1>3. ran \in States
  BY <1>2, KilledTyped
<1>4. EmitExit(c, ran, Returned(0)) \in States /\ Fail(c, ran) \in States
  BY <1>3, EmitExitTyped, FailTyped, Values DEF Code
<1> HIDE DEF ran
<1> QED
  BY <1>3, <1>4 DEF ModuleRuns, ran, posted, ready

LEMMA DisconnectedTyped ==
  ASSUME NEW s \in States
  PROVE  Disconnected(s) \in States
<1>1. [s EXCEPT !.r.connected = FALSE, !.r.channel = FALSE] \in States
  BY DEF States, Children
<1> QED
  BY <1>1, EmitTyped DEF Disconnected

LEMMA AtTyped ==
  ASSUME TypeOK, NEW c \in Child
  PROVE  At(c) \in States
BY DEF TypeOK, At, States

LEMMA BecomesTyped ==
  ASSUME TypeOK, NEW c \in Child, NEW s \in States, NEW queue \in Seq(Tasks),
         Becomes(c, s, queue), UNCHANGED waiting
  PROVE  TypeOK'
<1>1. child' \in [Child -> Children] /\ table' \in [Child -> Outcome \cup {Unsettled}]
  BY DEF TypeOK, Becomes, States
<1>2. tasks' \in Seq(Tasks)
  BY DEF Becomes, States
<1>3. events' \in [Child -> Seq(Events)]
  <2>1. events[c] \o s.seen \in Seq(Events)
    BY DEF TypeOK, States
  <2> QED
    BY <2>1 DEF TypeOK, Becomes
<1> QED
  BY <1>1, <1>2, <1>3 DEF TypeOK

LEMMA NewChildTyped ==
  \A kind \in Kind \cup {"none"}, listens, throws \in BOOLEAN :
    NewChild(kind, listens, throws) \in Children
BY DEF NewChild, Children, Code

LEMMA TypeInit == Init => TypeOK
<1> SUFFICES ASSUME Init PROVE TypeOK
  OBVIOUS
<1>1. NewChild("none", TRUE, FALSE) \in Children
  BY NewChildTyped
<1>2. << >> \in Seq(Tasks) /\ << >> \in Seq(Events)
  OBVIOUS
<1> QED
  BY <1>1, <1>2, Values DEF Init, TypeOK

LEMMA Sends ==
  ASSUME NEW c \in Child, NEW r \in Children
  PROVE  /\ r.sentDown + 1 \in Nat
         /\ Task("toChild", c, r.sentDown + 1, Unsettled) \in Tasks
         /\ [r EXCEPT !.sentDown = @ + 1] \in Children
<1>1. r.sentDown \in Nat /\ r.sentDown + 1 \in Nat
  BY DEF Children
<1>2. Task("toChild", c, r.sentDown + 1, Unsettled) \in Tasks
  BY <1>1 DEF Task, Tasks
<1>3. [r EXCEPT !.sentDown = @ + 1] \in Children
  BY <1>1 DEF Children
<1> QED
  BY <1>1, <1>2, <1>3

LEMMA TypeCaller ==
  ASSUME TypeOK, CallerNext
  PROVE  TypeOK'
<1>0. tasks \in Seq(Tasks)
  BY DEF TypeOK
<1>1. ASSUME NEW c \in Child, NEW kind \in Kind, NEW listens \in BOOLEAN,
             NEW throws \in BOOLEAN, Start(c, kind, listens, throws)
      PROVE  TypeOK'
  <2>1. NewChild(kind, listens, throws) \in Children
    BY NewChildTyped
  <2>2. Task("run", c, 0, Unsettled) \in Tasks
    BY DEF Task, Tasks
  <2> QED
    BY <1>1, <2>1, <2>2 DEF Start, TypeOK
<1>2. ASSUME NEW c \in Child, Kill(c)
      PROVE  TypeOK'
  BY <1>0, <1>2, AtTyped, KilledTyped, BecomesTyped DEF Kill
<1>3. ASSUME NEW c \in Child, Disconnect(c)
      PROVE  TypeOK'
  BY <1>0, <1>3, AtTyped, DisconnectedTyped, BecomesTyped DEF Disconnect
<1>4. ASSUME NEW c \in Child, Send(c)
      PROVE  TypeOK'
  <2>1. child[c] \in Children
    BY DEF TypeOK
  <2>2. /\ Task("toChild", c, child[c].sentDown + 1, Unsettled) \in Tasks
        /\ [child[c] EXCEPT !.sentDown = @ + 1] \in Children
    BY <2>1, Sends
  <2>3. child' \in [Child -> Children]
    BY <1>4, <2>2 DEF Send, TypeOK
  <2> QED
    BY <1>0, <1>4, <2>2, <2>3 DEF Send, TypeOK
<1>5. ASSUME NEW c \in Child, ModuleSends(c)
      PROVE  TypeOK'
  BY <1>0, <1>5, AtTyped, PostTyped, BecomesTyped DEF ModuleSends
<1>6. ASSUME NEW c \in Child, ModuleListens(c)
      PROVE  TypeOK'
  <2>1. child[c] \in Children
    BY DEF TypeOK
  <2>2. [child[c] EXCEPT !.handler = TRUE] \in Children
    BY <2>1 DEF Children
  <2> QED
    BY <1>6, <2>2 DEF ModuleListens, TypeOK
<1>7. ASSUME NEW c \in Child, NEW w \in Waiter, WaitForChild(w, c)
      PROVE  TypeOK'
  BY <1>7 DEF WaitForChild, TypeOK
<1> QED
  BY <1>1, <1>2, <1>3, <1>4, <1>5, <1>6, <1>7 DEF CallerNext

LEMMA TypeTask ==
  ASSUME TypeOK, RunTask
  PROVE  TypeOK'
<1> DEFINE t == Head(tasks)
           rest == Tail(tasks)
           c == t.child
<1>1. t \in Tasks /\ rest \in Seq(Tasks)
  BY DEF TypeOK, RunTask
<1>2. /\ c \in Child /\ t.n \in Nat
      /\ t.type \in {"exit", "close"} => t.outcome \in Outcome
  BY <1>1 DEF Tasks
<1>3. At(c) \in States
  BY <1>2, AtTyped
<1> HIDE DEF t, rest, c
<1>4. CASE RunCommand(c, rest)
  BY <1>1, <1>2, <1>3, <1>4, CommandRunsTyped, BecomesTyped DEF RunCommand
<1>5. CASE RunModule(c, rest)
  <2>1. 0 .. MaxSend \subseteq Nat
    BY ChildAssumption
  <2> QED
    BY <1>1, <1>2, <1>3, <1>5, <2>1, ModuleRunsTyped, BecomesTyped
    DEF RunModule
<1>6. CASE t.type = "exit" /\ RunExit(c, t.outcome, rest)
  <2>1. Task("close", c, 0, t.outcome) \in Tasks
    BY <1>2, <1>6 DEF Task, Tasks
  <2>2. Event("exit", 0, t.outcome) \in Events
    BY <1>2, <1>6 DEF Event, Events
  <2>3. tasks' \in Seq(Tasks)
    BY <1>1, <1>6, <2>1 DEF RunExit
  <2>4. events' \in [Child -> Seq(Events)]
    BY <1>2, <1>6, <2>2 DEF RunExit, TypeOK
  <2>5. waiting' \in [Waiter -> [child : SUBSET Child,
                                 result : Outcome \cup {Unsettled}]]
    BY <1>2, <1>6 DEF RunExit, TypeOK
  <2> QED
    BY <1>6, <2>3, <2>4, <2>5 DEF RunExit, TypeOK
<1>7. CASE t.type = "close" /\ RunClose(c, t.outcome, rest)
  <2> DEFINE closed == [At(c) EXCEPT
                          !.seen = << Event("close", 0, t.outcome) >>]
  <2>1. Event("close", 0, t.outcome) \in Events
    BY <1>2, <1>7 DEF Event, Events
  <2>2. << Event("close", 0, t.outcome) >> \in Seq(Events)
    BY <2>1
  <2>3. closed \in States
    BY <1>3, <2>2 DEF States
  <2>4. Disconnected(closed) \in States
    BY <2>3, DisconnectedTyped
  <2> QED
    BY <1>1, <1>2, <1>7, <2>3, <2>4, BecomesTyped DEF RunClose
<1>8. CASE RunToChild(c, t.n, rest)
  <2>1. child[c] \in Children
    BY <1>2 DEF TypeOK
  <2>2. Append(child[c].handled, t.n) \in Seq(Nat)
    BY <1>2, <2>1 DEF Children
  <2>3. [child[c] EXCEPT !.handled = Append(@, t.n)] \in Children
    BY <2>1, <2>2 DEF Children
  <2>4. child' \in [Child -> Children]
    BY <1>2, <1>8, <2>3 DEF RunToChild, TypeOK
  <2> QED
    BY <1>1, <1>8, <2>4 DEF RunToChild, TypeOK
<1>9. CASE RunToParent(c, t.n, rest)
  <2>1. Event("message", t.n, Unsettled) \in Events
    BY <1>2 DEF Event, Events
  <2> QED
    BY <1>1, <1>2, <1>9, <2>1 DEF RunToParent, TypeOK
<1> QED
  BY <1>4, <1>5, <1>6, <1>7, <1>8, <1>9 DEF RunTask, t, rest, c

(* Every reachable state of the children, their queue and their callers is  *)
(* well typed, for any number of children, waiters and messages: in         *)
(* particular the process table holds an outcome or none, and a queued      *)
(* 'exit' always carries one (_emitExit, lines 236-263).                    *)
THEOREM ChildTyped == Spec => []TypeOK
<1>1. TypeOK /\ [Next]_vars => TypeOK'
  <2> SUFFICES ASSUME TypeOK, [Next]_vars PROVE TypeOK'
    OBVIOUS
  <2>1. CASE UNCHANGED vars
    BY <2>1 DEF vars, TypeOK
  <2> QED
    BY <2>1, TypeCaller, TypeTask DEF Next
<1> QED
  BY <1>1, TypeInit, PTL DEF Spec

-----------------------------------------------------------------------------
(* What every step but the start of a child keeps: its kind, that its module*)
(* has run or that it was cancelled, and a channel that is gone.            *)
Later(r, q) ==
  /\ q.kind = r.kind
  /\ r.ready => q.ready
  /\ r.cancelled => q.cancelled
  /\ q.channel => r.channel

(* No message to a module is queued here.                                   *)
Quiet(q) == \A i \in DOMAIN q : q[i].type # "toChild"

Onward(s, u) == Later(s.r, u.r) /\ (Quiet(s.queued) => Quiet(u.queued))

(* Only a fork has a channel, and is sent messages; until its module has run*)
(* or it was cancelled, the microtask that runs it is queued.               *)
ForksOnly ==
  /\ \A c \in Child : child[c].channel => child[c].kind = "fork"
  /\ \A i \in DOMAIN tasks :
       tasks[i].type = "toChild" => child[tasks[i].child].kind = "fork"

RunIsDue ==
  \A c \in Child :
    child[c].channel /\ ~child[c].ready /\ ~child[c].cancelled =>
      \E j \in DOMAIN tasks : tasks[j].type = "run" /\ tasks[j].child = c

MessageInv == ForksOnly /\ RunIsDue /\ MessagesFollowTheModule

LEMMA QuietAppend ==
  ASSUME NEW q \in Seq(Tasks), NEW t \in Tasks, t.type # "toChild", Quiet(q)
  PROVE  Quiet(Append(q, t))
BY DEF Quiet

LEMMA EmitOnward ==
  ASSUME NEW s \in States, NEW type
  PROVE  Onward(s, Emit(s, type))
BY DEF Emit, Onward, Later, Quiet, States, Children

LEMMA EmitExitOnward ==
  ASSUME NEW c \in Child, NEW s \in States, NEW outcome \in Outcome
  PROVE  Onward(s, EmitExit(c, s, outcome))
<1>1. Task("exit", c, 0, outcome) \in Tasks
      /\ Task("exit", c, 0, outcome).type = "exit"
  BY DEF Task, Tasks
<1>2. s.queued \in Seq(Tasks)
  BY DEF States
<1>3. Quiet(s.queued) => Quiet(Append(s.queued, Task("exit", c, 0, outcome)))
  BY <1>1, <1>2, QuietAppend
<1>4. Later(s.r, EmitExit(c, s, outcome).r)
  BY DEF EmitExit, Later, States, Children
<1>5. EmitExit(c, s, outcome).queued
        \in {s.queued, Append(s.queued, Task("exit", c, 0, outcome))}
  BY DEF EmitExit, States
<1> QED
  BY <1>3, <1>4, <1>5 DEF Onward

LEMMA OnwardTransitive ==
  ASSUME NEW s, NEW t, NEW u, Onward(s, t), Onward(t, u)
  PROVE  Onward(s, u)
BY DEF Onward, Later

LEMMA KilledOnward ==
  ASSUME NEW c \in Child, NEW s \in States
  PROVE  Onward(s, Killed(c, s))
<1> DEFINE k == [Emit(s, "kill") EXCEPT
                   !.r.killed = TRUE, !.r.cancelled = TRUE,
                   !.r.signal = TRUE, !.r.code = NoCode]
<1>1. Emit(s, "kill") \in States /\ Onward(s, Emit(s, "kill"))
  BY EmitTyped, EmitOnward
<1>2. k \in States
  BY <1>1 DEF States, Children
<1>3. Onward(Emit(s, "kill"), k)
  BY <1>1 DEF Onward, Later, States, Children
<1>4. Onward(k, EmitExit(c, k, Signalled))
  BY <1>2, Values, EmitExitOnward
<1>5. Onward(s, s)
  BY DEF Onward, Later
<1> HIDE DEF k
<1>6. Onward(s, EmitExit(c, k, Signalled))
  BY <1>1, <1>3, <1>4, OnwardTransitive
<1> QED
  BY <1>5, <1>6 DEF Killed, k

LEMMA FailOnward ==
  ASSUME NEW c \in Child, NEW s \in States
  PROVE  Onward(s, Fail(c, s))
<1>1. Returned(1) \in Outcome
  BY Values DEF Code
<1>2. Emit(s, "error") \in States /\ Onward(s, Emit(s, "error"))
  BY EmitTyped, EmitOnward
<1>3. Onward(Emit(s, "error"), EmitExit(c, Emit(s, "error"), Returned(1)))
  BY <1>1, <1>2, EmitExitOnward
<1>4. Onward(s, s)
  BY DEF Onward, Later
<1> QED
  BY <1>2, <1>3, <1>4, OnwardTransitive DEF Fail

LEMMA PostOnward ==
  ASSUME NEW c \in Child, NEW s \in States, NEW n \in Nat
  PROVE  Onward(s, Post(c, s, n))
<1> DEFINE up == [k \in 1 .. n |-> Task("toParent", c, s.r.sentUp + k, Unsettled)]
<1>1. Later(s.r, Post(c, s, n).r)
  BY DEF Post, Later, States, Children
<1>2. Post(c, s, n).queued = s.queued \o up
  BY DEF Post, States
<1>3. up \in Seq(Tasks)
  <2>1. \A k \in 1 .. n : Task("toParent", c, s.r.sentUp + k, Unsettled) \in Tasks
    BY DEF Task, Tasks, States, Children
  <2> QED
    BY <2>1
<1>4. Quiet(up)
  BY DEF Quiet, Task
<1>5. s.queued \in Seq(Tasks)
  BY DEF States
<1> HIDE DEF up
<1>6. ASSUME Quiet(s.queued) PROVE Quiet(s.queued \o up)
  BY <1>3, <1>4, <1>5, <1>6 DEF Quiet
<1> QED
  BY <1>1, <1>2, <1>6 DEF Onward

(* The one queue is changed by taking its head off, or not (k), and putting *)
(* tasks at its end that are no messages to a module.                       *)
LEMMA Forward ==
  ASSUME TypeOK, MessageInv,
         \A d \in Child : Later(child[d], child'[d]),
         NEW k \in {0, 1}, k <= Len(tasks), NEW q \in Seq(Tasks), Quiet(q),
         NEW queue \in Seq(Tasks), Len(queue) = Len(tasks) - k,
         \A i \in 1 .. Len(queue) : queue[i] = tasks[i + k],
         tasks' = queue \o q,
         ASSUME k = 1, tasks[1].type = "run", child[tasks[1].child].kind = "fork"
         PROVE  child'[tasks[1].child].ready \/ child'[tasks[1].child].cancelled
  PROVE  MessageInv'
<1>1. tasks \in Seq(Tasks) /\ tasks' \in Seq(Tasks)
      /\ Len(tasks') = Len(queue) + Len(q)
  BY DEF TypeOK
<1>2. \A i \in DOMAIN tasks : tasks[i].child \in Child
  BY <1>1 DEF Tasks
<1>3. ASSUME NEW i \in DOMAIN tasks', tasks'[i].type = "toChild"
      PROVE  i \in 1 .. Len(queue) /\ tasks'[i] = tasks[i + k]
             /\ i + k \in DOMAIN tasks
  <2>1. CASE i <= Len(queue)
    <3>1. i \in 1 .. Len(queue)
      BY <1>1, <2>1
    <3>2. tasks'[i] = queue[i]
      BY <3>1
    <3>3. i + k \in DOMAIN tasks
      BY <1>1, <3>1
    <3> QED
      BY <3>1, <3>2, <3>3
  <2>2. CASE i > Len(queue)
    <3>1. i - Len(queue) \in DOMAIN q /\ tasks'[i] = q[i - Len(queue)]
      BY <1>1, <2>2
    <3> QED
      BY <1>3, <3>1 DEF Quiet
  <2> QED
    BY <1>1, <2>1, <2>2
<1>4. ASSUME NEW c \in Child, NEW j \in DOMAIN tasks,
             tasks[j].type = "run", tasks[j].child = c, child[c].kind = "fork",
             ~child'[c].ready, ~child'[c].cancelled
      PROVE  j - k \in 1 .. Len(queue) /\ tasks'[j - k] = tasks[j]
  <2>1. j # k
    BY <1>4
  <2>2. j - k \in 1 .. Len(queue)
    BY <1>1, <2>1
  <2>3. tasks'[j - k] = queue[j - k]
    BY <1>1, <2>2
  <2> QED
    BY <1>1, <2>2, <2>3
<1>5. ForksOnly'
  <2>1. \A c \in Child : child'[c].channel => child'[c].kind = "fork"
    BY DEF MessageInv, ForksOnly, Later
  <2>2. ASSUME NEW i \in DOMAIN tasks', tasks'[i].type = "toChild"
        PROVE  child'[tasks'[i].child].kind = "fork"
    <3>1. i + k \in DOMAIN tasks /\ tasks'[i] = tasks[i + k]
      BY <1>3, <2>2
    <3>2. child[tasks[i + k].child].kind = "fork" /\ tasks[i + k].child \in Child
      BY <1>2, <2>2, <3>1 DEF MessageInv, ForksOnly
    <3> QED
      BY <3>1, <3>2 DEF Later
  <2> QED
    BY <2>1, <2>2 DEF ForksOnly
<1>6. RunIsDue'
  <2> SUFFICES ASSUME NEW c \in Child, child'[c].channel,
                      ~child'[c].ready, ~child'[c].cancelled
               PROVE  \E j \in DOMAIN tasks' :
                        tasks'[j].type = "run" /\ tasks'[j].child = c
    BY DEF RunIsDue
  <2>1. child[c].channel /\ ~child[c].ready /\ ~child[c].cancelled
        /\ child[c].kind = "fork"
    BY DEF Later, MessageInv, ForksOnly
  <2>2. PICK j \in DOMAIN tasks : tasks[j].type = "run" /\ tasks[j].child = c
    BY <2>1 DEF MessageInv, RunIsDue
  <2>3. j - k \in 1 .. Len(queue) /\ tasks'[j - k] = tasks[j]
    BY <1>4, <2>1, <2>2
  <2>4. j - k \in DOMAIN tasks'
    BY <1>1, <2>3
  <2> QED
    BY <2>2, <2>3, <2>4
<1>7. MessagesFollowTheModule'
  <2> SUFFICES ASSUME NEW i \in DOMAIN tasks', tasks'[i].type = "toChild",
                      ~child'[tasks'[i].child].ready,
                      ~child'[tasks'[i].child].cancelled
               PROVE  \E j \in 1 .. i - 1 : tasks'[j].type = "run"
                        /\ tasks'[j].child = tasks'[i].child
    BY DEF MessagesFollowTheModule
  <2> DEFINE c == tasks'[i].child
  <2>1. /\ i \in 1 .. Len(queue) /\ tasks'[i] = tasks[i + k]
        /\ i + k \in DOMAIN tasks
    BY <1>3
  <2>2. c \in Child /\ child[c].kind = "fork"
    BY <1>2, <2>1 DEF MessageInv, ForksOnly
  <2>3. ~child[c].ready /\ ~child[c].cancelled
    BY <2>2 DEF Later
  <2>4. PICK j \in 1 .. i + k - 1 : tasks[j].type = "run" /\ tasks[j].child = c
    <3> DEFINE m == i + k
    <3>1. m \in DOMAIN tasks /\ tasks[m].type = "toChild" /\ tasks[m].child = c
      BY <2>1
    <3>2. \A n \in DOMAIN tasks :
            tasks[n].type = "toChild" =>
              \/ child[tasks[n].child].ready \/ child[tasks[n].child].cancelled
              \/ \E j \in 1 .. n - 1 :
                   tasks[j].type = "run" /\ tasks[j].child = tasks[n].child
      BY DEF MessageInv, MessagesFollowTheModule
    <3> HIDE DEF c, m
    <3>3. \E j \in 1 .. m - 1 : tasks[j].type = "run" /\ tasks[j].child = c
      BY <2>3, <3>1, <3>2
    <3> QED
      BY <3>3 DEF m
  <2>5. j \in DOMAIN tasks
    BY <1>1, <2>1
  <2>6. j - k \in 1 .. Len(queue) /\ tasks'[j - k] = tasks[j]
    BY <1>4, <2>2, <2>4, <2>5
  <2>7. j - k \in 1 .. i - 1
    BY <2>1, <2>4, <2>6
  <2> QED
    BY <2>4, <2>6, <2>7
<1> QED
  BY <1>5, <1>6, <1>7 DEF MessageInv

LEMMA CommandRunsOnward ==
  ASSUME NEW c \in Child, NEW s \in States, NEW kills \in BOOLEAN,
         NEW wrote \in BOOLEAN, NEW code \in Code \cup {NoCode}
  PROVE  Onward(s, CommandRuns(c, s, kills, wrote, code))
<1> DEFINE ran == IF kills THEN Killed(c, s) ELSE s
           out == Output(ran, wrote)
           done == EmitExit(c, out, Returned(code))
<1>1. Onward(s, s)
  BY DEF Onward, Later
<1>2. ran \in States /\ Onward(s, ran)
  BY <1>1, KilledTyped, KilledOnward
<1>3. \A t \in States : /\ Onward(t, Called(t)) /\ Called(t) \in States
                        /\ Onward(t, Fail(c, t)) /\ Fail(c, t) \in States
  BY EmitOnward, CallbackTyped, FailOnward, FailTyped DEF Called
<1>4. \A t \in States : Onward(t, Called(Fail(c, t)))
  BY <1>3, OnwardTransitive
<1>5. \A t \in States : Onward(t, Callback(c, t))
  <2> SUFFICES ASSUME NEW t \in States PROVE Onward(t, Callback(c, t))
    OBVIOUS
  <2>1. Onward(t, t)
    BY DEF Onward, Later
  <2>2. Onward(t, Called(t)) /\ Called(t) \in States
    BY <1>3
  <2>3. Onward(t, Called(Fail(c, Called(t))))
    BY <1>4, <2>2, OnwardTransitive
  <2> QED
    BY <2>1, <2>2, <2>3 DEF Callback
<1>6. Onward(s, Fail(c, ran)) /\ Onward(s, Called(Fail(c, ran)))
  BY <1>2, <1>3, <1>4, OnwardTransitive
<1>7. ASSUME code \in Code
      PROVE  Onward(s, Callback(c, done))
  <2>1. out \in States /\ Onward(ran, out)
    <3>1. Onward(ran, ran)
      BY DEF Onward, Later
    <3> QED
      BY <1>2, <3>1, EmitTyped, EmitOnward DEF Output
  <2>2. done \in States /\ Onward(out, done)
    BY <1>7, <2>1, EmitExitTyped, EmitExitOnward, Values
  <2>3. Onward(done, Callback(c, done))
    BY <1>5, <2>2
  <2> HIDE DEF ran, out, done
  <2> QED
    BY <1>2, <2>1, <2>2, <2>3, OnwardTransitive
<1> HIDE DEF ran
<1> QED
  BY <1>1, <1>2, <1>6, <1>7 DEF CommandRuns, ran

(* After the microtask of fork its module has run, or never will.           *)
LEMMA ModuleRunsOnward ==
  ASSUME NEW c \in Child, NEW s \in States, NEW kills \in BOOLEAN,
         NEW n \in Nat, NEW handles \in BOOLEAN, NEW throws \in BOOLEAN
  PROVE  LET u == ModuleRuns(c, s, kills, n, handles, throws)
         IN Onward(s, u) /\ (u.r.ready \/ u.r.cancelled)
<1> DEFINE ready == [s EXCEPT !.r.ready = TRUE, !.r.handler = handles]
           posted == Post(c, ready, n)
           ran == IF kills THEN Killed(c, posted) ELSE posted
<1>1. ready \in States /\ Onward(s, ready) /\ ready.r.ready
  BY DEF States, Children, Onward, Later
<1>2. posted \in States /\ Onward(ready, posted)
  BY <1>1, PostTyped, PostOnward
<1>3. ran \in States /\ Onward(posted, ran)
  <2>1. Onward(posted, posted)
    BY DEF Onward, Later
  <2> QED
    BY <1>2, <2>1, KilledTyped, KilledOnward
<1>4. Onward(ran, EmitExit(c, ran, Returned(0))) /\ Onward(ran, Fail(c, ran))
  BY <1>3, EmitExitOnward, FailOnward, Values DEF Code
<1> HIDE DEF ran, posted, ready
<1>5. Onward(ready, ran) /\ Onward(s, ran)
  BY <1>1, <1>2, <1>3, OnwardTransitive
<1>6. \A u : Onward(ran, u) => Onward(s, u) /\ u.r.ready
  BY <1>1, <1>5, OnwardTransitive DEF Onward, Later
<1>7. Onward(ran, ran) /\ Onward(s, s)
  BY DEF Onward, Later
<1> QED
  BY <1>4, <1>6, <1>7 DEF ModuleRuns, ran, posted, ready

LEMMA DisconnectedOnward ==
  ASSUME NEW s \in States
  PROVE  Onward(s, Disconnected(s))
<1> DEFINE gone == [s EXCEPT !.r.connected = FALSE, !.r.channel = FALSE]
<1>1. gone \in States /\ Onward(s, gone) /\ Onward(s, s)
  BY DEF States, Children, Onward, Later
<1>2. Onward(gone, Emit(gone, "disconnect"))
  BY <1>1, EmitOnward
<1> HIDE DEF gone
<1>3. Onward(s, Emit(gone, "disconnect"))
  BY <1>1, <1>2, OnwardTransitive
<1> QED
  BY <1>1, <1>3 DEF Disconnected, gone

LEMMA BecomesForward ==
  ASSUME TypeOK, MessageInv, NEW c \in Child, NEW s \in States,
         Onward(At(c), s),
         NEW k \in {0, 1}, k <= Len(tasks),
         NEW queue \in Seq(Tasks), Len(queue) = Len(tasks) - k,
         \A i \in 1 .. Len(queue) : queue[i] = tasks[i + k],
         Becomes(c, s, queue),
         ASSUME k = 1, tasks[1].type = "run", child[tasks[1].child].kind = "fork"
         PROVE  tasks[1].child = c /\ (s.r.ready \/ s.r.cancelled)
  PROVE  MessageInv'
<1>1. child' = [child EXCEPT ![c] = s.r] /\ tasks' = queue \o s.queued
  BY DEF Becomes
<1>2. s.queued \in Seq(Tasks) /\ Quiet(s.queued) /\ Later(child[c], s.r)
  BY DEF At, Onward, Quiet, States
<1>3. \A d \in Child : Later(child[d], child'[d])
  BY <1>1, <1>2 DEF TypeOK, Later
<1>4. child'[c] = s.r
  BY <1>1 DEF TypeOK
<1> QED
  BY <1>1, <1>2, <1>3, <1>4, Forward

LEMMA BecomesOnward ==
  ASSUME TypeOK, MessageInv, NEW c \in Child, NEW s \in States,
         Onward(At(c), s), Becomes(c, s, tasks)
  PROVE  MessageInv'
<1>1. tasks \in Seq(Tasks)
  BY DEF TypeOK
<1>2. /\ 0 \in {0, 1} /\ 0 <= Len(tasks) /\ Len(tasks) = Len(tasks) - 0
      /\ \A i \in 1 .. Len(tasks) : tasks[i] = tasks[i + 0]
      /\ 0 # 1
  BY <1>1
<1> QED
  BY <1>1, <1>2, BecomesForward

LEMMA StartFollows ==
  ASSUME TypeOK, MessageInv, NEW c \in Child, NEW kind \in Kind,
         NEW listens \in BOOLEAN, NEW throws \in BOOLEAN,
         Start(c, kind, listens, throws)
  PROVE  MessageInv'
<1> DEFINE run == Task("run", c, 0, Unsettled)
           n == Len(tasks)
<1>1. /\ n \in Nat /\ DOMAIN tasks = 1 .. n
      /\ tasks' = Append(tasks, run) /\ DOMAIN tasks' = 1 .. n + 1
      /\ tasks'[n + 1] = run /\ \A i \in 1 .. n : tasks'[i] = tasks[i]
  BY DEF TypeOK, Start
<1>2. run.type = "run" /\ run.child = c
  BY DEF Task
<1> HIDE DEF run, n
<1>3. child[c].kind = "none"
  BY DEF Start, Started
<1>4. /\ child'[c].channel => child'[c].kind = "fork"
      /\ \A d \in Child : d # c => child'[d] = child[d]
  BY DEF Start, NewChild, TypeOK
<1>5. \A i \in 1 .. n : tasks[i].child \in Child
  BY <1>1 DEF TypeOK, Tasks
<1>6. ASSUME NEW i \in DOMAIN tasks', tasks'[i].type = "toChild"
      PROVE  /\ i \in 1 .. n /\ tasks'[i] = tasks[i]
             /\ tasks[i].child \in Child /\ tasks[i].child # c
             /\ child[tasks[i].child].kind = "fork"
  <2>1. i \in 1 .. n /\ tasks'[i] = tasks[i]
    BY <1>1, <1>2, <1>6
  <2>2. child[tasks[i].child].kind = "fork"
    BY <1>1, <1>6, <2>1 DEF MessageInv, ForksOnly
  <2> QED
    BY <1>3, <1>5, <2>1, <2>2
<1>7. ForksOnly'
  <2>1. \A d \in Child : child'[d].channel => child'[d].kind = "fork"
    BY <1>4 DEF MessageInv, ForksOnly
  <2>2. \A i \in DOMAIN tasks' :
          tasks'[i].type = "toChild" => child'[tasks'[i].child].kind = "fork"
    BY <1>4, <1>6
  <2> QED
    BY <2>1, <2>2 DEF ForksOnly
<1>8. RunIsDue'
  <2> SUFFICES ASSUME NEW d \in Child, child'[d].channel,
                      ~child'[d].ready, ~child'[d].cancelled
               PROVE  \E j \in DOMAIN tasks' :
                        tasks'[j].type = "run" /\ tasks'[j].child = d
    BY DEF RunIsDue
  <2>1. CASE d = c
    BY <1>1, <1>2, <2>1
  <2>2. CASE d # c
    <3>1. PICK j \in DOMAIN tasks : tasks[j].type = "run" /\ tasks[j].child = d
      BY <1>4, <2>2 DEF MessageInv, RunIsDue
    <3>2. j \in DOMAIN tasks' /\ tasks'[j] = tasks[j]
      BY <1>1, <3>1
    <3> QED
      BY <3>1, <3>2
  <2> QED
    BY <2>1, <2>2
<1>9. MessagesFollowTheModule'
  <2> SUFFICES ASSUME NEW i \in DOMAIN tasks', tasks'[i].type = "toChild"
               PROVE  \/ child'[tasks'[i].child].ready
                      \/ child'[tasks'[i].child].cancelled
                      \/ \E j \in 1 .. i - 1 : tasks'[j].type = "run"
                           /\ tasks'[j].child = tasks'[i].child
    BY DEF MessagesFollowTheModule
  <2>1. /\ i \in 1 .. n /\ tasks'[i] = tasks[i]
        /\ child'[tasks[i].child] = child[tasks[i].child]
    BY <1>4, <1>6
  <2>2. \/ child[tasks[i].child].ready \/ child[tasks[i].child].cancelled
        \/ \E j \in 1 .. i - 1 :
             tasks[j].type = "run" /\ tasks[j].child = tasks[i].child
    BY <1>1, <2>1 DEF MessageInv, MessagesFollowTheModule
  <2>3. \A j \in 1 .. i - 1 : tasks'[j] = tasks[j]
    BY <1>1, <2>1
  <2> QED
    BY <2>1, <2>2, <2>3
<1> QED
  BY <1>7, <1>8, <1>9 DEF MessageInv

LEMMA SendFollows ==
  ASSUME TypeOK, MessageInv, NEW c \in Child, Send(c)
  PROVE  MessageInv'
<1> DEFINE sent == Task("toChild", c, child[c].sentDown + 1, Unsettled)
           n == Len(tasks)
<1>1. /\ n \in Nat /\ DOMAIN tasks = 1 .. n
      /\ tasks' = Append(tasks, sent) /\ DOMAIN tasks' = 1 .. n + 1
      /\ tasks'[n + 1] = sent /\ \A i \in 1 .. n : tasks'[i] = tasks[i]
  BY DEF TypeOK, Send
<1>2. sent.child = c
  BY DEF Task
<1> HIDE DEF sent, n
<1>3. \A d \in Child : /\ child'[d].kind = child[d].kind
                       /\ child'[d].channel = child[d].channel
                       /\ child'[d].ready = child[d].ready
                       /\ child'[d].cancelled = child[d].cancelled
  BY DEF Send, TypeOK, Children
<1>4. child[c].channel /\ child[c].kind = "fork"
  BY DEF Send, MessageInv, ForksOnly
<1>5. \A i \in 1 .. n : tasks[i].child \in Child
  BY <1>1 DEF TypeOK, Tasks
<1>6. ForksOnly'
  <2>1. \A d \in Child : child'[d].channel => child'[d].kind = "fork"
    BY <1>3 DEF MessageInv, ForksOnly
  <2>2. ASSUME NEW i \in DOMAIN tasks', tasks'[i].type = "toChild"
        PROVE  child'[tasks'[i].child].kind = "fork"
    <3>1. CASE i = n + 1
      BY <1>1, <1>2, <1>3, <1>4, <3>1
    <3>2. CASE i \in 1 .. n
      BY <1>1, <1>3, <1>5, <2>2, <3>2 DEF MessageInv, ForksOnly
    <3> QED
      BY <1>1, <3>1, <3>2
  <2> QED
    BY <2>1, <2>2 DEF ForksOnly
<1>7. \A d \in Child :
        child[d].channel /\ ~child[d].ready /\ ~child[d].cancelled =>
          \E j \in 1 .. n : tasks'[j].type = "run" /\ tasks'[j].child = d
  BY <1>1 DEF MessageInv, RunIsDue
<1>8. RunIsDue'
  BY <1>1, <1>3, <1>7 DEF RunIsDue
<1>9. MessagesFollowTheModule'
  <2> SUFFICES ASSUME NEW i \in DOMAIN tasks', tasks'[i].type = "toChild"
               PROVE  \/ child'[tasks'[i].child].ready
                      \/ child'[tasks'[i].child].cancelled
                      \/ \E j \in 1 .. i - 1 : tasks'[j].type = "run"
                           /\ tasks'[j].child = tasks'[i].child
    BY DEF MessagesFollowTheModule
  <2>1. CASE i = n + 1
    BY <1>1, <1>2, <1>3, <1>4, <1>7, <2>1
  <2>2. CASE i \in 1 .. n
    <3>1. tasks'[i] = tasks[i] /\ \A j \in 1 .. i - 1 : tasks'[j] = tasks[j]
      BY <1>1, <2>2
    <3>2. \/ child[tasks[i].child].ready \/ child[tasks[i].child].cancelled
          \/ \E j \in 1 .. i - 1 :
               tasks[j].type = "run" /\ tasks[j].child = tasks[i].child
      BY <1>1, <2>2, <3>1 DEF MessageInv, MessagesFollowTheModule
    <3> QED
      BY <1>3, <1>5, <2>2, <3>1, <3>2
  <2> QED
    BY <1>1, <2>1, <2>2
<1> QED
  BY <1>6, <1>8, <1>9 DEF MessageInv

LEMMA CallerFollows ==
  ASSUME TypeOK, MessageInv, CallerNext
  PROVE  MessageInv'
<1>1. ASSUME NEW c \in Child, Kill(c)
      PROVE  MessageInv'
  BY <1>1, AtTyped, KilledTyped, KilledOnward, BecomesOnward DEF Kill
<1>2. ASSUME NEW c \in Child, Disconnect(c)
      PROVE  MessageInv'
  BY <1>2, AtTyped, DisconnectedTyped, DisconnectedOnward, BecomesOnward
  DEF Disconnect
<1>3. ASSUME NEW c \in Child, ModuleSends(c)
      PROVE  MessageInv'
  BY <1>3, AtTyped, PostTyped, PostOnward, BecomesOnward DEF ModuleSends
<1>4. ASSUME NEW c \in Child, ModuleListens(c)
      PROVE  MessageInv'
  <2>1. /\ DOMAIN child' = DOMAIN child /\ tasks' = tasks
        /\ \A d \in Child : /\ child'[d].kind = child[d].kind
                            /\ child'[d].channel = child[d].channel
                            /\ child'[d].ready = child[d].ready
                            /\ child'[d].cancelled = child[d].cancelled
    BY <1>4 DEF ModuleListens, TypeOK, Children
  <2>2. \A i \in DOMAIN tasks : tasks[i].child \in Child
    BY DEF TypeOK, Tasks
  <2> QED
    BY <2>1, <2>2 DEF MessageInv, ForksOnly, RunIsDue, MessagesFollowTheModule
<1>5. ASSUME NEW c \in Child, NEW w \in Waiter, WaitForChild(w, c)
      PROVE  MessageInv'
  BY <1>5 DEF WaitForChild, MessageInv, ForksOnly, RunIsDue,
              MessagesFollowTheModule
<1> QED
  BY <1>1, <1>2, <1>3, <1>4, <1>5, StartFollows, SendFollows DEF CallerNext

LEMMA TaskFollows ==
  ASSUME TypeOK, MessageInv, RunTask
  PROVE  MessageInv'
<1> DEFINE t == Head(tasks)
           rest == Tail(tasks)
           c == t.child
<1>1. /\ t \in Tasks /\ t = tasks[1] /\ 1 <= Len(tasks)
      /\ rest \in Seq(Tasks) /\ Len(rest) = Len(tasks) - 1
      /\ \A i \in 1 .. Len(rest) : rest[i] = tasks[i + 1]
  BY DEF TypeOK, RunTask
<1>2. /\ c \in Child /\ t.n \in Nat
      /\ t.type \in {"exit", "close"} => t.outcome \in Outcome
  BY <1>1 DEF Tasks
<1>3. At(c) \in States /\ Onward(At(c), At(c))
  BY <1>2, AtTyped DEF Onward, Later
<1> HIDE DEF t, rest, c
<1>4. CASE t.type = "run" /\ RunCommand(c, rest)
  <2>1. child[tasks[1].child].kind # "fork"
    BY <1>1, <1>4 DEF RunCommand, c
  <2>2. PICK kills \in BOOLEAN, wrote \in BOOLEAN, code \in Code \cup {NoCode} :
          Becomes(c, CommandRuns(c, At(c), kills, wrote, code), rest)
    BY <1>4 DEF RunCommand
  <2> DEFINE s == CommandRuns(c, At(c), kills, wrote, code)
  <2>3. s \in States /\ Onward(At(c), s)
    BY <1>2, <1>3, CommandRunsTyped, CommandRunsOnward
  <2> HIDE DEF s
  <2>4. Becomes(c, s, rest)
    BY <2>2 DEF s
  <2> QED
    BY <1>1, <1>2, <2>1, <2>3, <2>4, BecomesForward
<1>5. CASE t.type = "run" /\ RunModule(c, rest)
  <2>1. PICK kills \in BOOLEAN, handles \in BOOLEAN, throws \in BOOLEAN,
             n \in 0 .. MaxSend :
          Becomes(c, ModuleRuns(c, At(c), kills, n, handles, throws), rest)
    BY <1>5 DEF RunModule
  <2>2. n \in Nat
    BY ChildAssumption
  <2> DEFINE s == ModuleRuns(c, At(c), kills, n, handles, throws)
  <2>3. s \in States /\ Onward(At(c), s) /\ (s.r.ready \/ s.r.cancelled)
    BY <1>2, <1>3, <2>2, ModuleRunsTyped, ModuleRunsOnward
  <2> HIDE DEF s
  <2>4. Becomes(c, s, rest)
    BY <2>1 DEF s
  <2>5. tasks[1].child = c
    BY <1>1 DEF c
  <2> QED
    BY <1>1, <1>2, <2>3, <2>4, <2>5, BecomesForward
<1>6. CASE t.type = "exit" /\ RunExit(c, t.outcome, rest)
  <2> DEFINE q == << Task("close", c, 0, t.outcome) >>
  <2>1. q \in Seq(Tasks) /\ Quiet(q)
    BY <1>2, <1>6 DEF Task, Tasks, Quiet
  <2>2. tasks' = rest \o q /\ child' = child
    BY <1>1, <1>6 DEF RunExit
  <2>3. \A d \in Child : Later(child[d], child'[d])
    BY <2>2 DEF Later
  <2> HIDE DEF q
  <2> QED
    BY <1>1, <1>6, <2>1, <2>2, <2>3, Forward
<1>7. CASE t.type = "close" /\ RunClose(c, t.outcome, rest)
  <2> DEFINE closed == [At(c) EXCEPT
                          !.seen = << Event("close", 0, t.outcome) >>]
             s == IF child[c].connected THEN Disconnected(closed) ELSE closed
  <2>1. << Event("close", 0, t.outcome) >> \in Seq(Events)
    BY <1>2, <1>7 DEF Event, Events
  <2>2. closed \in States /\ Onward(At(c), closed)
    BY <1>3, <2>1 DEF States, Onward, Later
  <2>3. Disconnected(closed) \in States /\ Onward(closed, Disconnected(closed))
    BY <2>2, DisconnectedTyped, DisconnectedOnward
  <2>4. Onward(At(c), Disconnected(closed))
    BY <2>2, <2>3, OnwardTransitive
  <2>5. Becomes(c, s, rest)
    BY <1>7 DEF RunClose
  <2>6. s \in States /\ Onward(At(c), s)
    BY <2>2, <2>3, <2>4
  <2> HIDE DEF s
  <2> QED
    BY <1>1, <1>2, <1>7, <2>5, <2>6, BecomesForward
<1>8. CASE t.type = "toChild" /\ RunToChild(c, t.n, rest)
  <2>1. \A d \in Child : Later(child[d], child'[d])
    BY <1>8 DEF RunToChild, Later, TypeOK, Children
  <2>2. tasks' = rest \o << >> /\ Quiet(<< >>) /\ << >> \in Seq(Tasks)
    BY <1>1, <1>8 DEF RunToChild, Quiet
  <2> QED
    BY <1>1, <1>8, <2>1, <2>2, Forward
<1>9. CASE t.type = "toParent" /\ RunToParent(c, t.n, rest)
  <2>1. \A d \in Child : Later(child[d], child'[d])
    BY <1>9 DEF RunToParent, Later
  <2>2. tasks' = rest \o << >> /\ Quiet(<< >>) /\ << >> \in Seq(Tasks)
    BY <1>1, <1>9 DEF RunToParent, Quiet
  <2> QED
    BY <1>1, <1>9, <2>1, <2>2, Forward
<1> QED
  BY <1>4, <1>5, <1>6, <1>7, <1>8, <1>9 DEF RunTask, t, rest, c

(* A message sent to a fork is never delivered before the module has run,   *)
(* unless the child was killed, whatever else is queued (lines 302 and 611):*)
(* fork queues the module's microtask before it returns, send() queues      *)
(* behind it, and what kill() and the module do never takes that back.      *)
THEOREM MessagesFollow == Spec => []MessagesFollowTheModule
<1>1. Init => MessageInv
  <2> SUFFICES ASSUME Init PROVE MessageInv
    OBVIOUS
  <2>1. tasks = << >> /\ \A c \in Child : ~child[c].channel
    BY DEF Init, NewChild
  <2> QED
    BY <2>1 DEF MessageInv, ForksOnly, RunIsDue, MessagesFollowTheModule
<1>2. TypeOK /\ MessageInv /\ [Next]_vars => MessageInv'
  <2> SUFFICES ASSUME TypeOK, MessageInv, [Next]_vars PROVE MessageInv'
    OBVIOUS
  <2>1. CASE UNCHANGED vars
    BY <2>1 DEF vars, MessageInv, ForksOnly, RunIsDue, MessagesFollowTheModule
  <2> QED
    BY <2>1, CallerFollows, TaskFollows DEF Next
<1>3. MessageInv => MessagesFollowTheModule
  BY DEF MessageInv
<1> QED
  BY <1>1, <1>2, <1>3, ChildTyped, PTL DEF Spec

-----------------------------------------------------------------------------
(* What is in a sequence: an element of S, at most one, those of A before   *)
(* those of B.                                                              *)
Has(q, S) == \E i \in DOMAIN q : q[i] \in S
Once(q, S) == \A i, j \in DOMAIN q : q[i] \in S /\ q[j] \in S => i = j
Before(q, A, B) == \A i, j \in DOMAIN q : q[i] \in A /\ q[j] \in B => i < j

LEMMA ConcatParts ==
  ASSUME NEW T, NEW q \in Seq(T), NEW r \in Seq(T)
  PROVE  /\ DOMAIN q = 1 .. Len(q) /\ Len(q) \in Nat /\ Len(r) \in Nat
         /\ DOMAIN r = 1 .. Len(r) /\ DOMAIN (q \o r) = 1 .. (Len(q) + Len(r))
         /\ \A i \in 1 .. Len(q) : (q \o r)[i] = q[i]
         /\ \A i \in 1 .. Len(r) : (q \o r)[Len(q) + i] = r[i]
         /\ \A i \in 1 .. (Len(q) + Len(r)) : i \in 1 .. Len(q) \/ i - Len(q) \in 1 .. Len(r)
<1>1. Len(q) \in Nat /\ Len(r) \in Nat /\ DOMAIN q = 1 .. Len(q) /\ DOMAIN r = 1 .. Len(r)
  BY LenProperties
<1>2. /\ q \o r \in Seq(T) /\ Len(q \o r) = Len(q) + Len(r)
      /\ \A i \in 1 .. Len(q) + Len(r) :
           (q \o r)[i] = IF i <= Len(q) THEN q[i] ELSE r[i - Len(q)]
  BY ConcatProperties
<1>3. DOMAIN (q \o r) = 1 .. (Len(q) + Len(r))
  BY <1>2, LenProperties
<1> QED BY <1>1, <1>2, <1>3

LEMMA Concat ==
  ASSUME NEW T, NEW q \in Seq(T), NEW r \in Seq(T)
  PROVE  /\ \A S : Has(q \o r, S) <=> Has(q, S) \/ Has(r, S)
         /\ \A S : Once(q, S) /\ ~Has(r, S) => Once(q \o r, S)
         /\ \A S : ~Has(q, S) /\ Once(r, S) => Once(q \o r, S)
         /\ \A A, B : /\ Before(q, A, B) /\ Before(r, A, B)
                      /\ ~(Has(q, B) /\ Has(r, A))
                      => Before(q \o r, A, B)
<1> DEFINE m == Len(q)  n == Len(r)  s == q \o r
<1>1. /\ DOMAIN q = 1 .. m /\ m \in Nat /\ n \in Nat
      /\ DOMAIN r = 1 .. n /\ DOMAIN s = 1 .. (m + n)
      /\ \A i \in 1 .. m : s[i] = q[i]
      /\ \A i \in 1 .. n : s[m + i] = r[i]
  BY ConcatParts
<1> HIDE DEF m, n, s
<1>2. \A i \in DOMAIN s : \/ i \in DOMAIN q /\ s[i] = q[i]
                          \/ i > m /\ i - m \in DOMAIN r /\ s[i] = r[i - m]
  <2> SUFFICES ASSUME NEW i \in 1 .. (m + n), i > m
               PROVE  i - m \in 1 .. n /\ s[i] = r[i - m]
    BY <1>1
  <2>1. i - m \in 1 .. n /\ m + (i - m) = i
    BY <1>1
  <2> QED BY <1>1, <2>1
<1>3. /\ \A i \in DOMAIN q : i \in DOMAIN s /\ s[i] = q[i]
      /\ \A i \in DOMAIN r : m + i \in DOMAIN s /\ s[m + i] = r[i]
  BY <1>1
<1>4. \A S : Has(s, S) <=> Has(q, S) \/ Has(r, S)
  BY <1>2, <1>3 DEF Has
<1>5. ASSUME NEW S, Once(q, S), ~Has(r, S) PROVE Once(s, S)
  BY <1>2, <1>5 DEF Has, Once
<1>6. ASSUME NEW S, ~Has(q, S), Once(r, S) PROVE Once(s, S)
  <2> SUFFICES ASSUME NEW i \in DOMAIN s, NEW j \in DOMAIN s, s[i] \in S, s[j] \in S
               PROVE  i = j
    BY DEF Once
  <2>1. i - m \in DOMAIN r /\ j - m \in DOMAIN r /\ r[i - m] \in S /\ r[j - m] \in S
    BY <1>2, <1>6 DEF Has
  <2>2. i - m = j - m
    BY <1>6, <2>1 DEF Once
  <2> QED BY <1>1, <2>2
<1>7. ASSUME NEW A, NEW B, Before(q, A, B), Before(r, A, B), ~(Has(q, B) /\ Has(r, A))
      PROVE  Before(s, A, B)
  <2> SUFFICES ASSUME NEW i \in DOMAIN s, NEW j \in DOMAIN s, s[i] \in A, s[j] \in B
               PROVE  i < j
    BY DEF Before
  <2>1. CASE i \in DOMAIN q /\ s[i] = q[i] /\ j \in DOMAIN q /\ s[j] = q[j]
    BY <1>7, <2>1 DEF Before
  <2>2. CASE i \in DOMAIN q /\ j > m
    BY <1>1, <2>2
  <2>3. CASE /\ i - m \in DOMAIN r /\ s[i] = r[i - m]
             /\ j - m \in DOMAIN r /\ s[j] = r[j - m]
    <3>1. i - m < j - m
      BY <1>7, <2>3 DEF Before
    <3> QED BY <1>1, <3>1
  <2>4. CASE i - m \in DOMAIN r /\ s[i] = r[i - m] /\ j \in DOMAIN q /\ s[j] = q[j]
    BY <1>7, <2>4 DEF Has
  <2> QED BY <1>2, <2>1, <2>2, <2>3, <2>4
<1> QED BY <1>4, <1>5, <1>6, <1>7 DEF s

LEMMA TailOf ==
  ASSUME NEW T, NEW q \in Seq(T), q # << >>, NEW S
  PROVE  /\ Tail(q) \in Seq(T) /\ Head(q) \in T
         /\ Has(Tail(q), S) => Has(q, S)
         /\ Head(q) \in S => Has(q, S)
         /\ Once(q, S) => Once(Tail(q), S)
         /\ Once(q, S) /\ Head(q) \in S => ~Has(Tail(q), S)
<1> DEFINE t == Tail(q)
<1>1. /\ t \in Seq(T) /\ Len(t) = Len(q) - 1 /\ Len(q) \in Nat /\ Len(q) > 0
      /\ \A i \in 1 .. Len(t) : t[i] = q[i + 1]
      /\ Head(q) = q[1] /\ Head(q) \in T
  BY HeadTailProperties, EmptySeq, LenProperties
<1>2. DOMAIN q = 1 .. Len(q) /\ DOMAIN t = 1 .. Len(t)
  BY <1>1, LenProperties
<1>3. /\ \A i \in DOMAIN t : i + 1 \in DOMAIN q /\ i + 1 # 1 /\ t[i] = q[i + 1] /\ i \in Int
      /\ 1 \in DOMAIN q
  BY <1>1, <1>2
<1> HIDE DEF t
<1>4. Has(t, S) => Has(q, S)
  BY <1>3 DEF Has
<1>5. Head(q) \in S => Has(q, S)
  BY <1>1, <1>3 DEF Has
<1>6. Once(q, S) => Once(t, S)
  BY <1>3 DEF Once
<1>7. Once(q, S) /\ Head(q) \in S => ~Has(t, S)
  BY <1>1, <1>3 DEF Once, Has
<1> QED BY <1>1, <1>4, <1>5, <1>6, <1>7 DEF t

LEMMA OneElement ==
  ASSUME NEW e
  PROVE  /\ \A S : Has(<<e>>, S) <=> e \in S
         /\ \A S : Once(<<e>>, S)
         /\ \A A, B : ~(e \in A /\ e \in B) => Before(<<e>>, A, B)
BY DEF Has, Once, Before

LEMMA NoElement ==
  /\ \A S : ~Has(<< >>, S) /\ Once(<< >>, S)
  /\ \A A, B : Before(<< >>, A, B)
BY DEF Has, Once, Before

-----------------------------------------------------------------------------
(* The tasks of a child, and the events its callers see.                    *)
Of(c, type) == {t \in Tasks : t.type = type /\ t.child = c}
Other(c, o) == {t \in Tasks : /\ t.child = c
                              /\ t.type \in {"toChild", "toParent"} \/ (t.type = "exit" /\ t.outcome = o)}
Ev(types) == {e \in Events : e.type \in types}
Shown == {"output", "error"}
Loud == Shown \cup {"callback"}

(* What holds of the state s that a call of c composes its steps over: what *)
(* it has done so far to a child that was as it still is in child[c].       *)
Good(c, s) ==
  /\ s \in States
  /\ s.r.kind = child[c].kind
  /\ child[c].exited => s.r.exited /\ s.entry = table[c]
  /\ child[c].cancelled => s.r.cancelled
  /\ IF s.r.exited THEN s.entry \in Outcome ELSE s.entry = Unsettled
  /\ ~Has(s.queued, Tasks \ Other(c, s.entry))
  /\ Once(s.queued, Of(c, "exit"))
  /\ Has(s.queued, Of(c, "exit")) <=> s.r.exited /\ ~child[c].exited
  /\ ~Has(s.seen, Ev({"exit", "close"}))
  /\ Has(s.seen, Ev({"kill"})) => s.r.cancelled
  /\ Before(s.seen, Ev(Loud), Ev({"kill"}))
  /\ child[c].cancelled => ~Has(s.seen, Ev(Loud))

LEMMA GoodEmit ==
  ASSUME NEW c \in Child, NEW s, Good(c, s), NEW type \in Loud, ~s.r.cancelled
  PROVE  Good(c, Emit(s, type)) /\ Emit(s, type).r = s.r
<1> DEFINE e == Event(type, 0, Unsettled)
<1>1. /\ e \in Events /\ e.type = type /\ Emit(s, type) \in States
      /\ type \notin {"exit", "close", "kill"}
  BY EmitTyped, Values DEF Good, Loud, Shown, Event, Events
<1>2. s.seen \in Seq(Events) /\ <<e>> \in Seq(Events) /\ Append(s.seen, e) = s.seen \o <<e>>
  BY <1>1, AppendIsConcat DEF Good, States
<1>3. /\ Emit(s, type).seen = s.seen \o <<e>> /\ Emit(s, type).r = s.r
      /\ Emit(s, type).queued = s.queued /\ Emit(s, type).entry = s.entry
  BY <1>2 DEF Emit, Good, States
<1>4. e \notin Ev({"exit", "close"}) /\ e \notin Ev({"kill"})
  BY <1>1 DEF Ev
<1> HIDE DEF e
<1>5. ~Has(s.seen, Ev({"kill"})) /\ ~child[c].cancelled
  BY DEF Good
<1>6. /\ ~Has(s.seen \o <<e>>, Ev({"exit", "close"}))
      /\ ~Has(s.seen \o <<e>>, Ev({"kill"}))
      /\ Before(s.seen \o <<e>>, Ev(Loud), Ev({"kill"}))
  BY <1>2, <1>4, <1>5, Concat, OneElement DEF Good
<1> QED BY <1>1, <1>3, <1>5, <1>6 DEF Good

LEMMA GoodExit ==
  ASSUME NEW c \in Child, NEW s, Good(c, s), NEW outcome \in Outcome
  PROVE  /\ Good(c, EmitExit(c, s, outcome))
         /\ EmitExit(c, s, outcome).r.cancelled = s.r.cancelled
         /\ EmitExit(c, s, outcome).r.kind = s.r.kind
         /\ EmitExit(c, s, outcome).r.throws = s.r.throws
         /\ EmitExit(c, s, outcome).r.listens = s.r.listens
<1>0. CASE s.r.exited
  BY <1>0 DEF EmitExit
<1>1. CASE ~s.r.exited
  <2> DEFINE t == Task("exit", c, 0, outcome)  u == EmitExit(c, s, outcome)
  <2>1. u \in States /\ t \in Tasks /\ t.type = "exit" /\ t.child = c /\ t.outcome = outcome
    BY EmitExitTyped DEF Good, Task, Tasks
  <2>2. s.queued \in Seq(Tasks) /\ <<t>> \in Seq(Tasks) /\ Append(s.queued, t) = s.queued \o <<t>>
    BY <2>1, AppendIsConcat DEF Good, States
  <2>3. /\ u.queued = s.queued \o <<t>> /\ u.seen = s.seen /\ u.entry = outcome
        /\ u.r.exited /\ u.r.cancelled = s.r.cancelled /\ u.r.kind = s.r.kind
        /\ u.r.throws = s.r.throws /\ u.r.listens = s.r.listens
    BY <1>1, <2>2 DEF EmitExit, Good, States, Children
  <2>4. t \in Of(c, "exit") /\ t \notin Tasks \ Other(c, outcome)
    BY <2>1 DEF Of, Other
  <2> HIDE DEF t, u
  <2>5. ~Has(s.queued, Of(c, "exit")) /\ ~child[c].exited
    BY <1>1 DEF Good
  <2>6. ~Has(s.queued, Tasks \ Other(c, outcome))
    <3> SUFFICES ASSUME NEW i \in DOMAIN s.queued, s.queued[i] \in Tasks,
                        s.queued[i] \notin Other(c, outcome)
                 PROVE  FALSE
      BY DEF Has
    <3>1. s.queued[i] \in Other(c, s.entry) /\ s.queued[i] \notin Of(c, "exit")
      BY <2>5 DEF Good, Has
    <3>2. \A x \in Tasks : x \in Other(c, s.entry) /\ x \notin Of(c, "exit") => x \in Other(c, outcome)
      BY DEF Other, Of
    <3> QED BY <3>1, <3>2
  <2>7. /\ ~Has(u.queued, Tasks \ Other(c, outcome))
        /\ Once(u.queued, Of(c, "exit")) /\ Has(u.queued, Of(c, "exit"))
    <3>1. \A S : Has(<<t>>, S) <=> t \in S
      BY OneElement
    <3>0. u.queued = s.queued \o <<t>>
      BY <2>3
    <3>2. \A S : Has(s.queued \o <<t>>, S) <=> Has(s.queued, S) \/ Has(<<t>>, S)
      BY <2>2, Concat
    <3>5. ~Has(u.queued, Tasks \ Other(c, outcome)) /\ Has(u.queued, Of(c, "exit"))
      BY <2>4, <2>6, <3>0, <3>1, <3>2
    <3>3. Once(<<t>>, Of(c, "exit"))
      BY OneElement
    <3>6. \A S : ~Has(s.queued, S) /\ Once(<<t>>, S) => Once(s.queued \o <<t>>, S)
      BY <2>2, Concat
    <3>4. Once(u.queued, Of(c, "exit"))
      BY <2>5, <3>0, <3>3, <3>6
    <3> QED BY <3>4, <3>5
  <2> QED BY <2>1, <2>3, <2>5, <2>7 DEF Good, u
<1> QED BY <1>0, <1>1

LEMMA GoodKilled ==
  ASSUME NEW c \in Child, NEW s, Good(c, s),
         (child[c].killed => child[c].cancelled) /\ (s.r.killed => s.r.cancelled)
  PROVE  Good(c, Killed(c, s)) /\ Killed(c, s).r.cancelled
<1>0. CASE s.r.killed
  BY <1>0 DEF Killed
<1>1. CASE ~s.r.killed
  <2> DEFINE e == Event("kill", 0, Unsettled)
             k == [Emit(s, "kill") EXCEPT
                     !.r.killed = TRUE, !.r.cancelled = TRUE,
                     !.r.signal = TRUE, !.r.code = NoCode]
  <2>1. e \in Events /\ e.type = "kill" /\ Emit(s, "kill") \in States
    BY EmitTyped, Values DEF Good, Event, Events
  <2>2. s.seen \in Seq(Events) /\ <<e>> \in Seq(Events) /\ Append(s.seen, e) = s.seen \o <<e>>
    BY <2>1, AppendIsConcat DEF Good, States
  <2>3. /\ Emit(s, "kill").seen = s.seen \o <<e>> /\ Emit(s, "kill").r = s.r
        /\ Emit(s, "kill").queued = s.queued /\ Emit(s, "kill").entry = s.entry
    BY <2>2 DEF Emit, Good, States
  <2>4. k \in States
    BY <2>1 DEF States, Children, Code
  <2>5. /\ k.seen = s.seen \o <<e>> /\ k.queued = s.queued /\ k.entry = s.entry
        /\ k.r.exited = s.r.exited /\ k.r.kind = s.r.kind /\ k.r.cancelled
    BY <2>1, <2>3 DEF States, Children, Good
  <2>6. e \notin Ev({"exit", "close"}) /\ e \notin Ev(Loud)
    BY <2>1 DEF Ev, Loud, Shown
  <2> HIDE DEF e, k
  <2>7. /\ ~Has(s.seen \o <<e>>, Ev({"exit", "close"}))
        /\ Before(s.seen \o <<e>>, Ev(Loud), Ev({"kill"}))
        /\ child[c].cancelled => ~Has(s.seen \o <<e>>, Ev(Loud))
    BY <2>2, <2>6, Concat, OneElement DEF Good
  <2>8. Good(c, k)
    BY <2>4, <2>5, <2>7 DEF Good
  <2>9. Killed(c, s) = EmitExit(c, k, Signalled)
    BY <1>1 DEF Killed, k
  <2> QED BY <2>5, <2>8, <2>9, GoodExit, Values
<1> QED BY <1>0, <1>1

(* A child that was killed is cancelled.                                    *)
LEMMA KilledFlag ==
  ASSUME NEW c \in Child, NEW s \in States, s.r.killed => s.r.cancelled,
         NEW outcome \in Outcome
  PROVE  /\ Killed(c, s).r.killed => Killed(c, s).r.cancelled
         /\ EmitExit(c, s, outcome).r.killed => EmitExit(c, s, outcome).r.cancelled
<1> DEFINE k == [Emit(s, "kill") EXCEPT
                   !.r.killed = TRUE, !.r.cancelled = TRUE,
                   !.r.signal = TRUE, !.r.code = NoCode]
<1>1. \A o \in Outcome, u \in States :
        /\ EmitExit(c, u, o).r.killed = u.r.killed
        /\ EmitExit(c, u, o).r.cancelled = u.r.cancelled
  BY DEF EmitExit, States, Children
<1>2. Emit(s, "kill") \in States
  BY EmitTyped
<1>3. k \in States /\ k.r.cancelled
  BY <1>2 DEF States, Children, Code
<1> HIDE DEF k
<1>4. CASE s.r.killed
  BY <1>1, <1>4 DEF Killed
<1>5. CASE ~s.r.killed
  <2>1. Killed(c, s) = EmitExit(c, k, Signalled)
    BY <1>5 DEF Killed, k
  <2> QED BY <1>1, <1>3, <2>1, Values
<1> QED BY <1>4, <1>5

LEMMA GoodFail ==
  ASSUME NEW c \in Child, NEW s, Good(c, s), ~s.r.cancelled
  PROVE  /\ Good(c, Fail(c, s)) /\ ~Fail(c, s).r.cancelled
         /\ Fail(c, s).r.killed = s.r.killed
<1>1. Good(c, Emit(s, "error")) /\ Emit(s, "error").r = s.r
  BY GoodEmit DEF Loud, Shown
<1>2. Returned(1) \in Outcome
  BY Values DEF Code
<1>3. /\ Good(c, EmitExit(c, Emit(s, "error"), Returned(1)))
      /\ ~EmitExit(c, Emit(s, "error"), Returned(1)).r.cancelled
  BY <1>1, <1>2, GoodExit
<1>4. EmitExit(c, Emit(s, "error"), Returned(1)).r.killed = s.r.killed
  BY <1>1 DEF EmitExit, Good, States, Children
<1> QED BY <1>3, <1>4 DEF Fail

LEMMA GoodCalled ==
  ASSUME NEW c \in Child, NEW s, Good(c, s), ~s.r.cancelled
  PROVE  /\ Good(c, Called(s)) /\ ~Called(s).r.cancelled
         /\ Called(s).r.killed = s.r.killed
BY GoodEmit DEF Called, Loud

LEMMA GoodCallback ==
  ASSUME NEW c \in Child, NEW s, Good(c, s), ~s.r.cancelled
  PROVE  /\ Good(c, Callback(c, s)) /\ Callback(c, s).r.killed = s.r.killed
         /\ ~Callback(c, s).r.cancelled
<1>1. Good(c, Called(s)) /\ ~Called(s).r.cancelled /\ Called(s).r.killed = s.r.killed
  BY GoodCalled
<1>2. /\ Good(c, Fail(c, Called(s))) /\ ~Fail(c, Called(s)).r.cancelled
      /\ Fail(c, Called(s)).r.killed = s.r.killed
  BY <1>1, GoodFail
<1>3. /\ Good(c, Called(Fail(c, Called(s)))) /\ ~Called(Fail(c, Called(s))).r.cancelled
      /\ Called(Fail(c, Called(s))).r.killed = s.r.killed
  BY <1>2, GoodCalled
<1> QED BY <1>1, <1>3 DEF Callback

LEMMA GoodCommand ==
  ASSUME NEW c \in Child, NEW s, Good(c, s), s.r.killed => s.r.cancelled,
         child[c].killed => child[c].cancelled,
         NEW kills \in BOOLEAN, NEW wrote \in BOOLEAN, NEW code \in Code \cup {NoCode}
  PROVE  LET u == CommandRuns(c, s, kills, wrote, code)
         IN  Good(c, u) /\ (u.r.killed => u.r.cancelled)
<1> DEFINE ran == IF kills THEN Killed(c, s) ELSE s
           u == CommandRuns(c, s, kills, wrote, code)
<1>1. s \in States
  BY DEF Good
<1>2. Good(c, ran) /\ (ran.r.killed => ran.r.cancelled)
  BY <1>1, GoodKilled, KilledFlag, Values
<1> HIDE DEF ran
<1>3. CASE s.r.cancelled
  BY <1>3 DEF CommandRuns
<1>4. CASE ~s.r.cancelled /\ ran.r.cancelled
  BY <1>2, <1>4 DEF CommandRuns, ran
<1>5. CASE ~s.r.cancelled /\ ~ran.r.cancelled
  <2>1. /\ Good(c, Fail(c, ran)) /\ ~Fail(c, ran).r.cancelled
        /\ Fail(c, ran).r.killed = ran.r.killed
    BY <1>2, <1>5, GoodFail
  <2>2. /\ Good(c, Called(Fail(c, ran)))
        /\ Called(Fail(c, ran)).r.killed = ran.r.killed
    BY <2>1, GoodCalled
  <2>3. CASE code = NoCode
    <3>1. u = IF ran.r.kind = "exec" /\ ran.r.listens THEN Called(Fail(c, ran)) ELSE Fail(c, ran)
      BY <1>5, <2>3 DEF CommandRuns, ran
    <3> QED BY <1>2, <1>5, <2>1, <2>2, <3>1
  <2>4. CASE code # NoCode
    <3> DEFINE o == Output(ran, wrote)  x == EmitExit(c, o, Returned(code))
    <3>1. Good(c, o) /\ o.r = ran.r
      BY <1>2, <1>5, GoodEmit DEF Output, Loud, Shown
    <3>2. Returned(code) \in Outcome
      BY <2>4, Values
    <3>3. Good(c, x) /\ ~x.r.cancelled
      BY <1>5, <3>1, <3>2, GoodExit
    <3>4. x.r.killed = ran.r.killed
      BY <3>1 DEF EmitExit, Good, States, Children
    <3>5. u = Callback(c, x)
      BY <1>5, <2>4 DEF CommandRuns, ran
    <3> HIDE DEF o, x
    <3>6. Good(c, Callback(c, x)) /\ Callback(c, x).r.killed = x.r.killed
      BY <3>3, GoodCallback
    <3> QED BY <1>2, <1>5, <3>4, <3>5, <3>6
  <2> QED BY <2>3, <2>4
<1> QED BY <1>3, <1>4, <1>5

LEMMA GoodPost ==
  ASSUME NEW c \in Child, NEW s, Good(c, s), NEW n \in Nat
  PROVE  /\ Good(c, Post(c, s, n))
         /\ Post(c, s, n).r.cancelled = s.r.cancelled
         /\ Post(c, s, n).r.killed = s.r.killed
<1> DEFINE m == [k \in 1 .. n |-> Task("toParent", c, s.r.sentUp + k, Unsettled)]
           u == Post(c, s, n)
<1>1. u \in States
  BY PostTyped DEF Good
<1>2. s.r.sentUp \in Nat /\ s.queued \in Seq(Tasks)
  BY DEF Good, States, Children
<1>3. \A k \in 1 .. n : /\ m[k] \in Tasks /\ m[k].type = "toParent" /\ m[k].child = c
  BY <1>2 DEF Task, Tasks
<1>4. m \in Seq(Tasks) /\ DOMAIN m = 1 .. n
  <2>1. m \in [1 .. n -> Tasks]
    BY <1>3
  <2> QED BY <2>1, SeqDef
<1>5. /\ u.queued = s.queued \o m /\ u.seen = s.seen /\ u.entry = s.entry
      /\ u.r = [s.r EXCEPT !.sentUp = @ + n]
  BY DEF Post, Good, States
<1>6. /\ u.r.exited = s.r.exited /\ u.r.cancelled = s.r.cancelled
      /\ u.r.kind = s.r.kind /\ u.r.killed = s.r.killed
  BY <1>5 DEF Good, States, Children
<1>7. ~Has(m, Of(c, "exit")) /\ ~Has(m, Tasks \ Other(c, s.entry))
  <2>1. \A k \in 1 .. n : m[k] \notin Of(c, "exit") /\ m[k] \in Other(c, s.entry)
    BY <1>3 DEF Of, Other
  <2> QED BY <1>4, <2>1 DEF Has
<1> HIDE DEF m, u
<1>8. /\ \A S : Has(s.queued \o m, S) <=> Has(s.queued, S) \/ Has(m, S)
      /\ \A S : Once(s.queued, S) /\ ~Has(m, S) => Once(s.queued \o m, S)
  BY <1>2, <1>4, Concat
<1>9. /\ ~Has(u.queued, Tasks \ Other(c, s.entry)) /\ Once(u.queued, Of(c, "exit"))
      /\ Has(u.queued, Of(c, "exit")) <=> Has(s.queued, Of(c, "exit"))
  BY <1>5, <1>7, <1>8 DEF Good
<1> QED BY <1>1, <1>5, <1>6, <1>9 DEF Good, u

LEMMA GoodModule ==
  ASSUME NEW c \in Child, NEW s, Good(c, s), s.r.killed => s.r.cancelled,
         child[c].killed => child[c].cancelled,
         NEW kills \in BOOLEAN, NEW handles \in BOOLEAN, NEW throws \in BOOLEAN,
         NEW n \in Nat
  PROVE  LET u == ModuleRuns(c, s, kills, n, handles, throws)
         IN  Good(c, u) /\ (u.r.killed => u.r.cancelled)
<1> DEFINE ready == [s EXCEPT !.r.ready = TRUE, !.r.handler = handles]
           posted == Post(c, ready, n)
           ran == IF kills THEN Killed(c, posted) ELSE posted
           u == ModuleRuns(c, s, kills, n, handles, throws)
<1> SUFFICES Good(c, u) /\ (u.r.killed => u.r.cancelled)
  OBVIOUS
<1>1. /\ ready \in States /\ ready.queued = s.queued /\ ready.seen = s.seen
      /\ ready.entry = s.entry /\ ready.r.exited = s.r.exited
      /\ ready.r.cancelled = s.r.cancelled /\ ready.r.killed = s.r.killed
      /\ ready.r.kind = s.r.kind
  BY DEF Good, States, Children
<1> HIDE DEF ready
<1>2. Good(c, ready)
  BY <1>1 DEF Good
<1>3. /\ Good(c, posted) /\ posted.r.cancelled = s.r.cancelled
      /\ posted.r.killed = s.r.killed
  BY <1>1, <1>2, GoodPost
<1> HIDE DEF posted
<1>4. Good(c, ran) /\ (ran.r.killed => ran.r.cancelled)
  <2>1. posted \in States
    BY <1>3 DEF Good
  <2> QED BY <1>3, <2>1, GoodKilled, KilledFlag, Values
<1> HIDE DEF ran
<1>5. CASE s.r.cancelled
  BY <1>5 DEF ModuleRuns
<1>6. CASE ~s.r.cancelled /\ ~throws
  <2>1. u = EmitExit(c, ran, Returned(0))
    BY <1>6 DEF ModuleRuns, ran, posted, ready
  <2>2. Returned(0) \in Outcome /\ ran \in States
    BY <1>4, Values DEF Code, Good
  <2> HIDE DEF u
  <2> QED BY <1>4, <2>1, <2>2, GoodExit, KilledFlag
<1>7. CASE ~s.r.cancelled /\ throws /\ ran.r.cancelled
  BY <1>4, <1>7 DEF ModuleRuns, ran, posted, ready
<1>8. CASE ~s.r.cancelled /\ throws /\ ~ran.r.cancelled
  <2>1. u = Fail(c, ran)
    BY <1>8 DEF ModuleRuns, ran, posted, ready
  <2> HIDE DEF u
  <2> QED BY <1>4, <1>8, <2>1, GoodFail
<1> QED BY <1>5, <1>6, <1>7, <1>8

-----------------------------------------------------------------------------
(* The life of a child, with q for the microtasks still to come. Its exit   *)
(* is decided, queued, seen and closed, in this order; what decides it is   *)
(* the microtask that runs it, once, or a kill.                             *)
Settled(c) ==
  /\ child[c].killed => child[c].cancelled
  /\ IF child[c].exited THEN table[c] \in Outcome ELSE table[c] = Unsettled

Unborn(c, q) ==
  ~Started(c) => /\ child[c] = NewChild("none", TRUE, FALSE)
                 /\ events[c] = << >>
                 /\ ~Has(q, {t \in Tasks : t.child = c})

Queued(c, q) ==
  /\ Once(q, Of(c, "run")) /\ Once(q, Of(c, "exit")) /\ Once(q, Of(c, "close"))
  /\ Has(q, Of(c, "run")) => child[c].cancelled \/ ~child[c].exited
  /\ Has(q, Of(c, "exit")) => /\ child[c].exited /\ ~Has(q, Of(c, "close"))
                             /\ ~Has(events[c], Ev({"exit", "close"}))
  /\ Has(q, Of(c, "close")) => /\ Has(events[c], Ev({"exit"}))
                              /\ ~Has(events[c], Ev({"close"}))
  /\ ~Has(q, {t \in Tasks : /\ t.child = c /\ t.type \in {"exit", "close"}
                            /\ t.outcome # table[c]})

Past(c) ==
  /\ Has(events[c], Ev({"exit", "close"})) => child[c].exited
  /\ Has(events[c], Ev({"close"})) => Has(events[c], Ev({"exit"}))
  /\ ~Has(events[c], {e \in Events : e.type = "exit" /\ e.outcome # table[c]})
  /\ Once(events[c], Ev({"exit"})) /\ Once(events[c], Ev({"close"}))
  /\ Before(events[c], Ev({"exit"}), Ev({"close"}))
  /\ Before(events[c], Ev(Shown), Ev({"exit", "close"}))
  /\ Before(events[c], Ev(Loud), Ev({"kill"}))
  /\ Has(events[c], Ev({"kill"})) => child[c].cancelled

LifeOf(c, q) == Settled(c) /\ Unborn(c, q) /\ Queued(c, q) /\ Past(c)

(* A waiter waits for one child, and was told what is in the process table. *)
WaitInv ==
  \A w \in Waiter : \A c \in waiting[w].child :
    /\ \A d \in waiting[w].child : d = c
    /\ waiting[w].result # Unsettled => waiting[w].result = table[c]

LifeInv == TypeOK /\ WaitInv /\ \A c \in Child : LifeOf(c, tasks)

LEMMA LifeInit == ASSUME Init PROVE LifeInv
<1>1. TypeOK
  BY TypeInit
<1>2. WaitInv
  BY DEF Init, WaitInv
<1>3. ASSUME NEW c \in Child PROVE LifeOf(c, tasks)
  <2>1. /\ child[c] = NewChild("none", TRUE, FALSE) /\ events[c] = << >>
        /\ table[c] = Unsettled /\ tasks = << >>
    BY DEF Init
  <2>2. ~child[c].killed /\ ~child[c].exited /\ ~Started(c)
    BY <2>1 DEF NewChild, Started
  <2> QED BY <2>1, <2>2, NoElement DEF LifeOf, Settled, Unborn, Queued, Past
<1> QED BY <1>1, <1>2, <1>3 DEF LifeInv

LEMMA LifeSame ==
  ASSUME NEW d \in Child, LifeOf(d, tasks), UNCHANGED <<tasks, child, table, events>>
  PROVE  LifeOf(d, tasks)'
<1>1. Settled(d)' /\ Unborn(d, tasks)'
  BY DEF LifeOf, Settled, Unborn, Started
<1>2. Queued(d, tasks)'
  BY DEF LifeOf, Queued, Of, Ev
<1>3. Past(d)'
  BY DEF LifeOf, Past, Ev, Shown, Loud
<1> QED BY <1>1, <1>2, <1>3 DEF LifeOf

(* Of fewer microtasks less is asked.                                       *)
LEMMA LifePops ==
  ASSUME TypeOK, NEW c \in Child, LifeOf(c, tasks), tasks # << >>
  PROVE  LifeOf(c, Tail(tasks))
<1>1. tasks \in Seq(Tasks)
  BY DEF TypeOK
<1>2. \A S : /\ Has(Tail(tasks), S) => Has(tasks, S)
             /\ Once(tasks, S) => Once(Tail(tasks), S)
  BY <1>1, TailOf
<1>3. Unborn(c, Tail(tasks))
  BY <1>2 DEF LifeOf, Unborn
<1>4. Queued(c, Tail(tasks))
  BY <1>2 DEF LifeOf, Queued
<1> QED BY <1>3, <1>4 DEF LifeOf

(* A step of another child.                                                 *)
LEMMA LifeOther ==
  ASSUME NEW d \in Child, NEW queue \in Seq(Tasks), NEW added \in Seq(Tasks),
         ~Has(added, {t \in Tasks : t.child = d}), LifeOf(d, queue),
         child'[d] = child[d], table'[d] = table[d], events'[d] = events[d],
         tasks' = queue \o added
  PROVE  LifeOf(d, tasks)'
<1>1. \A S : S \subseteq {t \in Tasks : t.child = d} => ~Has(added, S)
  BY DEF Has
<1>2. /\ \A S : Has(tasks', S) <=> Has(queue, S) \/ Has(added, S)
      /\ \A S : Once(queue, S) /\ ~Has(added, S) => Once(tasks', S)
  BY Concat
<1>3. \A type : Of(d, type) \subseteq {t \in Tasks : t.child = d}
  BY DEF Of
<1>4. \A o : {t \in Tasks : /\ t.child = d /\ t.type \in {"exit", "close"}
                            /\ t.outcome # o}
             \subseteq {t \in Tasks : t.child = d}
  OBVIOUS
<1>5. Queued(d, tasks)'
  BY <1>1, <1>2, <1>3, <1>4 DEF LifeOf, Queued, Of, Ev
<1>6. Unborn(d, tasks)'
  BY <1>1, <1>2 DEF LifeOf, Unborn, Started
<1> QED BY <1>5, <1>6 DEF LifeOf, Settled, Past, Ev

(* What is still to be asked of a step of c itself that is Good.            *)
LEMMA LifeSelf ==
  ASSUME NEW c \in Child, NEW queue \in Seq(Tasks), NEW s, Good(c, s),
         LifeOf(c, queue), Started(c), events[c] \in Seq(Events),
         s.r.killed => s.r.cancelled,
         child[c].exited => ~Has(s.seen, Ev(Shown)),
         Has(queue, Of(c, "run")) /\ s.r.exited => s.r.cancelled,
         child'[c] = s.r, table'[c] = s.entry,
         events'[c] = events[c] \o s.seen, tasks' = queue \o s.queued
  PROVE  LifeOf(c, tasks)'
<1> DEFINE add == s.queued  seen == s.seen  past == events[c]
<1>1. add \in Seq(Tasks) /\ seen \in Seq(Events)
  BY DEF Good, States
<1>2. /\ \A S : Has(tasks', S) <=> Has(queue, S) \/ Has(add, S)
      /\ \A S : Once(queue, S) /\ ~Has(add, S) => Once(tasks', S)
      /\ \A S : ~Has(queue, S) /\ Once(add, S) => Once(tasks', S)
  BY <1>1, Concat
<1>3. /\ \A S : Has(events'[c], S) <=> Has(past, S) \/ Has(seen, S)
      /\ \A S : Once(past, S) /\ ~Has(seen, S) => Once(events'[c], S)
      /\ \A A, B : Before(past, A, B) /\ Before(seen, A, B) /\ ~(Has(past, B) /\ Has(seen, A))
                     => Before(events'[c], A, B)
  BY <1>1, Concat
<1>4. \A S : S \subseteq Tasks \ Other(c, s.entry) => ~Has(add, S)
  BY DEF Good, Has
<1>5. /\ ~Has(add, Of(c, "run")) /\ ~Has(add, Of(c, "close"))
      /\ ~Has(add, {t \in Tasks : /\ t.child = c /\ t.type \in {"exit", "close"}
                                  /\ t.outcome # s.entry})
  <2>1. /\ Of(c, "run") \subseteq Tasks \ Other(c, s.entry)
        /\ Of(c, "close") \subseteq Tasks \ Other(c, s.entry)
        /\ {t \in Tasks : /\ t.child = c /\ t.type \in {"exit", "close"}
                          /\ t.outcome # s.entry} \subseteq Tasks \ Other(c, s.entry)
    BY DEF Of, Other
  <2> QED BY <1>4, <2>1
<1>6. \A S : S \subseteq Ev({"exit", "close"}) => ~Has(seen, S)
  BY DEF Good, Has
<1>7. /\ ~Has(seen, Ev({"exit"})) /\ ~Has(seen, Ev({"close"})) /\ ~Has(seen, Ev({"exit", "close"}))
      /\ \A o : ~Has(seen, {e \in Events : e.type = "exit" /\ e.outcome # o})
  <2>1. /\ Ev({"exit"}) \subseteq Ev({"exit", "close"}) /\ Ev({"close"}) \subseteq Ev({"exit", "close"})
        /\ \A o : {e \in Events : e.type = "exit" /\ e.outcome # o} \subseteq Ev({"exit", "close"})
    BY DEF Ev
  <2> QED BY <1>6, <2>1
<1> HIDE DEF add, seen, past
<1>8. Settled(c)'
  BY DEF Good, Settled
<1>9. Unborn(c, tasks)'
  BY DEF Good, Unborn, Started
<1>10. Queued(c, tasks)'
  <2>1. /\ Once(tasks', Of(c, "run")) /\ Once(tasks', Of(c, "close"))
        /\ Has(tasks', Of(c, "run")) <=> Has(queue, Of(c, "run"))
        /\ Has(tasks', Of(c, "close")) <=> Has(queue, Of(c, "close"))
    BY <1>2, <1>5 DEF LifeOf, Queued
  <2>2. Has(queue, Of(c, "exit")) => ~Has(add, Of(c, "exit"))
    BY DEF LifeOf, Queued, Good, add
  <2>3. Once(tasks', Of(c, "exit"))
    BY <1>2, <2>2 DEF LifeOf, Queued, Good, add
  <2>4. Has(tasks', Of(c, "run")) => child'[c].cancelled \/ ~child'[c].exited
    BY <2>1
  <2>5. ~Has(events'[c], Ev({"exit", "close"})) <=> ~Has(past, Ev({"exit", "close"}))
    BY <1>3, <1>7
  <2>6. ASSUME Has(tasks', Of(c, "exit"))
        PROVE  /\ child'[c].exited /\ ~Has(tasks', Of(c, "close"))
               /\ ~Has(events'[c], Ev({"exit", "close"}))
    <3>1. CASE Has(queue, Of(c, "exit"))
      BY <2>1, <2>5, <3>1 DEF LifeOf, Queued, Good, past
    <3>2. CASE Has(add, Of(c, "exit"))
      <4>1. ~child[c].exited /\ s.r.exited
        BY <3>2 DEF Good, add
      <4>2. ~Has(past, Ev({"exit", "close"}))
        BY <4>1 DEF LifeOf, Past, past
      <4>3. ~Has(queue, Of(c, "close"))
        <5>1. Has(past, Ev({"exit"})) => Has(past, Ev({"exit", "close"}))
          BY DEF Has, Ev
        <5> QED BY <4>2, <5>1 DEF LifeOf, Queued, past
      <4> QED BY <2>1, <2>5, <4>1, <4>2, <4>3
    <3> QED BY <1>2, <2>6, <3>1, <3>2
  <2>7. Has(tasks', Of(c, "close")) => /\ Has(events'[c], Ev({"exit"}))
                                       /\ ~Has(events'[c], Ev({"close"}))
    BY <1>3, <1>7, <2>1 DEF LifeOf, Queued, past
  <2>8. ~Has(queue, {t \in Tasks : /\ t.child = c /\ t.type \in {"exit", "close"}
                                   /\ t.outcome # s.entry})
    <3>1. CASE child[c].exited
      <4>1. s.entry = table[c]
        BY <3>1 DEF Good
      <4> QED BY <4>1 DEF LifeOf, Queued
    <3>2. CASE ~child[c].exited
      <4>1. ~Has(queue, Of(c, "exit"))
        BY <3>2 DEF LifeOf, Queued
      <4>2. ~Has(queue, Of(c, "close"))
        <5>1. Has(past, Ev({"exit"})) => Has(past, Ev({"exit", "close"}))
          BY DEF Has, Ev
        <5> QED BY <3>2, <5>1 DEF LifeOf, Queued, Past, past
      <4>3. \A i \in DOMAIN queue : queue[i] \notin Of(c, "exit") /\ queue[i] \notin Of(c, "close")
        BY <4>1, <4>2 DEF Has
      <4>4. \A x : x \in {t \in Tasks : /\ t.child = c /\ t.type \in {"exit", "close"}
                                        /\ t.outcome # s.entry}
                   => x \in Of(c, "exit") \/ x \in Of(c, "close")
        BY DEF Of
      <4> QED BY <4>3, <4>4 DEF Has
    <3> QED BY <3>1, <3>2
  <2>9. ~Has(tasks', {t \in Tasks : /\ t.child = c /\ t.type \in {"exit", "close"}
                                    /\ t.outcome # table'[c]})
    BY <1>2, <1>5, <2>8
  <2>10. /\ Of(c, "run")' = Of(c, "run") /\ Of(c, "exit")' = Of(c, "exit")
         /\ Of(c, "close")' = Of(c, "close")
    BY DEF Of
  <2> QED BY <2>1, <2>3, <2>4, <2>6, <2>7, <2>9, <2>10 DEF Queued, Of, Ev
<1>11. Past(c)'
  <2>1. Has(events'[c], Ev({"exit", "close"})) => child'[c].exited
    BY <1>3, <1>7 DEF LifeOf, Past, Good, past
  <2>2. Has(events'[c], Ev({"close"})) => Has(events'[c], Ev({"exit"}))
    BY <1>3, <1>7 DEF LifeOf, Past, past
  <2>3. ~Has(past, {e \in Events : e.type = "exit" /\ e.outcome # s.entry})
    <3>1. CASE child[c].exited
      <4>1. s.entry = table[c]
        BY <3>1 DEF Good
      <4> QED BY <4>1 DEF LifeOf, Past, past
    <3>2. CASE ~child[c].exited
      <4>1. ~Has(past, Ev({"exit", "close"}))
        BY <3>2 DEF LifeOf, Past, past
      <4> QED BY <4>1 DEF Has, Ev
    <3> QED BY <3>1, <3>2
  <2>4. ~Has(events'[c], {e \in Events : e.type = "exit" /\ e.outcome # table'[c]})
    BY <1>3, <1>7, <2>3
  <2>5. Once(events'[c], Ev({"exit"})) /\ Once(events'[c], Ev({"close"}))
    BY <1>3, <1>7 DEF LifeOf, Past, past
  <2>6. \A A, B : ~Has(seen, B) => Before(seen, A, B)
    BY DEF Has, Before
  <2>7. \A A, B : ~Has(seen, A) => Before(seen, A, B)
    BY DEF Has, Before
  <2>8. Before(events'[c], Ev({"exit"}), Ev({"close"}))
    BY <1>3, <1>7, <2>6 DEF LifeOf, Past, past
  <2>9. ~(Has(past, Ev({"exit", "close"})) /\ Has(seen, Ev(Shown)))
    BY DEF LifeOf, Past, past, seen
  <2>10. Before(events'[c], Ev(Shown), Ev({"exit", "close"}))
    <3>1. Before(past, Ev(Shown), Ev({"exit", "close"}))
      BY DEF LifeOf, Past, past
    <3>2. Before(seen, Ev(Shown), Ev({"exit", "close"}))
      BY <1>7, <2>6
    <3> QED BY <1>3, <2>9, <3>1, <3>2
  <2>11. Before(events'[c], Ev(Loud), Ev({"kill"}))
    <3>1. Before(past, Ev(Loud), Ev({"kill"})) /\ Before(seen, Ev(Loud), Ev({"kill"}))
      BY DEF LifeOf, Past, Good, past, seen
    <3>2. ~(Has(past, Ev({"kill"})) /\ Has(seen, Ev(Loud)))
      BY DEF LifeOf, Past, Good, past, seen
    <3> QED BY <1>3, <3>1, <3>2
  <2>12. Has(events'[c], Ev({"kill"})) => child'[c].cancelled
    BY <1>3 DEF LifeOf, Past, Good, past, seen
  <2> QED BY <2>1, <2>2, <2>4, <2>5, <2>8, <2>10, <2>11, <2>12 DEF Past, Ev, Shown, Loud
<1> QED BY <1>8, <1>9, <1>10, <1>11 DEF LifeOf

LEMMA GoodQuiet ==
  ASSUME TypeOK, NEW c \in Child, Settled(c), NEW s \in States,
         s.r.kind = child[c].kind, s.r.exited = child[c].exited,
         s.r.cancelled = child[c].cancelled, s.r.killed = child[c].killed,
         s.entry = table[c],
         \A i \in DOMAIN s.queued : /\ s.queued[i].child = c
                                    /\ s.queued[i].type \in {"toChild", "toParent"},
         \A i \in DOMAIN s.seen : s.seen[i].type \in {"disconnect", "message"}
  PROVE  Good(c, s) /\ (s.r.killed => s.r.cancelled) /\ ~Has(s.seen, Ev(Shown))
<1>1. \A i \in DOMAIN s.queued : /\ s.queued[i] \notin Tasks \ Other(c, s.entry)
                                 /\ s.queued[i] \notin Of(c, "exit")
  BY DEF Other, Of
<1>2. \A i \in DOMAIN s.seen : /\ s.seen[i] \notin Ev({"exit", "close"})
                               /\ s.seen[i] \notin Ev({"kill"}) /\ s.seen[i] \notin Ev(Loud)
                               /\ s.seen[i] \notin Ev(Shown)
  BY DEF Ev, Loud, Shown
<1>3. /\ ~Has(s.queued, Tasks \ Other(c, s.entry)) /\ ~Has(s.queued, Of(c, "exit"))
      /\ Once(s.queued, Of(c, "exit"))
  BY <1>1 DEF Has, Once
<1>4. /\ ~Has(s.seen, Ev({"exit", "close"})) /\ ~Has(s.seen, Ev({"kill"}))
      /\ ~Has(s.seen, Ev(Loud)) /\ Before(s.seen, Ev(Loud), Ev({"kill"}))
      /\ ~Has(s.seen, Ev(Shown))
  BY <1>2 DEF Has, Before
<1> QED BY <1>3, <1>4 DEF Good, Settled

LEMMA AtParts ==
  ASSUME TypeOK, NEW c \in Child
  PROVE  /\ At(c).r = child[c] /\ At(c).entry = table[c]
         /\ At(c).queued = << >> /\ At(c).seen = << >>
         /\ \A seen \in Seq(Events) :
              LET s == [At(c) EXCEPT !.seen = seen]
              IN  /\ s \in States /\ s.r = child[c] /\ s.entry = table[c]
                  /\ s.queued = << >> /\ s.seen = seen
         /\ \A r \in Children :
              LET s == [At(c) EXCEPT !.r = r]
              IN  /\ s \in States /\ s.r = r /\ s.entry = table[c]
                  /\ s.queued = << >> /\ s.seen = << >>
<1>1. /\ At(c).r = child[c] /\ At(c).entry = table[c]
      /\ At(c).queued = << >> /\ At(c).seen = << >>
  BY DEF At
<1>2. At(c) \in States
  BY AtTyped
<1> QED BY <1>1, <1>2 DEF States

LEMMA GoodAt ==
  ASSUME TypeOK, NEW c \in Child, Settled(c)
  PROVE  Good(c, At(c)) /\ (At(c).r.killed => At(c).r.cancelled)
<1>1. At(c) \in States
  BY AtTyped
<1>2. /\ At(c).r = child[c] /\ At(c).entry = table[c]
      /\ DOMAIN At(c).queued = {} /\ DOMAIN At(c).seen = {}
  BY DEF At
<1> QED BY <1>1, <1>2, GoodQuiet

LEMMA BecomesLife ==
  ASSUME TypeOK, WaitInv, NEW c \in Child, NEW queue \in Seq(Tasks),
         \A d \in Child : LifeOf(d, queue),
         NEW s, Good(c, s), Started(c), s.r.killed => s.r.cancelled,
         child[c].exited => ~Has(s.seen, Ev(Shown)),
         Has(queue, Of(c, "run")) /\ s.r.exited => s.r.cancelled,
         Becomes(c, s, queue), UNCHANGED waiting
  PROVE  WaitInv' /\ \A d \in Child : LifeOf(d, tasks)'
<1>1. /\ child'[c] = s.r /\ table'[c] = s.entry /\ events'[c] = events[c] \o s.seen
      /\ \A d \in Child : d # c => /\ child'[d] = child[d] /\ table'[d] = table[d]
                                   /\ events'[d] = events[d]
      /\ tasks' = queue \o s.queued /\ \A d \in Child : events[d] \in Seq(Events)
  BY DEF Becomes, TypeOK
<1>2. LifeOf(c, tasks)'
  BY <1>1, LifeSelf
<1>3. ASSUME NEW d \in Child, d # c PROVE LifeOf(d, tasks)'
  <2>1. \A i \in DOMAIN s.queued : s.queued[i] \in Tasks /\ s.queued[i].child = c
    <3>1. s.queued \in Seq(Tasks)
      BY DEF Good, States
    <3>2. \A i \in DOMAIN s.queued : s.queued[i] \in Tasks
      BY <3>1
    <3> QED BY <3>2 DEF Good, Has, Other
  <2>2. ~Has(s.queued, {t \in Tasks : t.child = d})
    BY <1>3, <2>1 DEF Has
  <2>3. s.queued \in Seq(Tasks)
    BY DEF Good, States
  <2> QED BY <1>1, <1>3, <2>2, <2>3, LifeOther
<1>4. WaitInv'
  <2>1. \A d \in Child : table[d] # Unsettled => table'[d] = table[d]
    <3>1. table[c] # Unsettled => child[c].exited
      BY DEF LifeOf, Settled
    <3> QED BY <1>1, <3>1 DEF Good
  <2>2. \A w \in Waiter : waiting[w].child \subseteq Child
    BY DEF TypeOK
  <2> QED BY <2>1, <2>2 DEF WaitInv
<1> QED BY <1>2, <1>3, <1>4

LEMMA QuietLife ==
  ASSUME TypeOK, WaitInv, NEW c \in Child, NEW queue \in Seq(Tasks),
         \A d \in Child : LifeOf(d, queue), Started(c),
         NEW s \in States,
         s.r.kind = child[c].kind, s.r.exited = child[c].exited,
         s.r.cancelled = child[c].cancelled, s.r.killed = child[c].killed,
         s.entry = table[c],
         \A i \in DOMAIN s.queued : /\ s.queued[i].child = c
                                    /\ s.queued[i].type \in {"toChild", "toParent"},
         \A i \in DOMAIN s.seen : s.seen[i].type \in {"disconnect", "message"},
         Becomes(c, s, queue), UNCHANGED waiting
  PROVE  WaitInv' /\ \A d \in Child : LifeOf(d, tasks)'
<1>1. Good(c, s) /\ (s.r.killed => s.r.cancelled) /\ ~Has(s.seen, Ev(Shown))
  BY GoodQuiet DEF LifeOf
<1>2. Has(queue, Of(c, "run")) /\ s.r.exited => s.r.cancelled
  BY DEF LifeOf, Queued
<1> QED BY <1>1, <1>2, BecomesLife

-----------------------------------------------------------------------------
LEMMA KillLives ==
  ASSUME LifeInv, NEW c \in Child, Kill(c)
  PROVE  WaitInv' /\ \A d \in Child : LifeOf(d, tasks)'
<1> DEFINE s == Killed(c, At(c))
<1>1. TypeOK /\ WaitInv /\ tasks \in Seq(Tasks) /\ Settled(c) /\ Started(c)
  BY DEF LifeInv, LifeOf, TypeOK, Kill
<1>2. Good(c, At(c)) /\ (At(c).r.killed => At(c).r.cancelled) /\ At(c) \in States
  BY <1>1, GoodAt, AtTyped
<1>3. Good(c, s) /\ s.r.cancelled
  BY <1>1, <1>2, GoodKilled DEF Settled
<1>4. ~Has(s.seen, Ev(Shown))
  <2>1. At(c).seen = << >> /\ ~At(c).r.killed /\ At(c).entry = table[c]
        /\ At(c).queued = << >>
    BY DEF At, Kill
  <2> DEFINE k == [Emit(At(c), "kill") EXCEPT
                     !.r.killed = TRUE, !.r.cancelled = TRUE,
                     !.r.signal = TRUE, !.r.code = NoCode]
             e == Event("kill", 0, Unsettled)
  <2>2. k.seen = Append(<< >>, e)
    BY <1>2, <2>1 DEF Emit, States
  <2>3. s = EmitExit(c, k, Signalled)
    BY <2>1 DEF Killed
  <2>4. k \in States
    <3>1. Emit(At(c), "kill") \in States
      BY <1>2, EmitTyped
    <3> QED BY <3>1 DEF States, Children, Code
  <2>5. s.seen = k.seen
    <3> HIDE DEF k
    <3> QED BY <2>3, <2>4 DEF EmitExit, States
  <2>6. e.type = "kill"
    BY DEF Event
  <2>7. s.seen = <<e>>
    BY <2>2, <2>5
  <2> HIDE DEF e, s
  <2>8. e \notin Ev(Shown)
    BY <2>6 DEF Ev, Shown
  <2> QED BY <2>7, <2>8, OneElement
<1>5. Becomes(c, s, tasks) /\ UNCHANGED waiting
  BY DEF Kill
<1> HIDE DEF s
<1> QED BY <1>1, <1>3, <1>4, <1>5, BecomesLife DEF LifeInv

LEMMA DisconnectLives ==
  ASSUME LifeInv, NEW c \in Child, Disconnect(c)
  PROVE  WaitInv' /\ \A d \in Child : LifeOf(d, tasks)'
<1> DEFINE s == Disconnected(At(c))
<1>1. TypeOK /\ WaitInv /\ tasks \in Seq(Tasks) /\ Started(c) /\ At(c) \in States
  BY AtTyped DEF LifeInv, LifeOf, TypeOK, Disconnect
<1>2. s \in States
  BY <1>1, DisconnectedTyped
<1>3. /\ s.r.kind = child[c].kind /\ s.r.exited = child[c].exited
      /\ s.r.cancelled = child[c].cancelled /\ s.r.killed = child[c].killed
      /\ s.entry = table[c] /\ s.queued = << >>
      /\ s.seen = Append(<< >>, Event("disconnect", 0, Unsettled))
  BY <1>1 DEF At, Disconnected, Disconnect, Emit, States, Children
<1>4. \A i \in DOMAIN s.seen : s.seen[i].type \in {"disconnect", "message"}
  BY <1>3 DEF Event
<1>5. Becomes(c, s, tasks) /\ UNCHANGED waiting /\ DOMAIN s.queued = {}
  BY <1>3 DEF Disconnect
<1> HIDE DEF s
<1> QED BY <1>1, <1>2, <1>3, <1>4, <1>5, QuietLife DEF LifeInv

LEMMA ModuleSendsLives ==
  ASSUME LifeInv, NEW c \in Child, ModuleSends(c)
  PROVE  WaitInv' /\ \A d \in Child : LifeOf(d, tasks)'
<1> DEFINE s == Post(c, At(c), 1)
<1>1. TypeOK /\ WaitInv /\ tasks \in Seq(Tasks) /\ At(c) \in States /\ Settled(c)
  BY AtTyped DEF LifeInv, LifeOf, TypeOK
<1>2. Started(c)
  <2>1. Unborn(c, tasks)
    BY DEF LifeInv, LifeOf
  <2>2. ~NewChild("none", TRUE, FALSE).ready
    BY DEF NewChild
  <2> QED BY <2>1, <2>2 DEF ModuleSends, Unborn
<1>3. Good(c, At(c)) /\ (At(c).r.killed => At(c).r.cancelled)
  BY <1>1, GoodAt
<1>4. Good(c, s) /\ s.r.cancelled = child[c].cancelled /\ s.r.killed = child[c].killed
  BY <1>3, GoodPost DEF At
<1>5. s.seen = << >> /\ s.r.exited = child[c].exited
  BY <1>1 DEF Post, At, States, Children
<1>6. Becomes(c, s, tasks) /\ UNCHANGED waiting
  BY DEF ModuleSends
<1> HIDE DEF s
<1>7. ~Has(s.seen, Ev(Shown))
  BY <1>5, NoElement
<1>8. Has(tasks, Of(c, "run")) /\ s.r.exited => s.r.cancelled
  BY <1>4, <1>5 DEF LifeInv, LifeOf, Queued
<1> QED BY <1>1, <1>2, <1>3, <1>4, <1>6, <1>7, <1>8, BecomesLife DEF LifeInv, At

LEMMA SendLives ==
  ASSUME LifeInv, NEW c \in Child, Send(c)
  PROVE  WaitInv' /\ \A d \in Child : LifeOf(d, tasks)'
<1> DEFINE t == Task("toChild", c, child[c].sentDown + 1, Unsettled)
           s == [At(c) EXCEPT !.r.sentDown = @ + 1, !.queued = <<t>>]
<1>1. TypeOK /\ WaitInv /\ tasks \in Seq(Tasks) /\ Started(c) /\ At(c) \in States
  BY AtTyped DEF LifeInv, LifeOf, TypeOK, Send
<1>2. t \in Tasks /\ t.type = "toChild" /\ t.child = c
  BY <1>1 DEF Task, Tasks, TypeOK, Children
<1>3. /\ s \in States /\ s.r = [child[c] EXCEPT !.sentDown = @ + 1]
      /\ s.entry = table[c] /\ s.queued = <<t>> /\ s.seen = << >>
  <2> HIDE DEF t
  <2>1. /\ At(c).r = child[c] /\ At(c).entry = table[c]
        /\ At(c).queued = << >> /\ At(c).seen = << >>
    BY DEF At
  <2>2. child[c].sentDown + 1 \in Nat /\ <<t>> \in Seq(Tasks)
    BY <1>1, <1>2 DEF TypeOK, Children
  <2>3. s \in States
    BY <1>1, <2>1, <2>2 DEF States, Children
  <2>4. s.r = [child[c] EXCEPT !.sentDown = @ + 1]
    BY <1>1, <2>1 DEF States
  <2> QED BY <1>1, <2>1, <2>3, <2>4 DEF States
<1>4. tasks' = tasks \o <<t>>
  BY <1>1, <1>2, AppendIsConcat DEF Send
<1> HIDE DEF s, t
<1>5. /\ s.r.kind = child[c].kind /\ s.r.exited = child[c].exited
      /\ s.r.cancelled = child[c].cancelled /\ s.r.killed = child[c].killed
  BY <1>1, <1>3 DEF TypeOK, Children
<1>6. Becomes(c, s, tasks) /\ UNCHANGED waiting
  BY <1>1, <1>3, <1>4 DEF Becomes, Send, TypeOK
<1>7. \A i \in DOMAIN s.queued : /\ s.queued[i].child = c
                                 /\ s.queued[i].type \in {"toChild", "toParent"}
  BY <1>2, <1>3
<1>8. DOMAIN s.seen = {}
  BY <1>3
<1> QED BY <1>1, <1>3, <1>5, <1>6, <1>7, <1>8, QuietLife DEF LifeInv

LEMMA ModuleListensLives ==
  ASSUME LifeInv, NEW c \in Child, ModuleListens(c)
  PROVE  WaitInv' /\ \A d \in Child : LifeOf(d, tasks)'
<1> DEFINE s == [At(c) EXCEPT !.r.handler = TRUE]
<1>1. TypeOK /\ WaitInv /\ tasks \in Seq(Tasks) /\ At(c) \in States
  BY AtTyped DEF LifeInv, LifeOf, TypeOK
<1>2. Started(c)
  <2>1. Unborn(c, tasks)
    BY DEF LifeInv, LifeOf
  <2>2. ~NewChild("none", TRUE, FALSE).ready
    BY DEF NewChild
  <2> QED BY <2>1, <2>2 DEF ModuleListens, Unborn
<1>3. /\ s \in States /\ s.r = [child[c] EXCEPT !.handler = TRUE]
      /\ s.entry = table[c] /\ s.queued = << >> /\ s.seen = << >>
  BY <1>1 DEF At, States, Children
<1> HIDE DEF s
<1>4. /\ s.r.kind = child[c].kind /\ s.r.exited = child[c].exited
      /\ s.r.cancelled = child[c].cancelled /\ s.r.killed = child[c].killed
  BY <1>1, <1>3 DEF TypeOK, Children
<1>5. Becomes(c, s, tasks) /\ UNCHANGED waiting
  BY <1>1, <1>3 DEF Becomes, ModuleListens, TypeOK
<1>6. DOMAIN s.queued = {} /\ DOMAIN s.seen = {}
  BY <1>3
<1> QED BY <1>1, <1>2, <1>3, <1>4, <1>5, <1>6, QuietLife DEF LifeInv

LEMMA WaitLives ==
  ASSUME LifeInv, NEW c \in Child, NEW w \in Waiter, WaitForChild(w, c)
  PROVE  WaitInv' /\ \A d \in Child : LifeOf(d, tasks)'
<1>1. \A d \in Child : LifeOf(d, tasks)'
  BY LifeSame DEF LifeInv, WaitForChild
<1>2. WaitInv'
  BY DEF LifeInv, WaitInv, WaitForChild, TypeOK
<1> QED BY <1>1, <1>2

LEMMA StartLives ==
  ASSUME LifeInv, NEW c \in Child, NEW kind \in Kind, NEW listens \in BOOLEAN,
         NEW throws \in BOOLEAN, Start(c, kind, listens, throws)
  PROVE  WaitInv' /\ \A d \in Child : LifeOf(d, tasks)'
<1> DEFINE t == Task("run", c, 0, Unsettled)
<1>1. TypeOK /\ WaitInv /\ tasks \in Seq(Tasks) /\ ~Started(c) /\ LifeOf(c, tasks)
  BY DEF LifeInv, TypeOK, Start
<1>2. t \in Tasks /\ t.type = "run" /\ t.child = c
  BY DEF Task, Tasks
<1>3. tasks' = tasks \o <<t>> /\ <<t>> \in Seq(Tasks)
  BY <1>1, <1>2, AppendIsConcat DEF Start
<1>4. /\ child'[c] = NewChild(kind, listens, throws)
      /\ \A d \in Child : d # c => child'[d] = child[d]
      /\ table' = table /\ events' = events /\ waiting' = waiting
  BY <1>1 DEF Start, TypeOK
<1> HIDE DEF t
<1>5. \A S : Has(tasks', S) <=> Has(tasks, S) \/ t \in S
  BY <1>1, <1>3, Concat, OneElement
<1>6. /\ child[c] = NewChild("none", TRUE, FALSE) /\ events[c] = << >>
      /\ ~Has(tasks, {x \in Tasks : x.child = c}) /\ table[c] = Unsettled
  <2>1. ~NewChild("none", TRUE, FALSE).exited
    BY DEF NewChild
  <2> QED BY <1>1, <2>1 DEF LifeOf, Unborn, Settled
<1>7. \A S : S \subseteq {x \in Tasks : x.child = c} => ~Has(tasks, S)
  BY <1>6 DEF Has
<1>8. /\ ~child'[c].killed /\ ~child'[c].exited /\ ~child'[c].cancelled /\ Started(c)'
  BY <1>4 DEF NewChild, Started, Kind
<1>9. /\ ~Has(tasks, Of(c, "run")) /\ ~Has(tasks', Of(c, "exit")) /\ ~Has(tasks', Of(c, "close"))
      /\ ~Has(tasks', {x \in Tasks : /\ x.child = c /\ x.type \in {"exit", "close"}
                                     /\ x.outcome # table[c]})
  <2>1. t \notin Of(c, "exit") /\ t \notin Of(c, "close")
        /\ t \notin {x \in Tasks : /\ x.child = c /\ x.type \in {"exit", "close"}
                                   /\ x.outcome # table[c]}
    BY <1>2 DEF Of
  <2>2. /\ \A type : Of(c, type) \subseteq {x \in Tasks : x.child = c}
        /\ {x \in Tasks : /\ x.child = c /\ x.type \in {"exit", "close"}
                          /\ x.outcome # table[c]} \subseteq {x \in Tasks : x.child = c}
    BY DEF Of
  <2> QED BY <1>5, <1>7, <2>1, <2>2
<1>10. /\ Once(tasks', Of(c, "run")) /\ Once(tasks', Of(c, "exit"))
       /\ Once(tasks', Of(c, "close"))
  <2>1. Once(tasks', Of(c, "run"))
    BY <1>1, <1>3, <1>9, Concat, OneElement
  <2> QED BY <1>9, <2>1 DEF Once, Has
<1>11. Queued(c, tasks)'
  BY <1>4, <1>8, <1>9, <1>10 DEF Queued, Of
<1>12. Past(c)'
  BY <1>4, <1>6, NoElement DEF Past, Ev
<1>13. LifeOf(c, tasks)'
  BY <1>4, <1>6, <1>8, <1>11, <1>12 DEF LifeOf, Settled, Unborn
<1>14. ASSUME NEW d \in Child, d # c PROVE LifeOf(d, tasks)'
  <2>1. ~Has(<<t>>, {x \in Tasks : x.child = d})
    BY <1>2, <1>14, OneElement
  <2> QED BY <1>1, <1>3, <1>4, <1>14, <2>1, LifeOther DEF LifeInv
<1>15. WaitInv'
  BY <1>1, <1>4 DEF WaitInv
<1> QED BY <1>13, <1>14, <1>15

-----------------------------------------------------------------------------
(* The oldest microtask of a child is run.                                  *)
LEMMA FirstTask ==
  ASSUME LifeInv, tasks # << >>
  PROVE  /\ tasks \in Seq(Tasks) /\ Tail(tasks) \in Seq(Tasks) /\ Head(tasks) \in Tasks
         /\ Head(tasks).child \in Child /\ Started(Head(tasks).child)
         /\ \A d \in Child : LifeOf(d, Tail(tasks))
<1>1. TypeOK /\ tasks \in Seq(Tasks)
  BY DEF LifeInv, TypeOK
<1>2. \A d \in Child : LifeOf(d, Tail(tasks))
  BY <1>1, LifePops DEF LifeInv
<1>3. Tail(tasks) \in Seq(Tasks) /\ Head(tasks) \in Tasks
  BY <1>1, TailOf
<1>4. Head(tasks).child \in Child
  BY <1>3 DEF Tasks
<1>5. Started(Head(tasks).child)
  <2> DEFINE c == Head(tasks).child
  <2>1. Head(tasks) \in {t \in Tasks : t.child = c}
    BY <1>3
  <2>2. Has(tasks, {t \in Tasks : t.child = c})
    BY <1>1, <2>1, TailOf
  <2>3. Unborn(c, tasks)
    BY <1>4 DEF LifeInv, LifeOf
  <2> QED BY <2>2, <2>3 DEF Unborn
<1> QED BY <1>1, <1>2, <1>3, <1>4, <1>5

LEMMA RunLives ==
  ASSUME LifeInv, tasks # << >>, Head(tasks).type = "run",
         NEW s, Good(Head(tasks).child, s), s.r.killed => s.r.cancelled,
         Becomes(Head(tasks).child, s, Tail(tasks)), UNCHANGED waiting
  PROVE  WaitInv' /\ \A d \in Child : LifeOf(d, tasks)'
<1> DEFINE c == Head(tasks).child  rest == Tail(tasks)
<1>1. /\ tasks \in Seq(Tasks) /\ rest \in Seq(Tasks) /\ Head(tasks) \in Of(c, "run")
      /\ c \in Child /\ Started(c) /\ \A d \in Child : LifeOf(d, rest)
  BY FirstTask DEF Of
<1>2. Has(tasks, Of(c, "run")) /\ (Once(tasks, Of(c, "run")) => ~Has(rest, Of(c, "run")))
  BY <1>1, TailOf
<1>3. ~Has(rest, Of(c, "run")) /\ (child[c].cancelled \/ ~child[c].exited)
  BY <1>1, <1>2 DEF LifeInv, LifeOf, Queued
<1>4. child[c].exited => ~Has(s.seen, Ev(Shown))
  <2>1. ~Has(s.seen, Ev(Loud)) => ~Has(s.seen, Ev(Shown))
    BY DEF Has, Ev, Loud
  <2> QED BY <1>3, <2>1 DEF Good
<1> HIDE DEF c, rest
<1> QED BY <1>1, <1>3, <1>4, BecomesLife DEF LifeInv, c, rest

LEMMA CommandLives ==
  ASSUME LifeInv, tasks # << >>, Head(tasks).type = "run",
         RunCommand(Head(tasks).child, Tail(tasks))
  PROVE  WaitInv' /\ \A d \in Child : LifeOf(d, tasks)'
<1> DEFINE c == Head(tasks).child
<1>1. TypeOK /\ c \in Child /\ Settled(c)
  BY FirstTask DEF LifeInv, LifeOf
<1>2. PICK kills \in BOOLEAN, wrote \in BOOLEAN, code \in Code \cup {NoCode} :
        Becomes(c, CommandRuns(c, At(c), kills, wrote, code), Tail(tasks))
  BY DEF RunCommand
<1> DEFINE s == CommandRuns(c, At(c), kills, wrote, code)
<1>3. Good(c, At(c)) /\ (At(c).r.killed => At(c).r.cancelled)
  BY <1>1, GoodAt
<1>4. Good(c, s) /\ (s.r.killed => s.r.cancelled)
  BY <1>1, <1>3, GoodCommand DEF Settled
<1>5. Becomes(c, s, Tail(tasks)) /\ UNCHANGED waiting
  BY <1>2 DEF RunCommand
<1> HIDE DEF s
<1> QED BY <1>4, <1>5, RunLives

LEMMA ModuleLives ==
  ASSUME LifeInv, tasks # << >>, Head(tasks).type = "run",
         RunModule(Head(tasks).child, Tail(tasks))
  PROVE  WaitInv' /\ \A d \in Child : LifeOf(d, tasks)'
<1> DEFINE c == Head(tasks).child
<1>1. TypeOK /\ c \in Child /\ Settled(c)
  BY FirstTask DEF LifeInv, LifeOf
<1>2. PICK kills \in BOOLEAN, handles \in BOOLEAN, throws \in BOOLEAN, n \in 0 .. MaxSend :
        Becomes(c, ModuleRuns(c, At(c), kills, n, handles, throws), Tail(tasks))
  BY DEF RunModule
<1> DEFINE s == ModuleRuns(c, At(c), kills, n, handles, throws)
<1>3. Good(c, At(c)) /\ (At(c).r.killed => At(c).r.cancelled) /\ n \in Nat
  BY <1>1, GoodAt, ChildAssumption
<1>4. Good(c, s) /\ (s.r.killed => s.r.cancelled)
  BY <1>1, <1>3, GoodModule DEF Settled
<1>5. Becomes(c, s, Tail(tasks)) /\ UNCHANGED waiting
  BY <1>2 DEF RunModule
<1> HIDE DEF s
<1> QED BY <1>4, <1>5, RunLives

LEMMA ToChildLives ==
  ASSUME LifeInv, tasks # << >>,
         RunToChild(Head(tasks).child, Head(tasks).n, Tail(tasks))
  PROVE  WaitInv' /\ \A d \in Child : LifeOf(d, tasks)'
<1> DEFINE c == Head(tasks).child  rest == Tail(tasks)  k == Head(tasks).n
           r == IF child[c].ready /\ child[c].handler
                  THEN [child[c] EXCEPT !.handled = Append(@, k)] ELSE child[c]
           s == [At(c) EXCEPT !.r = r]
<1>1. /\ TypeOK /\ c \in Child /\ Started(c) /\ rest \in Seq(Tasks) /\ k \in Nat
      /\ \A d \in Child : LifeOf(d, rest)
  BY FirstTask DEF LifeInv, Tasks
<1>2. child[c] \in Children
  BY <1>1 DEF TypeOK
<1>3. r \in Children
  <2>1. child[c].handled \in Seq(Nat)
    BY <1>2 DEF Children
  <2>2. Append(child[c].handled, k) \in Seq(Nat)
    BY <1>1, <2>1, AppendProperties
  <2>3. \A q \in Children, h \in Seq(Nat) : [q EXCEPT !.handled = h] \in Children
    BY DEF Children
  <2> HIDE DEF c, k
  <2> QED BY <1>2, <2>2, <2>3
<1>4. /\ r.kind = child[c].kind /\ r.exited = child[c].exited
      /\ r.cancelled = child[c].cancelled /\ r.killed = child[c].killed
  BY <1>2 DEF Children
<1>5. child' = [child EXCEPT ![c] = r]
  BY <1>1 DEF RunToChild, TypeOK
<1> HIDE DEF r
<1>6. /\ s \in States /\ s.r = r /\ s.entry = table[c] /\ s.queued = << >>
      /\ s.seen = << >>
  BY <1>1, <1>3, AtParts
<1> HIDE DEF s, c, rest, k
<1>7. Becomes(c, s, rest) /\ UNCHANGED waiting
  <2>1. /\ tasks' = rest \o << >> /\ events' = [events EXCEPT ![c] = @ \o << >>]
        /\ table' = [table EXCEPT ![c] = table[c]] /\ UNCHANGED waiting
    BY <1>1 DEF RunToChild, TypeOK, rest
  <2> QED BY <1>5, <1>6, <2>1 DEF Becomes
<1>8. DOMAIN s.queued = {} /\ DOMAIN s.seen = {}
  BY <1>6
<1> QED BY <1>1, <1>4, <1>6, <1>7, <1>8, QuietLife DEF LifeInv

LEMMA ToParentLives ==
  ASSUME LifeInv, tasks # << >>,
         RunToParent(Head(tasks).child, Head(tasks).n, Tail(tasks))
  PROVE  WaitInv' /\ \A d \in Child : LifeOf(d, tasks)'
<1> DEFINE c == Head(tasks).child  rest == Tail(tasks)
           e == Event("message", Head(tasks).n, Unsettled)
           s == [At(c) EXCEPT !.seen = <<e>>]
<1>1. /\ TypeOK /\ c \in Child /\ Started(c) /\ rest \in Seq(Tasks) /\ Head(tasks).n \in Nat
      /\ \A d \in Child : LifeOf(d, rest)
  BY FirstTask DEF LifeInv, Tasks
<1>2. e \in Events /\ e.type = "message"
  BY <1>1, Values DEF Event, Events
<1>3. <<e>> \in Seq(Events)
  BY <1>2
<1> HIDE DEF e
<1>4. /\ s \in States /\ s.r = child[c] /\ s.entry = table[c] /\ s.queued = << >>
      /\ s.seen = <<e>>
  BY <1>1, <1>3, AtParts
<1>5. events[c] \in Seq(Events) /\ Append(events[c], e) = events[c] \o <<e>>
  BY <1>1, <1>2, AppendIsConcat DEF TypeOK
<1> HIDE DEF s
<1>6. Becomes(c, s, rest) /\ UNCHANGED waiting
  <2>1. /\ tasks' = rest \o << >> /\ child' = [child EXCEPT ![c] = child[c]]
        /\ table' = [table EXCEPT ![c] = table[c]] /\ UNCHANGED waiting
    BY <1>1 DEF RunToParent, TypeOK
  <2>2. events' = [events EXCEPT ![c] = Append(@, e)]
    BY DEF RunToParent, e
  <2>3. events' = [events EXCEPT ![c] = @ \o <<e>>]
    BY <1>5, <2>2
  <2> QED BY <1>4, <2>1, <2>3 DEF Becomes
<1>7. /\ DOMAIN s.queued = {}
      /\ \A i \in DOMAIN s.seen : s.seen[i].type \in {"disconnect", "message"}
  BY <1>2, <1>4
<1> HIDE DEF c, rest
<1> QED BY <1>1, <1>4, <1>6, <1>7, QuietLife DEF LifeInv

(* What runs 'exit' is queued once, with what is in the process table.      *)
LEMMA ExitLives ==
  ASSUME LifeInv, tasks # << >>, Head(tasks).type = "exit",
         NEW c, c = Head(tasks).child, NEW o, o = Head(tasks).outcome,
         RunExit(c, o, Tail(tasks))
  PROVE  WaitInv' /\ \A d \in Child : LifeOf(d, tasks)'
<1> DEFINE rest == Tail(tasks)
           t == Task("close", c, 0, o)  e == Event("exit", 0, o)
<1>1. /\ TypeOK /\ c \in Child /\ Started(c) /\ rest \in Seq(Tasks) /\ tasks \in Seq(Tasks)
      /\ \A d \in Child : LifeOf(d, rest) /\ LifeOf(d, tasks)
      /\ o \in Outcome /\ Head(tasks) \in Of(c, "exit")
  BY FirstTask DEF LifeInv, Tasks, Of
<1>2. Has(tasks, Of(c, "exit")) /\ ~Has(rest, Of(c, "exit"))
  <2>1. /\ Has(tasks, Of(c, "exit"))
        /\ Once(tasks, Of(c, "exit")) => ~Has(rest, Of(c, "exit"))
    BY <1>1, TailOf
  <2> QED BY <1>1, <2>1 DEF LifeOf, Queued
<1>3. /\ child[c].exited /\ ~Has(tasks, Of(c, "close"))
      /\ ~Has(events[c], Ev({"exit", "close"}))
  BY <1>1, <1>2 DEF LifeOf, Queued
<1>4. o = table[c]
  <2> DEFINE S == {x \in Tasks : /\ x.child = c /\ x.type \in {"exit", "close"}
                                 /\ x.outcome # table[c]}
  <2>1. o # table[c] => Head(tasks) \in S
    BY <1>1 DEF Of
  <2>2. ~Has(tasks, S)
    BY <1>1 DEF LifeOf, Queued
  <2> HIDE DEF S
  <2>3. Head(tasks) \notin S
    BY <1>1, <2>2, TailOf
  <2> QED BY <2>1, <2>3
<1>5. /\ t \in Tasks /\ t.type = "close" /\ t.child = c /\ t.outcome = o
      /\ e \in Events /\ e.type = "exit" /\ e.outcome = o
  BY <1>1 DEF Task, Tasks, Event, Events
<1>6. events[c] \in Seq(Events)
  BY <1>1 DEF TypeOK
<1>7. /\ tasks' = rest \o <<t>> /\ events'[c] = events[c] \o <<e>>
      /\ \A d \in Child : d # c => events'[d] = events[d]
      /\ child' = child /\ table' = table
  <2>1. tasks' = rest \o <<t>>
    BY <1>1, <1>5, AppendIsConcat DEF RunExit
  <2>2. Append(events[c], e) = events[c] \o <<e>>
    BY <1>5, <1>6, AppendIsConcat
  <2>3. events' = [events EXCEPT ![c] = Append(@, e)] /\ child' = child /\ table' = table
    BY DEF RunExit
  <2> HIDE DEF e
  <2> QED BY <1>1, <2>1, <2>2, <2>3 DEF TypeOK
<1> HIDE DEF t, e
<1>8. \A d \in Child : d # c => LifeOf(d, tasks)'
  <2>1. \A d \in Child : d # c => ~Has(<<t>>, {x \in Tasks : x.child = d})
    BY <1>5, OneElement
  <2> HIDE DEF rest
  <2> QED BY <1>1, <1>5, <1>7, <2>1, LifeOther
<1> HIDE DEF rest
<1>9. /\ \A S : Has(tasks', S) <=> Has(rest, S) \/ t \in S
      /\ \A S : Once(rest, S) /\ t \notin S => Once(tasks', S)
      /\ \A S : ~Has(rest, S) => Once(tasks', S)
  <2>1. \A S : (Has(<<t>>, S) <=> t \in S) /\ Once(<<t>>, S)
    BY OneElement
  <2>2. <<t>> \in Seq(Tasks)
    BY <1>5
  <2>3. /\ \A S : Has(rest \o <<t>>, S) <=> Has(rest, S) \/ Has(<<t>>, S)
        /\ \A S : Once(rest, S) /\ ~Has(<<t>>, S) => Once(rest \o <<t>>, S)
        /\ \A S : ~Has(rest, S) /\ Once(<<t>>, S) => Once(rest \o <<t>>, S)
    BY <1>1, <2>2, Concat
  <2> QED BY <1>7, <2>1, <2>3
<1>10. /\ \A S : Has(events'[c], S) <=> Has(events[c], S) \/ e \in S
       /\ \A S : Once(events[c], S) /\ e \notin S => Once(events'[c], S)
       /\ \A S : ~Has(events[c], S) => Once(events'[c], S)
       /\ \A A, B : Before(events[c], A, B) /\ ~(e \in A /\ (e \in B \/ Has(events[c], B)))
                      => Before(events'[c], A, B)
  <2>1. \A S : (Has(<<e>>, S) <=> e \in S) /\ Once(<<e>>, S)
    BY OneElement
  <2>2. \A A, B : ~(e \in A /\ e \in B) => Before(<<e>>, A, B)
    BY OneElement
  <2>3. <<e>> \in Seq(Events)
    BY <1>5
  <2> DEFINE past == events[c]
  <2>4. /\ \A S : Has(past \o <<e>>, S) <=> Has(past, S) \/ Has(<<e>>, S)
        /\ \A S : Once(past, S) /\ ~Has(<<e>>, S) => Once(past \o <<e>>, S)
        /\ \A S : ~Has(past, S) /\ Once(<<e>>, S) => Once(past \o <<e>>, S)
        /\ \A A, B : /\ Before(past, A, B) /\ Before(<<e>>, A, B)
                     /\ ~(Has(past, B) /\ Has(<<e>>, A))
                     => Before(past \o <<e>>, A, B)
    BY <1>6, <2>3, Concat
  <2> HIDE DEF past
  <2>5. events'[c] = past \o <<e>>
    BY <1>7 DEF past
  <2> QED BY <2>1, <2>2, <2>4, <2>5 DEF past
<1>11. Queued(c, tasks)'
  <2>1. ~Has(rest, Of(c, "close"))
    BY <1>1, <1>3, TailOf DEF rest
  <2>2. t \notin Of(c, "run") /\ t \notin Of(c, "exit")
    BY <1>5 DEF Of
  <2>3. /\ Once(tasks', Of(c, "run")) /\ Once(tasks', Of(c, "exit"))
        /\ Once(tasks', Of(c, "close")) /\ ~Has(tasks', Of(c, "exit"))
        /\ Has(tasks', Of(c, "run")) => child[c].cancelled \/ ~child[c].exited
    BY <1>1, <1>2, <1>9, <2>1, <2>2 DEF LifeOf, Queued
  <2>4. e \in Ev({"exit"}) /\ e \notin Ev({"close"})
    BY <1>5 DEF Ev
  <2>5. ~Has(events[c], Ev({"close"}))
    BY <1>3 DEF Has, Ev
  <2>6. Has(events'[c], Ev({"exit"})) /\ ~Has(events'[c], Ev({"close"}))
    BY <1>10, <2>4, <2>5
  <2>7. ~Has(tasks', {x \in Tasks : /\ x.child = c /\ x.type \in {"exit", "close"}
                                    /\ x.outcome # table[c]})
    BY <1>1, <1>4, <1>5, <1>9 DEF LifeOf, Queued
  <2> QED BY <1>7, <2>3, <2>6, <2>7 DEF Queued, Of, Ev
<1>12. Past(c)'
  <2>1. /\ e \in Ev({"exit"}) /\ e \notin Ev({"close"}) /\ e \notin Ev(Shown)
        /\ e \notin Ev(Loud) /\ e \notin Ev({"kill"})
        /\ e \notin {x \in Events : x.type = "exit" /\ x.outcome # table[c]}
    BY <1>4, <1>5 DEF Ev, Shown, Loud
  <2>2. ~Has(events[c], Ev({"close"})) /\ ~Has(events[c], Ev({"exit"}))
    BY <1>3 DEF Has, Ev
  <2>3. ~Has(events'[c], Ev({"close"})) /\ Has(events'[c], Ev({"exit"}))
    BY <1>10, <2>1, <2>2
  <2>4. /\ Once(events'[c], Ev({"exit"})) /\ Once(events'[c], Ev({"close"}))
        /\ Before(events'[c], Ev({"exit"}), Ev({"close"}))
    BY <1>10, <2>2, <2>3 DEF Has, Before
  <2>5. /\ Before(events'[c], Ev(Shown), Ev({"exit", "close"}))
        /\ Before(events'[c], Ev(Loud), Ev({"kill"}))
        /\ ~Has(events'[c], {x \in Events : x.type = "exit" /\ x.outcome # table[c]})
        /\ Has(events'[c], Ev({"kill"})) => child[c].cancelled
    BY <1>1, <1>10, <2>1 DEF LifeOf, Past
  <2> QED BY <1>3, <1>7, <2>3, <2>4, <2>5 DEF Past, Ev, Shown, Loud
<1>13. LifeOf(c, tasks)'
  <2>1. Settled(c)' /\ Unborn(c, tasks)'
    BY <1>1, <1>7 DEF LifeOf, Settled, Unborn, Started
  <2> QED BY <1>11, <1>12, <2>1 DEF LifeOf
<1>14. WaitInv'
  <2> SUFFICES ASSUME NEW w \in Waiter, NEW d \in waiting'[w].child
               PROVE  /\ \A b \in waiting'[w].child : b = d
                      /\ waiting'[w].result # Unsettled => waiting'[w].result = table[d]
    BY <1>7 DEF WaitInv
  <2>1. waiting'[w] = IF c \in waiting[w].child /\ waiting[w].result = Unsettled
                        THEN [waiting[w] EXCEPT !.result = o] ELSE waiting[w]
    BY DEF RunExit
  <2>2. waiting[w] \in [child : SUBSET Child, result : Outcome \cup {Unsettled}]
    BY <1>1 DEF TypeOK
  <2>3. waiting'[w].child = waiting[w].child
    BY <2>1, <2>2
  <2>4. /\ \A b \in waiting[w].child : b = d
        /\ waiting[w].result # Unsettled => waiting[w].result = table[d]
    BY <2>3 DEF LifeInv, WaitInv
  <2> QED BY <1>4, <2>1, <2>2, <2>3, <2>4
<1> QED BY <1>8, <1>13, <1>14

LEMMA CloseLives ==
  ASSUME LifeInv, tasks # << >>, Head(tasks).type = "close",
         NEW c, c = Head(tasks).child, NEW o, o = Head(tasks).outcome,
         RunClose(c, o, Tail(tasks))
  PROVE  WaitInv' /\ \A d \in Child : LifeOf(d, tasks)'
<1> DEFINE rest == Tail(tasks)
           e == Event("close", 0, o)  f == Event("disconnect", 0, Unsettled)
           closed == [At(c) EXCEPT !.seen = <<e>>]
           s == IF child[c].connected THEN Disconnected(closed) ELSE closed
<1>1. /\ TypeOK /\ c \in Child /\ Started(c) /\ rest \in Seq(Tasks) /\ tasks \in Seq(Tasks)
      /\ \A d \in Child : LifeOf(d, rest) /\ LifeOf(d, tasks)
      /\ o \in Outcome /\ Head(tasks) \in Of(c, "close")
  BY FirstTask DEF LifeInv, Tasks, Of
<1>2. Has(tasks, Of(c, "close")) /\ ~Has(rest, Of(c, "close"))
  <2>1. /\ Has(tasks, Of(c, "close"))
        /\ Once(tasks, Of(c, "close")) => ~Has(rest, Of(c, "close"))
    BY <1>1, TailOf
  <2> QED BY <1>1, <2>1 DEF LifeOf, Queued
<1>3. /\ Has(events[c], Ev({"exit"})) /\ ~Has(events[c], Ev({"close"}))
      /\ child[c].exited
  <2>1. Has(events[c], Ev({"exit"})) => Has(events[c], Ev({"exit", "close"}))
    BY DEF Has, Ev
  <2> QED BY <1>1, <1>2, <2>1 DEF LifeOf, Queued, Past
<1>4. e \in Events /\ e.type = "close" /\ f \in Events /\ f.type = "disconnect"
  BY <1>1, Values DEF Event, Events
<1>5. At(c) \in States
  BY <1>1, AtTyped
<1>6. Becomes(c, s, rest) /\ UNCHANGED waiting
  BY DEF RunClose
<1> HIDE DEF e
<1>7. /\ closed \in States /\ closed.r = child[c] /\ closed.entry = table[c]
      /\ closed.queued = << >> /\ closed.seen = <<e>>
  <2>1. <<e>> \in Seq(Events)
    BY <1>4
  <2> QED BY <1>1, <2>1, AtParts
<1> HIDE DEF closed, f
<1>8. /\ s.queued = << >> /\ s.entry = table[c] /\ s.seen \in {<<e>>, <<e>> \o <<f>>}
      /\ s.r.kind = child[c].kind /\ s.r.exited = child[c].exited
      /\ s.r.cancelled = child[c].cancelled /\ s.r.killed = child[c].killed
  <2>1. CASE s = closed
    BY <1>7, <2>1
  <2>2. CASE s = Disconnected(closed) /\ closed.r.channel
    <3>1. Append(<<e>>, f) = <<e>> \o <<f>>
      BY <1>4, AppendIsConcat
    <3> QED BY <1>7, <2>2, <3>1 DEF Disconnected, Emit, States, Children, f
  <2> QED BY <2>1, <2>2 DEF Disconnected
<1> HIDE DEF s
<1>9. /\ child'[c] = s.r /\ table' = table /\ events'[c] = events[c] \o s.seen
      /\ \A d \in Child : d # c => child'[d] = child[d] /\ events'[d] = events[d]
      /\ tasks' = rest \o << >> /\ tasks' = rest /\ waiting' = waiting
      /\ events[c] \in Seq(Events) /\ s.seen \in Seq(Events)
  <2>1. /\ table' = table /\ tasks' = rest \o << >> /\ tasks' = rest
    BY <1>1, <1>6, <1>8 DEF Becomes, TypeOK
  <2>2. /\ child'[c] = s.r /\ events'[c] = events[c] \o s.seen
        /\ \A d \in Child : d # c => child'[d] = child[d] /\ events'[d] = events[d]
    BY <1>1, <1>6 DEF Becomes, TypeOK
  <2>3. <<e>> \in Seq(Events) /\ <<f>> \in Seq(Events)
    BY <1>4
  <2>4. s.seen \in Seq(Events)
    BY <1>8, <2>3, ConcatProperties
  <2> QED BY <1>1, <1>6, <2>1, <2>2, <2>4 DEF TypeOK
<1>10. \A d \in Child : d # c => LifeOf(d, tasks)'
  <2>1. \A d \in Child : ~Has(<< >>, {x \in Tasks : x.child = d}) /\ << >> \in Seq(Tasks)
    BY NoElement
  <2> HIDE DEF rest
  <2> QED BY <1>1, <1>9, <2>1, LifeOther
<1> HIDE DEF rest
<1>11. /\ \A S : Has(s.seen, S) => e \in S \/ f \in S
       /\ \A S : e \in S => Has(s.seen, S)
       /\ \A S : f \notin S => Once(s.seen, S)
  <2>1. <<e>> \in Seq(Events) /\ <<f>> \in Seq(Events)
    BY <1>4
  <2>2. /\ \A S : (Has(<<e>>, S) <=> e \in S) /\ Once(<<e>>, S)
        /\ \A S : Has(<<f>>, S) <=> f \in S
    BY OneElement
  <2>3. /\ \A S : Has(<<e>> \o <<f>>, S) <=> Has(<<e>>, S) \/ Has(<<f>>, S)
        /\ \A S : Once(<<e>>, S) /\ ~Has(<<f>>, S) => Once(<<e>> \o <<f>>, S)
    BY <2>1, Concat
  <2> QED BY <1>8, <2>2, <2>3
<1>12. /\ \A S : Has(events'[c], S) <=> Has(events[c], S) \/ Has(s.seen, S)
       /\ \A S : Once(events[c], S) /\ ~Has(s.seen, S) => Once(events'[c], S)
       /\ \A S : ~Has(events[c], S) /\ Once(s.seen, S) => Once(events'[c], S)
       /\ \A A, B : Before(events[c], A, B) /\ ~Has(s.seen, A) => Before(events'[c], A, B)
  <2>1. \A A, B : ~Has(s.seen, A) => Before(s.seen, A, B)
    BY DEF Has, Before
  <2> QED BY <1>9, <2>1, Concat
<1>13. /\ ~Has(s.seen, Ev({"exit"})) /\ ~Has(s.seen, Ev({"kill"}))
       /\ ~Has(s.seen, Ev(Shown)) /\ ~Has(s.seen, Ev(Loud))
       /\ ~Has(s.seen, {x \in Events : x.type = "exit" /\ x.outcome # table[c]})
       /\ Once(s.seen, Ev({"close"}))
  <2>1. /\ e \notin Ev({"exit"}) /\ f \notin Ev({"exit"}) /\ e \notin Ev({"kill"})
        /\ f \notin Ev({"kill"}) /\ e \notin Ev(Loud) /\ f \notin Ev(Loud)
        /\ e \notin Ev(Shown) /\ f \notin Ev(Shown) /\ f \notin Ev({"close"})
        /\ e \notin {x \in Events : x.type = "exit" /\ x.outcome # table[c]}
        /\ f \notin {x \in Events : x.type = "exit" /\ x.outcome # table[c]}
    BY <1>4 DEF Ev, Loud, Shown
  <2> QED BY <1>11, <2>1
<1>14. Queued(c, tasks)'
  <2>1. /\ Once(rest, Of(c, "run")) /\ Once(rest, Of(c, "exit")) /\ Once(rest, Of(c, "close"))
        /\ Has(rest, Of(c, "run")) => child[c].cancelled \/ ~child[c].exited
        /\ ~Has(rest, {x \in Tasks : /\ x.child = c /\ x.type \in {"exit", "close"}
                                     /\ x.outcome # table[c]})
    BY <1>1 DEF LifeOf, Queued
  <2>2. ~Has(rest, Of(c, "exit"))
    <3>1. ~Has(tasks, Of(c, "exit"))
      BY <1>1, <1>2 DEF LifeOf, Queued
    <3> QED BY <1>1, <3>1, TailOf DEF rest
  <2> QED BY <1>2, <1>8, <1>9, <2>1, <2>2 DEF Queued, Of, Ev
<1>15. Past(c)'
  <2>1. /\ Once(events'[c], Ev({"exit"})) /\ Once(events'[c], Ev({"close"}))
        /\ Before(events'[c], Ev({"exit"}), Ev({"close"}))
        /\ Before(events'[c], Ev(Shown), Ev({"exit", "close"}))
        /\ Before(events'[c], Ev(Loud), Ev({"kill"}))
    BY <1>1, <1>3, <1>12, <1>13 DEF LifeOf, Past
  <2>2. /\ Has(events'[c], Ev({"exit"}))
        /\ ~Has(events'[c], {x \in Events : x.type = "exit" /\ x.outcome # table[c]})
        /\ Has(events'[c], Ev({"kill"})) => child[c].cancelled
    BY <1>1, <1>3, <1>12, <1>13 DEF LifeOf, Past
  <2> QED BY <1>3, <1>8, <1>9, <2>1, <2>2 DEF Past, Ev, Shown, Loud
<1>16. LifeOf(c, tasks)'
  <2>1. Settled(c)' /\ Unborn(c, tasks)'
    BY <1>1, <1>8, <1>9 DEF LifeOf, Settled, Unborn, Started
  <2> QED BY <1>14, <1>15, <2>1 DEF LifeOf
<1>17. WaitInv'
  BY <1>9 DEF LifeInv, WaitInv
<1> QED BY <1>10, <1>16, <1>17

LEMMA LifeNext == LifeInv /\ [Next]_vars => LifeInv'
<1> SUFFICES ASSUME LifeInv, [Next]_vars PROVE LifeInv'
  OBVIOUS
<1>1. TypeOK'
  BY TypeCaller, TypeTask DEF LifeInv, Next, TypeOK, vars
<1>2. CASE UNCHANGED vars
  <2>1. WaitInv'
    BY <1>2 DEF vars, LifeInv, WaitInv
  <2> QED BY <1>1, <1>2, <2>1, LifeSame DEF vars, LifeInv
<1>3. CASE CallerNext
  BY <1>1, <1>3, StartLives, KillLives, DisconnectLives, SendLives, ModuleSendsLives,
     ModuleListensLives, WaitLives DEF CallerNext, LifeInv
<1>4. CASE RunTask
  BY <1>1, <1>4, CommandLives, ModuleLives, ExitLives, CloseLives, ToChildLives, ToParentLives
  DEF RunTask, LifeInv
<1> QED BY <1>2, <1>3, <1>4 DEF Next

LEMMA Lives == Spec => []LifeInv
<1> QED BY LifeInit, LifeNext, PTL DEF Spec

-----------------------------------------------------------------------------
LEMMA SeenIs ==
  ASSUME TypeOK, NEW c \in Child, NEW type
  PROVE  \A i : i \in Seen(c, type) <=> i \in DOMAIN events[c] /\ events[c][i] \in Ev({type})
<1>1. events[c] \in Seq(Events)
  BY DEF TypeOK
<1>2. \A i \in DOMAIN events[c] : events[c][i] \in Events
  BY <1>1
<1> QED BY <1>2 DEF Seen, Ev

LEMMA AtMostOne ==
  ASSUME NEW S, \A i, j \in S : i = j
  PROVE  Cardinality(S) <= 1
<1>1. CASE S = {}
  BY <1>1, FS_EmptySet
<1>2. CASE S # {}
  <2>1. PICK i \in S : TRUE
    BY <1>2
  <2>2. S = {i}
    BY <2>1
  <2>3. Cardinality({i}) = 1
    BY FS_Singleton
  <2> QED BY <2>2, <2>3
<1> QED BY <1>1, <1>2

(* However kill, a failing command and exec's callback meet, a child exits  *)
(* once and closes once, in this order, and shows no output or error after  *)
(* that (_exited, line 236): for any number of children and of messages.    *)
THEOREM ExitsOnce == Spec => []LifeCycle
<1>1. LifeInv => LifeCycle
  <2> SUFFICES ASSUME LifeInv, NEW c \in Child
               PROVE  /\ Cardinality(Seen(c, "exit")) <= 1 /\ Cardinality(Seen(c, "close")) <= 1
                      /\ \A i \in Seen(c, "exit"), j \in Seen(c, "close") : i < j
                      /\ \A i \in Seen(c, "output") \cup Seen(c, "error"),
                            j \in Seen(c, "exit") \cup Seen(c, "close") : i < j
                      /\ Seen(c, "close") # {} => Seen(c, "exit") # {}
    BY DEF LifeCycle
  <2>1. TypeOK /\ Past(c)
    BY DEF LifeInv, LifeOf
  <2>2. \A type, i : i \in Seen(c, type) <=> i \in DOMAIN events[c] /\ events[c][i] \in Ev({type})
    BY <2>1, SeenIs
  <2>3. Cardinality(Seen(c, "exit")) <= 1 /\ Cardinality(Seen(c, "close")) <= 1
    <3>1. /\ \A i, j \in Seen(c, "exit") : i = j
          /\ \A i, j \in Seen(c, "close") : i = j
      BY <2>1, <2>2 DEF Past, Once
    <3> QED BY <3>1, AtMostOne
  <2>4. \A i \in Seen(c, "exit"), j \in Seen(c, "close") : i < j
    BY <2>1, <2>2 DEF Past, Before
  <2>5. \A i \in Seen(c, "output") \cup Seen(c, "error"),
           j \in Seen(c, "exit") \cup Seen(c, "close") : i < j
    <3>1. /\ \A i \in Seen(c, "output") \cup Seen(c, "error") :
               i \in DOMAIN events[c] /\ events[c][i] \in Ev(Shown)
          /\ \A j \in Seen(c, "exit") \cup Seen(c, "close") :
               j \in DOMAIN events[c] /\ events[c][j] \in Ev({"exit", "close"})
      BY <2>2 DEF Ev, Shown
    <3> QED BY <2>1, <3>1 DEF Past, Before
  <2>6. Seen(c, "close") # {} => Seen(c, "exit") # {}
    BY <2>1, <2>2 DEF Past, Has
  <2> QED BY <2>3, <2>4, <2>5, <2>6
<1> QED BY <1>1, Lives, PTL

(* A killed child shows no more output, no error and calls no callback, also*)
(* when it is killed before its command runs or by the command (line 8).    *)
THEOREM QuietAfterKill == Spec => []KillStopsOutput
<1>1. LifeInv => KillStopsOutput
  <2> SUFFICES ASSUME LifeInv, NEW c \in Child, NEW i \in Seen(c, "kill"),
                      NEW j \in Seen(c, "output") \cup Seen(c, "error") \cup Seen(c, "callback")
               PROVE  j < i
    BY DEF KillStopsOutput
  <2>1. TypeOK /\ Past(c)
    BY DEF LifeInv, LifeOf
  <2>2. \A type, k : k \in Seen(c, type) <=> k \in DOMAIN events[c] /\ events[c][k] \in Ev({type})
    BY <2>1, SeenIs
  <2>3. /\ i \in DOMAIN events[c] /\ events[c][i] \in Ev({"kill"})
        /\ j \in DOMAIN events[c] /\ events[c][j] \in Ev(Loud)
    BY <2>2 DEF Ev, Loud, Shown
  <2> QED BY <2>1, <2>3 DEF Past, Before
<1> QED BY <1>1, Lives, PTL

(* Both: what the run checks of the life of a child.                        *)
THEOREM ChildrenEnd == Spec => []ChildrenEndOnce
<1>1. LifeCycle /\ KillStopsOutput => ChildrenEndOnce
  BY DEF ChildrenEndOnce
<1> QED BY <1>1, ExitsOnce, QuietAfterKill, PTL

(* Whoever waits for a child, before or after it has ended, learns the same *)
(* outcome as a listener of 'exit', also if the child is killed meanwhile   *)
(* (line 699).                                                              *)
THEOREM WaitersLearnTheExit == Spec => []WaitersAgree
<1>1. LifeInv => WaitersAgree
  <2> SUFFICES ASSUME LifeInv, NEW w \in Waiter, NEW c \in Child,
                      c \in waiting[w].child, waiting[w].result # Unsettled
               PROVE  /\ waiting[w].result = table[c]
                      /\ \A i \in Seen(c, "exit") : events[c][i].outcome = waiting[w].result
    BY DEF WaitersAgree
  <2>1. TypeOK /\ Past(c) /\ waiting[w].result = table[c]
    BY DEF LifeInv, LifeOf, WaitInv
  <2>2. \A i \in Seen(c, "exit") : i \in DOMAIN events[c] /\ events[c][i] \in Ev({"exit"})
    BY <2>1, SeenIs
  <2>3. \A i \in Seen(c, "exit") : events[c][i].outcome = table[c]
    BY <2>1, <2>2 DEF Past, Has, Ev
  <2> QED BY <2>1, <2>3
<1> QED BY <1>1, Lives, PTL

-----------------------------------------------------------------------------
(* Messages in order: what is numbered in a sequence rises, up to a number, *)
(* and from above another one.                                              *)
Rising(q, S) == \A i, j \in DOMAIN q : q[i] \in S /\ q[j] \in S /\ i < j => q[i].n < q[j].n
UpTo(q, S, n) == \A i \in DOMAIN q : q[i] \in S => q[i].n <= n
Above(q, S, n) == \A i \in DOMAIN q : q[i] \in S => n < q[i].n

(* What the module was given rises, and is older than what is still on its  *)
(* way to it, which rises up to the number of messages sent.                *)
DownInOrder(c, q) ==
  /\ Rising(q, Of(c, "toChild")) /\ UpTo(q, Of(c, "toChild"), child[c].sentDown)
  /\ \A i, j \in DOMAIN child[c].handled :
       i < j => child[c].handled[i] < child[c].handled[j]
  /\ \A i \in DOMAIN child[c].handled :
       /\ child[c].handled[i] <= child[c].sentDown
       /\ Above(q, Of(c, "toChild"), child[c].handled[i])

(* The same of what the caller saw of the module's messages.                *)
UpInOrder(c, q) ==
  /\ Rising(q, Of(c, "toParent")) /\ UpTo(q, Of(c, "toParent"), child[c].sentUp)
  /\ Rising(events[c], Ev({"message"})) /\ UpTo(events[c], Ev({"message"}), child[c].sentUp)
  /\ \A i \in DOMAIN events[c] : events[c][i] \in Ev({"message"}) =>
       Above(q, Of(c, "toParent"), events[c][i].n)

OrderInv ==
  \A c \in Child : DownInOrder(c, tasks) /\ UpInOrder(c, tasks)

LEMMA RisingConcat ==
  ASSUME NEW T, NEW q \in Seq(T), NEW r \in Seq(T), NEW S,
         \A t \in S : t.n \in Nat
  PROVE  /\ \A n : UpTo(q, S, n) /\ UpTo(r, S, n) => UpTo(q \o r, S, n)
         /\ \A n : Above(q, S, n) /\ Above(r, S, n) => Above(q \o r, S, n)
         /\ \A n \in Nat : Rising(q, S) /\ Rising(r, S) /\ UpTo(q, S, n) /\ Above(r, S, n)
                             => Rising(q \o r, S)
<1> DEFINE m == Len(q)  s == q \o r
<1>1. /\ DOMAIN q = 1 .. m /\ m \in Nat /\ Len(r) \in Nat
      /\ DOMAIN r = 1 .. Len(r) /\ DOMAIN s = 1 .. (m + Len(r))
      /\ \A i \in 1 .. m : s[i] = q[i]
      /\ \A i \in 1 .. Len(r) : s[m + i] = r[i]
  BY ConcatParts
<1> HIDE DEF m, s
<1>2. \A i \in DOMAIN s : \/ i \in DOMAIN q /\ s[i] = q[i]
                          \/ i > m /\ i - m \in DOMAIN r /\ s[i] = r[i - m]
  <2> SUFFICES ASSUME NEW i \in 1 .. (m + Len(r)), i > m
               PROVE  i - m \in 1 .. Len(r) /\ s[i] = r[i - m]
    BY <1>1
  <2>1. i - m \in 1 .. Len(r) /\ m + (i - m) = i
    BY <1>1
  <2> QED BY <1>1, <2>1
<1>3. \A i \in DOMAIN s : i \in Int /\ (i \in DOMAIN q => i <= m)
  BY <1>1
<1>4. \A n : UpTo(q, S, n) /\ UpTo(r, S, n) => UpTo(s, S, n)
  BY <1>2 DEF UpTo
<1>5. \A n : Above(q, S, n) /\ Above(r, S, n) => Above(s, S, n)
  BY <1>2 DEF Above
<1>6. ASSUME NEW n \in Nat, Rising(q, S), Rising(r, S), UpTo(q, S, n), Above(r, S, n)
      PROVE  Rising(s, S)
  <2> SUFFICES ASSUME NEW i \in DOMAIN s, NEW j \in DOMAIN s, s[i] \in S, s[j] \in S, i < j
               PROVE  s[i].n < s[j].n
    BY DEF Rising
  <2>1. CASE i \in DOMAIN q /\ s[i] = q[i] /\ j \in DOMAIN q /\ s[j] = q[j]
    BY <1>6, <2>1 DEF Rising
  <2>2. CASE i \in DOMAIN q /\ s[i] = q[i] /\ j - m \in DOMAIN r /\ s[j] = r[j - m]
    <3>1. s[i].n <= n /\ n < s[j].n /\ s[i].n \in Nat /\ s[j].n \in Nat
      BY <1>6, <2>2 DEF UpTo, Above
    <3> QED BY <3>1
  <2>3. CASE /\ i - m \in DOMAIN r /\ s[i] = r[i - m]
             /\ j - m \in DOMAIN r /\ s[j] = r[j - m]
    <3>1. i - m < j - m
      BY <1>1, <1>3
    <3> QED BY <1>6, <2>3, <3>1 DEF Rising
  <2>4. CASE i > m /\ j \in DOMAIN q
    BY <1>1, <1>3, <2>4
  <2> QED BY <1>2, <2>1, <2>2, <2>3, <2>4
<1> QED BY <1>4, <1>5, <1>6 DEF s

Holds(q, x) == \E i \in DOMAIN q : x = q[i]

LEMMA FromParts ==
  ASSUME NEW T, NEW q \in Seq(T), NEW r \in Seq(T), NEW x, Holds(q \o r, x)
  PROVE  Holds(q, x) \/ Holds(r, x)
<1> DEFINE m == Len(q)  s == q \o r
<1>1. /\ DOMAIN q = 1 .. m /\ m \in Nat /\ Len(r) \in Nat
      /\ DOMAIN r = 1 .. Len(r) /\ DOMAIN s = 1 .. (m + Len(r))
      /\ \A k \in 1 .. m : s[k] = q[k]
      /\ \A k \in 1 .. Len(r) : s[m + k] = r[k]
      /\ \A k \in 1 .. (m + Len(r)) : k \in 1 .. m \/ k - m \in 1 .. Len(r)
  BY ConcatParts
<1>2. PICK i \in DOMAIN s : x = s[i]
  BY DEF Holds
<1> HIDE DEF m, s
<1>3. CASE i \in 1 .. m
  BY <1>1, <1>2, <1>3 DEF Holds
<1>4. CASE i - m \in 1 .. Len(r)
  <2>1. m + (i - m) = i
    BY <1>1, <1>2
  <2> QED BY <1>1, <1>2, <1>4, <2>1 DEF Holds
<1> QED BY <1>1, <1>2, <1>3, <1>4

LEMMA RisingTail ==
  ASSUME NEW T, NEW q \in Seq(T), q # << >>, NEW S
  PROVE  /\ Rising(q, S) => Rising(Tail(q), S)
         /\ \A n : UpTo(q, S, n) => UpTo(Tail(q), S, n)
         /\ \A n : Above(q, S, n) => Above(Tail(q), S, n)
         /\ \A n : Head(q) \in S /\ UpTo(q, S, n) => Head(q).n <= n
         /\ \A n : Head(q) \in S /\ Above(q, S, n) => n < Head(q).n
         /\ Head(q) \in S /\ Rising(q, S) => Above(Tail(q), S, Head(q).n)
<1> DEFINE t == Tail(q)
<1>1. /\ t \in Seq(T) /\ Len(t) = Len(q) - 1 /\ Len(q) \in Nat /\ Len(q) > 0
      /\ \A i \in 1 .. Len(t) : t[i] = q[i + 1]
      /\ Head(q) = q[1] /\ Head(q) \in T
  BY HeadTailProperties, EmptySeq, LenProperties
<1>2. DOMAIN q = 1 .. Len(q) /\ DOMAIN t = 1 .. Len(t)
  BY <1>1, LenProperties
<1>3. /\ \A i \in DOMAIN t : i + 1 \in DOMAIN q /\ 1 < i + 1 /\ t[i] = q[i + 1] /\ i \in Int
      /\ \A i, j \in DOMAIN t : i < j => i + 1 < j + 1
      /\ 1 \in DOMAIN q
  BY <1>1, <1>2
<1> HIDE DEF t
<1>4. Rising(q, S) => Rising(t, S)
  BY <1>3 DEF Rising
<1>5. /\ \A n : UpTo(q, S, n) => UpTo(t, S, n)
      /\ \A n : Above(q, S, n) => Above(t, S, n)
  BY <1>3 DEF UpTo, Above
<1>6. /\ \A n : Head(q) \in S /\ UpTo(q, S, n) => Head(q).n <= n
      /\ \A n : Head(q) \in S /\ Above(q, S, n) => n < Head(q).n
  BY <1>1, <1>3 DEF UpTo, Above
<1>7. Head(q) \in S /\ Rising(q, S) => Above(t, S, Head(q).n)
  BY <1>1, <1>3 DEF Rising, Above
<1> QED BY <1>4, <1>5, <1>6, <1>7 DEF t

(* A sequence without numbers of its own.                                   *)
LEMMA NoNumber ==
  ASSUME NEW q, NEW S, ~Has(q, S)
  PROVE  Rising(q, S) /\ \A n : UpTo(q, S, n) /\ Above(q, S, n)
BY DEF Has, Rising, UpTo, Above

LEMMA Numbers ==
  ASSUME NEW c, NEW type
  PROVE  (\A t \in Of(c, type) : t.n \in Nat) /\ (\A e \in Ev({type}) : e.n \in Nat)
BY DEF Of, Ev, Tasks, Events

-----------------------------------------------------------------------------
(* What a call of c composes its steps over sends to the parent only, and   *)
(* in order.                                                                *)
Posts(c, s) ==
  /\ s \in States
  /\ s.r.sentDown = child[c].sentDown /\ s.r.handled = child[c].handled
  /\ child[c].sentUp <= s.r.sentUp
  /\ ~Has(s.seen, Ev({"message"})) /\ ~Has(s.queued, Of(c, "toChild"))
  /\ ~Has(s.queued, {t \in Tasks : t.child # c})
  /\ Rising(s.queued, Of(c, "toParent"))
  /\ UpTo(s.queued, Of(c, "toParent"), s.r.sentUp)
  /\ Above(s.queued, Of(c, "toParent"), child[c].sentUp)

Ends(c) == Of(c, "exit") \cup Of(c, "close")

LEMMA PostsSame ==
  ASSUME NEW c \in Child, NEW s, Posts(c, s), NEW u \in States,
         NEW q \in Seq(Tasks), NEW e \in Seq(Events),
         u.r.sentDown = s.r.sentDown, u.r.handled = s.r.handled, u.r.sentUp = s.r.sentUp,
         u.queued = s.queued \o q, u.seen = s.seen \o e,
         ~Has(e, Ev({"message"})), ~Has(q, Tasks \ Ends(c))
  PROVE  Posts(c, u)
<1>1. s.queued \in Seq(Tasks) /\ s.seen \in Seq(Events)
  BY DEF Posts, States
<1>2. /\ Of(c, "toChild") \subseteq Tasks \ Ends(c)
      /\ Of(c, "toParent") \subseteq Tasks \ Ends(c)
      /\ {t \in Tasks : t.child # c} \subseteq Tasks \ Ends(c)
  BY DEF Of, Ends
<1>3. /\ ~Has(q, Of(c, "toChild")) /\ ~Has(q, Of(c, "toParent"))
      /\ ~Has(q, {t \in Tasks : t.child # c})
  BY <1>2 DEF Has
<1>4. /\ ~Has(u.seen, Ev({"message"})) /\ ~Has(u.queued, Of(c, "toChild"))
      /\ ~Has(u.queued, {t \in Tasks : t.child # c})
  BY <1>1, <1>3, Concat DEF Posts
<1>5. \A t \in Of(c, "toParent") : t.n \in Nat
  BY Numbers
<1>6. /\ Rising(q, Of(c, "toParent"))
      /\ \A n : UpTo(q, Of(c, "toParent"), n) /\ Above(q, Of(c, "toParent"), n)
  BY <1>3, NoNumber
<1>7. s.r.sentUp \in Nat
  BY DEF Posts, States, Children
<1>8. /\ Rising(u.queued, Of(c, "toParent")) /\ UpTo(u.queued, Of(c, "toParent"), u.r.sentUp)
      /\ Above(u.queued, Of(c, "toParent"), child[c].sentUp)
  BY <1>1, <1>5, <1>6, <1>7, RisingConcat DEF Posts
<1> QED BY <1>4, <1>8 DEF Posts

LEMMA PostsEmit ==
  ASSUME NEW c \in Child, NEW s, Posts(c, s),
         NEW type \in {"output", "error", "callback", "kill", "disconnect"}
  PROVE  Posts(c, Emit(s, type))
<1> DEFINE e == Event(type, 0, Unsettled)  u == Emit(s, type)
<1>1. e \in Events /\ e.type = type /\ u \in States
  BY EmitTyped, Values DEF Posts, Event, Events
<1>2. s.seen \in Seq(Events) /\ s.queued \in Seq(Tasks) /\ s \in States
      /\ <<e>> \in Seq(Events) /\ Append(s.seen, e) = s.seen \o <<e>>
  BY <1>1, AppendIsConcat DEF Posts, States
<1>3. u.seen = s.seen \o <<e>> /\ u.r = s.r /\ u.queued = s.queued
  BY <1>2 DEF Emit, States
<1>4. e \notin Ev({"message"})
  BY <1>1 DEF Ev
<1> HIDE DEF e, u
<1>5. ~Has(<<e>>, Ev({"message"})) /\ ~Has(<< >>, Tasks \ Ends(c))
  BY <1>4, OneElement, NoElement
<1>6. s.queued \o << >> = s.queued /\ << >> \in Seq(Tasks)
  BY <1>2
<1>7. Posts(c, u)
  BY <1>1, <1>2, <1>3, <1>5, <1>6, PostsSame
<1> QED BY <1>7 DEF u

LEMMA PostsExit ==
  ASSUME NEW c \in Child, NEW s, Posts(c, s), NEW outcome \in Outcome
  PROVE  Posts(c, EmitExit(c, s, outcome))
<1>0. CASE s.r.exited
  BY <1>0 DEF EmitExit
<1>1. CASE ~s.r.exited
  <2> DEFINE t == Task("exit", c, 0, outcome)  u == EmitExit(c, s, outcome)
  <2>1. u \in States /\ t \in Tasks /\ t.type = "exit" /\ t.child = c /\ s \in States
    BY EmitExitTyped DEF Posts, Task, Tasks
  <2>2. s.queued \in Seq(Tasks) /\ <<t>> \in Seq(Tasks) /\ Append(s.queued, t) = s.queued \o <<t>>
    BY <2>1, AppendIsConcat DEF States
  <2>3. u.queued = s.queued \o <<t>> /\ u.seen = s.seen
    BY <1>1, <2>1, <2>2 DEF EmitExit, States
  <2>4. u.r.sentDown = s.r.sentDown /\ u.r.handled = s.r.handled /\ u.r.sentUp = s.r.sentUp
    BY <1>1, <2>1 DEF EmitExit, States, Children
  <2>5. t \notin Tasks \ Ends(c)
    BY <2>1 DEF Of, Ends
  <2> HIDE DEF t, u
  <2>6. ~Has(<<t>>, Tasks \ Ends(c)) /\ ~Has(<< >>, Ev({"message"}))
    BY <2>5, OneElement, NoElement
  <2>7. s.seen \o << >> = s.seen /\ << >> \in Seq(Events)
    BY <2>1 DEF States
  <2>8. Posts(c, u)
    BY <2>1, <2>2, <2>3, <2>4, <2>6, <2>7, PostsSame
  <2> QED BY <2>8 DEF u
<1> QED BY <1>0, <1>1

(* A change of the fields that messages do not depend on.                   *)
LEMMA PostsLike ==
  ASSUME NEW c \in Child, NEW s, Posts(c, s), NEW u \in States,
         u.r.sentDown = s.r.sentDown, u.r.handled = s.r.handled, u.r.sentUp = s.r.sentUp,
         u.queued = s.queued, u.seen = s.seen
  PROVE  Posts(c, u)
BY DEF Posts

LEMMA PostsKilled ==
  ASSUME NEW c \in Child, NEW s, Posts(c, s)
  PROVE  Posts(c, Killed(c, s))
<1> DEFINE x == Emit(s, "kill")
           k == [x EXCEPT !.r.killed = TRUE, !.r.cancelled = TRUE,
                          !.r.signal = TRUE, !.r.code = NoCode]
<1>1. Posts(c, x) /\ x \in States
  BY PostsEmit DEF Posts
<1> HIDE DEF x
<1>2. /\ k \in States /\ k.r.sentDown = x.r.sentDown /\ k.r.handled = x.r.handled
      /\ k.r.sentUp = x.r.sentUp /\ k.queued = x.queued /\ k.seen = x.seen
  BY <1>1 DEF States, Children
<1> HIDE DEF k
<1>3. Posts(c, k)
  BY <1>1, <1>2, PostsLike
<1>4. Posts(c, EmitExit(c, k, Signalled))
  BY <1>3, PostsExit, Values
<1> QED BY <1>4 DEF Killed, k, x

LEMMA PostsFail ==
  ASSUME NEW c \in Child, NEW s, Posts(c, s)
  PROVE  Posts(c, Fail(c, s)) /\ Posts(c, Called(s))
<1>1. Posts(c, Emit(s, "error")) /\ Posts(c, Emit(s, "callback"))
  BY PostsEmit
<1>2. Returned(1) \in Outcome
  BY Values DEF Code
<1>3. Posts(c, EmitExit(c, Emit(s, "error"), Returned(1)))
  BY <1>1, <1>2, PostsExit
<1> QED BY <1>1, <1>3 DEF Fail, Called

LEMMA PostsCommand ==
  ASSUME NEW c \in Child, NEW s, Posts(c, s), NEW kills \in BOOLEAN,
         NEW wrote \in BOOLEAN, NEW code \in Code \cup {NoCode}
  PROVE  Posts(c, CommandRuns(c, s, kills, wrote, code))
<1> DEFINE ran == IF kills THEN Killed(c, s) ELSE s
           o == Output(ran, wrote)  x == EmitExit(c, o, Returned(code))
<1>1. Posts(c, ran)
  BY PostsKilled
<1> HIDE DEF ran
<1>2. Posts(c, Fail(c, ran)) /\ Posts(c, Called(Fail(c, ran)))
  BY <1>1, PostsFail
<1>3. Posts(c, o)
  BY <1>1, PostsEmit DEF Output
<1> HIDE DEF o
<1>4. ASSUME code # NoCode PROVE Posts(c, Callback(c, x))
  <2>1. Returned(code) \in Outcome
    BY <1>4, Values
  <2>2. Posts(c, x)
    BY <1>3, <2>1, PostsExit
  <2> HIDE DEF x
  <2>3. Posts(c, Called(x)) /\ Posts(c, Fail(c, Called(x)))
    BY <2>2, PostsFail
  <2>4. Posts(c, Called(Fail(c, Called(x))))
    BY <2>3, PostsFail
  <2> QED BY <2>2, <2>3, <2>4 DEF Callback
<1> QED BY <1>1, <1>2, <1>4 DEF CommandRuns, ran, x, o

LEMMA PostsPost ==
  ASSUME NEW c \in Child, NEW s, Posts(c, s), NEW n \in Nat, child[c].sentUp \in Nat
  PROVE  Posts(c, Post(c, s, n))
<1> DEFINE a == s.r.sentUp
           m == [k \in 1 .. n |-> Task("toParent", c, a + k, Unsettled)]
           u == Post(c, s, n)
<1>1. u \in States /\ s \in States
  BY PostTyped DEF Posts
<1>2. a \in Nat /\ s.queued \in Seq(Tasks) /\ child[c].sentUp <= a
  BY <1>1 DEF States, Children, Posts
<1>3. /\ u.queued = s.queued \o m /\ u.seen = s.seen /\ u.r = [s.r EXCEPT !.sentUp = @ + n]
  BY <1>1 DEF Post, States
<1>4. u.r.sentDown = s.r.sentDown /\ u.r.handled = s.r.handled /\ u.r.sentUp = a + n
  BY <1>1, <1>3 DEF States, Children
<1> HIDE DEF u
<1>5. \A k \in 1 .. n : /\ Task("toParent", c, a + k, Unsettled) \in Tasks
                        /\ Task("toParent", c, a + k, Unsettled).type = "toParent"
                        /\ Task("toParent", c, a + k, Unsettled).child = c
                        /\ Task("toParent", c, a + k, Unsettled).n = a + k
  BY <1>2 DEF Task, Tasks
<1>6. m \in [1 .. n -> Tasks] /\ DOMAIN m = 1 .. n
      /\ \A k \in 1 .. n : /\ m[k] \in Tasks /\ m[k].type = "toParent" /\ m[k].child = c
                           /\ m[k].n = a + k
  BY <1>5
<1> HIDE DEF m
<1>7. m \in Seq(Tasks)
  BY <1>6, SeqDef
<1>8. ~Has(m, Of(c, "toChild")) /\ ~Has(m, {t \in Tasks : t.child # c})
  BY <1>6 DEF Has, Of
<1>9. /\ Rising(m, Of(c, "toParent")) /\ UpTo(m, Of(c, "toParent"), a + n)
      /\ Above(m, Of(c, "toParent"), a) /\ Above(m, Of(c, "toParent"), child[c].sentUp)
  <2>1. \A k \in 1 .. n : a < a + k /\ child[c].sentUp < a + k /\ a + k <= a + n /\ k \in Int
    BY <1>2
  <2>2. \A k, j \in 1 .. n : k < j => a + k < a + j
    BY <1>2
  <2> HIDE DEF a
  <2> QED BY <1>6, <2>1, <2>2 DEF Rising, UpTo, Above
<1>10. \A t \in Of(c, "toParent") : t.n \in Nat
  BY Numbers
<1>11. UpTo(s.queued, Of(c, "toParent"), a + n)
  <2>1. \A i \in DOMAIN s.queued : s.queued[i] \in Of(c, "toParent") =>
          s.queued[i].n \in Nat /\ s.queued[i].n <= a
    BY <1>10 DEF Posts, UpTo
  <2>2. \A x \in Nat : x <= a => x <= a + n
    BY <1>2
  <2> HIDE DEF a
  <2> QED BY <2>1, <2>2 DEF UpTo
<1>12. /\ UpTo(s.queued, Of(c, "toParent"), a) /\ Rising(s.queued, Of(c, "toParent"))
       /\ Above(s.queued, Of(c, "toParent"), child[c].sentUp)
       /\ ~Has(s.queued, Of(c, "toChild")) /\ ~Has(s.queued, {t \in Tasks : t.child # c})
       /\ s.r.sentDown = child[c].sentDown /\ s.r.handled = child[c].handled
       /\ ~Has(s.seen, Ev({"message"}))
  BY DEF Posts
<1>13. child[c].sentUp <= a + n
  BY <1>2
<1> HIDE DEF a
<1>14. /\ Rising(u.queued, Of(c, "toParent")) /\ UpTo(u.queued, Of(c, "toParent"), a + n)
       /\ Above(u.queued, Of(c, "toParent"), child[c].sentUp)
  BY <1>2, <1>3, <1>7, <1>9, <1>10, <1>11, <1>12, RisingConcat
<1>15. ~Has(u.queued, Of(c, "toChild")) /\ ~Has(u.queued, {t \in Tasks : t.child # c})
  BY <1>2, <1>3, <1>7, <1>8, <1>12, Concat
<1>16. Posts(c, u)
  BY <1>1, <1>3, <1>4, <1>12, <1>13, <1>14, <1>15 DEF Posts
<1> QED BY <1>16 DEF u

LEMMA PostsModule ==
  ASSUME NEW c \in Child, NEW s, Posts(c, s), NEW kills \in BOOLEAN, NEW n \in Nat,
         NEW handles \in BOOLEAN, NEW throws \in BOOLEAN, child[c].sentUp \in Nat
  PROVE  Posts(c, ModuleRuns(c, s, kills, n, handles, throws))
<1> DEFINE ready == [s EXCEPT !.r.ready = TRUE, !.r.handler = handles]
           posted == Post(c, ready, n)
           ran == IF kills THEN Killed(c, posted) ELSE posted
<1>1. /\ ready \in States /\ ready.queued = s.queued /\ ready.seen = s.seen
      /\ ready.r.sentDown = s.r.sentDown /\ ready.r.handled = s.r.handled
      /\ ready.r.sentUp = s.r.sentUp
  BY DEF Posts, States, Children
<1> HIDE DEF ready
<1>2. Posts(c, ready)
  BY <1>1, PostsLike
<1>3. Posts(c, posted)
  BY <1>2, PostsPost
<1> HIDE DEF posted
<1>4. Posts(c, ran)
  BY <1>3, PostsKilled
<1> HIDE DEF ran
<1>5. Returned(0) \in Outcome
  BY Values DEF Code
<1>6. Posts(c, EmitExit(c, ran, Returned(0))) /\ Posts(c, Fail(c, ran))
  BY <1>4, <1>5, PostsExit, PostsFail
<1> QED BY <1>4, <1>6 DEF ModuleRuns, ran, posted, ready

LEMMA PostsDisconnected ==
  ASSUME NEW c \in Child, NEW s, Posts(c, s)
  PROVE  Posts(c, Disconnected(s))
<1> DEFINE x == [s EXCEPT !.r.connected = FALSE, !.r.channel = FALSE]
<1>1. /\ x \in States /\ x.queued = s.queued /\ x.seen = s.seen
      /\ x.r.sentDown = s.r.sentDown /\ x.r.handled = s.r.handled /\ x.r.sentUp = s.r.sentUp
  BY DEF Posts, States, Children
<1> HIDE DEF x
<1>2. Posts(c, x)
  BY <1>1, PostsLike
<1>3. Posts(c, Emit(x, "disconnect"))
  BY <1>2, PostsEmit
<1> QED BY <1>3 DEF Disconnected, x

LEMMA PostsAt ==
  ASSUME TypeOK, NEW c \in Child
  PROVE  /\ Posts(c, At(c))
         /\ \A seen \in Seq(Events) :
              ~Has(seen, Ev({"message"})) => Posts(c, [At(c) EXCEPT !.seen = seen])
<1>1. child[c] \in Children /\ child[c].sentUp <= child[c].sentUp
  BY DEF TypeOK, Children
<1>2. /\ At(c) \in States /\ At(c).r = child[c] /\ At(c).queued = << >> /\ At(c).seen = << >>
      /\ \A seen \in Seq(Events) :
           LET s == [At(c) EXCEPT !.seen = seen]
           IN  s \in States /\ s.r = child[c] /\ s.queued = << >> /\ s.seen = seen
  BY AtTyped, AtParts
<1>3. /\ \A S : ~Has(<< >>, S) /\ Rising(<< >>, S)
      /\ \A S, n : UpTo(<< >>, S, n) /\ Above(<< >>, S, n)
  BY NoElement, NoNumber
<1>4. Posts(c, At(c))
  BY <1>1, <1>2, <1>3 DEF Posts
<1>5. ASSUME NEW seen \in Seq(Events), ~Has(seen, Ev({"message"}))
      PROVE  Posts(c, [At(c) EXCEPT !.seen = seen])
  <2> DEFINE s == [At(c) EXCEPT !.seen = seen]
  <2>1. s \in States /\ s.r = child[c] /\ s.queued = << >> /\ s.seen = seen
    BY <1>2
  <2> HIDE DEF s
  <2>2. Posts(c, s)
    BY <1>1, <1>3, <1>5, <2>1 DEF Posts
  <2> QED BY <2>2 DEF s
<1> QED BY <1>4, <1>5

-----------------------------------------------------------------------------
SentInOrder(c, q) == DownInOrder(c, q) /\ UpInOrder(c, q)

(* Of fewer microtasks less is asked.                                       *)
LEMMA OrderPops ==
  ASSUME TypeOK, NEW c \in Child, SentInOrder(c, tasks), tasks # << >>
  PROVE  SentInOrder(c, Tail(tasks))
<1>1. tasks \in Seq(Tasks)
  BY DEF TypeOK
<1>2. \A S : /\ Rising(tasks, S) => Rising(Tail(tasks), S)
             /\ \A n : UpTo(tasks, S, n) => UpTo(Tail(tasks), S, n)
             /\ \A n : Above(tasks, S, n) => Above(Tail(tasks), S, n)
  BY <1>1, RisingTail
<1> QED BY <1>2 DEF SentInOrder, DownInOrder, UpInOrder

(* A step that leaves the messages of d alone.                              *)
LEMMA OrderOther ==
  ASSUME NEW d \in Child, NEW queue \in Seq(Tasks), NEW added \in Seq(Tasks),
         ~Has(added, Of(d, "toChild")), ~Has(added, Of(d, "toParent")),
         child[d].sentDown \in Nat, child[d].sentUp \in Nat,
         SentInOrder(d, queue), tasks' = queue \o added,
         child'[d].sentDown = child[d].sentDown, child'[d].sentUp = child[d].sentUp,
         child'[d].handled = child[d].handled, events'[d] = events[d]
  PROVE  SentInOrder(d, tasks)'
<1>1. \A type \in {"toChild", "toParent"} :
        /\ \A n : UpTo(queue, Of(d, type), n) => UpTo(tasks', Of(d, type), n)
        /\ \A n : Above(queue, Of(d, type), n) => Above(tasks', Of(d, type), n)
        /\ \A n \in Nat : Rising(queue, Of(d, type)) /\ UpTo(queue, Of(d, type), n)
                            => Rising(tasks', Of(d, type))
  <2> SUFFICES ASSUME NEW type \in {"toChild", "toParent"}
               PROVE  /\ \A n : UpTo(queue, Of(d, type), n) => UpTo(tasks', Of(d, type), n)
                      /\ \A n : Above(queue, Of(d, type), n) => Above(tasks', Of(d, type), n)
                      /\ \A n \in Nat : Rising(queue, Of(d, type)) /\ UpTo(queue, Of(d, type), n)
                                          => Rising(tasks', Of(d, type))
    OBVIOUS
  <2>1. \A t \in Of(d, type) : t.n \in Nat
    BY Numbers
  <2>2. ~Has(added, Of(d, type))
    OBVIOUS
  <2>3. Rising(added, Of(d, type))
        /\ \A n : UpTo(added, Of(d, type), n) /\ Above(added, Of(d, type), n)
    BY <2>2, NoNumber
  <2> QED BY <2>1, <2>3, RisingConcat
<1>2. DownInOrder(d, tasks)'
  BY <1>1 DEF SentInOrder, DownInOrder, Of
<1>3. UpInOrder(d, tasks)'
  BY <1>1 DEF SentInOrder, UpInOrder, Of, Ev
<1> QED BY <1>2, <1>3 DEF SentInOrder

(* A step of c composed of calls that post to the parent.                   *)
LEMMA OrderSelf ==
  ASSUME NEW c \in Child, NEW queue \in Seq(Tasks), NEW s, Posts(c, s),
         SentInOrder(c, queue), child[c] \in Children, events[c] \in Seq(Events),
         child'[c] = s.r, events'[c] = events[c] \o s.seen, tasks' = queue \o s.queued
  PROVE  SentInOrder(c, tasks)'
<1> DEFINE D == Of(c, "toChild")  U == Of(c, "toParent")  M == Ev({"message"})
           a == child[c].sentUp  b == s.r.sentUp
<1>1. /\ s.queued \in Seq(Tasks) /\ s.seen \in Seq(Events) /\ a \in Nat /\ b \in Nat /\ a <= b
      /\ child[c].sentDown \in Nat
  BY DEF Posts, States, Children
<1>2. /\ \A t \in D : t.n \in Nat
      /\ \A t \in U : t.n \in Nat
      /\ \A t \in M : t.n \in Nat
  BY Numbers
<1> HIDE DEF D, U, M, a, b
<1>3. /\ Rising(queue, D) /\ UpTo(queue, D, child[c].sentDown)
      /\ \A i, j \in DOMAIN child[c].handled :
           i < j => child[c].handled[i] < child[c].handled[j]
      /\ \A i \in DOMAIN child[c].handled :
           child[c].handled[i] <= child[c].sentDown /\ Above(queue, D, child[c].handled[i])
  BY DEF SentInOrder, DownInOrder, D
<1>4. /\ Rising(queue, U) /\ UpTo(queue, U, a)
      /\ Rising(events[c], M) /\ UpTo(events[c], M, a)
      /\ \A i \in DOMAIN events[c] : events[c][i] \in M => Above(queue, U, events[c][i].n)
  BY DEF SentInOrder, UpInOrder, U, M, a
<1>5. /\ s.r.sentDown = child[c].sentDown /\ s.r.handled = child[c].handled
      /\ ~Has(s.seen, M) /\ ~Has(s.queued, D)
      /\ Rising(s.queued, U) /\ UpTo(s.queued, U, b) /\ Above(s.queued, U, a)
  BY DEF Posts, D, U, M, a, b
<1>6. /\ Rising(s.queued, D) /\ Rising(s.seen, M)
      /\ \A n : UpTo(s.queued, D, n) /\ Above(s.queued, D, n)
      /\ \A n : UpTo(s.seen, M, n) /\ Above(s.seen, M, n)
  BY <1>5, NoNumber
<1>7. /\ Rising(tasks', D) /\ UpTo(tasks', D, child[c].sentDown)
      /\ \A n : Above(queue, D, n) => Above(tasks', D, n)
  BY <1>1, <1>2, <1>3, <1>6, RisingConcat
<1>8. UpTo(queue, U, b)
  <2>1. \A i \in DOMAIN queue : queue[i] \in U => queue[i].n \in Nat /\ queue[i].n <= a
    BY <1>2, <1>4 DEF UpTo
  <2> QED BY <1>1, <2>1 DEF UpTo
<1>9. Rising(tasks', U) /\ UpTo(tasks', U, b)
  BY <1>1, <1>2, <1>4, <1>5, <1>8, RisingConcat
<1>10. UpTo(events[c], M, b)
  <2>1. \A i \in DOMAIN events[c] : events[c][i] \in M =>
          events[c][i].n \in Nat /\ events[c][i].n <= a
    BY <1>2, <1>4 DEF UpTo
  <2> QED BY <1>1, <2>1 DEF UpTo
<1>11. Rising(events'[c], M) /\ UpTo(events'[c], M, b)
  BY <1>1, <1>2, <1>4, <1>6, <1>10, RisingConcat
<1>12. ASSUME NEW i \in DOMAIN events'[c], events'[c][i] \in M
       PROVE  Above(tasks', U, events'[c][i].n)
  <2> DEFINE x == events'[c][i]
  <2>1. PICK j \in DOMAIN events[c] : x = events[c][j]
    <3>1. Holds(events[c] \o s.seen, x) /\ x \in M
      BY <1>12 DEF Holds
    <3> HIDE DEF x
    <3>2. ~Holds(s.seen, x)
      BY <1>5, <3>1 DEF Has, Holds
    <3>3. Holds(events[c], x)
      BY <1>1, <3>1, <3>2, FromParts
    <3> QED BY <3>3 DEF Holds
  <2>2. Above(queue, U, x.n) /\ x.n \in Nat /\ x.n <= a
    BY <1>2, <1>4, <1>12, <2>1 DEF UpTo
  <2>3. Above(s.queued, U, x.n)
    <3>1. \A k \in DOMAIN s.queued : s.queued[k] \in U => s.queued[k].n \in Nat /\ a < s.queued[k].n
      BY <1>2, <1>5 DEF Above
    <3> HIDE DEF x
    <3> QED BY <1>1, <2>2, <3>1 DEF Above
  <2> HIDE DEF x
  <2>4. Above(tasks', U, x.n)
    BY <1>1, <1>2, <2>2, <2>3, RisingConcat
  <2> QED BY <2>4 DEF x
<1>13. DownInOrder(c, tasks)'
  <2>1. child'[c].sentDown = child[c].sentDown /\ child'[c].handled = child[c].handled
    BY <1>5
  <2>2. Of(c, "toChild")' = D
    BY DEF D, Of
  <2> QED BY <1>3, <1>7, <2>1, <2>2 DEF DownInOrder
<1>14. UpInOrder(c, tasks)'
  <2>1. child'[c].sentUp = b /\ Of(c, "toParent")' = U /\ Ev({"message"})' = M
    BY DEF b, U, M, Of, Ev
  <2> QED BY <1>9, <1>11, <1>12, <2>1 DEF UpInOrder
<1> QED BY <1>13, <1>14 DEF SentInOrder

LEMMA OrderBecomes ==
  ASSUME TypeOK, NEW c \in Child, NEW queue \in Seq(Tasks),
         \A d \in Child : SentInOrder(d, queue), NEW s, Posts(c, s), Becomes(c, s, queue)
  PROVE  \A d \in Child : SentInOrder(d, tasks)'
<1>1. /\ child'[c] = s.r /\ events'[c] = events[c] \o s.seen
      /\ \A d \in Child : d # c => child'[d] = child[d] /\ events'[d] = events[d]
      /\ tasks' = queue \o s.queued
      /\ \A d \in Child : events[d] \in Seq(Events) /\ child[d] \in Children
  BY DEF Becomes, TypeOK
<1>2. SentInOrder(c, tasks)'
  BY <1>1, OrderSelf
<1>3. ASSUME NEW d \in Child, d # c PROVE SentInOrder(d, tasks)'
  <2>1. \A type : Of(d, type) \subseteq {t \in Tasks : t.child # c}
    BY <1>3 DEF Of
  <2>2. ~Has(s.queued, Of(d, "toChild")) /\ ~Has(s.queued, Of(d, "toParent"))
    BY <2>1 DEF Posts, Has
  <2>3. s.queued \in Seq(Tasks)
    BY DEF Posts, States
  <2>4. child[d].sentDown \in Nat /\ child[d].sentUp \in Nat
    BY <1>1 DEF Children
  <2> QED BY <1>1, <1>3, <2>2, <2>3, <2>4, OrderOther
<1> QED BY <1>2, <1>3

-----------------------------------------------------------------------------
LEMMA OrderStart ==
  ASSUME LifeInv, NEW c \in Child, NEW kind \in Kind, NEW listens \in BOOLEAN,
         NEW throws \in BOOLEAN, Start(c, kind, listens, throws),
         \A d \in Child : SentInOrder(d, tasks)
  PROVE  \A d \in Child : SentInOrder(d, tasks)'
<1> DEFINE t == Task("run", c, 0, Unsettled)
<1>1. TypeOK /\ tasks \in Seq(Tasks) /\ ~Started(c) /\ LifeOf(c, tasks)
  BY DEF LifeInv, TypeOK, Start
<1>2. t \in Tasks /\ t.type = "run" /\ t.child = c
  BY DEF Task, Tasks
<1>3. tasks' = tasks \o <<t>> /\ <<t>> \in Seq(Tasks)
  BY <1>1, <1>2, AppendIsConcat DEF Start
<1>4. /\ child'[c] = NewChild(kind, listens, throws)
      /\ \A d \in Child : d # c => child'[d] = child[d]
      /\ events' = events /\ \A d \in Child : child[d] \in Children
  BY <1>1 DEF Start, TypeOK
<1>5. \A d \in Child, type \in {"toChild", "toParent"} : t \notin Of(d, type)
  BY <1>2 DEF Of
<1> HIDE DEF t
<1>6. \A d \in Child : ~Has(<<t>>, Of(d, "toChild")) /\ ~Has(<<t>>, Of(d, "toParent"))
  BY <1>5, OneElement
<1>7. child[c] = NewChild("none", TRUE, FALSE)
  BY <1>1 DEF LifeOf, Unborn
<1>8. ASSUME NEW d \in Child
      PROVE  /\ child'[d].sentDown = child[d].sentDown /\ child'[d].sentUp = child[d].sentUp
             /\ child'[d].handled = child[d].handled
             /\ child[d].sentDown \in Nat /\ child[d].sentUp \in Nat
  BY <1>4, <1>7 DEF NewChild, Children
<1> QED BY <1>1, <1>3, <1>4, <1>6, <1>8, OrderOther

LEMMA OrderKill ==
  ASSUME TypeOK, NEW c \in Child, Kill(c), \A d \in Child : SentInOrder(d, tasks)
  PROVE  \A d \in Child : SentInOrder(d, tasks)'
BY PostsAt, PostsKilled, OrderBecomes DEF Kill, TypeOK

LEMMA OrderDisconnect ==
  ASSUME TypeOK, NEW c \in Child, Disconnect(c), \A d \in Child : SentInOrder(d, tasks)
  PROVE  \A d \in Child : SentInOrder(d, tasks)'
BY PostsAt, PostsDisconnected, OrderBecomes DEF Disconnect, TypeOK

LEMMA OrderModuleSends ==
  ASSUME TypeOK, NEW c \in Child, ModuleSends(c), \A d \in Child : SentInOrder(d, tasks)
  PROVE  \A d \in Child : SentInOrder(d, tasks)'
<1>1. tasks \in Seq(Tasks) /\ child[c].sentUp \in Nat
  BY DEF TypeOK, Children
<1>2. Posts(c, Post(c, At(c), 1))
  BY <1>1, PostsAt, PostsPost
<1> QED BY <1>1, <1>2, OrderBecomes DEF ModuleSends

LEMMA OrderModuleListens ==
  ASSUME TypeOK, NEW c \in Child, ModuleListens(c), \A d \in Child : SentInOrder(d, tasks)
  PROVE  \A d \in Child : SentInOrder(d, tasks)'
<1>1. tasks \in Seq(Tasks) /\ tasks' = tasks \o << >> /\ events' = events
  BY DEF TypeOK, ModuleListens
<1>2. ASSUME NEW d \in Child
      PROVE  /\ child'[d].sentDown = child[d].sentDown /\ child'[d].sentUp = child[d].sentUp
             /\ child'[d].handled = child[d].handled
             /\ child[d].sentDown \in Nat /\ child[d].sentUp \in Nat
  BY DEF TypeOK, ModuleListens, Children
<1>3. << >> \in Seq(Tasks) /\ \A S : ~Has(<< >>, S)
  BY NoElement
<1> QED BY <1>1, <1>2, <1>3, OrderOther

(* The message sent is the newest.                                          *)
LEMMA OrderSend ==
  ASSUME TypeOK, NEW c \in Child, Send(c), \A d \in Child : SentInOrder(d, tasks)
  PROVE  \A d \in Child : SentInOrder(d, tasks)'
<1> DEFINE a == child[c].sentDown  t == Task("toChild", c, a + 1, Unsettled)
           D == Of(c, "toChild")
<1>1. /\ tasks \in Seq(Tasks) /\ a \in Nat /\ child[c].sentUp \in Nat
      /\ child[c] \in Children /\ child[c].handled \in Seq(Nat)
      /\ \A d \in Child : child[d].sentDown \in Nat /\ child[d].sentUp \in Nat
  BY DEF TypeOK, Children
<1>2. t \in Tasks /\ t.type = "toChild" /\ t.child = c /\ t.n = a + 1
  BY <1>1 DEF Task, Tasks
<1>3. tasks' = tasks \o <<t>> /\ <<t>> \in Seq(Tasks)
  BY <1>1, <1>2, AppendIsConcat DEF Send
<1>4. /\ child'[c].sentDown = a + 1 /\ child'[c].handled = child[c].handled
      /\ child'[c].sentUp = child[c].sentUp /\ events' = events
      /\ \A d \in Child : d # c => child'[d] = child[d]
  BY <1>1 DEF Send, TypeOK, Children
<1>5. /\ \A x \in D : x.n \in Nat
      /\ \A x \in Of(c, "toParent") : x.n \in Nat
  BY Numbers
<1>6. /\ t \in D
      /\ \A d \in Child : t \notin Of(d, "toParent") /\ (d # c => t \notin Of(d, "toChild"))
  BY <1>2 DEF Of
<1> HIDE DEF t, D
<1>7. ASSUME NEW d \in Child, d # c PROVE SentInOrder(d, tasks)'
  <2>1. ~Has(<<t>>, Of(d, "toChild")) /\ ~Has(<<t>>, Of(d, "toParent"))
    BY <1>6, <1>7, OneElement
  <2> QED BY <1>1, <1>3, <1>4, <1>7, <2>1, OrderOther
<1>8. /\ Rising(<<t>>, D) /\ UpTo(<<t>>, D, a + 1) /\ Above(<<t>>, D, a)
      /\ \A n \in Nat : n <= a => Above(<<t>>, D, n)
  <2>1. DOMAIN <<t>> = {1} /\ <<t>>[1] = t /\ ~(1 < 1) /\ a < a + 1 /\ a + 1 <= a + 1
    BY <1>1
  <2>2. \A n \in Nat : n <= a => n < a + 1
    BY <1>1
  <2> HIDE DEF a
  <2> QED BY <1>2, <2>1, <2>2 DEF Rising, UpTo, Above
<1>9. /\ Rising(tasks, D) /\ UpTo(tasks, D, a)
      /\ \A i, j \in DOMAIN child[c].handled :
           i < j => child[c].handled[i] < child[c].handled[j]
      /\ \A i \in DOMAIN child[c].handled :
           child[c].handled[i] <= a /\ Above(tasks, D, child[c].handled[i])
  BY DEF SentInOrder, DownInOrder, D
<1>10. UpTo(tasks, D, a + 1)
  <2>1. \A i \in DOMAIN tasks : tasks[i] \in D => tasks[i].n \in Nat /\ tasks[i].n <= a
    BY <1>5, <1>9 DEF UpTo
  <2>2. \A x \in Nat : x <= a => x <= a + 1
    BY <1>1
  <2> HIDE DEF a
  <2> QED BY <2>1, <2>2 DEF UpTo
<1>11. \A i \in DOMAIN child[c].handled :
         /\ child[c].handled[i] \in Nat /\ child[c].handled[i] <= a
         /\ Above(tasks, D, child[c].handled[i])
  BY <1>1, <1>9
<1>12. \A x \in Nat : x <= a => x <= a + 1
  BY <1>1
<1> HIDE DEF a
<1>13. Rising(tasks', D) /\ UpTo(tasks', D, a + 1)
  BY <1>1, <1>3, <1>5, <1>8, <1>9, <1>10, RisingConcat
<1>14. \A i \in DOMAIN child[c].handled :
         child[c].handled[i] <= a + 1 /\ Above(tasks', D, child[c].handled[i])
  BY <1>1, <1>3, <1>5, <1>8, <1>11, <1>12, RisingConcat
<1>15. DownInOrder(c, tasks)'
  <2>1. Of(c, "toChild")' = D
    BY DEF D, Of
  <2> QED BY <1>4, <1>9, <1>13, <1>14, <2>1 DEF DownInOrder
<1>16. UpInOrder(c, tasks)'
  <2> DEFINE U == Of(c, "toParent")
  <2>1. ~Has(<<t>>, U)
    BY <1>6, OneElement
  <2> HIDE DEF U
  <2>2. Rising(<<t>>, U) /\ \A n : UpTo(<<t>>, U, n) /\ Above(<<t>>, U, n)
    BY <2>1, NoNumber
  <2>3. /\ \A n : UpTo(tasks, U, n) => UpTo(tasks', U, n)
        /\ \A n : Above(tasks, U, n) => Above(tasks', U, n)
        /\ Rising(tasks, U) /\ UpTo(tasks, U, child[c].sentUp) => Rising(tasks', U)
    BY <1>1, <1>3, <1>5, <2>2, RisingConcat DEF U
  <2>4. Of(c, "toParent")' = U /\ Ev({"message"})' = Ev({"message"})
    BY DEF U, Of, Ev
  <2>5. UpInOrder(c, tasks)
    BY DEF SentInOrder
  <2> QED BY <1>4, <2>3, <2>4, <2>5 DEF UpInOrder, U
<1> QED BY <1>7, <1>15, <1>16 DEF SentInOrder

-----------------------------------------------------------------------------
LEMMA OrderRun ==
  ASSUME LifeInv, tasks # << >>, \A d \in Child : SentInOrder(d, tasks)
  PROVE  /\ TypeOK /\ tasks \in Seq(Tasks) /\ Tail(tasks) \in Seq(Tasks)
         /\ Head(tasks) \in Tasks /\ Head(tasks).child \in Child /\ Head(tasks).n \in Nat
         /\ \A d \in Child : /\ SentInOrder(d, Tail(tasks))
                             /\ child[d] \in Children /\ events[d] \in Seq(Events)
                             /\ child[d].sentDown \in Nat /\ child[d].sentUp \in Nat
<1>1. /\ TypeOK /\ tasks \in Seq(Tasks) /\ Tail(tasks) \in Seq(Tasks)
      /\ Head(tasks) \in Tasks /\ Head(tasks).child \in Child
  BY FirstTask DEF LifeInv
<1>2. Head(tasks).n \in Nat
  BY <1>1 DEF Tasks
<1>3. \A d \in Child : /\ child[d] \in Children /\ events[d] \in Seq(Events)
                       /\ child[d].sentDown \in Nat /\ child[d].sentUp \in Nat
  BY <1>1 DEF TypeOK, Children
<1>4. \A d \in Child : SentInOrder(d, Tail(tasks))
  BY <1>1, OrderPops
<1> QED BY <1>1, <1>2, <1>3, <1>4

LEMMA OrderCommand ==
  ASSUME LifeInv, tasks # << >>, \A d \in Child : SentInOrder(d, tasks),
         RunCommand(Head(tasks).child, Tail(tasks))
  PROVE  \A d \in Child : SentInOrder(d, tasks)'
<1> DEFINE c == Head(tasks).child
<1>1. /\ TypeOK /\ c \in Child /\ Tail(tasks) \in Seq(Tasks)
      /\ \A d \in Child : SentInOrder(d, Tail(tasks))
  BY OrderRun
<1>2. PICK kills \in BOOLEAN, wrote \in BOOLEAN, code \in Code \cup {NoCode} :
        Becomes(c, CommandRuns(c, At(c), kills, wrote, code), Tail(tasks))
  BY DEF RunCommand
<1> HIDE DEF c
<1>3. Posts(c, CommandRuns(c, At(c), kills, wrote, code))
  BY <1>1, PostsAt, PostsCommand
<1> QED BY <1>1, <1>2, <1>3, OrderBecomes

LEMMA OrderModule ==
  ASSUME LifeInv, tasks # << >>, \A d \in Child : SentInOrder(d, tasks),
         RunModule(Head(tasks).child, Tail(tasks))
  PROVE  \A d \in Child : SentInOrder(d, tasks)'
<1> DEFINE c == Head(tasks).child
<1>1. /\ TypeOK /\ c \in Child /\ Tail(tasks) \in Seq(Tasks)
      /\ \A d \in Child : SentInOrder(d, Tail(tasks))
      /\ child[c].sentUp \in Nat
  BY OrderRun
<1>2. PICK kills \in BOOLEAN, handles \in BOOLEAN, throws \in BOOLEAN, n \in 0 .. MaxSend :
        Becomes(c, ModuleRuns(c, At(c), kills, n, handles, throws), Tail(tasks))
  BY DEF RunModule
<1> HIDE DEF c
<1>3. n \in Nat
  BY ChildAssumption
<1>4. Posts(c, ModuleRuns(c, At(c), kills, n, handles, throws))
  BY <1>1, <1>3, PostsAt, PostsModule
<1> QED BY <1>1, <1>2, <1>4, OrderBecomes

LEMMA OrderExit ==
  ASSUME LifeInv, tasks # << >>, \A d \in Child : SentInOrder(d, tasks),
         Head(tasks).type = "exit",
         NEW c, c = Head(tasks).child, NEW o, o = Head(tasks).outcome,
         RunExit(c, o, Tail(tasks))
  PROVE  \A d \in Child : SentInOrder(d, tasks)'
<1> DEFINE rest == Tail(tasks)
           e == Event("exit", 0, o)  t == Task("close", c, 0, o)
           s == [At(c) EXCEPT !.seen = <<e>>, !.queued = <<t>>]
<1>1. /\ TypeOK /\ c \in Child /\ rest \in Seq(Tasks) /\ o \in Outcome
      /\ \A d \in Child : SentInOrder(d, rest)
      /\ At(c) \in States /\ child[c] \in Children /\ events[c] \in Seq(Events)
  BY OrderRun, AtTyped DEF Tasks
<1>2. e \in Events /\ e.type = "exit" /\ t \in Tasks /\ t.type = "close" /\ t.child = c
  BY <1>1 DEF Event, Events, Task, Tasks
<1>3. /\ Append(rest, t) = rest \o <<t>> /\ <<t>> \in Seq(Tasks) /\ <<e>> \in Seq(Events)
      /\ Append(events[c], e) = events[c] \o <<e>>
  <2>1. rest \in Seq(Tasks) /\ t \in Tasks /\ events[c] \in Seq(Events) /\ e \in Events
    BY <1>1, <1>2
  <2> HIDE DEF rest, t, e
  <2>2. Append(rest, t) = rest \o <<t>> /\ <<t>> \in Seq(Tasks)
    BY <2>1, AppendIsConcat
  <2>3. Append(events[c], e) = events[c] \o <<e>> /\ <<e>> \in Seq(Events)
    BY <2>1, AppendIsConcat
  <2> QED BY <2>2, <2>3
<1>4. e \notin Ev({"message"}) /\ t \notin Tasks \ Ends(c)
  BY <1>2 DEF Of, Ev, Ends
<1>5. /\ tasks' = Append(rest, t) /\ events' = [events EXCEPT ![c] = Append(@, e)]
      /\ child' = child /\ table' = table
  BY DEF RunExit
<1> HIDE DEF e, t
<1>6. ~Has(<<t>>, Tasks \ Ends(c)) /\ ~Has(<<e>>, Ev({"message"}))
  BY <1>4, OneElement
<1>7. At(c).r = child[c] /\ At(c).entry = table[c] /\ At(c).queued = << >> /\ At(c).seen = << >>
  BY DEF At
<1>8. s \in States /\ s.r = child[c] /\ s.entry = table[c] /\ s.queued = <<t>> /\ s.seen = <<e>>
  BY <1>1, <1>3, <1>7 DEF States
<1>9. << >> \o <<t>> = <<t>> /\ << >> \o <<e>> = <<e>>
  BY <1>3
<1>10. Becomes(c, s, rest)
  BY <1>1, <1>3, <1>5, <1>8 DEF Becomes, TypeOK
<1> HIDE DEF s
<1>11. Posts(c, s)
  <2> DEFINE b == At(c)
  <2>1. Posts(c, b)
    BY <1>1, PostsAt
  <2>2. /\ s.r.sentDown = b.r.sentDown /\ s.r.handled = b.r.handled /\ s.r.sentUp = b.r.sentUp
        /\ s.queued = b.queued \o <<t>> /\ s.seen = b.seen \o <<e>>
    BY <1>7, <1>8, <1>9
  <2> HIDE DEF b
  <2>3. s \in States /\ <<t>> \in Seq(Tasks) /\ <<e>> \in Seq(Events)
    BY <1>3, <1>8
  <2> QED BY <1>1, <1>6, <2>1, <2>2, <2>3, PostsSame
<1> QED BY <1>1, <1>10, <1>11, OrderBecomes

LEMMA OrderClose ==
  ASSUME LifeInv, tasks # << >>, \A d \in Child : SentInOrder(d, tasks),
         Head(tasks).type = "close",
         NEW c, c = Head(tasks).child, NEW o, o = Head(tasks).outcome,
         RunClose(c, o, Tail(tasks))
  PROVE  \A d \in Child : SentInOrder(d, tasks)'
<1> DEFINE e == Event("close", 0, o)  closed == [At(c) EXCEPT !.seen = <<e>>]
           s == IF child[c].connected THEN Disconnected(closed) ELSE closed
<1>1. /\ TypeOK /\ c \in Child /\ Tail(tasks) \in Seq(Tasks) /\ o \in Outcome
      /\ \A d \in Child : SentInOrder(d, Tail(tasks))
  BY OrderRun DEF Tasks
<1>2. e \in Events /\ e.type = "close"
  BY <1>1 DEF Event, Events
<1>3. Becomes(c, s, Tail(tasks))
  BY DEF RunClose
<1>4. <<e>> \in Seq(Events) /\ e \notin Ev({"message"})
  BY <1>2 DEF Ev
<1> HIDE DEF e
<1>5. ~Has(<<e>>, Ev({"message"}))
  BY <1>4, OneElement
<1>6. Posts(c, closed)
  BY <1>1, <1>4, <1>5, PostsAt
<1> HIDE DEF closed
<1>7. Posts(c, s)
  BY <1>1, <1>6, PostsDisconnected
<1> QED BY <1>1, <1>3, <1>7, OrderBecomes

LEMMA AppendParts ==
  ASSUME NEW T, NEW q \in Seq(T), NEW e \in T
  PROVE  /\ Len(q) \in Nat /\ DOMAIN q = 1 .. Len(q)
         /\ DOMAIN Append(q, e) = 1 .. (Len(q) + 1)
         /\ Append(q, e)[Len(q) + 1] = e
         /\ \A i \in 1 .. Len(q) : Append(q, e)[i] = q[i]
<1>1. Len(q) \in Nat /\ DOMAIN q = 1 .. Len(q)
  BY LenProperties
<1>2. /\ Append(q, e) \in Seq(T) /\ Len(Append(q, e)) = Len(q) + 1
      /\ Append(q, e)[Len(q) + 1] = e
      /\ \A i \in 1 .. Len(q) : Append(q, e)[i] = q[i]
  BY AppendProperties
<1>3. DOMAIN Append(q, e) = 1 .. (Len(q) + 1)
  BY <1>2, LenProperties
<1> QED BY <1>1, <1>2, <1>3

(* A message leaves the queue: it is older than those that stay in it, and  *)
(* newer than those that were handed over.                                  *)
LEMMA OrderToChild ==
  ASSUME LifeInv, tasks # << >>, \A d \in Child : SentInOrder(d, tasks),
         Head(tasks).type = "toChild",
         NEW c, c = Head(tasks).child, NEW k, k = Head(tasks).n,
         RunToChild(c, k, Tail(tasks))
  PROVE  \A d \in Child : SentInOrder(d, tasks)'
<1> DEFINE D == Of(c, "toChild")  h == child[c].handled  rest == Tail(tasks)
<1>1. /\ TypeOK /\ tasks \in Seq(Tasks) /\ rest \in Seq(Tasks) /\ c \in Child /\ k \in Nat
      /\ Head(tasks) \in D
      /\ \A d \in Child : /\ SentInOrder(d, rest)
                          /\ child[d] \in Children
                          /\ child[d].sentDown \in Nat /\ child[d].sentUp \in Nat
  BY OrderRun DEF Of
<1>2. /\ tasks' = rest \o << >> /\ tasks' = rest /\ events' = events
      /\ << >> \in Seq(Tasks) /\ \A S : ~Has(<< >>, S)
  BY <1>1, NoElement DEF RunToChild
<1>3. CASE child' = child
  BY <1>1, <1>2, <1>3, OrderOther
<1>4. CASE child' = [child EXCEPT ![c].handled = Append(@, k)]
  <2>1. /\ \A d \in Child : d # c => child'[d] = child[d]
        /\ child'[c].handled = Append(h, k) /\ child'[c].sentDown = child[c].sentDown
        /\ child'[c].sentUp = child[c].sentUp /\ h \in Seq(Nat)
    BY <1>1, <1>4 DEF TypeOK, Children
  <2>2. ASSUME NEW d \in Child, d # c PROVE SentInOrder(d, tasks)'
    <3>1. child'[d] = child[d] /\ events'[d] = events[d] /\ SentInOrder(d, rest)
      BY <1>1, <1>2, <2>1, <2>2
    <3>2. child[d].sentDown \in Nat /\ child[d].sentUp \in Nat
      BY <1>1
    <3> HIDE DEF rest
    <3> QED BY <1>1, <1>2, <3>1, <3>2, OrderOther
  <2>3. /\ Rising(tasks, D) /\ UpTo(tasks, D, child[c].sentDown)
        /\ \A i, j \in DOMAIN h : i < j => h[i] < h[j]
        /\ \A i \in DOMAIN h : h[i] <= child[c].sentDown /\ Above(tasks, D, h[i])
        /\ UpInOrder(c, rest) /\ DownInOrder(c, rest)
    BY <1>1 DEF SentInOrder, DownInOrder
  <2>4. k <= child[c].sentDown /\ Above(rest, D, k) /\ \A i \in DOMAIN h : h[i] < k
    <3> HIDE DEF h, D
    <3> QED BY <1>1, <2>3, RisingTail
  <2>5. /\ Len(h) \in Nat /\ DOMAIN h = 1 .. Len(h)
        /\ DOMAIN Append(h, k) = 1 .. (Len(h) + 1)
        /\ Append(h, k)[Len(h) + 1] = k
        /\ \A i \in 1 .. Len(h) : Append(h, k)[i] = h[i]
    <3>1. h \in Seq(Nat) /\ k \in Nat
      BY <1>1, <2>1
    <3> HIDE DEF h
    <3> QED BY <3>1, AppendParts
  <2> DEFINE l == Len(h)  g == Append(h, k)
  <2> HIDE DEF l, g, h, rest, D
  <2>6. \A i \in 1 .. (l + 1) : (i \in 1 .. l /\ g[i] = h[i]) \/ (i = l + 1 /\ g[i] = k)
    BY <2>5 DEF l, g
  <2>7. \A i, j \in 1 .. (l + 1) : i < j => g[i] < g[j]
    <3> SUFFICES ASSUME NEW i \in 1 .. (l + 1), NEW j \in 1 .. (l + 1), i < j
                 PROVE  g[i] < g[j]
      OBVIOUS
    <3>1. i \in 1 .. l
      BY <2>5 DEF l
    <3>2. g[i] = h[i] /\ h[i] < k
      BY <2>4, <2>5, <3>1 DEF l, g
    <3>3. CASE j \in 1 .. l /\ g[j] = h[j]
      BY <2>3, <2>5, <3>1, <3>2, <3>3 DEF l
    <3> QED BY <2>6, <3>2, <3>3
  <2>8. /\ \A i \in DOMAIN g : g[i] <= child[c].sentDown /\ Above(rest, D, g[i])
        /\ \A i, j \in DOMAIN g : i < j => g[i] < g[j]
    <3>1. DOMAIN g = 1 .. (l + 1)
      BY <2>5 DEF l, g
    <3>2. \A i \in DOMAIN h : h[i] <= child[c].sentDown /\ Above(rest, D, h[i])
      BY <2>3 DEF DownInOrder, h, D
    <3>3. 1 .. l = DOMAIN h
      BY <2>5 DEF l
    <3> QED BY <2>4, <2>6, <2>7, <3>1, <3>2, <3>3
  <2>9. Of(c, "toChild")' = D /\ Of(c, "toParent")' = Of(c, "toParent")
        /\ Ev({"message"})' = Ev({"message"})
    BY DEF D, Of, Ev
  <2>10. DownInOrder(c, tasks)'
    BY <1>2, <2>1, <2>3, <2>8, <2>9 DEF DownInOrder, D, g
  <2>11. UpInOrder(c, tasks)'
    BY <1>2, <2>1, <2>3, <2>9 DEF UpInOrder
  <2> QED BY <2>2, <2>10, <2>11 DEF SentInOrder
<1> QED BY <1>3, <1>4 DEF RunToChild

LEMMA OrderToParent ==
  ASSUME LifeInv, tasks # << >>, \A d \in Child : SentInOrder(d, tasks),
         Head(tasks).type = "toParent",
         NEW c, c = Head(tasks).child, NEW k, k = Head(tasks).n,
         RunToParent(c, k, Tail(tasks))
  PROVE  \A d \in Child : SentInOrder(d, tasks)'
<1> DEFINE U == Of(c, "toParent")  M == Ev({"message"})  rest == Tail(tasks)
           e == Event("message", k, Unsettled)  p == events[c]  a == child[c].sentUp
<1>1. /\ TypeOK /\ tasks \in Seq(Tasks) /\ rest \in Seq(Tasks) /\ c \in Child /\ k \in Nat
      /\ Head(tasks) \in U /\ p \in Seq(Events) /\ a \in Nat
      /\ \A d \in Child : /\ SentInOrder(d, rest)
                          /\ child[d].sentDown \in Nat /\ child[d].sentUp \in Nat
  BY OrderRun DEF Of
<1>2. e \in Events /\ e \in M /\ e.n = k
  BY <1>1, Values DEF Event, Events, Ev
<1>3. /\ tasks' = rest \o << >> /\ tasks' = rest /\ child' = child
      /\ << >> \in Seq(Tasks) /\ \A S : ~Has(<< >>, S)
      /\ <<e>> \in Seq(Events) /\ events'[c] = p \o <<e>>
      /\ \A d \in Child : d # c => events'[d] = events[d]
  BY <1>1, <1>2, AppendIsConcat, NoElement DEF RunToParent, TypeOK
<1>4. ASSUME NEW d \in Child, d # c PROVE SentInOrder(d, tasks)'
  BY <1>1, <1>3, <1>4, OrderOther
<1>5. /\ Rising(tasks, U) /\ UpTo(tasks, U, a) /\ Rising(p, M) /\ UpTo(p, M, a)
      /\ \A i \in DOMAIN p : p[i] \in M => Above(tasks, U, p[i].n)
      /\ UpInOrder(c, rest) /\ DownInOrder(c, rest)
  BY <1>1 DEF SentInOrder, UpInOrder
<1>6. k <= a /\ Above(rest, U, k) /\ \A i \in DOMAIN p : p[i] \in M => p[i].n < k
  BY <1>1, <1>5, RisingTail
<1>7. /\ \A x \in M : x.n \in Nat
      /\ Rising(<<e>>, M) /\ UpTo(<<e>>, M, a)
      /\ \A i \in DOMAIN <<e>> : <<e>>[i] = e
  BY <1>2, <1>6, Numbers DEF Rising, UpTo
<1> HIDE DEF U, M, rest, e, p, a
(* Below k: the number before it, if there is one.                          *)
<1>8. Rising(p \o <<e>>, M) /\ UpTo(p \o <<e>>, M, a)
  <2>1. UpTo(p \o <<e>>, M, a)
    BY <1>1, <1>3, <1>5, <1>7, RisingConcat
  <2>2. CASE k = 0
    <3>1. ~Has(p, M)
      BY <1>6, <1>7, <2>2 DEF Has
    <3>2. UpTo(p, M, 0) /\ Rising(p \o <<e>>, M)
      <4>1. \A i \in DOMAIN (p \o <<e>>) : (p \o <<e>>)[i] \in M => i = Len(p) + 1
        <5>1. /\ DOMAIN p = 1 .. Len(p) /\ Len(p) \in Nat
              /\ DOMAIN (p \o <<e>>) = 1 .. (Len(p) + 1)
              /\ \A i \in 1 .. Len(p) : (p \o <<e>>)[i] = p[i]
          BY <1>1, <1>3, ConcatParts
        <5> QED BY <3>1, <5>1 DEF Has
      <4> QED BY <1>1, <3>1, <4>1, LenProperties DEF Rising, UpTo, Has
    <3> QED BY <2>1, <3>2
  <2>3. CASE k # 0
    <3>1. k - 1 \in Nat /\ k - 1 < k
      BY <1>1, <2>3
    <3>2. UpTo(p, M, k - 1) /\ Above(<<e>>, M, k - 1)
      <4>1. \A x \in Nat : x < k => x <= k - 1
        BY <1>1
      <4> QED BY <1>2, <1>6, <1>7, <3>1, <4>1 DEF UpTo, Above
    <3>3. Rising(p \o <<e>>, M)
      BY <1>1, <1>3, <1>5, <1>7, <3>1, <3>2, RisingConcat
    <3> QED BY <2>1, <3>3
  <2> QED BY <2>2, <2>3
<1>9. ASSUME NEW i \in DOMAIN (p \o <<e>>), (p \o <<e>>)[i] \in M
      PROVE  Above(rest, U, (p \o <<e>>)[i].n)
  <2>1. \A j \in DOMAIN p : p[j] \in M => Above(rest, U, p[j].n)
    BY <1>5 DEF UpInOrder, U, M, p
  <2>2. Holds(p, (p \o <<e>>)[i]) \/ Holds(<<e>>, (p \o <<e>>)[i])
    BY <1>1, <1>3, FromParts DEF Holds
  <2>3. (p \o <<e>>)[i] = e \/ \E j \in DOMAIN p : (p \o <<e>>)[i] = p[j]
    BY <1>7, <2>2 DEF Holds
  <2> QED BY <1>2, <1>6, <1>9, <2>1, <2>3
<1>10. Of(c, "toChild")' = Of(c, "toChild") /\ Of(c, "toParent")' = U /\ Ev({"message"})' = M
  BY DEF U, M, Of, Ev
<1>11. DownInOrder(c, tasks)'
  BY <1>3, <1>5, <1>10 DEF DownInOrder
<1>12. UpInOrder(c, tasks)'
  <2>1. Rising(rest, U) /\ UpTo(rest, U, a)
    BY <1>5 DEF UpInOrder, U, a
  <2> QED BY <1>3, <1>8, <1>9, <1>10, <2>1 DEF UpInOrder, a
<1> QED BY <1>4, <1>11, <1>12 DEF SentInOrder

-----------------------------------------------------------------------------
LEMMA OrderInit == Init => OrderInv
<1> SUFFICES ASSUME Init, NEW c \in Child PROVE DownInOrder(c, tasks) /\ UpInOrder(c, tasks)
  BY DEF OrderInv
<1>1. /\ tasks = << >> /\ events[c] = << >> /\ child[c].handled = << >>
  BY DEF Init, NewChild
<1>2. \A S : ~Has(<< >>, S)
  BY NoElement
<1>3. \A S : Rising(<< >>, S) /\ \A n : UpTo(<< >>, S, n)
  BY <1>2, NoNumber
<1>4. DOMAIN << >> = {}
  OBVIOUS
<1>5. DownInOrder(c, tasks)
  BY <1>1, <1>3, <1>4 DEF DownInOrder
<1> QED BY <1>1, <1>3, <1>4, <1>5 DEF UpInOrder

LEMMA OrderNext == LifeInv /\ OrderInv /\ [Next]_vars => OrderInv'
<1> SUFFICES ASSUME LifeInv, OrderInv, [Next]_vars PROVE OrderInv'
  OBVIOUS
<1>0. TypeOK /\ \A d \in Child : SentInOrder(d, tasks)
  BY DEF LifeInv, OrderInv, SentInOrder
<1> SUFFICES \A d \in Child : SentInOrder(d, tasks)'
  BY DEF OrderInv, SentInOrder
<1>1. ASSUME UNCHANGED <<tasks, child, events>>
      PROVE  \A d \in Child : SentInOrder(d, tasks)'
  BY <1>0, <1>1 DEF SentInOrder, DownInOrder, UpInOrder, Of, Ev
<1>2. CASE UNCHANGED vars
  BY <1>1, <1>2 DEF vars
<1>3. CASE CallerNext
  <2>1. ASSUME NEW c \in Child, NEW w \in Waiter, WaitForChild(w, c)
        PROVE  \A d \in Child : SentInOrder(d, tasks)'
    BY <1>1, <2>1 DEF WaitForChild
  <2> QED BY <1>0, <1>3, <2>1, OrderStart, OrderKill, OrderDisconnect, OrderSend,
             OrderModuleSends, OrderModuleListens DEF CallerNext
<1>4. CASE RunTask
  BY <1>0, <1>4, OrderCommand, OrderModule, OrderExit, OrderClose, OrderToChild,
     OrderToParent DEF RunTask
<1> QED BY <1>2, <1>3, <1>4 DEF Next

(* Each side gets the messages of the other in order and at most once,      *)
(* whoever ended or disconnected meanwhile (lines 280 and 292): for any     *)
(* number of children and of messages.                                      *)
THEOREM MessagesComeInOrder == Spec => []MessagesInOrder
<1>1. LifeInv /\ OrderInv => MessagesInOrder
  <2> SUFFICES ASSUME LifeInv, OrderInv, NEW c \in Child
               PROVE  /\ \A i, j \in Seen(c, "message") :
                           i < j => events[c][i].n < events[c][j].n
                      /\ \A i, j \in DOMAIN child[c].handled :
                           i < j => child[c].handled[i] < child[c].handled[j]
    BY DEF MessagesInOrder
  <2>1. DownInOrder(c, tasks) /\ UpInOrder(c, tasks) /\ TypeOK
    BY DEF OrderInv, LifeInv
  <2>2. \A i : i \in Seen(c, "message") <=>
                i \in DOMAIN events[c] /\ events[c][i] \in Ev({"message"})
    BY <2>1, SeenIs
  <2> QED BY <2>1, <2>2 DEF DownInOrder, UpInOrder, Rising
<1>2. Spec => []OrderInv
  <2>1. Init /\ []LifeInv /\ [][Next]_vars => []OrderInv
    BY OrderInit, OrderNext, PTL
  <2> QED BY <2>1, Lives, PTL DEF Spec
<1> QED BY <1>1, <1>2, Lives, PTL

-----------------------------------------------------------------------------
(* Pipes: StreamPipe. The invariant, of a state as its operators pass it on.*)

Sources == [buffer : Seq(Chunk), flowing : {"initial", "flowing", "paused"},
            ended : BOOLEAN, endEmitted : BOOLEAN, destroyed : BOOLEAN,
            pipes : SUBSET Dest, pushed : 0 .. MaxChunk]
Sinks == [length : Nat, writing : Chunk \cup {NoChunk}, finalizing : BOOLEAN,
          buffer : Seq(Chunk), ended : BOOLEAN, finished : BOOLEAN,
          destroyed : BOOLEAN, corked : BOOLEAN, finalCalled : BOOLEAN,
          needDrain : BOOLEAN, taken : Seq(Chunk), piped : 0 .. MaxPipes,
          failed : BOOLEAN, cut : BOOLEAN]
Micros == [type : {"flow", "error"}] \cup [type : {"close"}, dest : Dest]
PipeStates == [s : Sources, w : [Dest -> Sinks], queue : Seq(Micros),
           missed : [Dest -> SUBSET Chunk]]

(* The source holds the last chunks that were pushed, in order.             *)
Emitted(s) == s.pushed - Len(s.buffer)
SourceOK(s) ==
  /\ Len(s.buffer) <= s.pushed
  /\ \A i \in DOMAIN s.buffer : s.buffer[i] = Emitted(s) + i
  /\ s.endEmitted => s.ended /\ s.buffer = << >>

(* The bytes of the chunk that is being written and of those that wait for  *)
(* it; rest[i] is those of the chunks from the i-th on.                     *)
InHand(w) == IF w.writing = NoChunk THEN 0 ELSE Bytes[w.writing]
Adds(rest, q) ==
  /\ rest \in [1 .. Len(q) + 1 -> Nat] /\ rest[Len(q) + 1] = 0
  /\ \A i \in DOMAIN q : rest[i] = Bytes[q[i]] + rest[i + 1]
Weighs(w, n) == \E rest : Adds(rest, w.buffer) /\ n = rest[1] + InHand(w)

(* _final comes last; no chunk waits that could be given to _write.         *)
Firm(w) ==
  /\ w.finalizing => w.writing = NoChunk /\ w.buffer = << >> /\ w.ended
  /\ w.finished => w.buffer = << >> /\ ~Busy(w) /\ w.ended
  /\ \E n \in Nat : Weighs(w, n) /\ n <= w.length
SinkOK(w) == Firm(w) /\ (w.failed \/ Busy(w) \/ w.corked \/ w.buffer = << >>)

(* What a write, its answer and a finish leave alone.                       *)
SameCalls(v, w) ==
  /\ v.destroyed = w.destroyed /\ v.piped = w.piped /\ v.failed = w.failed
  /\ v.cut = w.cut /\ v.ended = w.ended
SameHeld(v, w) ==
  /\ v.length = w.length /\ v.needDrain = w.needDrain
  /\ Accepted(v) = Accepted(w)
  /\ \A n \in Nat : Weighs(w, n) => Weighs(v, n)

(* What was accepted and what was missed is what was emitted.               *)
Exact(a, m, miss) ==
  LET given == {a[i] : i \in DOMAIN a}
  IN /\ \A i, j \in DOMAIN a : i < j => a[i] < a[j]
     /\ given \cup miss = 1 .. m
     /\ given \cap miss = {}
OrderOK(t, d) ==
  ~t.w[d].failed => Exact(Accepted(t.w[d]), Emitted(t.s), t.missed[d])
EndOK(t, d) == t.w[d].ended /\ ~t.w[d].cut => t.s.endEmitted

(* One destination, chunks as long in bytes as in UTF-16 units, and a       *)
(* high-water mark above zero.                                              *)
Alone == HighWaterMark > 0 /\ Bytes = Units /\ \E d : Dest = {d}

Room(p) == HighWaterMark - 1 + MaxBytes * p

(* How much it holds; whether it asks for a 'drain'; whether the source is  *)
(* paused for that reason; and what there is room for while it is not.      *)
Held(t, d) ==
  LET w == t.w[d]
  IN /\ Weighs(w, w.length)
     /\ w.length >= HighWaterMark => w.needDrain
     /\ d \in t.s.pipes => w.piped >= 1
     /\ w.length <= Room(w.piped)
Asks(t, d) ==
  t.w[d].needDrain => t.w[d].failed \/ t.w[d].length >= HighWaterMark
Pauses(t, d) ==
  d \in t.s.pipes /\ t.s.flowing = "paused" => Refuses(t.w[d]) \/ t.w[d].needDrain
Fits(t, d) == d \in t.s.pipes => t.w[d].length <= Room(t.w[d].piped - 1)
Draining(t, d) ==
  /\ Held(t, d) /\ Asks(t, d) /\ Pauses(t, d)
  /\ t.s.flowing = "flowing" => Fits(t, d)

Sound(t) ==
  /\ t \in PipeStates /\ SourceOK(t.s)
  /\ \A d \in Dest : SinkOK(t.w[d]) /\ OrderOK(t, d) /\ EndOK(t, d)
PipeOK(t) == Sound(t) /\ (Alone => \A d \in Dest : Draining(t, d))

PipeIInv == PipeOK(State)

-----------------------------------------------------------------------------
(* The lengths of what waits.                                               *)

LEMMA NothingWeighs ==
  \E rest : Adds(rest, << >>) /\ rest[1] = 0
<1> DEFINE r == [i \in 1 .. 1 |-> 0]
<1>1. Adds(r, << >>) /\ r[1] = 0
  BY DEF Adds
<1> QED BY <1>1

LEMMA MoreWeighs ==
  ASSUME NEW q \in Seq(Chunk), NEW c \in Chunk, NEW rest, Adds(rest, q)
  PROVE  \E more : Adds(more, Append(q, c)) /\ more[1] = rest[1] + Bytes[c]
<1> DEFINE n == Len(q)
           more == [i \in 1 .. n + 2 |-> IF i = n + 2 THEN 0 ELSE rest[i] + Bytes[c]]
<1>1. n \in Nat /\ Len(Append(q, c)) = n + 1 /\ Bytes[c] \in Nat
  BY PipeAssumption
<1>2. rest \in [1 .. n + 1 -> Nat] /\ rest[n + 1] = 0
  BY DEF Adds
<1>3. more \in [1 .. Len(Append(q, c)) + 1 -> Nat]
  BY <1>1, <1>2
<1>4. more[Len(Append(q, c)) + 1] = 0 /\ more[1] = rest[1] + Bytes[c]
  BY <1>1, <1>2
<1>5. ASSUME NEW i \in DOMAIN Append(q, c)
      PROVE  more[i] = Bytes[Append(q, c)[i]] + more[i + 1]
  <2>1. i \in 1 .. n + 1
    BY <1>1
  <2>2. CASE i = n + 1
    <3>1. Append(q, c)[i] = c /\ more[i] = rest[n + 1] + Bytes[c] /\ more[i + 1] = 0
      BY <1>1, <2>2
    <3> QED BY <1>1, <1>2, <3>1
  <2>3. CASE i \in 1 .. n
    <3>1. /\ Append(q, c)[i] = q[i] /\ more[i] = rest[i] + Bytes[c]
          /\ more[i + 1] = rest[i + 1] + Bytes[c]
      BY <1>1, <2>3
    <3>2. rest[i] = Bytes[q[i]] + rest[i + 1] /\ q[i] \in Chunk
      BY <1>1, <2>3 DEF Adds
    <3> HIDE DEF more
    <3>3. Bytes[q[i]] \in Nat
      BY <3>2, PipeAssumption
    <3>4. i + 1 \in 1 .. n + 1
      BY <1>1, <2>3
    <3>5. rest[i + 1] \in Nat
      BY <1>2, <3>4
    <3>6. \A x, y, z \in Nat : (x + y) + z = x + (y + z)
      OBVIOUS
    <3> QED BY <1>1, <3>1, <3>2, <3>3, <3>5, <3>6
  <2> QED BY <1>1, <2>1, <2>2, <2>3
<1> HIDE DEF more
<1>6. Adds(more, Append(q, c))
  BY <1>3, <1>4, <1>5 DEF Adds
<1> QED BY <1>4, <1>6

LEMMA LessWeighs ==
  ASSUME NEW q \in Seq(Chunk), q # << >>, NEW rest, Adds(rest, q)
  PROVE  /\ Head(q) \in Chunk /\ Tail(q) \in Seq(Chunk)
         /\ \E less : Adds(less, Tail(q)) /\ rest[1] = less[1] + Bytes[Head(q)]
<1> DEFINE n == Len(q)
           less == [i \in 1 .. n |-> rest[i + 1]]
<1>1. n \in Nat /\ n > 0 /\ Len(Tail(q)) = n - 1 /\ Head(q) = q[1]
      /\ Head(q) \in Chunk /\ Tail(q) \in Seq(Chunk)
  OBVIOUS
<1>2. rest \in [1 .. n + 1 -> Nat] /\ rest[n + 1] = 0
  BY DEF Adds
<1>3. less \in [1 .. Len(Tail(q)) + 1 -> Nat] /\ less[Len(Tail(q)) + 1] = 0
  BY <1>1, <1>2
<1>4. ASSUME NEW i \in DOMAIN Tail(q)
      PROVE  less[i] = Bytes[Tail(q)[i]] + less[i + 1]
  <2>1. i \in 1 .. n - 1 /\ Tail(q)[i] = q[i + 1]
    BY <1>1
  <2>2. less[i] = rest[i + 1] /\ less[i + 1] = rest[(i + 1) + 1] /\ i + 1 \in DOMAIN q
    BY <1>1, <2>1
  <2> QED BY <2>1, <2>2 DEF Adds
<1>5. rest[1] = less[1] + Bytes[Head(q)]
  <2>1. rest[1] = Bytes[q[1]] + rest[1 + 1] /\ less[1] = rest[2]
    BY <1>1 DEF Adds
  <2>2. rest[2] \in Nat
    BY <1>1, <1>2
  <2>3. Bytes[Head(q)] \in Nat
    BY <1>1, PipeAssumption
  <2> HIDE DEF less
  <2> QED BY <1>1, <2>1, <2>2, <2>3
<1> HIDE DEF less
<1>6. Adds(less, Tail(q))
  BY <1>3, <1>4 DEF Adds
<1> QED BY <1>1, <1>5, <1>6

(* What weighs nothing is empty, when no chunk is in hand.                  *)
LEMMA SomethingWaits ==
  ASSUME NEW w \in Sinks, NEW n \in Nat, n > 0, Weighs(w, n)
  PROVE  Busy(w) \/ w.buffer # << >>
<1> SUFFICES ASSUME w.writing = NoChunk, w.buffer = << >> PROVE FALSE
  BY DEF Busy
<1>1. PICK rest : Adds(rest, << >>) /\ n = rest[1] + InHand(w)
  BY DEF Weighs
<1>2. rest[0 + 1] = 0
  BY <1>1 DEF Adds
<1> QED BY <1>1, <1>2 DEF InHand

-----------------------------------------------------------------------------
(* One destination: the operators of the Writable.                          *)

LEMMA SinkFields ==
  ASSUME NEW q \in Sinks
  PROVE  /\ \A x \in Nat : [q EXCEPT !.length = x] \in Sinks
         /\ \A x \in Chunk \cup {NoChunk} : [q EXCEPT !.writing = x] \in Sinks
         /\ \A x \in Seq(Chunk) : /\ [q EXCEPT !.buffer = x] \in Sinks
                                  /\ [q EXCEPT !.taken = x] \in Sinks
         /\ \A x \in BOOLEAN : /\ [q EXCEPT !.needDrain = x] \in Sinks
                               /\ [q EXCEPT !.corked = x] \in Sinks
                               /\ [q EXCEPT !.finalizing = x] \in Sinks
                               /\ [q EXCEPT !.finished = x] \in Sinks
         /\ \A x \in BOOLEAN : /\ [q EXCEPT !.finalCalled = x] \in Sinks
                               /\ [q EXCEPT !.failed = x] \in Sinks
                               /\ [q EXCEPT !.ended = x] \in Sinks
                               /\ [q EXCEPT !.destroyed = x] \in Sinks
                               /\ [q EXCEPT !.cut = x] \in Sinks
         /\ \A x \in 0 .. MaxPipes : [q EXCEPT !.piped = x] \in Sinks
<1>1. \A x \in Nat : [q EXCEPT !.length = x] \in Sinks
  BY DEF Sinks
<1>2. \A x \in Chunk \cup {NoChunk} : [q EXCEPT !.writing = x] \in Sinks
  BY DEF Sinks
<1>3. \A x \in Seq(Chunk) : /\ [q EXCEPT !.buffer = x] \in Sinks
                            /\ [q EXCEPT !.taken = x] \in Sinks
  BY DEF Sinks
<1>4. \A x \in BOOLEAN : /\ [q EXCEPT !.needDrain = x] \in Sinks
                         /\ [q EXCEPT !.corked = x] \in Sinks
                         /\ [q EXCEPT !.finalizing = x] \in Sinks
                         /\ [q EXCEPT !.finished = x] \in Sinks
  BY DEF Sinks
<1>5. \A x \in BOOLEAN : /\ [q EXCEPT !.finalCalled = x] \in Sinks
                         /\ [q EXCEPT !.failed = x] \in Sinks
                         /\ [q EXCEPT !.ended = x] \in Sinks
                         /\ [q EXCEPT !.destroyed = x] \in Sinks
                         /\ [q EXCEPT !.cut = x] \in Sinks
  BY DEF Sinks
<1>6. \A x \in 0 .. MaxPipes : [q EXCEPT !.piped = x] \in Sinks
  BY DEF Sinks
<1> QED BY <1>1, <1>2, <1>3, <1>4, <1>5, <1>6

LEMMA SinkTypes ==
  ASSUME NEW w \in Sinks
  PROVE  /\ w.length \in Nat /\ w.writing \in Chunk \cup {NoChunk}
         /\ w.buffer \in Seq(Chunk) /\ w.taken \in Seq(Chunk)
         /\ w.needDrain \in BOOLEAN /\ w.finalizing \in BOOLEAN
         /\ w.ended \in BOOLEAN /\ w.finished \in BOOLEAN
         /\ w.corked \in BOOLEAN /\ w.failed \in BOOLEAN
         /\ w.destroyed \in BOOLEAN /\ w.cut \in BOOLEAN
         /\ w.piped \in 0 .. MaxPipes /\ Accepted(w) \in Seq(Chunk)
  BY DEF Sinks, Accepted

(* Appending to what waits, and taking its first chunk, as _write does.     *)
LEMMA Moved ==
  ASSUME NEW p \in Seq(Chunk), NEW q \in Seq(Chunk), NEW c \in Chunk
  PROVE  /\ Append(p, c) \in Seq(Chunk) /\ p \o Append(q, c) = Append(p \o q, c)
         /\ p \o << >> = p
         /\ q # << >> => Append(p, Head(q)) \o Tail(q) = p \o q
<1>1. p \o Append(q, c) = Append(p \o q, c)
  <2>1. <<c>> \in Seq(Chunk) /\ p \o q \in Seq(Chunk)
    OBVIOUS
  <2>2. Append(q, c) = q \o <<c>> /\ Append(p \o q, c) = (p \o q) \o <<c>>
    BY <2>1, AppendIsConcat
  <2> QED BY <2>1, <2>2, ConcatAssociative
<1>2. ASSUME q # << >> PROVE Append(p, Head(q)) \o Tail(q) = p \o q
  <2>1. Head(q) \in Chunk /\ Tail(q) \in Seq(Chunk) /\ <<Head(q)>> \in Seq(Chunk)
    BY <1>2
  <2>2. Append(p, Head(q)) = p \o <<Head(q)>>
    BY <2>1, AppendIsConcat
  <2>3. <<Head(q)>> \o Tail(q) = q
    BY <1>2, <2>1
  <2> QED BY <2>1, <2>2, <2>3, ConcatAssociative
<1>3. p \o << >> = p
  BY ConcatEmptySeq
<1>4. Append(p, c) \in Seq(Chunk)
  OBVIOUS
<1> QED BY <1>1, <1>2, <1>3, <1>4

(* write()                                                                  *)
LEMMA WrittenIsOK ==
  ASSUME NEW w \in Sinks, SinkOK(w), NEW c \in Chunk, ~Refuses(w)
  PROVE  LET v == Written(w, c)
         IN /\ v \in Sinks /\ SinkOK(v) /\ SameCalls(v, w)
            /\ v.length = w.length + Bytes[c]
            /\ v.needDrain = (w.needDrain \/ v.length >= HighWaterMark)
            /\ ~w.failed => Accepted(v) = Append(Accepted(w), c)
            /\ \A n \in Nat : Weighs(w, n) => Weighs(v, n + Bytes[c])
<1> DEFINE length == w.length + Bytes[c]
           drain == w.needDrain \/ length >= HighWaterMark
           counted == [w EXCEPT !.length = length,
                                !.needDrain = @ \/ length >= HighWaterMark]
           queued == [counted EXCEPT !.buffer = Append(@, c)]
           given == Give(counted, c)
<1>1. /\ w.length \in Nat /\ w.buffer \in Seq(Chunk) /\ w.taken \in Seq(Chunk)
      /\ w.needDrain \in BOOLEAN /\ Bytes[c] \in Nat /\ length \in Nat
      /\ drain \in BOOLEAN /\ HighWaterMark \in Nat
  BY SinkTypes, PipeAssumption
<1>2. counted \in Sinks
  <2>1. [w EXCEPT !.length = length] \in Sinks
    BY <1>1, SinkFields
  <2>2. [[w EXCEPT !.length = length] EXCEPT !.needDrain = drain] \in Sinks
    BY <1>1, <2>1, SinkFields
  <2>3. counted = [[w EXCEPT !.length = length] EXCEPT !.needDrain = drain]
    BY DEF Sinks
  <2> QED BY <2>2, <2>3
<1>3. /\ counted.length = length /\ counted.needDrain = drain
      /\ counted.buffer = w.buffer /\ counted.taken = w.taken
      /\ counted.writing = w.writing /\ SameCalls(counted, w)
      /\ counted.finalizing = w.finalizing /\ counted.finished = w.finished
      /\ counted.corked = w.corked
  BY DEF Sinks, SameCalls
<1>4. /\ ~w.ended /\ ~w.destroyed /\ ~w.finalizing /\ ~w.finished
      /\ \E n \in Nat : Weighs(w, n) /\ n <= w.length
      /\ w.failed \/ Busy(w) \/ w.corked \/ w.buffer = << >>
  BY DEF Refuses, SinkOK, Firm
<1> HIDE DEF counted
<1>5. CASE w.corked \/ Busy(w)
  <2>1. Written(w, c) = queued
    BY <1>4, <1>5 DEF Written, Refuses, counted
  <2>2. queued \in Sinks
    <3>1. Append(w.buffer, c) \in Seq(Chunk)
      BY <1>1, Moved
    <3>2. [counted EXCEPT !.buffer = Append(w.buffer, c)] \in Sinks
      BY <1>2, <3>1, SinkFields
    <3> QED BY <1>3, <3>2
  <2>3. /\ queued.length = length /\ queued.needDrain = drain
        /\ queued.buffer = Append(w.buffer, c) /\ queued.taken = w.taken
        /\ queued.writing = w.writing /\ SameCalls(queued, w)
        /\ ~queued.finalizing /\ ~queued.finished /\ queued.corked = w.corked
    BY <1>2, <1>3, <1>4 DEF Sinks, SameCalls
  <2> HIDE DEF queued
  <2>4. Accepted(queued) = Append(Accepted(w), c)
    <3>1. w.taken \o Append(w.buffer, c) = Append(w.taken \o w.buffer, c)
      BY <1>1, Moved
    <3> QED BY <2>3, <3>1 DEF Accepted
  <2>5. ASSUME NEW n \in Nat, Weighs(w, n) PROVE Weighs(queued, n + Bytes[c])
    <3>1. PICK rest : Adds(rest, w.buffer) /\ n = rest[1] + InHand(w)
      BY <2>5 DEF Weighs
    <3>2. PICK more : /\ Adds(more, Append(w.buffer, c))
                      /\ more[1] = rest[1] + Bytes[c]
      BY <1>1, <3>1, MoreWeighs
    <3>3. InHand(queued) = InHand(w) /\ InHand(w) \in Nat
      BY <2>3, PipeAssumption, SinkTypes DEF InHand
    <3>4. rest[1] \in Nat
      BY <1>1, <3>1 DEF Adds
    <3>5. n + Bytes[c] = more[1] + InHand(queued)
      BY <1>1, <3>1, <3>2, <3>3, <3>4
    <3> QED BY <2>3, <3>2, <3>5 DEF Weighs
  <2>6. \E n \in Nat : Weighs(queued, n) /\ n <= queued.length
    <3>1. PICK n \in Nat : Weighs(w, n) /\ n <= w.length
      BY <1>4
    <3>2. n + Bytes[c] \in Nat /\ n + Bytes[c] <= length
      BY <1>1, <3>1
    <3> QED BY <2>3, <2>5, <3>1, <3>2
  <2>7. SinkOK(queued)
    <3>1. queued.corked \/ Busy(queued)
      BY <1>4, <1>5, <2>3 DEF Busy
    <3> QED BY <2>3, <2>6, <3>1 DEF SinkOK, Firm
  <2> QED BY <2>1, <2>2, <2>3, <2>4, <2>5, <2>7
<1>6. CASE ~(w.corked \/ Busy(w))
  <2>1. Written(w, c) = given
    BY <1>4, <1>6 DEF Written, Refuses, counted
  <2>2. given \in Sinks
    <3>1. [counted EXCEPT !.writing = c] \in Sinks /\ Append(w.taken, c) \in Seq(Chunk)
      BY <1>1, <1>2, SinkFields, Moved
    <3>2. [[counted EXCEPT !.writing = c] EXCEPT !.taken = Append(w.taken, c)] \in Sinks
      BY <3>1, SinkFields
    <3>3. given = [[counted EXCEPT !.writing = c] EXCEPT !.taken = Append(w.taken, c)]
      BY <1>2, <1>3 DEF Sinks, Give
    <3> QED BY <3>2, <3>3
  <2>3. /\ given.length = length /\ given.needDrain = drain
        /\ given.buffer = w.buffer /\ given.taken = Append(w.taken, c)
        /\ given.writing = c /\ SameCalls(given, w)
        /\ ~given.finalizing /\ ~given.finished
    BY <1>2, <1>3, <1>4 DEF Sinks, SameCalls, Give
  <2> HIDE DEF given
  <2>4. ASSUME ~w.failed PROVE Accepted(given) = Append(Accepted(w), c)
    <3>1. w.buffer = << >>
      BY <1>4, <1>6, <2>4
    <3> QED BY <1>1, <2>3, <3>1 DEF Accepted
  <2>5. ASSUME NEW n \in Nat, Weighs(w, n) PROVE Weighs(given, n + Bytes[c])
    <3>1. PICK rest : Adds(rest, w.buffer) /\ n = rest[1] + InHand(w)
      BY <2>5 DEF Weighs
    <3>2. c # NoChunk /\ InHand(given) = Bytes[c] /\ InHand(w) = 0
      BY <1>6, <2>3 DEF InHand, Busy, NoChunk, Chunk
    <3>3. rest[1] \in Nat
      BY <1>1, <3>1 DEF Adds
    <3>4. n + Bytes[c] = rest[1] + InHand(given)
      BY <1>1, <3>1, <3>2, <3>3
    <3> QED BY <2>3, <3>1, <3>4 DEF Weighs
  <2>6. \E n \in Nat : Weighs(given, n) /\ n <= given.length
    <3>1. PICK n \in Nat : Weighs(w, n) /\ n <= w.length
      BY <1>4
    <3>2. n + Bytes[c] \in Nat /\ n + Bytes[c] <= length
      BY <1>1, <3>1
    <3> QED BY <2>3, <2>5, <3>1, <3>2
  <2>7. SinkOK(given)
    <3>1. Busy(given)
      BY <2>3 DEF Busy, NoChunk, Chunk
    <3> QED BY <2>3, <2>6, <3>1 DEF SinkOK, Firm
  <2> QED BY <2>1, <2>2, <2>3, <2>4, <2>5, <2>7
<1> QED BY <1>5, <1>6

(* _clearBuffer                                                             *)
LEMMA ClearedIsOK ==
  ASSUME NEW w \in Sinks, Firm(w)
  PROVE  LET v == Cleared(w)
         IN v \in Sinks /\ SinkOK(v) /\ SameCalls(v, w) /\ SameHeld(v, w)
<1> DEFINE v == Cleared(w)
           given == Give([w EXCEPT !.buffer = Tail(@)], Head(w.buffer))
<1> SUFFICES v \in Sinks /\ SinkOK(v) /\ SameCalls(v, w) /\ SameHeld(v, w)
  OBVIOUS
<1>1. w.buffer \in Seq(Chunk) /\ w.taken \in Seq(Chunk)
  BY SinkTypes
<1>2. CASE Busy(w) \/ w.buffer = << >>
  <2>1. v = w
    BY <1>2 DEF Cleared
  <2> HIDE DEF v
  <2> QED BY <1>2, <2>1 DEF SinkOK, SameCalls, SameHeld
<1>3. CASE ~Busy(w) /\ w.buffer # << >>
  <2> DEFINE c == Head(w.buffer)
             rest == Tail(w.buffer)
  <2>1. v = given
    BY <1>3 DEF Cleared
  <2>2. c \in Chunk /\ rest \in Seq(Chunk) /\ c # NoChunk
        /\ Append(w.taken, c) \in Seq(Chunk)
    <3>1. c \in Chunk /\ rest \in Seq(Chunk)
      BY <1>1, <1>3
    <3> QED BY <1>1, <3>1, Moved DEF Chunk, NoChunk
  <2>3. given \in Sinks
    <3> DEFINE q1 == [w EXCEPT !.buffer = rest]
               q2 == [q1 EXCEPT !.writing = c]
               q3 == [q2 EXCEPT !.taken = Append(w.taken, c)]
    <3>1. q1 \in Sinks
      BY <2>2, SinkFields
    <3>2. q2 \in Sinks
      BY <2>2, <3>1, SinkFields
    <3>3. q3 \in Sinks
      BY <2>2, <3>2, SinkFields
    <3>4. given = q3
      BY DEF Give, Sinks
    <3> QED BY <3>3, <3>4
  <2>4. /\ given.length = w.length /\ given.needDrain = w.needDrain
        /\ given.buffer = rest /\ given.taken = Append(w.taken, c)
        /\ given.writing = c /\ SameCalls(given, w)
        /\ given.finalizing = w.finalizing /\ given.finished = w.finished
    BY DEF Sinks, SameCalls, Give
  <2>5. ~w.finalizing /\ ~w.finished
    BY <1>3 DEF Firm
  <2> HIDE DEF v, given
  <2>6. Accepted(given) = Accepted(w)
    BY <1>1, <1>3, <2>2, <2>4, Moved DEF Accepted
  <2>7. ASSUME NEW n \in Nat, Weighs(w, n) PROVE Weighs(given, n)
    <3>1. PICK from : Adds(from, w.buffer) /\ n = from[1] + InHand(w)
      BY <2>7 DEF Weighs
    <3>2. PICK less : Adds(less, rest) /\ from[1] = less[1] + Bytes[c]
      BY <1>1, <1>3, <3>1, LessWeighs
    <3>3. InHand(w) = 0 /\ InHand(given) = Bytes[c]
      BY <1>3, <2>2, <2>4 DEF InHand, Busy
    <3>4. Bytes[c] \in Nat /\ less[1] \in Nat
      BY <2>2, <3>2, PipeAssumption DEF Adds
    <3>5. n = less[1] + InHand(given)
      BY <3>1, <3>2, <3>3, <3>4
    <3> QED BY <2>4, <3>2, <3>5 DEF Weighs
  <2>8. SinkOK(given)
    <3>1. PICK n \in Nat : Weighs(w, n) /\ n <= w.length
      BY DEF Firm
    <3>2. Weighs(given, n) /\ n <= given.length
      BY <2>4, <2>7, <3>1
    <3>3. Busy(given)
      BY <2>2, <2>4 DEF Busy
    <3> QED BY <2>4, <2>5, <3>2, <3>3 DEF SinkOK, Firm
  <2> QED BY <2>1, <2>3, <2>4, <2>6, <2>7, <2>8 DEF SameHeld
<1> QED BY <1>2, <1>3

(* _finishMaybe                                                             *)
LEMMA FinishMaybeIsOK ==
  ASSUME NEW d, NEW w \in Sinks, SinkOK(w)
  PROVE  LET v == FinishMaybe(d, w)
         IN v \in Sinks /\ SinkOK(v) /\ SameCalls(v, w) /\ SameHeld(v, w)
<1> DEFINE v == FinishMaybe(d, w)
<1> SUFFICES v \in Sinks /\ SinkOK(v) /\ SameCalls(v, w) /\ SameHeld(v, w)
  OBVIOUS
<1>1. CASE v = w
  <2> HIDE DEF v
  <2> QED BY <1>1 DEF SameCalls, SameHeld
<1>2. CASE v # w
  <2>1. /\ w.ended /\ ~w.finished /\ ~Busy(w) /\ w.buffer = << >>
    BY <1>2 DEF FinishMaybe
  <2>2. \/ v = [[w EXCEPT !.finalCalled = TRUE] EXCEPT !.finalizing = TRUE]
        \/ v = [w EXCEPT !.finished = TRUE]
    BY <2>1 DEF FinishMaybe, Sinks
  <2> HIDE DEF v
  <2>3. v \in Sinks
    <3>1. [w EXCEPT !.finished = TRUE] \in Sinks /\ [w EXCEPT !.finalCalled = TRUE] \in Sinks
      BY SinkFields
    <3>2. [[w EXCEPT !.finalCalled = TRUE] EXCEPT !.finalizing = TRUE] \in Sinks
      BY <3>1, SinkFields
    <3> QED BY <2>2, <3>1, <3>2
  <2>4. /\ v.buffer = w.buffer /\ v.writing = w.writing /\ SameCalls(v, w)
        /\ v.length = w.length /\ v.needDrain = w.needDrain /\ v.taken = w.taken
        /\ \/ ~v.finished
           \/ ~v.finalizing
    BY <2>1, <2>2 DEF Sinks, SameCalls, Busy
  <2>5. \A n \in Nat : Weighs(w, n) => Weighs(v, n)
    BY <2>4 DEF Weighs, InHand
  <2>6. SameHeld(v, w)
    BY <2>4, <2>5 DEF SameHeld, Accepted
  <2>7. w.writing = NoChunk
    BY <2>1 DEF Busy
  <2>8. SinkOK(v)
    <3>1. PICK n \in Nat : Weighs(w, n) /\ n <= w.length
      BY DEF SinkOK, Firm
    <3>2. Weighs(v, n) /\ n <= v.length
      BY <2>4, <2>5, <3>1
    <3> QED BY <2>1, <2>4, <2>7, <3>2 DEF SinkOK, Firm, Busy, SameCalls
  <2> QED BY <2>3, <2>4, <2>6, <2>8
<1> QED BY <1>1, <1>2

(* end()                                                                    *)
LEMMA EndedIsOK ==
  ASSUME NEW d, NEW w \in Sinks, SinkOK(w)
  PROVE  LET v == Ended(d, w)
         IN /\ v \in Sinks /\ SinkOK(v) /\ SameHeld(v, w) /\ v.ended
            /\ v.destroyed = w.destroyed /\ v.piped = w.piped
            /\ v.failed = w.failed /\ v.cut = w.cut
<1> DEFINE u == [w EXCEPT !.ended = TRUE]
<1>1. u \in Sinks
  BY SinkFields
<1>2. /\ u.buffer = w.buffer /\ u.writing = w.writing /\ u.taken = w.taken
      /\ u.length = w.length /\ u.needDrain = w.needDrain /\ u.ended
      /\ u.destroyed = w.destroyed /\ u.piped = w.piped
      /\ u.failed = w.failed /\ u.cut = w.cut /\ u.corked = w.corked
      /\ u.finalizing = w.finalizing /\ u.finished = w.finished
  BY DEF Sinks
<1> HIDE DEF u
<1>3. \A n : Weighs(u, n) <=> Weighs(w, n)
  BY <1>2 DEF Weighs, InHand
<1>4. SinkOK(u)
  BY <1>2, <1>3 DEF SinkOK, Firm, Busy
<1>5. Accepted(u) = Accepted(w)
  BY <1>2 DEF Accepted
<1> DEFINE v == FinishMaybe(d, u)
<1>6. v \in Sinks /\ SinkOK(v) /\ SameCalls(v, u) /\ SameHeld(v, u)
  BY <1>1, <1>4, FinishMaybeIsOK
<1>7. Ended(d, w) = v
  BY DEF Ended, u
<1> HIDE DEF v
<1> QED BY <1>2, <1>3, <1>5, <1>6, <1>7 DEF SameCalls, SameHeld

-----------------------------------------------------------------------------
(* The whole pipe: what was accepted, and how much there is room for.       *)

LEMMA ExactGrows ==
  ASSUME NEW a \in Seq(Chunk), NEW m \in Nat, m + 1 \in Chunk, NEW miss, Exact(a, m, miss)
  PROVE  Exact(Append(a, m + 1), m + 1, miss) /\ Exact(a, m + 1, miss \cup {m + 1})
<1> DEFINE b == Append(a, m + 1)
           given == {a[i] : i \in DOMAIN a}
           more == {b[i] : i \in DOMAIN b}
           n == Len(a)
<1>1. /\ \A i, j \in DOMAIN a : i < j => a[i] < a[j]
      /\ given \cup miss = 1 .. m /\ given \cap miss = {}
  BY DEF Exact
<1>2. n \in Nat /\ DOMAIN a = 1 .. n /\ DOMAIN b = 1 .. n + 1
      /\ b[n + 1] = m + 1 /\ \A i \in 1 .. n : b[i] = a[i]
  OBVIOUS
<1> HIDE DEF b
<1>3. more = given \cup {m + 1}
  BY <1>2
<1>4. \A i \in 1 .. n : a[i] \in 1 .. m
  BY <1>1, <1>2
<1>5. 1 .. m + 1 = (1 .. m) \cup {m + 1} /\ m + 1 \notin 1 .. m
  OBVIOUS
<1>6. m + 1 \notin miss /\ m + 1 \notin given
  BY <1>1, <1>5
<1>7. \A i, j \in DOMAIN b : i < j => b[i] < b[j]
  <2> SUFFICES ASSUME NEW i \in 1 .. n + 1, NEW j \in 1 .. n + 1, i < j
               PROVE  b[i] < b[j]
    BY <1>2
  <2>1. i \in 1 .. n /\ b[i] = a[i] /\ a[i] \in 1 .. m
    BY <1>2, <1>4
  <2>2. CASE j \in 1 .. n
    BY <1>1, <1>2, <2>1, <2>2
  <2>3. CASE j = n + 1
    BY <1>2, <2>1, <2>3
  <2> QED BY <1>2, <2>2, <2>3
<1>8. more \cup miss = 1 .. m + 1 /\ more \cap miss = {}
  <2> HIDE DEF more, given
  <2> QED BY <1>1, <1>3, <1>5, <1>6
<1>9. given \cup (miss \cup {m + 1}) = 1 .. m + 1 /\ given \cap (miss \cup {m + 1}) = {}
  <2> HIDE DEF given
  <2> QED BY <1>1, <1>5, <1>6
<1>10. Exact(b, m + 1, miss)
  BY <1>7, <1>8 DEF Exact
<1>11. Exact(a, m + 1, miss \cup {m + 1})
  BY <1>1, <1>9 DEF Exact
<1> QED BY <1>10, <1>11 DEF b

(* A set of numbers that is not empty has a least member.                   *)
LEMMA LeastOfSet ==
  ASSUME NEW T, T \subseteq Nat, T # {}
  PROVE  \E x \in T : \A y \in T : x <= y
<1> DEFINE Less == OpToRel(<, Nat)
<1>1. PICK x \in T : \A y \in T : ~(<<y, x>> \in Less)
  BY NatLessThanWellFounded, WFMin
<1>2. ASSUME NEW y \in T PROVE x <= y
  <2>1. x \in Nat /\ y \in Nat
    OBVIOUS
  <2>2. y < x => <<y, x>> \in Less
    BY <2>1 DEF OpToRel
  <2> HIDE DEF Less
  <2> QED BY <1>1, <2>1, <2>2
<1> QED BY <1>2

(* The longest of the chunks: the least bound of their lengths is reached.  *)
LEMMA LongestIs ==
  MaxBytes \in Nat /\ \A c \in Chunk : Bytes[c] <= MaxBytes
<1> DEFINE B(k) == \E n \in {Bytes[c] : c \in 1 .. k} : \A c \in 1 .. k : Bytes[c] <= n
           T == {k \in 1 .. MaxChunk : ~B(k)}
<1>1. MaxChunk \in Nat /\ MaxChunk >= 1 /\ \A c \in 1 .. MaxChunk : Bytes[c] \in Nat
  BY PipeAssumption DEF Chunk
<1>2. T = {}
  <2> SUFFICES ASSUME T # {} PROVE FALSE
    OBVIOUS
  <2>1. T \subseteq Nat
    BY <1>1
  <2> HIDE DEF T
  <2>2. PICK k \in T : \A y \in T : k <= y
    BY <2>1, LeastOfSet
  <2> USE DEF T
  <2>3. k \in 1 .. MaxChunk /\ ~B(k) /\ k \in Nat
    BY <2>1, <2>2
  <2>4. k # 1
    <3> SUFFICES ASSUME k = 1 PROVE FALSE
      OBVIOUS
    <3>1. Bytes[1] \in {Bytes[c] : c \in 1 .. 1} /\ Bytes[1] \in Nat
      BY <1>1
    <3>2. \A c \in 1 .. 1 : c = 1
      OBVIOUS
    <3> QED BY <2>3, <3>1, <3>2
  <2>5. k - 1 \in 1 .. MaxChunk /\ k - 1 \notin T
    <3>1. k - 1 \in 1 .. MaxChunk /\ ~(k <= k - 1)
      BY <1>1, <2>3, <2>4
    <3> HIDE DEF T
    <3> QED BY <2>2, <3>1
  <2>6. PICK c0 \in 1 .. k - 1 : \A c \in 1 .. k - 1 : Bytes[c] <= Bytes[c0]
    BY <2>5
  <2>7. \A c \in 1 .. k : c \in 1 .. k - 1 \/ c = k
    BY <2>3
  <2>8. /\ Bytes[c0] \in Nat /\ Bytes[k] \in Nat /\ c0 \in 1 .. k /\ k \in 1 .. k
        /\ \A c \in 1 .. k - 1 : Bytes[c] \in Nat
    BY <1>1, <2>3, <2>6
  <2>9. CASE Bytes[k] <= Bytes[c0]
    <3>1. \A c \in 1 .. k : Bytes[c] <= Bytes[c0]
      BY <2>6, <2>7, <2>9
    <3> QED BY <2>3, <2>8, <3>1
  <2>10. CASE Bytes[c0] <= Bytes[k]
    <3>1. \A c \in 1 .. k - 1 : Bytes[c] <= Bytes[k]
      BY <2>6, <2>8, <2>10
    <3>2. \A c \in 1 .. k : Bytes[c] <= Bytes[k]
      BY <2>7, <2>8, <3>1
    <3> QED BY <2>3, <2>8, <3>2
  <2> QED BY <2>8, <2>9, <2>10
<1>3. B(MaxChunk)
  BY <1>1, <1>2
<1>4. MaxBytes \in {Bytes[c] : c \in Chunk} /\ \A c \in Chunk : Bytes[c] <= MaxBytes
  BY <1>3 DEF MaxBytes, Chunk
<1> QED BY <1>1, <1>4 DEF Chunk

LEMMA RoomIs ==
  ASSUME NEW p \in Nat
  PROVE  /\ Room(p) \in Int /\ Room(p) >= HighWaterMark - 1
         /\ p >= 1 => /\ Room(p - 1) \in Int /\ Room(p - 1) >= HighWaterMark - 1
                      /\ Room(p) = Room(p - 1) + MaxBytes
<1>1. MaxBytes \in Nat /\ HighWaterMark \in Nat
  BY LongestIs, PipeAssumption
<1>2. \A q \in Nat : MaxBytes * q \in Nat
  BY <1>1
<1>3. p >= 1 => p - 1 \in Nat /\ MaxBytes * p = MaxBytes * (p - 1) + MaxBytes
  BY <1>1
<1> DEFINE r(q) == MaxBytes * q
<1>4. /\ r(p) \in Nat
      /\ p >= 1 => r(p - 1) \in Nat /\ r(p) = r(p - 1) + MaxBytes
  BY <1>2, <1>3
<1> HIDE DEF r
<1>5. /\ HighWaterMark - 1 + r(p) \in Int /\ HighWaterMark - 1 + r(p) >= HighWaterMark - 1
      /\ p >= 1 => /\ HighWaterMark - 1 + r(p - 1) \in Int
                   /\ HighWaterMark - 1 + r(p - 1) >= HighWaterMark - 1
                   /\ HighWaterMark - 1 + r(p) = (HighWaterMark - 1 + r(p - 1)) + MaxBytes
  BY <1>1, <1>4
<1> QED BY <1>5 DEF r, Room

-----------------------------------------------------------------------------
(* The operators of the Readable keep the invariant.                        *)

LEMMA StateTypes ==
  ASSUME NEW t \in PipeStates
  PROVE  /\ t.s \in Sources /\ t.s.buffer \in Seq(Chunk) /\ Len(t.s.buffer) \in Nat
         /\ t.s.pushed \in 0 .. MaxChunk /\ t.s.pushed \in Nat /\ t.s.pipes \subseteq Dest
         /\ t.s.ended \in BOOLEAN /\ t.s.endEmitted \in BOOLEAN
         /\ t.s.flowing \in {"initial", "flowing", "paused"}
         /\ t.w \in [Dest -> Sinks] /\ t.missed \in [Dest -> SUBSET Chunk]
         /\ t.queue \in Seq(Micros)
  BY PipeAssumption DEF PipeStates, Sources

(* A chunk is given to each pipe that takes it, and missed by the others.   *)
LEMMA EmitChunkIsSound ==
  ASSUME NEW t, Sound(t), t.s.flowing = "flowing", t.s.buffer # << >>
  PROVE  /\ Sound(EmitChunk(t))
         /\ Len(EmitChunk(t).s.buffer) = Len(t.s.buffer) - 1
<1> DEFINE u == EmitChunk(t)
           c == Head(t.s.buffer)
           q == t.s.buffer
           m == Emitted(t.s)
           takes(d) == d \in t.s.pipes /\ ~Refuses(t.w[d])
           flow == IF \A d \in t.s.pipes : MoreWelcome(t.w[d], c)
                   THEN t.s.flowing ELSE "paused"
<1>1. t \in PipeStates /\ SourceOK(t.s)
  BY DEF Sound
<1>2. /\ t.s \in Sources /\ q \in Seq(Chunk) /\ Len(q) \in Nat /\ Len(q) > 0
      /\ t.s.pushed \in 0 .. MaxChunk /\ t.s.pushed \in Nat
      /\ t.w \in [Dest -> Sinks] /\ t.missed \in [Dest -> SUBSET Chunk]
      /\ t.s.pipes \subseteq Dest /\ flow \in {"initial", "flowing", "paused"}
  BY <1>1, StateTypes
<1>3. /\ c \in Chunk /\ Tail(q) \in Seq(Chunk) /\ Len(Tail(q)) = Len(q) - 1
      /\ c = q[1] /\ \A i \in DOMAIN Tail(q) : Tail(q)[i] = q[i + 1] /\ i + 1 \in DOMAIN q
  BY <1>2
<1>4. m \in Nat /\ c = m + 1 /\ ~t.s.endEmitted
  BY <1>1, <1>2, <1>3 DEF SourceOK, Emitted
<1>5. /\ u.s = [t.s EXCEPT !.buffer = Tail(q), !.flowing = flow]
      /\ u.w = [d \in Dest |-> IF d \in t.s.pipes THEN Written(t.w[d], c) ELSE t.w[d]]
      /\ u.missed = [d \in Dest |-> IF d \notin t.s.pipes \/ Refuses(t.w[d])
                                    THEN t.missed[d] \cup {c} ELSE t.missed[d]]
      /\ u.queue = t.queue /\ u = [s |-> u.s, w |-> u.w, queue |-> u.queue, missed |-> u.missed]
  <2>1. t = [s |-> t.s, w |-> t.w, queue |-> t.queue, missed |-> t.missed]
    BY <1>1 DEF PipeStates
  <2>2. t.s.flowing = [t.s EXCEPT !.buffer = Tail(q)].flowing
    BY <1>2 DEF Sources
  <2>3. u.s = [t.s EXCEPT !.buffer = Tail(q), !.flowing = flow]
    BY <1>1, <2>1, <2>2 DEF EmitChunk, PipeStates, Sources
  <2>4. u.w = [d \in Dest |-> IF d \in t.s.pipes THEN Written(t.w[d], c) ELSE t.w[d]]
    BY <2>1 DEF EmitChunk
  <2>5. u.missed = [d \in Dest |-> IF d \notin t.s.pipes \/ Refuses(t.w[d])
                                   THEN t.missed[d] \cup {c} ELSE t.missed[d]]
    BY <2>1 DEF EmitChunk
  <2>6. /\ u.queue = t.queue
        /\ u = [s |-> u.s, w |-> u.w, queue |-> u.queue, missed |-> u.missed]
    <3> DEFINE a == [t.s EXCEPT !.buffer = Tail(q), !.flowing = flow]
               b == [d \in Dest |-> IF d \in t.s.pipes THEN Written(t.w[d], c) ELSE t.w[d]]
               e == [d \in Dest |-> IF d \notin t.s.pipes \/ Refuses(t.w[d])
                                   THEN t.missed[d] \cup {c} ELSE t.missed[d]]
    <3>1. u = [t EXCEPT !.s = a, !.w = b, !.missed = e]
      BY <2>1, <2>2 DEF EmitChunk
    <3> HIDE DEF a, b, e, u
    <3> QED BY <2>1, <3>1
  <2> QED BY <2>3, <2>4, <2>5, <2>6
<1> HIDE DEF u, flow
<1>6. /\ u.s \in Sources /\ u.s.buffer = Tail(q) /\ u.s.flowing = flow
      /\ u.s.pushed = t.s.pushed /\ u.s.ended = t.s.ended /\ u.s.pipes = t.s.pipes
      /\ u.s.endEmitted = t.s.endEmitted
  <2>1. \A x \in Seq(Chunk) : [t.s EXCEPT !.buffer = x] \in Sources
    BY <1>2 DEF Sources
  <2>2. [t.s EXCEPT !.buffer = Tail(q)] \in Sources
    BY <1>3, <2>1
  <2>3. u.s \in Sources
    BY <1>2, <1>5, <2>2 DEF Sources
  <2> QED BY <1>2, <1>5, <2>3 DEF Sources
<1>7. Emitted(u.s) = m + 1
  <2>1. \A x \in Nat, n \in Nat : x - (n - 1) = (x - n) + 1
    OBVIOUS
  <2>2. Emitted(u.s) = t.s.pushed - (Len(q) - 1)
    BY <1>3, <1>6 DEF Emitted
  <2> QED BY <1>2, <2>1, <2>2 DEF Emitted
<1>8. SourceOK(u.s)
  <2>1. \A i \in DOMAIN Tail(q) : Tail(q)[i] = m + (i + 1)
    BY <1>1, <1>3 DEF SourceOK
  <2>2. \A i \in DOMAIN Tail(q) : i \in Nat
    BY <1>3
  <2>3. \A i \in DOMAIN Tail(q) : Tail(q)[i] = (m + 1) + i
    BY <1>4, <2>1, <2>2
  <2>4. Len(Tail(q)) <= t.s.pushed
    BY <1>1, <1>2, <1>3 DEF SourceOK
  <2> QED BY <1>4, <1>6, <1>7, <2>3, <2>4 DEF SourceOK
<1>9. ASSUME NEW d \in Dest, takes(d)
      PROVE  /\ u.w[d] \in Sinks /\ SinkOK(u.w[d]) /\ OrderOK(u, d) /\ EndOK(u, d)
  <2>1. t.w[d] \in Sinks /\ SinkOK(t.w[d]) /\ ~Refuses(t.w[d])
    BY <1>2, <1>9 DEF Sound
  <2>2. u.w[d] = Written(t.w[d], c) /\ u.missed[d] = t.missed[d]
    BY <1>5, <1>9
  <2>3. /\ u.w[d] \in Sinks /\ SinkOK(u.w[d]) /\ SameCalls(u.w[d], t.w[d])
        /\ ~t.w[d].failed => Accepted(u.w[d]) = Append(Accepted(t.w[d]), c)
    BY <1>3, <2>1, <2>2, WrittenIsOK
  <2>4. EndOK(u, d)
    BY <2>1, <2>3 DEF EndOK, SameCalls, Refuses
  <2>5. OrderOK(u, d)
    <3> SUFFICES ASSUME ~t.w[d].failed
                 PROVE  Exact(Append(Accepted(t.w[d]), c), m + 1, t.missed[d])
      BY <1>7, <2>2, <2>3 DEF OrderOK, SameCalls
    <3>1. Exact(Accepted(t.w[d]), m, t.missed[d])
      BY DEF Sound, OrderOK
    <3>2. Accepted(t.w[d]) \in Seq(Chunk)
      BY <2>1, SinkTypes
    <3> HIDE DEF m, c
    <3> QED BY <1>3, <1>4, <3>1, <3>2, ExactGrows
  <2> QED BY <2>3, <2>4, <2>5
<1>10. ASSUME NEW d \in Dest, ~takes(d)
       PROVE  u.w[d] = t.w[d] /\ OrderOK(u, d) /\ EndOK(u, d)
  <2>1. u.w[d] = t.w[d]
    BY <1>5, <1>10 DEF Written
  <2>2. u.missed[d] = t.missed[d] \cup {c}
    BY <1>5, <1>10
  <2>3. EndOK(u, d)
    BY <1>6, <2>1 DEF EndOK, Sound
  <2>4. OrderOK(u, d)
    <3> SUFFICES ASSUME ~t.w[d].failed
                 PROVE  Exact(Accepted(t.w[d]), m + 1, t.missed[d] \cup {c})
      BY <1>7, <2>1, <2>2 DEF OrderOK
    <3>1. Exact(Accepted(t.w[d]), m, t.missed[d])
      BY DEF Sound, OrderOK
    <3>2. Accepted(t.w[d]) \in Seq(Chunk)
      BY <1>2, SinkTypes
    <3> HIDE DEF m, c
    <3> QED BY <1>3, <1>4, <3>1, <3>2, ExactGrows
  <2> QED BY <2>1, <2>3, <2>4
<1>11. \A d \in Dest : u.w[d] \in Sinks /\ SinkOK(u.w[d]) /\ OrderOK(u, d) /\ EndOK(u, d)
  BY <1>2, <1>9, <1>10 DEF Sound
<1>12. u \in PipeStates
  <2>1. u.w \in [Dest -> Sinks]
    BY <1>5, <1>11
  <2>2. u.missed \in [Dest -> SUBSET Chunk]
    BY <1>2, <1>3, <1>5
  <2>3. u.queue \in Seq(Micros)
    BY <1>1, <1>5 DEF PipeStates
  <2> QED BY <1>5, <1>6, <2>1, <2>2, <2>3 DEF PipeStates
<1>13. Sound(u)
  BY <1>8, <1>11, <1>12 DEF Sound
<1> QED BY <1>3, <1>6, <1>13 DEF u

(* 'end' ends the destinations.                                             *)
LEMMA MaybeEndIsSound ==
  ASSUME NEW t, PipeOK(t)
  PROVE  PipeOK(MaybeEnd(t))
<1> DEFINE u == MaybeEnd(t)
<1> SUFFICES PipeOK(u)
  OBVIOUS
<1>1. t \in PipeStates /\ SourceOK(t.s) /\ Sound(t)
  BY DEF Sound, PipeOK
<1>2. CASE ~t.s.ended \/ t.s.buffer # << >> \/ t.s.endEmitted
  BY <1>2 DEF MaybeEnd
<1>3. CASE t.s.ended /\ t.s.buffer = << >> /\ ~t.s.endEmitted
  <2>1. /\ u.s = [t.s EXCEPT !.endEmitted = TRUE]
        /\ u.w = [d \in Dest |-> IF d \in t.s.pipes THEN Ended(d, t.w[d]) ELSE t.w[d]]
        /\ u.missed = t.missed /\ u.queue = t.queue
        /\ u = [s |-> u.s, w |-> u.w, queue |-> u.queue, missed |-> u.missed]
    BY <1>1, <1>3 DEF MaybeEnd, PipeStates, Sources
  <2> HIDE DEF u
  <2>2. t.w \in [Dest -> Sinks]
    BY <1>1, StateTypes
  <2>3. /\ u.s \in Sources /\ u.s.buffer = t.s.buffer /\ u.s.pushed = t.s.pushed
        /\ u.s.ended = t.s.ended /\ u.s.endEmitted /\ u.s.pipes = t.s.pipes
        /\ u.s.flowing = t.s.flowing
    BY <1>1, <2>1, StateTypes DEF Sources
  <2>4. SourceOK(u.s) /\ Emitted(u.s) = Emitted(t.s)
    BY <1>1, <1>3, <2>3 DEF SourceOK, Emitted
  <2>5. ASSUME NEW d \in Dest
        PROVE  /\ u.w[d] \in Sinks /\ SinkOK(u.w[d]) /\ SameHeld(u.w[d], t.w[d])
               /\ u.w[d].piped = t.w[d].piped /\ u.w[d].failed = t.w[d].failed
               /\ Refuses(t.w[d]) => Refuses(u.w[d])
    <3>1. t.w[d] \in Sinks /\ SinkOK(t.w[d])
      BY <1>1, <2>2 DEF Sound
    <3>2. CASE d \in t.s.pipes
      <4>1. u.w[d] = Ended(d, t.w[d])
        BY <2>1, <3>2
      <4> QED BY <3>1, <4>1, EndedIsOK DEF Refuses
    <3>3. CASE d \notin t.s.pipes
      <4>1. u.w[d] = t.w[d]
        BY <2>1, <3>3
      <4> QED BY <3>1, <4>1 DEF SameHeld
    <3> QED BY <3>2, <3>3
  <2>6. ASSUME NEW d \in Dest PROVE SinkOK(u.w[d]) /\ OrderOK(u, d) /\ EndOK(u, d)
    <3>1. OrderOK(t, d)
      BY <1>1 DEF Sound
    <3> QED BY <2>1, <2>3, <2>4, <2>5, <3>1 DEF OrderOK, EndOK, SameHeld
  <2>7. u \in PipeStates
    <3>1. u.w \in [Dest -> Sinks]
      BY <2>1, <2>5
    <3> QED BY <1>1, <2>1, <2>3, <3>1 DEF PipeStates
  <2>8. ASSUME Alone, NEW d \in Dest PROVE Draining(u, d)
    <3>1. Draining(t, d) /\ t.w[d].length \in Nat
      BY <2>2, <2>8, SinkTypes DEF PipeOK
    <3>2. Held(u, d)
      BY <2>3, <2>5, <3>1 DEF Draining, Held, SameHeld
    <3>3. Asks(u, d) /\ Pauses(u, d)
      BY <2>3, <2>5, <3>1 DEF Draining, Asks, Pauses, SameHeld
    <3>4. u.s.flowing = "flowing" => Fits(u, d)
      BY <2>3, <2>5, <3>1 DEF Draining, Fits, SameHeld
    <3> QED BY <3>2, <3>3, <3>4 DEF Draining
  <2> QED BY <2>4, <2>6, <2>7, <2>8 DEF PipeOK, Sound
<1> QED BY <1>1, <1>2, <1>3, StateTypes

(* ... and no more than there is room for, or the source is paused.         *)
LEMMA EmitChunkDrains ==
  ASSUME NEW t, PipeOK(t), t.s.flowing = "flowing", t.s.buffer # << >>,
         Alone, NEW d \in Dest
  PROVE  Draining(EmitChunk(t), d)
<1> DEFINE u == EmitChunk(t)
           c == Head(t.s.buffer)
           w == t.w[d]
           v == u.w[d]
           p == w.piped
<1>1. t \in PipeStates /\ Draining(t, d) /\ Fits(t, d) /\ SinkOK(w)
  BY DEF PipeOK, Sound, Draining
<1>2. /\ t.w \in [Dest -> Sinks] /\ t.s.pipes \subseteq Dest /\ t.s.buffer \in Seq(Chunk)
      /\ t.s \in Sources
  BY <1>1, StateTypes
<1>3. c \in Chunk /\ Bytes[c] \in Nat /\ Bytes[c] <= MaxBytes /\ MaxBytes \in Nat
  BY <1>2, LongestIs, PipeAssumption
<1>4. w \in Sinks /\ w.length \in Nat /\ p \in Nat /\ w.needDrain \in BOOLEAN
      /\ HighWaterMark \in Nat
  BY <1>2, SinkTypes, PipeAssumption
<1>5. /\ u.s.pipes = t.s.pipes
      /\ u.s.flowing = IF \A e \in t.s.pipes : MoreWelcome(t.w[e], c)
                       THEN "flowing" ELSE "paused"
      /\ v = IF d \in t.s.pipes THEN Written(w, c) ELSE w
  <2>1. t = [s |-> t.s, w |-> t.w, queue |-> t.queue, missed |-> t.missed]
    BY <1>1 DEF PipeStates
  <2>2. t.s.flowing = [t.s EXCEPT !.buffer = Tail(t.s.buffer)].flowing
    BY <1>2 DEF Sources
  <2>3. u.s.pipes = t.s.pipes
    BY <1>2, <2>1 DEF EmitChunk, Sources
  <2>4. u.s.flowing = IF \A e \in t.s.pipes : MoreWelcome(t.w[e], c)
                      THEN t.s.flowing ELSE "paused"
    BY <1>2, <2>1, <2>2 DEF EmitChunk, Sources
  <2>5. v = IF d \in t.s.pipes THEN Written(w, c) ELSE w
    BY <2>1 DEF EmitChunk
  <2> QED BY <2>3, <2>4, <2>5
<1> HIDE DEF u, c, w, v
<1>6. Dest = {d}
  BY DEF Alone
<1>7. CASE d \in t.s.pipes /\ ~Refuses(w)
  <2>1. /\ SameCalls(v, w) /\ v.length = w.length + Bytes[c]
        /\ v.needDrain = (w.needDrain \/ v.length >= HighWaterMark)
        /\ Weighs(v, v.length)
    <3>1. v = Written(w, c)
      BY <1>5, <1>7
    <3>2. /\ SameCalls(v, w) /\ v.length = w.length + Bytes[c]
          /\ v.needDrain = (w.needDrain \/ v.length >= HighWaterMark)
          /\ Weighs(w, w.length) => Weighs(v, w.length + Bytes[c])
      BY <1>1, <1>3, <1>4, <1>7, <3>1, WrittenIsOK
    <3> QED BY <1>1, <3>2 DEF Draining, Held, w
  <2>2. v.piped = p /\ v.failed = w.failed
    BY <2>1 DEF SameCalls
  <2>3. /\ p >= 1 /\ w.length <= Room(p - 1) /\ Room(p - 1) \in Int /\ Room(p) \in Int
        /\ Room(p) = Room(p - 1) + MaxBytes /\ Room(p - 1) >= HighWaterMark - 1
    BY <1>1, <1>4, <1>7, RoomIs DEF Draining, Held, Fits, w
  <2>4. v.length \in Nat /\ v.length <= Room(p) /\ v.length >= w.length
    BY <1>3, <1>4, <2>1, <2>3
  <2>5. Held(u, d)
    BY <1>5, <2>1, <2>2, <2>3, <2>4 DEF Held, v
  <2>6. Asks(u, d)
    <3>1. w.needDrain => w.failed \/ w.length >= HighWaterMark
      BY <1>1 DEF Draining, Asks, w
    <3>2. w.length >= HighWaterMark => v.length >= HighWaterMark
      BY <1>4, <2>4
    <3> QED BY <2>1, <2>2, <3>1, <3>2 DEF Asks, v
  <2>7. u.s.flowing = "paused" => v.length >= HighWaterMark
    <3>1. ASSUME u.s.flowing = "paused" PROVE ~MoreWelcome(w, c)
      BY <1>2, <1>5, <1>6, <3>1 DEF w
    <3> QED BY <1>3, <1>4, <1>7, <2>1, <3>1 DEF MoreWelcome
  <2>8. Pauses(u, d)
    BY <2>1, <2>7 DEF Pauses, v
  <2>9. ASSUME u.s.flowing = "flowing" PROVE v.length <= Room(p - 1)
    <3>1. MoreWelcome(w, c)
      BY <1>5, <1>7, <2>9 DEF w
    <3>2. v.length < HighWaterMark
      BY <2>1, <3>1 DEF MoreWelcome
    <3> QED BY <1>4, <2>3, <2>4, <3>2
  <2>10. u.s.flowing = "flowing" => Fits(u, d)
    BY <2>2, <2>9 DEF Fits, v
  <2> QED BY <2>5, <2>6, <2>8, <2>10 DEF Draining, u
<1>8. CASE ~(d \in t.s.pipes /\ ~Refuses(w))
  <2>1. v = w
    BY <1>5, <1>8 DEF Written
  <2>2. Held(u, d) /\ Asks(u, d)
    BY <1>1, <1>5, <2>1 DEF Draining, Held, Asks, v, w
  <2>3. Pauses(u, d)
    BY <1>5, <1>8, <2>1 DEF Pauses, v
  <2>4. u.s.flowing = "flowing" => Fits(u, d)
    BY <1>1, <1>5, <2>1 DEF Fits, v, w
  <2> QED BY <2>2, <2>3, <2>4 DEF Draining, u
<1> QED BY <1>7, <1>8

LEMMA EmitNextIsOK ==
  ASSUME NEW t, PipeOK(t), t.s.buffer # << >>
  PROVE  PipeOK(EmitNext(t)) /\ Len(EmitNext(t).s.buffer) >= Len(t.s.buffer) - 1
<1>1. t \in PipeStates /\ Sound(t) /\ Len(t.s.buffer) \in Nat
  BY StateTypes DEF PipeOK, Sound
<1>2. CASE t.s.flowing = "flowing"
  <2>1. Sound(EmitChunk(t)) /\ Len(EmitChunk(t).s.buffer) = Len(t.s.buffer) - 1
    BY <1>1, <1>2, EmitChunkIsSound
  <2>2. Alone => \A d \in Dest : Draining(EmitChunk(t), d)
    BY <1>2, EmitChunkDrains
  <2> QED BY <1>1, <1>2, <2>1, <2>2 DEF EmitNext, PipeOK
<1>3. CASE t.s.flowing # "flowing"
  BY <1>1, <1>3 DEF EmitNext
<1> QED BY <1>2, <1>3

(* A function defined by recursion on numbers below a bound exists.         *)
LEMMA EmissionsExist ==
  ASSUME NEW t, NEW n \in Nat
  PROVE  \E f : f = [k \in 0 .. n |-> IF k = 0 THEN t ELSE EmitNext(f[k - 1])]
<1> DEFINE Emits(f, m) == f = [k \in 0 .. m |-> IF k = 0 THEN t ELSE EmitNext(f[k - 1])]
           T == {m \in 0 .. n : ~\E f : Emits(f, m)}
<1>1. ASSUME T # {} PROVE FALSE
  <2>1. T \subseteq Nat
    OBVIOUS
  <2> HIDE DEF T
  <2>2. PICK m \in T : \A y \in T : m <= y
    BY <1>1, <2>1, LeastOfSet
  <2> USE DEF T
  <2>3. m \in 0 .. n /\ ~\E f : Emits(f, m)
    BY <2>2
  <2>4. CASE m = 0
    <3> DEFINE f == [k \in 0 .. 0 |-> t]
    <3>1. Emits(f, 0)
      OBVIOUS
    <3> QED BY <2>3, <2>4, <3>1
  <2>5. CASE m # 0
    <3>1. m - 1 \in 0 .. n /\ ~(m <= m - 1)
      BY <2>3, <2>5
    <3>2. m - 1 \notin T
      <4> HIDE DEF T
      <4> QED BY <2>2, <3>1
    <3>3. PICK g : Emits(g, m - 1)
      BY <3>1, <3>2
    <3> DEFINE f == [k \in 0 .. m |-> IF k = m THEN EmitNext(g[m - 1]) ELSE g[k]]
    <3>4. ASSUME NEW k \in 0 .. m
          PROVE  f[k] = IF k = 0 THEN t ELSE EmitNext(f[k - 1])
      <4>1. CASE k = m
        <5>1. f[k] = EmitNext(g[m - 1]) /\ k # 0 /\ k - 1 \in 0 .. m /\ k - 1 # m
          BY <2>3, <2>5, <4>1
        <5>2. f[k - 1] = g[m - 1]
          BY <4>1, <5>1
        <5> HIDE DEF f
        <5> QED BY <5>1, <5>2
      <4>2. CASE k # m
        <5>1. k \in 0 .. m - 1 /\ f[k] = g[k]
          BY <2>3, <4>2
        <5>2. g[k] = IF k = 0 THEN t ELSE EmitNext(g[k - 1])
          BY <3>3, <5>1
        <5>3. k # 0 => f[k - 1] = g[k - 1]
          BY <2>3, <5>1
        <5> HIDE DEF f
        <5> QED BY <5>1, <5>2, <5>3
      <4> QED BY <4>1, <4>2
    <3>5. Emits(f, m)
      <4>1. f = [k \in 0 .. m |-> f[k]]
        OBVIOUS
      <4> HIDE DEF f
      <4> QED BY <3>4, <4>1
    <3> HIDE DEF f, Emits
    <3> QED BY <2>3, <3>5
  <2> QED BY <2>4, <2>5
<1>2. n \notin T
  BY <1>1
<1> QED BY <1>2

(* Chunk after chunk: by induction on their number.                         *)
LEMMA EmitDataIsOK ==
  ASSUME NEW t, PipeOK(t)
  PROVE  PipeOK(EmitData(t))
<1> DEFINE n == Len(t.s.buffer)
           Emits(f) == f = [k \in 0 .. n |-> IF k = 0 THEN t ELSE EmitNext(f[k - 1])]
           after == CHOOSE f : Emits(f)
           T == {k \in 0 .. n : ~(PipeOK(after[k]) /\ Len(after[k].s.buffer) >= n - k)}
<1>1. n \in Nat
  BY StateTypes DEF PipeOK, Sound
<1>2. Emits(after)
  <2>1. \E f : Emits(f)
    BY <1>1, EmissionsExist
  <2> HIDE DEF Emits
  <2> QED BY <2>1
<1>3. EmitData(t) = MaybeEnd(after[n])
  BY DEF EmitData
<1> HIDE DEF after
<1>4. after[0] = t /\ \A k \in 1 .. n : after[k] = EmitNext(after[k - 1])
  <2>1. \A k \in 0 .. n : after[k] = IF k = 0 THEN t ELSE EmitNext(after[k - 1])
    <3> HIDE DEF n
    <3> QED BY <1>2
  <2>2. 0 \in 0 .. n /\ \A k \in 1 .. n : k \in 0 .. n /\ k # 0
    BY <1>1
  <2> HIDE DEF n
  <2>3. after[0] = t
    BY <2>1, <2>2
  <2>4. \A k \in 1 .. n : after[k] = EmitNext(after[k - 1])
    BY <2>1, <2>2
  <2> QED BY <2>3, <2>4
<1>5. ASSUME T # {} PROVE FALSE
  <2>1. T \subseteq Nat
    BY <1>1
  <2> HIDE DEF T
  <2>2. PICK m \in T : \A y \in T : m <= y
    BY <1>5, <2>1, LeastOfSet
  <2> USE DEF T
  <2>3. m \in 0 .. n /\ ~(PipeOK(after[m]) /\ Len(after[m].s.buffer) >= n - m)
    BY <2>2
  <2>4. m # 0
    BY <1>1, <1>4, <2>3
  <2>5. m - 1 \in 0 .. n /\ m \in 1 .. n /\ ~(m <= m - 1)
    BY <1>1, <2>3, <2>4
  <2>6. PipeOK(after[m - 1]) /\ Len(after[m - 1].s.buffer) >= n - (m - 1)
    <3>1. m - 1 \notin T
      <4> HIDE DEF T
      <4> QED BY <2>2, <2>5
    <3> QED BY <2>5, <3>1
  <2> DEFINE a == after[m - 1]
             l == Len(a.s.buffer)
             k == Len(after[m].s.buffer)
  <2>7. a.s.buffer \in Seq(Chunk) /\ l \in Nat
    BY <2>6, StateTypes DEF PipeOK, Sound
  <2>8. a.s.buffer # << >>
    <3>1. m <= n /\ m \in Nat /\ l >= n - (m - 1)
      BY <1>1, <2>5, <2>6
    <3>2. l >= 1
      <4> HIDE DEF l, n
      <4> QED BY <1>1, <2>7, <3>1
    <3> QED BY <3>2
  <2>9. PipeOK(after[m]) /\ k >= l - 1 /\ k \in Nat
    <3>1. after[m] = EmitNext(a)
      BY <1>4, <2>5
    <3>2. PipeOK(after[m]) /\ k >= l - 1
      BY <2>6, <2>8, <3>1, EmitNextIsOK
    <3> QED BY <3>2, StateTypes DEF PipeOK, Sound
  <2>10. k >= n - m
    <3> HIDE DEF k, l, n
    <3> QED BY <1>1, <2>3, <2>6, <2>7, <2>9 DEF l
  <2> QED BY <2>3, <2>9, <2>10
<1>6. PipeOK(after[n])
  BY <1>1, <1>5
<1> QED BY <1>3, <1>6, MaybeEndIsSound

-----------------------------------------------------------------------------
(* The steps: those of the source.                                          *)

(* What the state is after a step.                                          *)
LEMMA TurnsTo ==
  ASSUME NEW t, t \in PipeStates, Turns(t)
  PROVE  State' = t
<1>1. t = [s |-> t.s, w |-> t.w, queue |-> t.queue, missed |-> t.missed]
  BY DEF PipeStates
<1> QED BY <1>1 DEF Turns, State

LEMMA StateIs ==
  /\ State.s = source /\ State.w = dest /\ State.queue = micro /\ State.missed = missed
  BY DEF State

(* A step that changes the source only, not what it has emitted.            *)
LEMMA SourceStep ==
  ASSUME NEW t, PipeOK(t), NEW u, u \in PipeStates, SourceOK(u.s),
         u.w = t.w, u.missed = t.missed, Emitted(u.s) = Emitted(t.s),
         u.s.endEmitted = t.s.endEmitted, u.s.flowing = t.s.flowing,
         u.s.pipes \subseteq t.s.pipes
  PROVE  PipeOK(u)
<1>1. Sound(u)
  BY DEF PipeOK, Sound, OrderOK, EndOK
<1>2. ASSUME Alone, NEW d \in Dest PROVE Draining(u, d)
  BY <1>2 DEF PipeOK, Draining, Held, Asks, Pauses, Fits
<1> QED BY <1>1, <1>2 DEF PipeOK

LEMMA PushIsOK ==
  ASSUME PipeIInv, Push
  PROVE  PipeIInv'
<1> DEFINE c == source.pushed + 1
           s == [source EXCEPT !.buffer = Append(@, c), !.pushed = c]
           t == [State EXCEPT !.s.buffer = Append(@, c), !.s.pushed = c]
           u == [State EXCEPT !.s = s]
           q == source.buffer
<1>1. PipeOK(State) /\ State \in PipeStates /\ SourceOK(source) /\ source \in Sources
      /\ State.s = source
  BY StateIs, StateTypes DEF PipeIInv, PipeOK, Sound
<1>2. ~source.ended /\ c \in Chunk
      /\ Turns(IF source.flowing = "flowing" THEN EmitData(t) ELSE t)
  BY DEF Push
<1>3. q \in Seq(Chunk) /\ Len(q) \in Nat /\ source.pushed \in Nat
      /\ source.pipes \subseteq Dest
  BY <1>1, StateTypes
<1>4. t = u
  BY <1>1 DEF State, Sources
<1>5. /\ s.buffer = Append(q, c) /\ s.pushed = c /\ s.ended = source.ended
      /\ s.endEmitted = source.endEmitted /\ s.flowing = source.flowing
      /\ s.pipes = source.pipes
  BY <1>1 DEF Sources
<1>6. s \in Sources
  <2>1. \A x \in Seq(Chunk) : [source EXCEPT !.buffer = x] \in Sources
    BY <1>1 DEF Sources
  <2>2. Append(q, c) \in Seq(Chunk) /\ c \in 0 .. MaxChunk
    BY <1>2, <1>3 DEF Chunk
  <2>3. [source EXCEPT !.buffer = Append(q, c)] \in Sources
    BY <2>1, <2>2
  <2>4. \A r \in Sources : \A x \in 0 .. MaxChunk : [r EXCEPT !.pushed = x] \in Sources
    BY DEF Sources
  <2>5. [[source EXCEPT !.buffer = Append(q, c)] EXCEPT !.pushed = c] \in Sources
    BY <2>2, <2>3, <2>4
  <2> QED BY <2>5
<1> HIDE DEF s
<1>7. Emitted(s) = Emitted(source)
  <2>1. \A x \in Nat, y \in Nat : (x + 1) - (y + 1) = x - y
    OBVIOUS
  <2>2. Len(Append(q, c)) = Len(q) + 1
    BY <1>2, <1>3
  <2> QED BY <1>3, <1>5, <2>1, <2>2 DEF Emitted
<1>8. SourceOK(s)
  <2> DEFINE e == Emitted(source)
  <2>1. Len(Append(q, c)) = Len(q) + 1 /\ Len(q) <= source.pushed
    BY <1>1, <1>2, <1>3 DEF SourceOK
  <2>2. ASSUME NEW i \in DOMAIN Append(q, c) PROVE Append(q, c)[i] = e + i
    <3>1. CASE i \in DOMAIN q
      <4>1. Append(q, c)[i] = q[i] /\ q[i] = e + i
        BY <1>1, <1>3, <3>1 DEF SourceOK
      <4> QED BY <4>1
    <3>2. CASE i = Len(q) + 1
      <4>1. Append(q, c)[i] = c
        BY <1>2, <1>3, <3>2
      <4>2. (source.pushed - Len(q)) + (Len(q) + 1) = source.pushed + 1
        BY <1>3
      <4> QED BY <3>2, <4>1, <4>2 DEF Emitted
    <3> QED BY <1>3, <2>2, <3>1, <3>2
  <2>3. ~s.endEmitted
    BY <1>1, <1>2, <1>5 DEF SourceOK
  <2>4. Len(s.buffer) <= s.pushed
    BY <1>3, <1>5, <2>1
  <2> QED BY <1>5, <1>7, <2>2, <2>3, <2>4 DEF SourceOK
<1>9. /\ u \in PipeStates /\ u.s = s /\ u.w = State.w /\ u.missed = State.missed
  BY <1>1, <1>6 DEF PipeStates
<1> HIDE DEF u, t
<1>10. PipeOK(u)
  BY <1>1, <1>5, <1>7, <1>8, <1>9, SourceStep
<1>11. PipeOK(EmitData(u))
  BY <1>10, EmitDataIsOK
<1>12. \A x : PipeOK(x) /\ Turns(x) => PipeOK(State')
  BY TurnsTo DEF PipeOK, Sound
<1>13. PipeOK(State')
  BY <1>2, <1>4, <1>10, <1>11, <1>12
<1> QED BY <1>13 DEF PipeIInv

LEMMA SourceEndsOK ==
  ASSUME PipeIInv, PushNull \/ SourceDestroy
  PROVE  PipeIInv'
<1>1. PipeOK(State) /\ State \in PipeStates /\ SourceOK(source) /\ source \in Sources
      /\ State.s = source /\ micro \in Seq(Micros) /\ State.queue = micro
  BY StateIs, StateTypes DEF PipeIInv, PipeOK, Sound
<1>2. \A x : PipeOK(x) /\ Turns(x) => PipeOK(State')
  BY TurnsTo DEF PipeOK, Sound
<1>3. CASE PushNull
  <2> DEFINE s == [source EXCEPT !.ended = TRUE]
             u == [State EXCEPT !.s = s]
  <2>1. Turns(MaybeEnd(u))
    BY <1>3, StateIs DEF PushNull, State
  <2>2. /\ s \in Sources /\ s.buffer = source.buffer /\ s.pushed = source.pushed
        /\ s.endEmitted = source.endEmitted /\ s.flowing = source.flowing
        /\ s.pipes = source.pipes /\ s.ended
    BY <1>1 DEF Sources
  <2> HIDE DEF s
  <2>3. SourceOK(s) /\ Emitted(s) = Emitted(source)
    BY <1>1, <2>2 DEF SourceOK, Emitted
  <2>4. u \in PipeStates /\ u.s = s /\ u.w = State.w /\ u.missed = State.missed
    BY <1>1, <2>2 DEF PipeStates
  <2> HIDE DEF u
  <2>5. PipeOK(u)
    BY <1>1, <2>2, <2>3, <2>4, SourceStep
  <2> QED BY <1>2, <2>1, <2>5, MaybeEndIsSound DEF PipeIInv
<1>4. CASE SourceDestroy
  <2>1. PICK queued \in {<< >>, << Micro("error") >>} :
          Turns([State EXCEPT !.s.destroyed = TRUE, !.s.ended = TRUE,
                              !.queue = @ \o queued])
    BY <1>4 DEF SourceDestroy
  <2> DEFINE s == [source EXCEPT !.destroyed = TRUE, !.ended = TRUE]
             u == [State EXCEPT !.s = s, !.queue = micro \o queued]
  <2>2. Turns(u)
    BY <2>1, StateIs DEF State
  <2>3. /\ s \in Sources /\ s.buffer = source.buffer /\ s.pushed = source.pushed
        /\ s.endEmitted = source.endEmitted /\ s.flowing = source.flowing
        /\ s.pipes = source.pipes /\ s.ended
    BY <1>1 DEF Sources
  <2> HIDE DEF s
  <2>4. SourceOK(s) /\ Emitted(s) = Emitted(source)
    BY <1>1, <2>3 DEF SourceOK, Emitted
  <2>5. micro \o queued \in Seq(Micros)
    <3>1. queued \in Seq(Micros)
      <4>1. Micro("error") \in Micros
        BY DEF Micro, Micros
      <4>2. << >> \in Seq(Micros) /\ << Micro("error") >> \in Seq(Micros)
        BY <4>1
      <4> QED BY <4>2
    <3> QED BY <1>1, <3>1
  <2>6. u \in PipeStates /\ u.s = s /\ u.w = State.w /\ u.missed = State.missed
    BY <1>1, <2>3, <2>5 DEF PipeStates
  <2> HIDE DEF u
  <2>7. PipeOK(u)
    BY <1>1, <2>3, <2>4, <2>6, SourceStep
  <2> QED BY <1>2, <2>2, <2>7 DEF PipeIInv
<1> QED BY <1>3, <1>4

-----------------------------------------------------------------------------
(* The steps of one destination.                                            *)

With(t, d, v, queue) ==
  [s |-> t.s, w |-> [t.w EXCEPT ![d] = v], queue |-> queue, missed |-> t.missed]

LEMMA DestStep ==
  ASSUME NEW t, Sound(t), NEW d \in Dest, NEW v \in Sinks, SinkOK(v),
         NEW queue \in Seq(Micros),
         Accepted(v) = Accepted(t.w[d]), t.w[d].failed => v.failed,
         v.ended /\ ~v.cut => t.w[d].ended /\ ~t.w[d].cut
  PROVE  /\ Sound(With(t, d, v, queue)) /\ With(t, d, v, queue).w[d] = v
         /\ With(t, d, v, queue).s = t.s
<1> DEFINE u == With(t, d, v, queue)
<1>1. t \in PipeStates /\ t.w \in [Dest -> Sinks]
  BY StateTypes DEF Sound
<1>2. /\ u.s = t.s /\ u.missed = t.missed /\ u.w[d] = v
      /\ \A e \in Dest : e # d => u.w[e] = t.w[e]
      /\ u \in PipeStates
  BY <1>1 DEF With, PipeStates
<1> HIDE DEF u
<1>3. ASSUME NEW e \in Dest PROVE SinkOK(u.w[e]) /\ OrderOK(u, e) /\ EndOK(u, e)
  <2>1. SinkOK(t.w[e]) /\ OrderOK(t, e) /\ EndOK(t, e)
    BY DEF Sound
  <2>2. CASE e = d
    <3>1. OrderOK(u, d)
      BY <1>2, <2>1, <2>2 DEF OrderOK
    <3>2. EndOK(u, d)
      BY <1>2, <2>1, <2>2 DEF EndOK
    <3> QED BY <1>2, <2>2, <3>1, <3>2
  <2>3. CASE e # d
    BY <1>2, <2>1, <2>3 DEF OrderOK, EndOK
  <2> QED BY <2>2, <2>3
<1>4. Sound(u)
  BY <1>2, <1>3 DEF Sound
<1> QED BY <1>2, <1>4 DEF u

(* ... that holds as much as before.                                        *)
LEMMA QuietDestStep ==
  ASSUME NEW t, PipeOK(t), NEW d \in Dest, NEW v \in Sinks, SinkOK(v),
         NEW queue \in Seq(Micros),
         SameHeld(v, t.w[d]), t.w[d].failed => v.failed, v.piped = t.w[d].piped,
         v.ended /\ ~v.cut => t.w[d].ended /\ ~t.w[d].cut,
         Refuses(t.w[d]) => Refuses(v)
  PROVE  PipeOK(With(t, d, v, queue))
<1> DEFINE u == With(t, d, v, queue)
<1>1. Sound(u) /\ u.w[d] = v /\ u.s = t.s
  BY DestStep DEF PipeOK, SameHeld
<1> HIDE DEF u
<1>2. ASSUME Alone PROVE Draining(u, d)
  <2>1. Draining(t, d) /\ t.w[d] \in Sinks
    BY <1>2, StateTypes DEF PipeOK, Sound
  <2>2. t.w[d].length \in Nat
    BY <2>1, SinkTypes
  <2>3. Held(u, d)
    BY <1>1, <2>1, <2>2 DEF Draining, Held, SameHeld
  <2>4. Asks(u, d) /\ Pauses(u, d)
    BY <1>1, <2>1 DEF Draining, Asks, Pauses, SameHeld
  <2>5. u.s.flowing = "flowing" => Fits(u, d)
    BY <1>1, <2>1 DEF Draining, Fits, SameHeld
  <2> QED BY <2>3, <2>4, <2>5 DEF Draining
<1>3. Alone => \A e \in Dest : e = d
  BY DEF Alone
<1> QED BY <1>1, <1>2, <1>3 DEF PipeOK, u

(* ... as the step of the system.                                           *)
LEMMA DestTurns ==
  ASSUME PipeIInv, NEW d \in Dest, NEW v, NEW queue,
         Turns(With(State, d, v, queue)), PipeOK(With(State, d, v, queue))
  PROVE  PipeIInv'
<1>1. State' = With(State, d, v, queue)
  BY TurnsTo DEF PipeOK, Sound
<1> QED BY <1>1 DEF PipeIInv

LEMMA DestIs ==
  ASSUME PipeIInv, NEW d \in Dest
  PROVE  /\ State.w = dest /\ dest[d] \in Sinks /\ SinkOK(dest[d])
         /\ micro \in Seq(Micros) /\ PipeOK(State) /\ dest \in [Dest -> Sinks]
         /\ State = [s |-> source, w |-> dest, queue |-> micro, missed |-> missed]
  BY StateIs, StateTypes DEF PipeIInv, PipeOK, Sound, State

LEMMA WithIs ==
  ASSUME PipeIInv, NEW d \in Dest, NEW v, NEW queue
  PROVE  /\ [State EXCEPT !.w[d] = v] = With(State, d, v, micro)
         /\ [State EXCEPT !.w[d] = v, !.queue = queue] = With(State, d, v, queue)
<1> DEFINE f == [dest EXCEPT ![d] = v]
<1>1. [State EXCEPT !.w[d] = v] = [State EXCEPT !.w = f]
  BY DEF State
<1>2. [State EXCEPT !.w[d] = v, !.queue = queue] = [State EXCEPT !.w = f, !.queue = queue]
  BY DEF State
<1>3. /\ With(State, d, v, micro) = [s |-> source, w |-> f, queue |-> micro, missed |-> missed]
      /\ With(State, d, v, queue) = [s |-> source, w |-> f, queue |-> queue, missed |-> missed]
  BY DEF With, State
<1> HIDE DEF f
<1>4. [State EXCEPT !.w = f] = [s |-> source, w |-> f, queue |-> micro, missed |-> missed]
  BY DEF State
<1>5. [State EXCEPT !.w = f, !.queue = queue]
        = [s |-> source, w |-> f, queue |-> queue, missed |-> missed]
  <2>1. [State EXCEPT !.w = f, !.queue = queue] = [[State EXCEPT !.w = f] EXCEPT !.queue = queue]
    OBVIOUS
  <2>2. [[s |-> source, w |-> f, queue |-> micro, missed |-> missed] EXCEPT !.queue = queue]
          = [s |-> source, w |-> f, queue |-> queue, missed |-> missed]
    OBVIOUS
  <2> QED BY <1>4, <2>1, <2>2
<1> QED BY <1>1, <1>2, <1>3, <1>4, <1>5

LEMMA FinalIsOK ==
  ASSUME PipeIInv, NEW d \in Dest, FinalDone(d) \/ FinalFails(d)
  PROVE  PipeIInv'
<1> DEFINE w == dest[d]
           quiet == [w EXCEPT !.finalizing = FALSE]
           done == [quiet EXCEPT !.finished = TRUE]
           failed == [quiet EXCEPT !.failed = TRUE]
<1>1. /\ State.w = dest /\ w \in Sinks /\ SinkOK(w) /\ micro \in Seq(Micros)
      /\ PipeOK(State) /\ w.finalizing
  BY DestIs DEF FinalDone, FinalFails
<1>2. w.writing = NoChunk /\ w.buffer = << >> /\ w.ended
  BY <1>1 DEF SinkOK, Firm
<1>3. PICK v \in {done, failed} : Turns(With(State, d, v, micro))
  <2>1. CASE FinalDone(d)
    <3>1. [State EXCEPT !.w[d].finalizing = FALSE, !.w[d].finished = TRUE]
            = [State EXCEPT !.w[d] = done]
      BY <1>1, DestIs
    <3>2. Turns([State EXCEPT !.w[d] = done])
      BY <2>1, <3>1 DEF FinalDone
    <3> HIDE DEF done
    <3>3. Turns(With(State, d, done, micro))
      BY <3>2, WithIs
    <3> QED BY <3>3
  <2>2. CASE FinalFails(d)
    <3>1. [State EXCEPT !.w[d].finalizing = FALSE, !.w[d].failed = TRUE]
            = [State EXCEPT !.w[d] = failed]
      BY <1>1, DestIs
    <3>2. Turns([State EXCEPT !.w[d] = failed])
      BY <2>2, <3>1 DEF FinalFails
    <3> HIDE DEF failed
    <3>3. Turns(With(State, d, failed, micro))
      BY <3>2, WithIs
    <3> QED BY <3>3
  <2> QED BY <2>1, <2>2
<1>4. v \in Sinks
  <2>1. quiet \in Sinks
    BY <1>1, SinkFields
  <2> HIDE DEF quiet
  <2>2. done \in Sinks /\ failed \in Sinks
    BY <2>1, SinkFields
  <2> QED BY <2>2
<1>5. /\ v.buffer = w.buffer /\ v.writing = w.writing /\ v.taken = w.taken
      /\ v.length = w.length /\ v.needDrain = w.needDrain /\ v.piped = w.piped
      /\ v.ended = w.ended /\ v.cut = w.cut /\ v.destroyed = w.destroyed
      /\ (w.failed => v.failed) /\ ~v.finalizing
  BY <1>1 DEF Sinks
<1> HIDE DEF done, failed, w
<1>6. \A n : Weighs(v, n) <=> Weighs(w, n)
  BY <1>5 DEF Weighs, InHand
<1>7. SinkOK(v)
  BY <1>1, <1>2, <1>5, <1>6 DEF SinkOK, Firm, Busy
<1>8. SameHeld(v, w)
  BY <1>5, <1>6 DEF SameHeld, Accepted
<1>9. PipeOK(With(State, d, v, micro))
  BY <1>1, <1>4, <1>5, <1>7, <1>8, QuietDestStep DEF Refuses, w
<1> QED BY <1>3, <1>9, DestTurns

LEMMA CorksAreOK ==
  ASSUME PipeIInv, NEW d \in Dest, Cork(d) \/ Uncork(d)
  PROVE  PipeIInv'
<1> DEFINE w == dest[d]
<1>1. /\ State.w = dest /\ w \in Sinks /\ SinkOK(w) /\ micro \in Seq(Micros)
      /\ PipeOK(State)
  BY DestIs
<1>2. ASSUME NEW b \in BOOLEAN
      PROVE  LET v == [w EXCEPT !.corked = b]
             IN /\ v \in Sinks /\ Firm(v) /\ SameHeld(v, w) /\ SameCalls(v, w)
                /\ v.corked = b
  <2> DEFINE v == [w EXCEPT !.corked = b]
  <2>1. v \in Sinks
    BY <1>1, SinkFields
  <2>2. /\ v.buffer = w.buffer /\ v.writing = w.writing /\ v.taken = w.taken
        /\ v.length = w.length /\ v.needDrain = w.needDrain /\ SameCalls(v, w)
        /\ v.finalizing = w.finalizing /\ v.finished = w.finished /\ v.corked = b
    BY <1>1 DEF Sinks, SameCalls
  <2> HIDE DEF v, w
  <2>3. \A n : Weighs(v, n) <=> Weighs(w, n)
    BY <2>2 DEF Weighs, InHand
  <2>4. Firm(v)
    BY <1>1, <2>2, <2>3 DEF SinkOK, Firm, Busy, SameCalls
  <2>5. SameHeld(v, w)
    BY <2>2, <2>3 DEF SameHeld, Accepted
  <2> QED BY <2>1, <2>2, <2>4, <2>5 DEF v
<1>3. CASE Cork(d)
  <2> DEFINE v == [w EXCEPT !.corked = TRUE]
  <2>1. Turns(With(State, d, v, micro))
    <3>1. Turns([State EXCEPT !.w[d] = v])
      BY <1>1, <1>3 DEF Cork, State
    <3> HIDE DEF v
    <3> QED BY <3>1, WithIs
  <2>2. v \in Sinks /\ Firm(v) /\ SameHeld(v, w) /\ SameCalls(v, w) /\ v.corked
    BY <1>2
  <2> HIDE DEF v
  <2>3. SinkOK(v)
    BY <2>2 DEF SinkOK
  <2>4. PipeOK(With(State, d, v, micro))
    BY <1>1, <2>2, <2>3, QuietDestStep DEF Refuses, SameCalls
  <2> QED BY <2>1, <2>4, DestTurns
<1>4. CASE Uncork(d)
  <2> DEFINE u == [w EXCEPT !.corked = FALSE]
             v == Cleared(u)
  <2>1. Turns(With(State, d, v, micro))
    <3>1. Turns([State EXCEPT !.w[d] = v])
      BY <1>1, <1>4 DEF Uncork
    <3> HIDE DEF v
    <3> QED BY <3>1, WithIs
  <2>2. u \in Sinks /\ Firm(u) /\ SameHeld(u, w) /\ SameCalls(u, w)
    BY <1>2
  <2> HIDE DEF u
  <2>3. v \in Sinks /\ SinkOK(v) /\ SameCalls(v, u) /\ SameHeld(v, u)
    BY <2>2, ClearedIsOK
  <2> HIDE DEF v
  <2>4. SameHeld(v, w) /\ SameCalls(v, w)
    BY <2>2, <2>3 DEF SameHeld, SameCalls
  <2>5. PipeOK(With(State, d, v, micro))
    BY <1>1, <2>3, <2>4, QuietDestStep DEF Refuses, SameCalls
  <2> QED BY <2>1, <2>5, DestTurns
<1> QED BY <1>3, <1>4

LEMMA EndsAreOK ==
  ASSUME PipeIInv, NEW d \in Dest, End(d) \/ Destroy(d)
  PROVE  PipeIInv'
<1> DEFINE w == dest[d]
<1>1. /\ State.w = dest /\ w \in Sinks /\ SinkOK(w) /\ micro \in Seq(Micros)
      /\ PipeOK(State)
  BY DestIs
<1>2. CASE End(d)
  <2> DEFINE u == Ended(d, w)
             v == [u EXCEPT !.cut = TRUE]
  <2>1. Turns(With(State, d, v, micro))
    <3>1. Turns([State EXCEPT !.w[d] = v])
      BY <1>1, <1>2 DEF End
    <3> HIDE DEF v
    <3> QED BY <3>1, WithIs
  <2>2. /\ u \in Sinks /\ SinkOK(u) /\ SameHeld(u, w) /\ u.ended
        /\ u.destroyed = w.destroyed /\ u.piped = w.piped /\ u.failed = w.failed
    BY <1>1, EndedIsOK
  <2> HIDE DEF u
  <2>3. v \in Sinks
    BY <2>2, SinkFields
  <2>4. /\ v.buffer = u.buffer /\ v.writing = u.writing /\ v.taken = u.taken
        /\ v.length = u.length /\ v.needDrain = u.needDrain /\ v.piped = u.piped
        /\ v.destroyed = u.destroyed /\ v.failed = u.failed /\ v.ended = u.ended
        /\ v.finalizing = u.finalizing /\ v.finished = u.finished
        /\ v.corked = u.corked /\ v.cut
    BY <2>2 DEF Sinks
  <2> HIDE DEF v
  <2>5. \A n : Weighs(v, n) <=> Weighs(u, n)
    BY <2>4 DEF Weighs, InHand
  <2>6. SinkOK(v)
    BY <2>2, <2>4, <2>5 DEF SinkOK, Firm, Busy
  <2>7. SameHeld(v, w)
    BY <2>2, <2>4, <2>5 DEF SameHeld, Accepted
  <2>8. PipeOK(With(State, d, v, micro))
    BY <1>1, <2>2, <2>3, <2>4, <2>6, <2>7, QuietDestStep DEF Refuses
  <2> QED BY <2>1, <2>8, DestTurns
<1>3. CASE Destroy(d)
  <2> DEFINE v == [w EXCEPT !.destroyed = TRUE]
             queue == Append(micro, CloseTask(d))
  <2>1. Turns(With(State, d, v, queue))
    <3>1. [State EXCEPT !.w[d].destroyed = TRUE, !.queue = Append(@, CloseTask(d))]
            = [State EXCEPT !.w[d] = v, !.queue = queue]
      BY DEF State
    <3>2. Turns([State EXCEPT !.w[d] = v, !.queue = queue])
      BY <1>3, <3>1 DEF Destroy
    <3> HIDE DEF v, queue
    <3> QED BY <3>2, WithIs
  <2>2. v \in Sinks
    BY <1>1, SinkFields
  <2>3. /\ v.buffer = w.buffer /\ v.writing = w.writing /\ v.taken = w.taken
        /\ v.length = w.length /\ v.needDrain = w.needDrain /\ v.piped = w.piped
        /\ v.destroyed /\ v.failed = w.failed /\ v.ended = w.ended
        /\ v.finalizing = w.finalizing /\ v.finished = w.finished
        /\ v.corked = w.corked /\ v.cut = w.cut
    BY <1>1 DEF Sinks
  <2>4. queue \in Seq(Micros)
    <3>1. CloseTask(d) \in Micros
      BY DEF CloseTask, Micros
    <3> QED BY <1>1, <3>1
  <2> HIDE DEF v, queue, w
  <2>5. \A n : Weighs(v, n) <=> Weighs(w, n)
    BY <2>3 DEF Weighs, InHand
  <2>6. SinkOK(v)
    BY <1>1, <2>3, <2>5 DEF SinkOK, Firm, Busy
  <2>7. SameHeld(v, w)
    BY <2>3, <2>5 DEF SameHeld, Accepted
  <2>8. PipeOK(With(State, d, v, queue))
    BY <1>1, <2>2, <2>3, <2>4, <2>6, <2>7, QuietDestStep DEF Refuses, w
  <2> QED BY <2>1, <2>8, DestTurns
<1> QED BY <1>2, <1>3

(* The callback of _write takes a chunk off what is held: as much as it put *)
(* there, when the two lengths are one, and else no more.                   *)
LEMMA AnsweredIsOK ==
  ASSUME NEW w \in Sinks, SinkOK(w), w.writing # NoChunk
  PROVE  LET v == Answered(w)
         IN /\ v \in Sinks /\ Firm(v) /\ SameCalls(v, w) /\ v.needDrain = w.needDrain
            /\ v.buffer = w.buffer /\ v.corked = w.corked /\ v.writing = NoChunk
            /\ v.finalizing = w.finalizing /\ v.finished = w.finished
            /\ Accepted(v) = Accepted(w) /\ v.length <= w.length
            /\ Bytes = Units /\ Weighs(w, w.length) => Weighs(v, v.length)
<1> DEFINE c == w.writing
           v == Answered(w)
           less == [w EXCEPT !.length = w.length - Units[c]]
<1>1. /\ c \in Chunk /\ w.length \in Nat /\ Bytes[c] \in Nat /\ Units[c] \in Nat
      /\ Units[c] <= Bytes[c] /\ w.buffer \in Seq(Chunk)
  BY SinkTypes, PipeAssumption
<1>2. ~w.finalizing /\ ~w.finished
  BY DEF SinkOK, Firm, Busy
<1>3. ASSUME NEW n, Weighs(w, n)
      PROVE  n \in Nat /\ n >= Bytes[c] /\ \E rest : Adds(rest, w.buffer) /\ rest[1] = n - Bytes[c]
  <2>1. PICK rest : Adds(rest, w.buffer) /\ n = rest[1] + InHand(w)
    BY <1>3 DEF Weighs
  <2>2. InHand(w) = Bytes[c] /\ rest[1] \in Nat
    BY <1>1, <2>1 DEF InHand, Adds
  <2>3. n \in Nat /\ n >= Bytes[c] /\ rest[1] = n - Bytes[c]
    BY <1>1, <2>1, <2>2
  <2> QED BY <2>1, <2>3
<1>4. PICK n \in Nat : Weighs(w, n) /\ n <= w.length
  BY DEF SinkOK, Firm
<1>5. w.length - Units[c] \in Nat /\ w.length - Units[c] <= w.length
      /\ n - Bytes[c] \in Nat /\ n - Bytes[c] <= w.length - Units[c]
  BY <1>1, <1>3, <1>4
<1>6. v \in Sinks
  <2>1. less \in Sinks
    BY <1>5, SinkFields
  <2>2. v = [less EXCEPT !.writing = NoChunk]
    BY DEF Answered, Sinks
  <2> HIDE DEF less, v
  <2> QED BY <2>1, <2>2, SinkFields
<1>7. /\ SameCalls(v, w) /\ v.needDrain = w.needDrain /\ v.taken = w.taken
      /\ v.buffer = w.buffer /\ v.corked = w.corked /\ v.writing = NoChunk
      /\ v.finalizing = w.finalizing /\ v.finished = w.finished
      /\ v.length = w.length - Units[c]
  BY DEF Answered, Sinks, SameCalls
<1> SUFFICES /\ Firm(v) /\ Accepted(v) = Accepted(w)
             /\ Bytes = Units /\ Weighs(w, w.length) => Weighs(v, v.length)
  BY <1>5, <1>6, <1>7
<1> HIDE DEF v
<1>8. \A x \in Nat : (\E rest : Adds(rest, w.buffer) /\ rest[1] = x) => Weighs(v, x)
  <2> SUFFICES ASSUME NEW x \in Nat, NEW rest, Adds(rest, w.buffer), rest[1] = x
               PROVE  Weighs(v, x)
    OBVIOUS
  <2>1. InHand(v) = 0 /\ x = rest[1] + 0
    BY <1>7 DEF InHand
  <2> QED BY <1>7, <2>1 DEF Weighs
<1>9. Firm(v)
  <2>1. Weighs(v, n - Bytes[c]) /\ n - Bytes[c] <= v.length
    BY <1>3, <1>4, <1>5, <1>7, <1>8
  <2> QED BY <1>2, <1>5, <1>7, <2>1 DEF Firm
<1>10. ASSUME Bytes = Units, Weighs(w, w.length) PROVE Weighs(v, v.length)
  <2>1. v.length = w.length - Bytes[c] /\ w.length - Bytes[c] \in Nat
    BY <1>5, <1>7, <1>10
  <2> QED BY <1>3, <1>8, <1>10, <2>1
<1> QED BY <1>7, <1>9, <1>10 DEF Accepted

LEMMA SinkFailsIsOK ==
  ASSUME PipeIInv, NEW d \in Dest, SinkFails(d)
  PROVE  PipeIInv'
<1> DEFINE w == dest[d]
           a == Answered(w)
           v == [a EXCEPT !.failed = TRUE]
           u == With(State, d, v, micro)
<1>1. /\ State.w = dest /\ w \in Sinks /\ SinkOK(w) /\ micro \in Seq(Micros)
      /\ PipeOK(State) /\ w.writing # NoChunk /\ Sound(State)
  BY DestIs DEF SinkFails, PipeOK
<1>2. Turns(u)
  <2>1. Turns([State EXCEPT !.w[d] = v])
    BY <1>1 DEF SinkFails
  <2> HIDE DEF v
  <2> QED BY <2>1, WithIs
<1>3. /\ a \in Sinks /\ Firm(a) /\ SameCalls(a, w) /\ a.needDrain = w.needDrain
      /\ Accepted(a) = Accepted(w) /\ a.length <= w.length
      /\ Bytes = Units /\ Weighs(w, w.length) => Weighs(a, a.length)
  BY <1>1, AnsweredIsOK
<1> HIDE DEF a
<1>4. v \in Sinks
  BY <1>3, SinkFields
<1>5. /\ v.buffer = a.buffer /\ v.writing = a.writing /\ v.taken = a.taken
      /\ v.length = a.length /\ v.needDrain = a.needDrain /\ v.piped = a.piped
      /\ v.ended = a.ended /\ v.cut = a.cut /\ v.destroyed = a.destroyed
      /\ v.failed /\ v.finalizing = a.finalizing /\ v.finished = a.finished
  BY <1>3 DEF Sinks
<1> HIDE DEF v
<1>6. \A n : Weighs(v, n) <=> Weighs(a, n)
  BY <1>5 DEF Weighs, InHand
<1>7. SinkOK(v)
  BY <1>3, <1>5, <1>6 DEF SinkOK, Firm, Busy
<1>8. Accepted(v) = Accepted(w)
  BY <1>3, <1>5 DEF Accepted
<1>9. Sound(u) /\ u.w[d] = v /\ u.s = source
  BY <1>1, <1>3, <1>4, <1>5, <1>7, <1>8, DestStep, StateIs DEF SameCalls
<1> HIDE DEF u
<1>10. ASSUME Alone PROVE Draining(u, d)
  <2>1. Draining(State, d)
    BY <1>1, <1>10 DEF PipeOK
  <2>2. /\ w.length \in Nat /\ v.length \in Nat /\ v.length <= w.length
        /\ w.piped \in Nat /\ v.piped = w.piped /\ HighWaterMark \in Nat
    BY <1>1, <1>3, <1>4, <1>5, SinkTypes, PipeAssumption DEF SameCalls
  <2>3. /\ Room(w.piped) \in Int
        /\ w.piped >= 1 => Room(w.piped - 1) \in Int
    BY <2>2, RoomIs
  <2>4. Weighs(v, v.length)
    BY <1>1, <1>3, <1>5, <1>6, <1>10, <2>1 DEF Draining, Held, Alone
  <2>5. Held(u, d)
    <3>1. /\ w.length >= HighWaterMark => w.needDrain
          /\ d \in source.pipes => w.piped >= 1
          /\ w.length <= Room(w.piped)
      BY <1>1, <2>1, StateIs DEF Draining, Held
    <3>2. /\ v.length >= HighWaterMark => v.needDrain
          /\ v.length <= Room(w.piped)
      BY <1>3, <1>5, <2>2, <2>3, <3>1
    <3> QED BY <1>9, <2>2, <2>4, <3>1, <3>2 DEF Held
  <2>6. Asks(u, d)
    BY <1>5, <1>9 DEF Asks
  <2>7. Pauses(u, d)
    BY <1>1, <1>3, <1>5, <1>9, <2>1, StateIs DEF Draining, Pauses, Refuses, SameCalls
  <2>8. u.s.flowing = "flowing" => Fits(u, d)
    <3> SUFFICES ASSUME u.s.flowing = "flowing", d \in source.pipes
                 PROVE  v.length <= Room(w.piped - 1)
      BY <1>9, <2>2 DEF Fits
    <3>1. w.length <= Room(w.piped - 1) /\ w.piped >= 1
      BY <1>1, <1>9, <2>1, StateIs DEF Draining, Fits, Held
    <3> QED BY <2>2, <2>3, <3>1
  <2> QED BY <2>5, <2>6, <2>7, <2>8 DEF Draining
<1>11. Alone => \A e \in Dest : e = d
  BY DEF Alone
<1>12. PipeOK(u)
  BY <1>9, <1>10, <1>11 DEF PipeOK
<1> QED BY <1>2, <1>12, DestTurns DEF u

(* resume(), by who finds room: of a pipe that is new, or drained.          *)
LEMMA ResumedIsOK ==
  ASSUME NEW t, Sound(t),
         Alone => \A d \in Dest : Held(t, d) /\ Asks(t, d) /\ Fits(t, d)
  PROVE  PipeOK(Resumed(t))
<1> DEFINE u == Resumed(t)
<1>1. t \in PipeStates /\ t.s \in Sources /\ t.queue \in Seq(Micros) /\ SourceOK(t.s)
  BY StateTypes DEF Sound
<1>2. /\ u \in PipeStates /\ u.w = t.w /\ u.missed = t.missed /\ u.s.flowing = "flowing"
      /\ u.s.pipes = t.s.pipes /\ u.s.pushed = t.s.pushed /\ u.s.buffer = t.s.buffer
      /\ u.s.ended = t.s.ended /\ u.s.endEmitted = t.s.endEmitted
  <2>1. CASE t.s.flowing = "flowing"
    BY <1>1, <2>1 DEF Resumed
  <2>2. CASE t.s.flowing # "flowing"
    <3> DEFINE s == [t.s EXCEPT !.flowing = "flowing"]
               queue == Append(t.queue, Micro("flow"))
    <3>1. u = [t EXCEPT !.s = s, !.queue = queue]
      BY <1>1, <2>2 DEF Resumed, PipeStates
    <3>2. /\ s \in Sources /\ s.flowing = "flowing" /\ s.pipes = t.s.pipes
          /\ s.pushed = t.s.pushed /\ s.buffer = t.s.buffer
          /\ s.ended = t.s.ended /\ s.endEmitted = t.s.endEmitted
      BY <1>1 DEF Sources
    <3>3. queue \in Seq(Micros)
      <4>1. Micro("flow") \in Micros
        BY DEF Micro, Micros
      <4> QED BY <1>1, <4>1
    <3> HIDE DEF s, queue, u
    <3>4. u \in PipeStates /\ u.s = s /\ u.w = t.w /\ u.missed = t.missed
      BY <1>1, <3>1, <3>2, <3>3 DEF PipeStates
    <3> QED BY <3>2, <3>4
  <2> QED BY <2>1, <2>2
<1> HIDE DEF u
<1>3. SourceOK(u.s) /\ Emitted(u.s) = Emitted(t.s)
  BY <1>1, <1>2 DEF SourceOK, Emitted
<1>4. Sound(u)
  BY <1>2, <1>3 DEF Sound, OrderOK, EndOK
<1>5. ASSUME Alone, NEW d \in Dest PROVE Draining(u, d)
  BY <1>2, <1>5 DEF Draining, Held, Asks, Pauses, Fits
<1> QED BY <1>4, <1>5 DEF PipeOK, u

(* After a chunk was taken off, and the next one given to _write, 'drain'.  *)
LEMMA SinkDoneIsOK ==
  ASSUME PipeIInv, NEW d \in Dest, SinkDone(d)
  PROVE  PipeIInv'
<1> DEFINE w == dest[d]
           a == Answered(w)
           v == Continued(d, a)
           t == With(State, d, v, micro)
           quiet == [v EXCEPT !.needDrain = FALSE]
           drained == With(t, d, quiet, micro)
<1>1. /\ State.w = dest /\ w \in Sinks /\ SinkOK(w) /\ micro \in Seq(Micros)
      /\ PipeOK(State) /\ w.writing # NoChunk /\ Sound(State)
  BY DestIs DEF SinkDone, PipeOK
<1>2. Turns(Drain(t, d))
  <2>1. Turns(Drain([State EXCEPT !.w[d] = v], d))
    BY <1>1 DEF SinkDone
  <2> HIDE DEF v
  <2> QED BY <2>1, WithIs
<1>3. /\ a \in Sinks /\ Firm(a) /\ SameCalls(a, w) /\ a.needDrain = w.needDrain
      /\ Accepted(a) = Accepted(w) /\ a.length <= w.length
      /\ Bytes = Units /\ Weighs(w, w.length) => Weighs(a, a.length)
  BY <1>1, AnsweredIsOK
<1> HIDE DEF a
<1>4. v \in Sinks /\ SinkOK(v) /\ SameCalls(v, a) /\ SameHeld(v, a)
  <2>1. CASE a.buffer # << >> /\ ~a.corked
    BY <1>3, <2>1, ClearedIsOK DEF Continued
  <2>2. CASE ~(a.buffer # << >> /\ ~a.corked)
    <3>1. SinkOK(a)
      BY <1>3, <2>2 DEF SinkOK
    <3> QED BY <1>3, <2>2, <3>1, FinishMaybeIsOK DEF Continued
  <2> QED BY <2>1, <2>2
<1> HIDE DEF v
<1>5. /\ SameCalls(v, w) /\ Accepted(v) = Accepted(w) /\ v.length <= w.length
      /\ v.length \in Nat /\ w.length \in Nat /\ v.needDrain = w.needDrain
      /\ Bytes = Units /\ Weighs(w, w.length) => Weighs(v, v.length)
  BY <1>1, <1>3, <1>4, SinkTypes DEF SameCalls, SameHeld
<1>6. Sound(t) /\ t.w[d] = v /\ t.s = source
  BY <1>1, <1>4, <1>5, DestStep, StateIs DEF SameCalls
<1>7. t.queue = micro
  BY DEF With
<1> HIDE DEF t
<1>8. ASSUME Alone
      PROVE  Held(t, d) /\ Pauses(t, d) /\ (t.s.flowing = "flowing" => Fits(t, d))
  <2>1. Draining(State, d)
    BY <1>1, <1>8 DEF PipeOK
  <2>2. w.piped \in Nat /\ v.piped = w.piped /\ HighWaterMark \in Nat
    BY <1>1, <1>5, SinkTypes, PipeAssumption DEF SameCalls
  <2>3. /\ Room(w.piped) \in Int
        /\ w.piped >= 1 => Room(w.piped - 1) \in Int
    BY <2>2, RoomIs
  <2>4. Weighs(v, v.length)
    BY <1>1, <1>5, <1>8, <2>1 DEF Draining, Held, Alone
  <2>5. Held(t, d)
    <3>1. /\ w.length >= HighWaterMark => w.needDrain
          /\ d \in source.pipes => w.piped >= 1
          /\ w.length <= Room(w.piped)
      BY <1>1, <2>1, StateIs DEF Draining, Held
    <3>2. /\ v.length >= HighWaterMark => v.needDrain
          /\ v.length <= Room(w.piped)
      BY <1>5, <2>2, <2>3, <3>1
    <3> QED BY <1>6, <2>2, <2>4, <3>1, <3>2 DEF Held
  <2>6. Pauses(t, d)
    BY <1>1, <1>5, <1>6, <2>1, StateIs DEF Draining, Pauses, Refuses, SameCalls
  <2>7. t.s.flowing = "flowing" => Fits(t, d)
    <3> SUFFICES ASSUME t.s.flowing = "flowing", d \in source.pipes
                 PROVE  v.length <= Room(w.piped - 1)
      BY <1>6, <2>2 DEF Fits
    <3>1. w.length <= Room(w.piped - 1) /\ w.piped >= 1
      BY <1>1, <1>6, <2>1, StateIs DEF Draining, Fits, Held
    <3> QED BY <1>5, <2>2, <2>3, <3>1
  <2> QED BY <2>5, <2>6, <2>7
<1>9. Alone => \A e \in Dest : e = d
  BY DEF Alone
<1>10. CASE ~v.needDrain \/ v.length >= HighWaterMark
  <2>1. Drain(t, d) = t
    BY <1>6, <1>10 DEF Drain
  <2>2. Asks(t, d)
    BY <1>6, <1>10 DEF Asks
  <2>3. PipeOK(t)
    BY <1>6, <1>8, <1>9, <2>2 DEF PipeOK, Draining
  <2> QED BY <1>2, <2>1, <2>3, DestTurns DEF t
<1>11. CASE v.needDrain /\ v.length < HighWaterMark
  <2>1. [t EXCEPT !.w[d].needDrain = FALSE] = drained
    <3>1. t = [s |-> t.s, w |-> t.w, queue |-> t.queue, missed |-> t.missed]
      BY <1>6 DEF Sound, PipeStates
    <3>2. t.w \in [Dest -> Sinks]
      BY <1>6, StateTypes DEF Sound
    <3> DEFINE f == [t.w EXCEPT ![d] = quiet]
    <3>3. [t EXCEPT !.w[d].needDrain = FALSE] = [t EXCEPT !.w = f]
      BY <1>6, <3>2
    <3>4. drained = [s |-> t.s, w |-> f, queue |-> t.queue, missed |-> t.missed]
      BY <1>7 DEF With
    <3> HIDE DEF f, drained
    <3> QED BY <3>1, <3>3, <3>4
  <2>2. Drain(t, d) = IF d \in source.pipes THEN Resumed(drained) ELSE drained
    <3>1. ~(~t.w[d].needDrain \/ t.w[d].length >= HighWaterMark)
      BY <1>5, <1>6, <1>11, PipeAssumption
    <3> HIDE DEF drained
    <3> QED BY <1>6, <2>1, <3>1 DEF Drain
  <2>3. quiet \in Sinks
    BY <1>4, SinkFields
  <2>4. /\ quiet.buffer = v.buffer /\ quiet.writing = v.writing /\ quiet.taken = v.taken
        /\ quiet.length = v.length /\ ~quiet.needDrain /\ quiet.piped = v.piped
        /\ quiet.ended = v.ended /\ quiet.cut = v.cut /\ quiet.corked = v.corked
        /\ quiet.destroyed = v.destroyed /\ quiet.failed = v.failed
        /\ quiet.finalizing = v.finalizing /\ quiet.finished = v.finished
    BY <1>4 DEF Sinks
  <2> HIDE DEF quiet
  <2>5. \A n : Weighs(quiet, n) <=> Weighs(v, n)
    BY <2>4 DEF Weighs, InHand
  <2>6. SinkOK(quiet) /\ Accepted(quiet) = Accepted(v)
    BY <1>4, <2>4, <2>5 DEF SinkOK, Firm, Busy, Accepted
  <2>7. Sound(drained) /\ drained.w[d] = quiet /\ drained.s = source
    BY <1>1, <1>6, <2>3, <2>4, <2>6, DestStep
  <2> HIDE DEF drained
  <2>8. ASSUME Alone PROVE Held(drained, d) /\ Asks(drained, d) /\ Fits(drained, d)
    <3>1. /\ Weighs(v, v.length) /\ (d \in source.pipes => v.piped >= 1)
          /\ v.length <= Room(v.piped)
      BY <1>6, <1>8, <2>8 DEF Held
    <3>2. v.piped \in Nat /\ HighWaterMark \in Nat
      BY <1>4, SinkTypes, PipeAssumption
    <3>3. ~(v.length >= HighWaterMark)
      BY <1>5, <1>11, <3>2
    <3>4. Held(drained, d)
      BY <2>4, <2>5, <2>7, <3>1, <3>3 DEF Held
    <3>5. Asks(drained, d)
      BY <2>4, <2>7 DEF Asks
    <3>6. ASSUME d \in source.pipes PROVE v.length <= Room(v.piped - 1)
      <4>1. Room(v.piped - 1) \in Int /\ Room(v.piped - 1) >= HighWaterMark - 1
        BY <3>1, <3>2, <3>6, RoomIs
      <4> QED BY <1>5, <1>11, <3>2, <4>1
    <3>7. Fits(drained, d)
      BY <2>4, <2>7, <3>6 DEF Fits
    <3> QED BY <3>4, <3>5, <3>7
  <2>9. PipeOK(Drain(t, d))
    <3>1. CASE d \in source.pipes
      <4>1. PipeOK(Resumed(drained))
        BY <1>9, <2>7, <2>8, ResumedIsOK
      <4> QED BY <2>2, <3>1, <4>1
    <3>2. CASE d \notin source.pipes
      <4>1. Pauses(drained, d) /\ Fits(drained, d)
        BY <2>7, <3>2 DEF Pauses, Fits
      <4>2. PipeOK(drained)
        BY <1>9, <2>7, <2>8, <4>1 DEF PipeOK, Draining
      <4> QED BY <2>2, <3>2, <4>2
    <3> QED BY <3>1, <3>2
  <2>10. State' = Drain(t, d)
    BY <1>2, <2>9, TurnsTo DEF PipeOK, Sound
  <2> QED BY <2>9, <2>10 DEF PipeIInv
<1> QED BY <1>5, <1>10, <1>11, PipeAssumption

(* A pipe that is new finds room for one more chunk.                        *)
LEMMA PipeIsOK ==
  ASSUME PipeIInv, NEW d \in Dest, Pipe(d)
  PROVE  PipeIInv'
<1> DEFINE w == dest[d]
           v == [w EXCEPT !.piped = @ + 1]
           s == [source EXCEPT !.pipes = @ \cup {d}]
           t == With([State EXCEPT !.s = s], d, v, micro)
<1>1. /\ State.w = dest /\ w \in Sinks /\ SinkOK(w) /\ micro \in Seq(Micros)
      /\ PipeOK(State) /\ Sound(State) /\ dest \in [Dest -> Sinks] /\ State \in PipeStates
      /\ source \in Sources /\ SourceOK(source) /\ w.piped < MaxPipes
      /\ d \notin source.pipes
  BY DestIs, StateIs, StateTypes DEF Pipe, PipeOK, Sound
<1>2. w.piped \in Nat /\ w.piped + 1 \in 0 .. MaxPipes /\ HighWaterMark \in Nat
      /\ w.length \in Nat
  BY <1>1, SinkTypes, PipeAssumption
<1>3. Turns(Resumed(t))
  <2> DEFINE f == [dest EXCEPT ![d] = v]
  <2>1. [State EXCEPT !.s.pipes = @ \cup {d}, !.w[d].piped = @ + 1]
          = [State EXCEPT !.s = s, !.w = f]
    BY <1>1 DEF State
  <2>2. t = [s |-> s, w |-> f, queue |-> micro, missed |-> missed]
    BY DEF With, State
  <2>3. Turns(Resumed([State EXCEPT !.s = s, !.w = f]))
    BY <2>1 DEF Pipe
  <2> HIDE DEF s, f, t
  <2>4. [State EXCEPT !.s = s] = [s |-> s, w |-> dest, queue |-> micro, missed |-> missed]
    BY DEF State
  <2>5. [State EXCEPT !.s = s, !.w = f] = t
    <3>1. [State EXCEPT !.s = s, !.w = f] = [[State EXCEPT !.s = s] EXCEPT !.w = f]
      OBVIOUS
    <3>2. [[s |-> s, w |-> dest, queue |-> micro, missed |-> missed] EXCEPT !.w = f]
            = [s |-> s, w |-> f, queue |-> micro, missed |-> missed]
      OBVIOUS
    <3> QED BY <2>2, <2>4, <3>1, <3>2
  <2> QED BY <2>3, <2>5
<1>4. v \in Sinks
  BY <1>1, <1>2, SinkFields
<1>5. /\ v.buffer = w.buffer /\ v.writing = w.writing /\ v.taken = w.taken
      /\ v.length = w.length /\ v.needDrain = w.needDrain /\ v.piped = w.piped + 1
      /\ v.ended = w.ended /\ v.cut = w.cut /\ v.corked = w.corked
      /\ v.destroyed = w.destroyed /\ v.failed = w.failed
      /\ v.finalizing = w.finalizing /\ v.finished = w.finished
  BY <1>1 DEF Sinks
<1> HIDE DEF v
<1>6. \A n : Weighs(v, n) <=> Weighs(w, n)
  BY <1>5 DEF Weighs, InHand
<1>7. SinkOK(v) /\ Accepted(v) = Accepted(w)
  BY <1>1, <1>5, <1>6 DEF SinkOK, Firm, Busy, Accepted
<1>8. /\ s \in Sources /\ s.pipes = source.pipes \cup {d} /\ s.flowing = source.flowing
      /\ s.pushed = source.pushed /\ s.buffer = source.buffer
      /\ s.ended = source.ended /\ s.endEmitted = source.endEmitted
  BY <1>1 DEF Sources
<1> HIDE DEF s
<1>9. Sound([State EXCEPT !.s = s]) /\ [State EXCEPT !.s = s].w = dest
  <2> DEFINE u == [State EXCEPT !.s = s]
  <2>1. u \in PipeStates /\ u.s = s /\ u.w = State.w /\ u.missed = State.missed
    BY <1>1, <1>8 DEF PipeStates
  <2> HIDE DEF u
  <2>2. SourceOK(u.s) /\ Emitted(u.s) = Emitted(State.s) /\ u.s.endEmitted = State.s.endEmitted
    BY <1>1, <1>8, <2>1, StateIs DEF SourceOK, Emitted
  <2>3. Sound(u)
    BY <1>1, <2>1, <2>2 DEF Sound, OrderOK, EndOK
  <2> QED BY <1>1, <2>1, <2>3 DEF u
<1>10. Sound(t) /\ t.w[d] = v /\ t.s = s
  <2>1. [State EXCEPT !.s = s].s = s
    BY DEF State
  <2> DEFINE u == [State EXCEPT !.s = s]
  <2>2. Sound(u) /\ u.w[d] = w /\ u.s = s
    BY <1>9, <2>1
  <2> HIDE DEF u
  <2>3. Sound(With(u, d, v, micro)) /\ With(u, d, v, micro).w[d] = v /\ With(u, d, v, micro).s = s
    BY <1>1, <1>4, <1>5, <1>7, <2>2, DestStep
  <2> QED BY <2>3 DEF u
<1> HIDE DEF t
<1>11. ASSUME Alone PROVE Held(t, d) /\ Asks(t, d) /\ Fits(t, d)
  <2>1. Held(State, d) /\ Asks(State, d)
    BY <1>1, <1>11 DEF PipeOK, Draining
  <2>2. /\ Weighs(w, w.length) /\ (w.length >= HighWaterMark => w.needDrain)
        /\ w.length <= Room(w.piped)
        /\ w.needDrain => w.failed \/ w.length >= HighWaterMark
    BY <1>1, <2>1 DEF Held, Asks
  <2>3. /\ w.piped + 1 \in Nat /\ w.piped + 1 >= 1 /\ (w.piped + 1) - 1 = w.piped
    BY <1>2
  <2>4. /\ Room(w.piped + 1) \in Int /\ Room((w.piped + 1) - 1) \in Int
        /\ Room(w.piped + 1) = Room((w.piped + 1) - 1) + MaxBytes /\ MaxBytes \in Nat
    BY <2>3, RoomIs, LongestIs
  <2>5. w.length <= Room(w.piped + 1)
    <3>1. \A x, y \in Int : \A z \in Nat : x <= y => x <= y + z
      OBVIOUS
    <3>2. w.length \in Int /\ Room(w.piped) \in Int /\ Room(w.piped + 1) = Room(w.piped) + MaxBytes
      BY <1>2, <2>3, <2>4
    <3> QED BY <2>2, <2>4, <3>1, <3>2
  <2>6. Held(t, d)
    BY <1>5, <1>6, <1>10, <2>2, <2>3, <2>5 DEF Held
  <2>7. Asks(t, d)
    BY <1>5, <1>10, <2>2 DEF Asks
  <2>8. Fits(t, d)
    BY <1>5, <1>10, <2>2, <2>3 DEF Fits
  <2> QED BY <2>6, <2>7, <2>8
<1>12. Alone => \A e \in Dest : e = d
  BY DEF Alone
<1>13. PipeOK(Resumed(t))
  BY <1>10, <1>11, <1>12, ResumedIsOK
<1>14. State' = Resumed(t)
  BY <1>3, <1>13, TurnsTo DEF PipeOK, Sound
<1> QED BY <1>13, <1>14 DEF PipeIInv

(* unpipe(), and the microtasks that unpipe.                                *)
LEMMA UnpipedIsOK ==
  ASSUME NEW t, PipeOK(t), NEW S
  PROVE  PipeOK(Unpiped(t, S))
<1> DEFINE s == [t.s EXCEPT !.pipes = @ \ S]
           u == [t EXCEPT !.s = s]
<1>1. t \in PipeStates /\ t.s \in Sources /\ SourceOK(t.s)
  BY StateTypes DEF PipeOK, Sound
<1>2. Unpiped(t, S) = u
  BY <1>1 DEF Unpiped, PipeStates
<1>3. /\ s \in Sources /\ s.pipes = t.s.pipes \ S /\ s.flowing = t.s.flowing
      /\ s.pushed = t.s.pushed /\ s.buffer = t.s.buffer
      /\ s.ended = t.s.ended /\ s.endEmitted = t.s.endEmitted
  BY <1>1 DEF Sources
<1> HIDE DEF s
<1>4. u \in PipeStates /\ u.s = s /\ u.w = t.w /\ u.missed = t.missed
  BY <1>1, <1>3 DEF PipeStates
<1> HIDE DEF u
<1>5. SourceOK(u.s) /\ Emitted(u.s) = Emitted(t.s) /\ u.s.pipes \subseteq t.s.pipes
  BY <1>1, <1>3, <1>4 DEF SourceOK, Emitted
<1>6. PipeOK(u)
  BY <1>3, <1>4, <1>5, SourceStep
<1> QED BY <1>2, <1>6

LEMMA UnpipeIsOK ==
  ASSUME PipeIInv, NEW d \in Dest, Unpipe(d)
  PROVE  PipeIInv'
<1>1. PipeOK(Unpiped(State, {d})) /\ Turns(Unpiped(State, {d}))
  BY UnpipedIsOK DEF Unpipe, PipeIInv
<1>2. State' = Unpiped(State, {d})
  BY <1>1, TurnsTo DEF PipeOK, Sound
<1> QED BY <1>1, <1>2 DEF PipeIInv

LEMMA RunMicrotaskIsOK ==
  ASSUME PipeIInv, RunMicrotask
  PROVE  PipeIInv'
<1> DEFINE task == Head(micro)
           t == [State EXCEPT !.queue = Tail(micro)]
<1>1. PipeOK(State) /\ State \in PipeStates /\ micro \in Seq(Micros) /\ micro # << >>
      /\ SourceOK(State.s) /\ Sound(State)
  BY StateIs, StateTypes DEF PipeIInv, PipeOK, Sound, RunMicrotask
<1>2. Tail(micro) \in Seq(Micros)
  BY <1>1
<1>3. t \in PipeStates /\ t.s = State.s /\ t.w = State.w /\ t.missed = State.missed
  BY <1>1, <1>2 DEF PipeStates
<1>4. \/ Turns(IF source.flowing = "flowing" THEN EmitData(t) ELSE t)
      \/ Turns(Unpiped(t, Dest))
      \/ Turns(Unpiped(t, {task.dest}))
  BY DEF RunMicrotask
<1> HIDE DEF t, task
<1>5. PipeOK(t)
  BY <1>1, <1>3, SourceStep
<1>6. \A x : PipeOK(x) /\ Turns(x) => PipeOK(State')
  BY TurnsTo DEF PipeOK, Sound
<1>7. PipeOK(EmitData(t)) /\ \A S : PipeOK(Unpiped(t, S))
  BY <1>5, EmitDataIsOK, UnpipedIsOK
<1>8. PipeOK(State')
  BY <1>4, <1>5, <1>6, <1>7
<1> QED BY <1>8 DEF PipeIInv

-----------------------------------------------------------------------------
(* The theorems.                                                            *)

LEMMA PipeIInvStarts ==
  ASSUME PipeInit
  PROVE  PipeIInv
<1>1. State \in PipeStates
  <2>1. source \in Sources
    BY PipeAssumption DEF PipeInit, Sources
  <2>2. dest \in [Dest -> Sinks]
    BY PipeAssumption DEF PipeInit, Sinks, NoChunk
  <2>3. micro \in Seq(Micros)
    BY DEF PipeInit
  <2>4. missed \in [Dest -> SUBSET Chunk]
    BY DEF PipeInit
  <2> QED BY <2>1, <2>2, <2>3, <2>4 DEF State, PipeStates
<1>2. SourceOK(State.s)
  BY StateIs DEF PipeInit, SourceOK, Emitted
<1>3. ASSUME NEW d \in Dest
      PROVE  /\ dest[d].length = 0 /\ dest[d].writing = NoChunk /\ dest[d].buffer = << >>
             /\ ~dest[d].finalizing /\ ~dest[d].finished /\ ~dest[d].needDrain
             /\ ~dest[d].ended /\ dest[d].taken = << >> /\ dest[d].piped = 0
             /\ missed[d] = {} /\ d \notin source.pipes
  BY DEF PipeInit
<1>4. ASSUME NEW d \in Dest PROVE Weighs(dest[d], 0)
  <2>1. PICK rest : Adds(rest, << >>) /\ rest[1] = 0
    BY NothingWeighs
  <2> QED BY <1>3, <2>1 DEF Weighs, InHand
<1>5. ASSUME NEW d \in Dest
      PROVE  SinkOK(State.w[d]) /\ OrderOK(State, d) /\ EndOK(State, d)
  <2>1. Firm(dest[d])
    BY <1>3, <1>4 DEF Firm
  <2>2. SinkOK(dest[d])
    BY <1>3, <2>1 DEF SinkOK
  <2>3. Emitted(source) = 0
    BY DEF PipeInit, Emitted
  <2>4. Accepted(dest[d]) = << >>
    BY <1>3 DEF Accepted
  <2>5. Exact(<< >>, 0, {})
    BY DEF Exact
  <2> QED BY <1>3, <2>2, <2>3, <2>4, <2>5, StateIs DEF OrderOK, EndOK
<1>6. ASSUME Alone, NEW d \in Dest PROVE Draining(State, d)
  <2>1. HighWaterMark \in Nat /\ HighWaterMark > 0 /\ 0 <= Room(0)
    <3>1. HighWaterMark \in Nat /\ HighWaterMark > 0 /\ Room(0) \in Int
          /\ Room(0) >= HighWaterMark - 1
      BY <1>6, PipeAssumption, RoomIs DEF Alone
    <3> QED BY <3>1
  <2> QED BY <1>3, <1>4, <2>1, StateIs DEF Draining, Held, Asks, Pauses, Fits
<1> QED BY <1>1, <1>2, <1>5, <1>6 DEF PipeIInv, PipeOK, Sound

LEMMA PipeIInvIsKept ==
  ASSUME PipeIInv, [PipeNext]_pipeVars
  PROVE  PipeIInv'
<1>1. CASE Push
  BY <1>1, PushIsOK
<1>2. CASE PushNull \/ SourceDestroy
  BY <1>2, SourceEndsOK
<1>3. CASE RunMicrotask
  BY <1>3, RunMicrotaskIsOK
<1>4. ASSUME NEW d \in Dest, SinkNext(d) PROVE PipeIInv'
  BY <1>4, SinkDoneIsOK, SinkFailsIsOK, FinalIsOK DEF SinkNext
<1>5. ASSUME NEW d \in Dest, WriterNext(d) PROVE PipeIInv'
  BY <1>5, PipeIsOK, UnpipeIsOK, CorksAreOK, EndsAreOK DEF WriterNext
<1>6. CASE UNCHANGED pipeVars
  <2>1. State' = State
    BY <1>6 DEF State, pipeVars
  <2> QED BY <2>1 DEF PipeIInv
<1> QED BY <1>1, <1>2, <1>3, <1>4, <1>5, <1>6 DEF PipeNext

(* Every variable keeps its type.                                           *)
THEOREM PipesAreTyped == PipeSpec => []PipeTypeOK
<1>1. PipeIInv => PipeTypeOK
  <2> SUFFICES ASSUME PipeIInv PROVE PipeTypeOK
    OBVIOUS
  <2>1. source \in Sources /\ dest \in [Dest -> Sinks] /\ micro \in Seq(Micros)
        /\ missed \in [Dest -> SUBSET Chunk]
    BY StateIs, StateTypes DEF PipeIInv, PipeOK, Sound
  <2> QED BY <2>1 DEF PipeTypeOK, Sources, Sinks, Micros
<1> QED BY <1>1, PipeIInvStarts, PipeIInvIsKept, PTL DEF PipeSpec

(* A pipe delivers the chunks its destination accepts in the order in which *)
(* they were pushed, each once and none but those it was not piped for or   *)
(* refused, and a destination finishes with all of them written (pipe, write*)
(* and _finishMaybe of streams.js), for any destinations, chunks and marks. *)
THEOREM PipesDeliver == PipeSpec => []PipeInOrder
<1>1. PipeIInv => PipeInOrder
  <2> SUFFICES ASSUME PipeIInv, NEW d \in Dest
               PROVE  (~dest[d].failed => InOrder(d)) /\ FinishIsComplete(d)
    BY DEF PipeInOrder
  <2>1. /\ SinkOK(dest[d]) /\ OrderOK(State, d) /\ EndOK(State, d) /\ SourceOK(source)
        /\ State.s = source /\ State.w = dest /\ State.missed = missed
    BY StateIs DEF PipeIInv, PipeOK, Sound
  <2>2. ~dest[d].failed => InOrder(d)
    BY <2>1 DEF OrderOK, Exact, InOrder, Emitted
  <2>3. FinishIsComplete(d)
    BY <2>1 DEF FinishIsComplete, SinkOK, Firm, EndOK, SourceOK
  <2> QED BY <2>2, <2>3
<1> QED BY <1>1, PipeIInvStarts, PipeIInvIsKept, PTL DEF PipeSpec

(* With one destination, chunks as long in bytes as in UTF-16 units and a   *)
(* high-water mark above zero, whoever was told to wait has a 'drain'       *)
(* coming, a pipe pauses its source only while it waits for one, and what   *)
(* is held is bounded by the mark, whatever is corked, unpiped, piped again *)
(* or failing.                                                              *)
THEOREM DrainsCome ==
  ASSUME Alone
  PROVE  PipeSpec => []DrainIsComing
<1>1. PipeIInv => DrainIsComing
  <2> SUFFICES ASSUME PipeIInv, NEW d \in Dest
               PROVE  /\ dest[d].needDrain /\ ~dest[d].failed =>
                           Busy(dest[d]) \/ dest[d].buffer # << >>
                      /\ PausedForAReason(d) /\ BufferBounded(d)
    BY DEF DrainIsComing, EveryDrainComes
  <2>1. Draining(State, d) /\ dest[d] \in Sinks /\ State.s = source /\ State.w = dest
    BY DestIs, StateIs DEF PipeIInv, PipeOK
  <2>2. dest[d].length \in Nat /\ HighWaterMark \in Nat /\ HighWaterMark > 0
    BY <2>1, SinkTypes, PipeAssumption DEF Alone
  <2>3. ASSUME dest[d].needDrain, ~dest[d].failed
        PROVE  Busy(dest[d]) \/ dest[d].buffer # << >>
    <3>1. dest[d].length >= HighWaterMark /\ Weighs(dest[d], dest[d].length)
      BY <2>1, <2>3 DEF Draining, Asks, Held
    <3>2. dest[d].length > 0
      BY <2>2, <3>1
    <3> QED BY <2>1, <2>2, <3>1, <3>2, SomethingWaits
  <2>4. PausedForAReason(d)
    BY <2>1 DEF Draining, Pauses, PausedForAReason
  <2>5. BufferBounded(d)
    BY <2>1 DEF Draining, Held, Room, BufferBounded
  <2> QED BY <2>3, <2>4, <2>5
<1> QED BY <1>1, PipeIInvStarts, PipeIInvIsKept, PTL DEF PipeSpec
=============================================================================
