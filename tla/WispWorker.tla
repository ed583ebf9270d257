------------------------------ MODULE WispWorker ------------------------------
(***************************************************************************)
(* The hosted Wisp server (cmd/wisp-worker/worker.js): one WebSocket and   *)
(* the sockets it has open. Unlike wisp-server-node it leaves a stream     *)
(* that has ended in its Map, has no janitor, and says nothing of a stream *)
(* that the WebSocket has closed. A connect awaits the guard and then the  *)
(* socket; whatever comes meanwhile finds no stream. The ids are those a   *)
(* client gives, each to one CONNECT.                                      *)
(***************************************************************************)
EXTENDS Integers, FiniteSets

CONSTANTS
  Id,            \* stream ids
  MaxStreams,    \* limits.maxStreamsPerSession
  MaxData        \* bound: DATA packets of a stream

VARIABLES
  ws,          \* the WebSocket
  streams,     \* the ids in the Map
  stream,      \* the CONNECT of each id and what became of it
  writing,     \* DATA packets that are being written upstream
  told,        \* the ids the client has been sent a CLOSE for
  together     \* history: connects that were waiting when another began

vars == <<ws, streams, stream, writing, told, together>>

Waiting == {"checking", "connecting"}

TypeOK ==
  /\ ws \in {"open", "closed"} /\ streams \subseteq Id
  /\ stream \in [Id -> [at : {"none", "refused", "open", "closed"} \cup Waiting,
                        late : BOOLEAN,        \* it opened after the WebSocket closed
                        unheard : BOOLEAN]]    \* its CLOSE found no stream
  /\ writing \in [Id -> 0 .. MaxData]
  /\ told \subseteq Id /\ together \in BOOLEAN

Init ==
  /\ ws = "open" /\ streams = {}
  /\ stream = [i \in Id |-> [at |-> "none", late |-> FALSE, unheard |-> FALSE]]
  /\ writing = [i \in Id |-> 0] /\ told = {} /\ together = FALSE

At(i, at) == stream' = [stream EXCEPT ![i].at = at]
Tell(i) == told' = IF ws = "open" THEN told \cup {i} ELSE told
Open == {i \in Id : stream[i].at = "open"}

-----------------------------------------------------------------------------
(* handleConnect. Too many streams, a packet too short, UDP and a port that *)
(* is not allowed are refused before anything is awaited.                   *)

Refuse(i) == At(i, "refused") /\ Tell(i) /\ UNCHANGED <<ws, streams, writing, together>>

Connect(i) ==
  /\ ws = "open" /\ stream[i].at = "none"
  /\ \/ Refuse(i)
     \/ /\ Cardinality(streams) < MaxStreams /\ At(i, "checking")
        /\ together' = (together \/ \E j \in Id : stream[j].at \in Waiting)
        /\ UNCHANGED <<ws, streams, writing, told>>

(* resolveAndCheck, then connect(): refused, unresolved, unreachable.       *)
Checked(i) ==
  /\ stream[i].at = "checking" /\ At(i, "connecting")
  /\ UNCHANGED <<ws, streams, writing, told, together>>

Fails(i) == stream[i].at \in Waiting /\ Refuse(i)

(* The socket is open and in the Map, whether or not there is a WebSocket   *)
(* any more, and whether or not the client has closed the stream.           *)
\* Mutant: the stream is put in the Map by its first read.
NotYetInMap(i) == streams

InMap(i) == streams \cup {i}

Opened(i) ==
  /\ stream[i].at = "connecting"
  /\ stream' = [stream EXCEPT ![i].at = "open", ![i].late = (ws = "closed")]
  /\ streams' = InMap(i)
  /\ UNCHANGED <<ws, writing, told, together>>

-----------------------------------------------------------------------------
(* The messages of an open stream.                                          *)

Data(i) ==
  /\ ws = "open" /\ i \in streams /\ stream[i].at = "open" /\ writing[i] < MaxData
  /\ writing' = [writing EXCEPT ![i] = @ + 1]
  /\ UNCHANGED <<ws, streams, stream, told, together>>

Written(i) ==
  /\ writing[i] > 0 /\ writing' = [writing EXCEPT ![i] = @ - 1]
  /\ UNCHANGED <<ws, streams, stream, told, together>>

(* CLOSE: closeFromClient, and the stream leaves the Map.                   *)
CloseFromClient(i) ==
  /\ ws = "open" /\ stream[i].at \notin {"none", "refused"} /\ ~stream[i].unheard
  /\ IF i \in streams
     THEN At(i, "closed") /\ streams' = streams \ {i}
     ELSE stream' = [stream EXCEPT ![i].unheard = TRUE] /\ UNCHANGED streams
  /\ UNCHANGED <<ws, writing, told, together>>

(* _closeSelf: the socket has ended or failed, or a write to it has. Its    *)
(* entry stays in the Map.                                                  *)
CloseSelf(i) == At(i, "closed") /\ Tell(i) /\ UNCHANGED <<ws, streams, together>>

ReadEnds(i) == stream[i].at = "open" /\ CloseSelf(i) /\ UNCHANGED writing

WriteFails(i) ==
  /\ writing[i] > 0 /\ writing' = [writing EXCEPT ![i] = @ - 1]
  /\ IF stream[i].at = "open" THEN CloseSelf(i)
     ELSE UNCHANGED <<ws, streams, stream, told, together>>

(* 'close' and 'error' of the WebSocket: every stream of the Map.           *)
\* Mutant: 'close' forgets the streams, and 'error' closes them.
Forgotten == stream

Closed ==
  [i \in Id |-> IF i \in streams THEN [stream[i] EXCEPT !.at = "closed"] ELSE stream[i]]

SessionClose ==
  /\ ws = "open" /\ ws' = "closed"
  /\ stream' = Closed /\ streams' = {}
  /\ UNCHANGED <<writing, told, together>>

Next ==
  \/ \E i \in Id :
       \/ Connect(i) \/ Checked(i) \/ Fails(i) \/ Opened(i)
       \/ Data(i) \/ Written(i) \/ CloseFromClient(i) \/ ReadEnds(i) \/ WriteFails(i)
  \/ SessionClose

Spec == Init /\ [][Next]_vars

-----------------------------------------------------------------------------
(* A socket stays open no longer than its WebSocket, and can be closed by   *)
(* the client, for it is in the Map; the exception is one that opened after *)
(* the WebSocket had closed, which nothing but its other end closes. The    *)
(* client knows of each stream that the server refused or closed, and no    *)
(* more sockets are open than the limit, unless connects waited together.   *)
NoSocketIsLost ==
  /\ \A i \in Open : stream[i].late \/ (ws = "open" /\ i \in streams)
  /\ ws = "open" => \A i \in Id :
       stream[i].at \in {"refused", "closed"} => i \in told \/ i \notin streams
  /\ ~together => Cardinality({i \in Open : ~stream[i].late}) <= MaxStreams
=============================================================================
