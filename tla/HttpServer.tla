----------------------------- MODULE HttpServer -----------------------------
(***************************************************************************)
(* http.createServer in the tab (http.js, FakeServer, OutgoingMessage): a  *)
(* registry of ports that integrations deliver redirects by, a WebSocket   *)
(* to a relay of the outside world (external), and a listener on gvisor's  *)
(* TCP. A server is a member of Server; a relay's WebSocket is a number.   *)
(* Handlers answer later, or throw; a request's body is left out.          *)
(***************************************************************************)
EXTENDS Integers, FiniteSets

CONSTANTS
  Server, Port,    \* names of servers, numbers of ports
  MaxRequest,      \* bound: requests made
  MaxRelay         \* bound: WebSockets opened

NoServer == "none"
NoPort == 0
NoRelay == 0

ASSUME ServerAssumption ==
  NoServer \notin Server /\ NoPort \notin Port /\ MaxRelay \in Nat /\ MaxRequest \in Nat

VARIABLES
  registry,   \* __browserRuntimeLocalHttpServers
  server,     \* each FakeServer
  relay,      \* the server each WebSocket was opened for, and is it open
  request,    \* each request: where it is, and the answer it got
  again       \* history: servers that listened twice; ports that
              \* two have taken, or one has closed twice

serverVars == <<registry, server, relay, request, again>>

Ids == 1 .. MaxRequest

ServerTypeOK ==
  /\ registry \in [Port -> Server \cup {NoServer}]
  /\ server \in [Server -> [port : Port \cup {NoPort}, listening : BOOLEAN,
                            relay : 0 .. MaxRelay, tcp : BOOLEAN]]
  /\ relay \in [1 .. MaxRelay -> [of : Server \cup {NoServer}, open : BOOLEAN]]
  /\ request \in [Ids -> [at : {"none", "queued", "open", "ended", "over"},
                          of : Server \cup {NoServer}, via : 0 .. MaxRelay,
                          headSent : BOOLEAN, answers : 0 .. 3,
                          to : 0 .. MaxRelay]]
  /\ again \in [servers : SUBSET Server, ports : SUBSET Port]

ServerInit ==
  /\ registry = [p \in Port |-> NoServer]
  /\ server = [s \in Server |-> [port |-> NoPort, listening |-> FALSE,
                                 relay |-> NoRelay, tcp |-> FALSE]]
  /\ relay = [w \in 1 .. MaxRelay |-> [of |-> NoServer, open |-> FALSE]]
  /\ request = [r \in Ids |-> [at |-> "none", of |-> NoServer, via |-> NoRelay,
                               headSent |-> FALSE, answers |-> 0, to |-> NoRelay]]
  /\ again = [servers |-> {}, ports |-> {}]

-----------------------------------------------------------------------------
(* listen() and close().                                                    *)

NewRelay == Cardinality({w \in 1 .. MaxRelay : relay[w].of # NoServer}) + 1

(* A port that is given is taken, whoever has it; port 0 takes a free one:  *)
(* it may be any. _maybeStartHttpRelay: the WebSocket of an earlier listen() *)
(* is closed.                                                               *)
Listen(s, p, tcp, relayed) ==
  /\ relayed => NewRelay <= MaxRelay
  /\ registry' = [registry EXCEPT ![p] = s]
  /\ server' = [server EXCEPT ![s] =
       [port |-> p, listening |-> TRUE, tcp |-> tcp \/ @.tcp,
        relay |-> IF relayed THEN NewRelay ELSE NoRelay]]
  /\ relay' = [w \in 1 .. MaxRelay |->
       IF relayed /\ w = NewRelay THEN [of |-> s, open |-> TRUE]
       ELSE IF w = server[s].relay THEN [relay[w] EXCEPT !.open = FALSE]
       ELSE relay[w]]
  /\ again' =
       [servers |-> again.servers \cup (IF server[s].port # NoPort THEN {s} ELSE {}),
        ports |-> again.ports \cup (IF registry[p] # NoServer THEN {p} ELSE {})]
  /\ UNCHANGED request

\* Mutant: a server that has been closed stays in the registry.
UnregisteredNever(s) == registry

Unregistered(s) == [registry EXCEPT ![server[s].port] = NoServer]

(* close() leaves the relay's WebSocket open: requests still come through.  *)
(* Closing twice unregisters twice.                                         *)
Close(s) ==
  /\ server[s].port # NoPort
  /\ registry' = Unregistered(s)
  /\ server' = [server EXCEPT ![s].listening = FALSE, ![s].tcp = FALSE]
  /\ again' = [again EXCEPT !.ports =
                @ \cup IF server[s].listening THEN {} ELSE {server[s].port}]
  /\ UNCHANGED <<relay, request>>

(* onclose forgets the WebSocket if it is still the server's.               *)
RelayCloses(w) ==
  /\ relay[w].open /\ relay' = [relay EXCEPT ![w].open = FALSE]
  /\ server' = [s \in Server |-> IF server[s].relay = w
                                 THEN [server[s] EXCEPT !.relay = NoRelay]
                                 ELSE server[s]]
  /\ UNCHANGED <<registry, request, again>>

-----------------------------------------------------------------------------
(* Requests. One of the relay is handled in a microtask of its own.         *)

New(r) == request[r].at = "none" /\ \A q \in Ids : q < r => request[q].at # "none"

FromRelay(r, w) ==
  /\ New(r) /\ relay[w].open
  /\ request' = [request EXCEPT ![r].at = "queued", ![r].of = relay[w].of,
                                ![r].via = w]
  /\ UNCHANGED <<registry, server, relay, again>>

(* _handleGvisorTcpConn, and _handleRedirect of a registered server: nobody *)
(* is answered through a WebSocket.                                         *)
FromTcp(r, s) ==
  /\ New(r)
  /\ server[s].tcp \/ \E p \in Port : registry[p] = s
  /\ request' = [request EXCEPT ![r].at = "open", ![r].of = s]
  /\ UNCHANGED <<registry, server, relay, again>>

(* _sendRelayHttpResponse: through the WebSocket the server has now.        *)
Answered(q) ==
  LET w == server[q.of].relay
  IN  IF q.via # NoRelay /\ w # NoRelay /\ relay[w].open
      THEN [q EXCEPT !.answers = @ + 1, !.to = w] ELSE q

\* Mutant: a handler that throws is answered for, and still waited for.
HandledBoth(r, throws) ==
  [request[r] EXCEPT !.at = "open",
     !.answers = IF throws THEN Answered(request[r]).answers ELSE @]

(* The handler has been called. When it throws the request is over.         *)
Handled(r, throws) ==
  IF throws THEN [Answered(request[r]) EXCEPT !.at = "over"]
  ELSE [request[r] EXCEPT !.at = "open"]

Handle(r, throws) ==
  /\ request[r].at = "queued"
  /\ request' = [request EXCEPT ![r] = Handled(r, throws)]
  /\ UNCHANGED <<registry, server, relay, again>>

(* res.write, res.writeHead: the head is sent once.                         *)
WriteHead(r) ==
  /\ request[r].at = "open" /\ ~request[r].headSent
  /\ request' = [request EXCEPT ![r].headSent = TRUE]
  /\ UNCHANGED <<registry, server, relay, again>>

(* res.end(): 'finish' comes later, and the answer with it.                 *)
EndResponse(r) ==
  /\ request[r].at = "open"
  /\ request' = [request EXCEPT ![r].at = "ended", ![r].headSent = TRUE]
  /\ UNCHANGED <<registry, server, relay, again>>

Finish(r) ==
  /\ request[r].at = "ended"
  /\ request' = [request EXCEPT ![r] = [Answered(request[r]) EXCEPT !.at = "over"]]
  /\ UNCHANGED <<registry, server, relay, again>>

ServerNext ==
  \/ \E s \in Server : Close(s)
  \/ \E s \in Server, p \in Port, tcp, relayed \in BOOLEAN :
       Listen(s, p, tcp, relayed)
  \/ \E w \in 1 .. MaxRelay : RelayCloses(w)
  \/ \E r \in Ids : WriteHead(r) \/ EndResponse(r) \/ Finish(r)
  \/ \E r \in Ids, w \in 1 .. MaxRelay : FromRelay(r, w)
  \/ \E r \in Ids, s \in Server : FromTcp(r, s)
  \/ \E r \in Ids, throws \in BOOLEAN : Handle(r, throws)

ServerSpec == ServerInit /\ [][ServerNext]_serverVars

-----------------------------------------------------------------------------
(* A redirect is delivered to a server that listens on that port, unless    *)
(* that server listened twice: its first port is never given back. And the  *)
(* servers that listen are found, but not on a port that two servers have   *)
(* taken or one has closed twice: that unregisters the other.               *)
RegistryIsTrue ==
  /\ \A p \in Port : registry[p] # NoServer /\ registry[p] \notin again.servers =>
       server[registry[p]].listening /\ server[registry[p]].port = p
  /\ \A s \in Server :
       server[s].listening /\ server[s].port \notin again.ports =>
         registry[server[s].port] = s

(* A request of the relay is answered once, whether its handler throws or   *)
(* ends it, and through the WebSocket it came by: unless its server         *)
(* listened again meanwhile.                                                *)
AnswersGoHome ==
  \A r \in Ids : request[r].answers > 0 =>
    /\ request[r].answers = 1
    /\ request[r].of \notin again.servers => request[r].to = request[r].via

(* Both: redirects and answers find their way.                              *)
RoutesAreTrue == RegistryIsTrue /\ AnswersGoHome
=============================================================================
