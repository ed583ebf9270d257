----------------------------- MODULE MCNetwork -----------------------------
(***************************************************************************)
(* Small instances of the components that reach the network. They do not   *)
(* share state: one run takes each of them in turn, and the states of the  *)
(* run are the sum, not the product, of theirs. The servers, the guard and *)
(* the TLS sockets are those of HttpServer, WispAdmission and TlsSocket:   *)
(* two servers, ports and WebSockets to the relay; two sockets and a fetch *)
(* of two addresses, each with room for one; two TLS sockets where one     *)
(* session may be, one record each way. The request is that of HttpClient: *)
(* four chunks, a Writable that holds one, an upload stream that holds two.*)
(* The TCP stack is that of GvisorTcp with two connections on one port, a  *)
(* segment of data for each; and once more, for one connection with writes,*)
(* a server and a peer that repeats itself.                                *)
(***************************************************************************)
EXTENDS GvisorTcp, HttpClient, HttpServer, WispAdmission, TlsSocket

CONSTANTS Instances   \* the instances a run takes

VARIABLES part,
  oneWs, oneReadyCbs, oneConn, oneSock, oneTable, oneListeners, oneServer,
  oneNextPort, oneWire, onePeer,
  workerWs, streams, stream, writing, told, together,
  running, current, started, addrOf, bound, closed, serving, goServer, cancelled,
  forwarder, page, reported, taken, moved

oneVars == <<oneWs, oneReadyCbs, oneConn, oneSock, oneTable, oneListeners, oneServer,
             oneNextPort, oneWire, onePeer>>
workerVars == <<workerWs, streams, stream, writing, told, together>>
goVars == <<running, current, started, addrOf, bound, closed, serving, goServer,
            cancelled, forwarder, page, reported, taken, moved>>

Tcp == INSTANCE GvisorTcp WITH MaxConn <- 1, MaxPort <- 1, MaxRtx <- 1,
         MaxServer <- 1, MaxSegment <- 1, MaxWrite <- 1, MaxAgain <- 1, MaxWire <- 2,
         tcpWs <- oneWs, readyCbs <- oneReadyCbs, conn <- oneConn, sock <- oneSock,
         table <- oneTable, listeners <- oneListeners, tcpServer <- oneServer,
         nextPort <- oneNextPort, wire <- oneWire, peer <- onePeer

(* Three CONNECTs where two streams may be.                                 *)
Worker == INSTANCE WispWorker WITH Id <- {1, 2, 3}, MaxStreams <- 2, MaxData <- 1,
            ws <- workerWs

(* Two starts of v9-net at two addresses, two pages that forward one port.  *)
Go == INSTANCE V9Net WITH Addr <- {"a1", "a2"}, Port <- {80}, Page <- {"p1", "p2"},
        MaxStart <- 2, server <- goServer, host <- forwarder, told <- reported

vars == <<part, tcpVars, oneVars, clientVars, serverVars, guardVars, workerVars, tlsVars, goVars>>

Init ==
  /\ part \in Instances
  /\ TcpInit /\ Tcp!TcpInit
  /\ ClientInit
  /\ part # "client" =>
       host = [tier |-> "fetch", streams |-> FALSE, post |-> FALSE, secure |-> FALSE]
  /\ ServerInit /\ GuardInit
  /\ part # "guard" => /\ \A w \in Ws : ws[w].ip = "a"
                       /\ \A f \in Fetch : fetch[f].ip = "a"
  /\ Worker!Init /\ TlsInit /\ Go!Init

(* A step of one part leaves the state of the others alone.                 *)
Others(p) ==
  /\ p # "tcp" => UNCHANGED tcpVars
  /\ p # "one" => UNCHANGED oneVars
  /\ p # "client" => UNCHANGED clientVars
  /\ p # "server" => UNCHANGED serverVars
  /\ p # "guard" => UNCHANGED guardVars
  /\ p # "worker" => UNCHANGED workerVars
  /\ p # "tls" => UNCHANGED tlsVars
  /\ p # "v9net" => UNCHANGED goVars

Next ==
  /\ UNCHANGED part
  /\ \/ part = "tcp" /\ TcpNext /\ Others("tcp")
     \/ part = "one" /\ Tcp!TcpNext /\ Others("one")
     \/ part = "client" /\ ClientNext /\ Others("client")
     \/ part = "server" /\ ServerNext /\ Others("server")
     \/ part = "guard" /\ GuardNext /\ Others("guard")
     \/ part = "worker" /\ Worker!Next /\ Others("worker")
     \/ part = "tls" /\ TlsNext /\ Others("tls")
     \/ part = "v9net" /\ Go!Next /\ Others("v9net")

(* The timer of a segment that is not answered fires.                       *)
Spec == Init /\ [][Next]_vars /\ WF_oneVars(Tcp!Retransmit(1))

(* And the other timer, and names are resolved or not.                      *)
FairSpec ==
  Spec /\ WF_oneVars(Tcp!ReadyTimeout(1))
       /\ WF_oneVars(Tcp!Resolved(1) \/ Tcp!ResolveFails(1))

(* The state of the part that is taken has its type.                        *)
TypeOK ==
  CASE part = "tcp" -> TcpTypeOK
    [] part = "one" -> Tcp!TcpTypeOK
    [] part = "client" -> ClientTypeOK
    [] part = "server" -> ServerTypeOK
    [] part = "guard" -> GuardTypeOK
    [] part = "worker" -> Worker!TypeOK
    [] part = "tls" -> TlsTypeOK
    [] part = "v9net" -> Go!TypeOK

(* A stream arrives as it was sent, on one connection and on two that follow*)
(* each other on one port; the stream of the worker and the forward of v9-net*)
(* that are open are held by somebody.                                      *)
NothingIsLost ==
  /\ part = "tcp" => StreamIsExact
  /\ part = "one" => Tcp!StreamIsExact /\ Tcp!OpenIsReachable
  /\ part = "worker" => Worker!NoSocketIsLost
  /\ part = "v9net" => Go!RunningIsServed /\ Go!ForwardIsOpen

SynOfOneIsAnswered == Tcp!SynIsAnswered
ConnectOfOneIsAnswered == Tcp!ConnectIsAnswered
=============================================================================
