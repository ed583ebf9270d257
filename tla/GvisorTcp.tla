----------------------------- MODULE GvisorTcp -----------------------------
(***************************************************************************)
(* gvisor-net.js: the TCP/IP stack in the tab, its sockets and servers.    *)
(* Frames travel over one WebSocket, in order; what a closed one carried is*)
(* lost. There is one remote address and port, so that a connection's key  *)
(* is its local port: 0 is a port that a program listens on, the others are*)
(* ephemeral. A segment of data is its sequence number. The peer, a TCP of *)
(* its own behind v9-net, is external: it answers late, refuses, resets or *)
(* is silent, and may send again what it has sent; the ACK of a SYN-ACK it *)
(* sends on its own, before any data.                                      *)
(***************************************************************************)
EXTENDS Integers, Sequences

CONSTANTS
  MaxConn,      \* bound: connections and sockets ever made
  MaxPort,      \* ephemeral ports: 16384 in the code
  MaxRtx,       \* retransmissions before the stack gives up: 5 in the code
  MaxServer,    \* bound: servers ever made
  MaxSegment,   \* bound: segments of data the peer sends, of a connection
  MaxWrite,     \* bound: writes of a socket
  MaxAgain,     \* bound: segments the peer repeats, of a connection
  MaxWire       \* bound: segments on their way to the tab

ASSUME TcpAssumption ==
  /\ MaxConn \in Nat /\ MaxPort \in Nat \ {0} /\ MaxRtx \in Nat /\ MaxServer \in Nat
  /\ MaxSegment \in Nat /\ MaxWrite \in Nat /\ MaxAgain \in Nat /\ MaxWire \in Nat

VARIABLES
  tcpWs,     \* the WebSocket: "connecting", "open" or "closed"
  readyCbs,  \* connections whose SYN waits for it
  conn,      \* the TcpConns
  sock,      \* the GvisorSocket of each
  table,     \* _conns: the connection of a port
  listeners, \* _listeners: the server of a port
  tcpServer, \* the port of each GvisorServer, once it has listened
  nextPort,
  wire,      \* segments on their way to the tab
  peer       \* the peer's end of a port

tcpVars == <<tcpWs, readyCbs, conn, sock, table, listeners, tcpServer, nextPort,
             wire, peer>>

Id == 1 .. MaxConn
PortNumber == 0 .. MaxPort
None == 0
Unbound == -1

(* Random initial sequence numbers: no two connections have the same.       *)
Stride == 16
Iss(n) == n * Stride

Segment == [port : PortNumber, flags : SUBSET {"SYN", "ACK", "FIN", "RST"},
            seq : Nat, ack : Nat, len : 0 .. 1]

TcpTypeOK ==
  /\ tcpWs \in {"connecting", "open", "closed"}
  /\ readyCbs \subseteq Id
  /\ conn \in [Id -> [state : {"NONE", "CLOSED", "SYN_SENT", "SYN_RCVD",
                               "ESTABLISHED", "FIN_WAIT1", "FIN_WAIT2", "CLOSING",
                               "TIME_WAIT", "CLOSE_WAIT", "LAST_ACK"},
                      port : PortNumber, sendNxt : Nat, recvNxt : Nat, sendBuf : Nat,
                      rtx : Seq(Segment), count : 0 .. MaxRtx,
                      timeWait : {"no", "runs", "over", "stray"}]]
  /\ sock \in [Id -> [phase : {"none", "resolving", "made"}, connecting : BOOLEAN,
                      destroyed : BOOLEAN, eof : BOOLEAN, half : BOOLEAN,
                      ended : BOOLEAN, written : Nat, got : Seq(Nat)]]
  /\ table \in [PortNumber -> Id \cup {None}]
  /\ listeners \in [PortNumber -> 0 .. MaxServer]
  /\ tcpServer \in [1 .. MaxServer -> PortNumber \cup {Unbound}]
  /\ nextPort \in 1 .. MaxPort
  /\ wire \in Seq(Segment)
  /\ peer \in [PortNumber -> [state : {"closed", "synSent", "synHeard", "synRcvd",
                                  "acking", "open"},
                        n : 0 .. MaxConn, nxt : Nat, rcv : Nat, fin : BOOLEAN,
                        gotFin : BOOLEAN, sent : 0 .. MaxSegment, last : Seq(Segment),
                        again : 0 .. MaxAgain, owes : {"nothing", "ack", "rst"}]]

TcpInit ==
  /\ tcpWs = "connecting" /\ readyCbs = {}
  /\ conn = [c \in Id |-> [state |-> "NONE", port |-> 0, sendNxt |-> 0,
                           recvNxt |-> 0, sendBuf |-> 0, rtx |-> << >>,
                           count |-> 0, timeWait |-> "no"]]
  /\ sock = [c \in Id |-> [phase |-> "none", connecting |-> FALSE,
                           destroyed |-> FALSE, eof |-> FALSE, half |-> FALSE,
                           ended |-> FALSE, written |-> 0, got |-> << >>]]
  /\ table = [p \in PortNumber |-> None]
  /\ listeners = [p \in PortNumber |-> None]
  /\ tcpServer = [s \in 1 .. MaxServer |-> Unbound]
  /\ nextPort = 1 /\ wire = << >>
  /\ peer = [p \in PortNumber |-> [state |-> "closed", n |-> 0, nxt |-> 0, rcv |-> 0,
                             fin |-> FALSE, gotFin |-> FALSE, sent |-> 0,
                             last |-> << >>, again |-> 0, owes |-> "nothing"]]

-----------------------------------------------------------------------------
(* The peer (external): a TCP that keeps to the protocol. It hears at once   *)
(* and answers when it likes.                                               *)

Has(g, flag) == flag \in g.flags

PeerGone(x) == [x EXCEPT !.state = "closed", !.last = << >>]

PeerNew(x, state, rcv) ==
  [x EXCEPT !.state = state, !.n = @ + 1, !.nxt = Iss(x.n), !.rcv = rcv,
            !.fin = FALSE, !.gotFin = FALSE, !.sent = 0, !.again = 0,
            !.owes = "nothing"]

(* What is next in order is taken; two FINs that are known end it all.      *)
PeerTakes(x, g) ==
  LET inOrder == g.seq = x.rcv /\ (g.len > 0 \/ Has(g, "FIN"))
      y == [x EXCEPT !.state = "open", !.last = IF g.ack = x.nxt THEN << >> ELSE @]
      z == IF inOrder THEN [y EXCEPT !.rcv = @ + 1, !.gotFin = Has(g, "FIN"),
                                     !.owes = "ack"] ELSE y
  IN IF z.gotFin /\ z.fin /\ g.ack = z.nxt THEN PeerGone(z) ELSE z

(* Before the handshake is over only the ACK of its own SYN is acceptable.   *)
Acceptable(x, g) ==
  CASE x.state = "closed" -> FALSE
    [] x.state \in {"synSent", "synHeard", "synRcvd"} -> g.ack = Iss(x.n - 1) + 1
    [] OTHER -> TRUE

PeerHears(x, g) ==
  CASE Has(g, "RST") -> [PeerGone(x) EXCEPT !.owes = "nothing"]
    [] g.flags = {"SYN"} ->
         IF x.state = "closed" /\ x.n < MaxConn
         THEN PeerNew(x, "synHeard", g.seq + 1) ELSE x
    [] g.flags = {"SYN", "ACK"} /\ Acceptable(x, g) ->
         [x EXCEPT !.state = "acking", !.rcv = g.seq + 1, !.last = << >>,
                   !.owes = "ack"]
    [] ~Has(g, "SYN") /\ Acceptable(x, g) -> PeerTakes(x, g)
    [] OTHER -> [x EXCEPT !.owes = "rst"]

-----------------------------------------------------------------------------
(* TcpConn, on a state of the connections, the sockets, the table and what  *)
(* the peer has heard.                                                      *)

State == [c |-> conn, s |-> sock, table |-> table, p |-> peer]

Becomes(t) == conn' = t.c /\ sock' = t.s /\ table' = t.table /\ peer' = t.p

(* _sendFrame: a frame that meets no open WebSocket is gone.                *)
SendFrame(t, g) ==
  IF tcpWs = "open" THEN [t EXCEPT !.p[g.port] = PeerHears(@, g)] ELSE t

Seg(x, flags, len) ==
  [port |-> x.port, flags |-> flags, seq |-> x.sendNxt, ack |-> x.recvNxt,
   len |-> len]

TxAck(t, c) == SendFrame(t, Seg(t.c[c], {"ACK"}, 0))

(* SYN, SYN-ACK and FIN take a number and are sent until they are answered. *)
TxTimed(t, c, flags) ==
  LET g == Seg(t.c[c], flags, 0)
  IN SendFrame([t EXCEPT !.c[c].sendNxt = @ + 1, !.c[c].rtx = <<g>>,
                         !.c[c].count = 0], g)

TxData(t, c) ==
  SendFrame([t EXCEPT !.c[c].sendNxt = @ + 1], Seg(t.c[c], {"ACK"}, 1))

SendSyn(t, c) ==
  LET u == [t EXCEPT !.c[c].recvNxt = 0, !.c[c].sendNxt = Iss(c)]
  IN [TxTimed(u, c, {"SYN"}) EXCEPT !.c[c].state = "SYN_SENT"]

ClearRtx(t, c) == [t EXCEPT !.c[c].rtx = << >>, !.c[c].count = 0]

(* _cleanup, by key, of a connection that is CLOSED.                        *)
Closed(t, c) ==
  [ClearRtx(t, c) EXCEPT !.table[t.c[c].port] = None, !.c[c].state = "CLOSED"]

SendRstSeg(t, c) == Closed(SendFrame(t, Seg(t.c[c], {"RST", "ACK"}, 0)), c)

(* close(): the FIN of this side.                                           *)
ConnClose(t, c) ==
  LET x == t.c[c].state
  IN IF x = "ESTABLISHED"
     THEN [TxTimed(t, c, {"FIN", "ACK"}) EXCEPT !.c[c].state = "FIN_WAIT1"]
     ELSE IF x = "CLOSE_WAIT"
     THEN [TxTimed(t, c, {"FIN", "ACK"}) EXCEPT !.c[c].state = "LAST_ACK"]
     ELSE t

(* The socket's callbacks; a connection may have no socket.                 *)
HasSocket(t, c) == t.s[c].phase = "made"

OnConnect(t, c) ==
  IF HasSocket(t, c) THEN [t EXCEPT !.s[c].connecting = FALSE] ELSE t

OnData(t, c, g) ==
  IF HasSocket(t, c) /\ ~t.s[c].eof THEN [t EXCEPT !.s[c].got = Append(@, g.seq)]
  ELSE t

OnEnd(t, c) ==
  IF ~HasSocket(t, c) \/ t.s[c].eof THEN t
  ELSE LET u == [t EXCEPT !.s[c].eof = TRUE]
       IN IF u.s[c].half THEN u ELSE ConnClose(u, c)

OnError(t, c) ==
  IF HasSocket(t, c)
  THEN [t EXCEPT !.s[c].destroyed = TRUE, !.s[c].connecting = FALSE]
  ELSE t

-----------------------------------------------------------------------------
(* _handleSeg, state by state.                                              *)

\* Mutant: any data is taken, the data that was sent again too.
TakenTwice(t, c, g) ==
  IF g.len > 0 THEN OnData(TxAck([t EXCEPT !.c[c].recvNxt = g.seq + 1], c), c, g)
  ELSE t

(* Data is taken in order; other data is not even acknowledged.             *)
Taken(t, c, g) ==
  IF g.len > 0 /\ g.seq = t.c[c].recvNxt
  THEN OnData(TxAck([t EXCEPT !.c[c].recvNxt = @ + 1], c), c, g)
  ELSE t

(* A FIN, whatever its number. The socket is told in the new state.         *)
FinTaken(t, c, next) ==
  OnEnd(TxAck([t EXCEPT !.c[c].recvNxt = @ + 1, !.c[c].state = next], c), c)

TimeWaits(t, c) == [t EXCEPT !.c[c].timeWait = "runs"]

(* _flush: what was written before the connection was there.                *)
Flush(t, c) ==
  LET n == t.c[c].sendBuf
      after[k \in 0 .. n] ==
        IF k = 0 THEN [t EXCEPT !.c[c].sendBuf = 0] ELSE TxData(after[k - 1], c)
  IN after[n]

InSynSent(t, c, g) ==
  IF {"SYN", "ACK"} \subseteq g.flags
  THEN IF g.ack # t.c[c].sendNxt THEN SendRstSeg(t, c)
       ELSE LET u == [ClearRtx(t, c) EXCEPT !.c[c].recvNxt = g.seq + 1,
                                            !.c[c].state = "ESTABLISHED"]
            IN Flush(OnConnect(TxAck(u, c), c), c)
  ELSE IF Has(g, "RST") THEN Closed(OnError(t, c), c) ELSE t

(* _onConnection of the server, if it still listens, makes the socket.      *)
InSynRcvd(t, c, g) ==
  IF Has(g, "ACK")
  THEN [ClearRtx(t, c) EXCEPT
         !.c[c].state = "ESTABLISHED",
         !.s[c].phase = IF listeners[t.c[c].port] # None THEN "made" ELSE @]
  ELSE IF Has(g, "RST") THEN Closed(t, c) ELSE t

InEstablished(t, c, g) ==
  IF Has(g, "RST") THEN Closed(OnError(t, c), c)
  ELSE LET u == Taken(t, c, g)
       IN IF Has(g, "FIN") THEN FinTaken(u, c, "CLOSE_WAIT") ELSE u

InFinWait1(t, c, g) ==
  LET u == Taken(t, c, g)
  IN IF {"FIN", "ACK"} \subseteq g.flags
     THEN TimeWaits(FinTaken(ClearRtx(u, c), c, "TIME_WAIT"), c)
     ELSE IF Has(g, "FIN") THEN FinTaken(u, c, "CLOSING")
     ELSE IF Has(g, "ACK")
     THEN [ClearRtx(u, c) EXCEPT !.c[c].state = "FIN_WAIT2"] ELSE u

InFinWait2(t, c, g) ==
  LET u == Taken(t, c, g)
      v == [u EXCEPT !.c[c].recvNxt = g.seq + g.len]
  IN IF Has(g, "FIN") THEN TimeWaits(FinTaken(v, c, "TIME_WAIT"), c) ELSE u

InClosing(t, c, g) ==
  IF Has(g, "ACK")
  THEN TimeWaits([ClearRtx(t, c) EXCEPT !.c[c].state = "TIME_WAIT"], c) ELSE t

HandleSeg(t, c, g) ==
  CASE t.c[c].state = "SYN_SENT"    -> InSynSent(t, c, g)
    [] t.c[c].state = "SYN_RCVD"    -> InSynRcvd(t, c, g)
    [] t.c[c].state = "ESTABLISHED" -> InEstablished(t, c, g)
    [] t.c[c].state = "FIN_WAIT1"   -> InFinWait1(t, c, g)
    [] t.c[c].state = "FIN_WAIT2"   -> InFinWait2(t, c, g)
    [] t.c[c].state = "CLOSING"     -> InClosing(t, c, g)
    [] t.c[c].state = "LAST_ACK" /\ Has(g, "ACK")  -> Closed(t, c)
    [] t.c[c].state = "TIME_WAIT" /\ Has(g, "FIN") -> TxAck(t, c)
    [] OTHER -> t

-----------------------------------------------------------------------------
(* NetworkStack.                                                            *)

UsedIds == {c \in Id : sock[c].phase # "none" \/ conn[c].state # "NONE"}
Fresh(c) == UsedIds = 1 .. (c - 1)

\* Mutant: a port is free when nobody listens on it.
FreePortUnused == {p \in 1 .. MaxPort : listeners[p] = None}

(* _allocPort: the first free port from nextPort on, round the ring.        *)
FreePort == {p \in 1 .. MaxPort : listeners[p] = None /\ table[p] = None}

Distance(p) == (p - nextPort) % MaxPort

AllocPort(p) ==
  /\ p \in FreePort /\ \A q \in FreePort : Distance(p) <= Distance(q)
  /\ nextPort' = (p % MaxPort) + 1

(* _handleTcp: a known connection, a listener, or RST.                      *)
Rst(g) ==
  IF Has(g, "ACK")
  THEN [port |-> g.port, flags |-> {"RST"}, seq |-> g.ack, ack |-> 0, len |-> 0]
  ELSE [port |-> g.port, flags |-> {"RST", "ACK"}, seq |-> 0,
        ack |-> g.seq + g.len + (IF Has(g, "SYN") THEN 1 ELSE 0)
                + (IF Has(g, "FIN") THEN 1 ELSE 0), len |-> 0]

Accepted(c, g) ==
  LET u == [State EXCEPT !.c[c].state = "SYN_RCVD", !.c[c].port = g.port,
                         !.c[c].recvNxt = g.seq + 1, !.c[c].sendNxt = Iss(c),
                         !.table[g.port] = c]
  IN TxTimed(u, c, {"SYN", "ACK"})

Receive ==
  /\ tcpWs = "open" /\ wire # << >> /\ wire' = Tail(wire)
  /\ LET g == Head(wire)
         c == table[g.port]
         opens == Has(g, "SYN") /\ ~Has(g, "ACK") /\ listeners[g.port] # None
     IN \/ c # None /\ Becomes(HandleSeg(State, c, g))
        \/ c = None /\ opens /\ \E n \in Id : Fresh(n) /\ Becomes(Accepted(n, g))
        \/ c = None /\ ~opens /\ Becomes(IF Has(g, "RST") THEN State
                                         ELSE SendFrame(State, Rst(g)))
  /\ UNCHANGED <<tcpWs, readyCbs, listeners, tcpServer, nextPort>>

(* ws.onopen sends the SYNs that waited.                                    *)
WsOpen ==
  LET syn(c) == [port |-> conn[c].port, flags |-> {"SYN"}, seq |-> Iss(c),
                 ack |-> 0, len |-> 0]
      on(p) == {c \in readyCbs : conn[c].port = p}
  IN /\ tcpWs = "connecting" /\ tcpWs' = "open" /\ readyCbs' = {}
     /\ conn' = [c \in Id |->
          IF c \notin readyCbs THEN conn[c]
          ELSE [conn[c] EXCEPT !.state = "SYN_SENT", !.sendNxt = Iss(c) + 1,
                               !.rtx = <<syn(c)>>, !.count = 0]]
     /\ peer' = [p \in PortNumber |-> IF on(p) = {} THEN peer[p]
                  ELSE PeerHears(peer[p], syn(CHOOSE c \in on(p) : TRUE))]
     /\ UNCHANGED <<sock, table, listeners, tcpServer, nextPort, wire>>

(* ws.onclose: every connection's socket hears of it; nothing reconnects.   *)
WsClose ==
  /\ tcpWs # "closed" /\ tcpWs' = "closed"
  /\ sock' = [c \in Id |-> IF \E p \in PortNumber : table[p] = c
                           THEN OnError(State, c).s[c] ELSE sock[c]]
  /\ wire' = << >>
  /\ UNCHANGED <<readyCbs, conn, table, listeners, tcpServer, nextPort, peer>>

(* _whenReady's timer: the SYN is given up, and only the log says so.       *)
ReadyTimeout(c) ==
  /\ c \in readyCbs /\ readyCbs' = readyCbs \ {c}
  /\ UNCHANGED <<tcpWs, conn, sock, table, listeners, tcpServer, nextPort, wire,
                 peer>>

\* Mutant: the count of retransmissions stays where it is.
RetransmitForEver(t, c) == SendFrame(t, Head(t.c[c].rtx))

(* _retransmit: once more, or 'Connection timed out'.                       *)
Retransmitted(t, c) ==
  IF t.c[c].count >= MaxRtx THEN Closed(OnError(t, c), c)
  ELSE [SendFrame(t, Head(t.c[c].rtx)) EXCEPT !.c[c].count = @ + 1]

Retransmit(c) ==
  /\ conn[c].rtx # << >> /\ Becomes(Retransmitted(State, c))
  /\ UNCHANGED <<tcpWs, readyCbs, listeners, tcpServer, nextPort, wire>>

(* The timer of _startTW, which nothing stops. ("stray" is history: the key *)
(* was not this connection's any more.)                                     *)
TimeWaitOver(c) ==
  /\ conn[c].timeWait = "runs"
  /\ Becomes([Closed(State, c) EXCEPT !.c[c].timeWait =
       IF table[conn[c].port] = c THEN "over" ELSE "stray"])
  /\ UNCHANGED <<tcpWs, readyCbs, listeners, tcpServer, nextPort, wire>>

-----------------------------------------------------------------------------
(* GvisorSocket and GvisorServer: the program's calls.                      *)

ConnectSocket(c, half) ==
  /\ Fresh(c)
  /\ sock' = [sock EXCEPT ![c].phase = "resolving", ![c].connecting = TRUE,
                          ![c].half = half]
  /\ UNCHANGED <<tcpWs, readyCbs, conn, table, listeners, tcpServer, nextPort, wire,
                 peer>>

(* The name is resolved: the connection enters the table.                   *)
Resolved(c) ==
  /\ sock[c].phase = "resolving"
  /\ \E p \in 1 .. MaxPort :
       LET t == [State EXCEPT !.s[c].phase = "made", !.c[c].state = "CLOSED",
                              !.c[c].port = p, !.table[p] = c]
       IN /\ AllocPort(p)
          /\ Becomes(IF tcpWs = "open" THEN SendSyn(t, c) ELSE t)
  /\ readyCbs' = IF tcpWs = "open" THEN readyCbs ELSE readyCbs \cup {c}
  /\ UNCHANGED <<tcpWs, listeners, tcpServer, wire>>

(* The name is not, or no port is left.                                     *)
ResolveFails(c) ==
  /\ sock[c].phase = "resolving"
  /\ sock' = [sock EXCEPT ![c].phase = "made", ![c].connecting = FALSE,
                          ![c].destroyed = TRUE]
  /\ UNCHANGED <<tcpWs, readyCbs, conn, table, listeners, tcpServer, nextPort, wire,
                 peer>>

(* _write: now, or once the connection is there; otherwise it fails.        *)
WriteSocket(c) ==
  /\ sock[c].phase # "none" /\ ~sock[c].ended /\ sock[c].written < MaxWrite
  /\ LET t == [State EXCEPT !.s[c].written = @ + 1]
     IN Becomes(IF sock[c].destroyed \/ conn[c].state = "NONE" THEN t
                ELSE IF conn[c].state = "ESTABLISHED" THEN TxData(t, c)
                ELSE IF conn[c].state \in {"SYN_SENT", "SYN_RCVD"}
                THEN [t EXCEPT !.c[c].sendBuf = @ + 1] ELSE t)
  /\ UNCHANGED <<tcpWs, readyCbs, listeners, tcpServer, nextPort, wire>>

(* end(), which _final passes on: a connection that is not there yet does   *)
(* not hear of it.                                                          *)
EndSocket(c) ==
  /\ sock[c].phase # "none" /\ ~sock[c].ended
  /\ LET t == [State EXCEPT !.s[c].ended = TRUE]
     IN Becomes(IF conn[c].state = "NONE" THEN t ELSE ConnClose(t, c))
  /\ UNCHANGED <<tcpWs, readyCbs, listeners, tcpServer, nextPort, wire>>

DestroySocket(c) ==
  /\ sock[c].phase # "none" /\ ~sock[c].destroyed
  /\ LET t == [State EXCEPT !.s[c].destroyed = TRUE, !.s[c].connecting = FALSE]
     IN Becomes(IF conn[c].state \in {"NONE", "CLOSED"} THEN t ELSE SendRstSeg(t, c))
  /\ UNCHANGED <<tcpWs, readyCbs, listeners, tcpServer, nextPort, wire>>

(* listen(0) allocates a port, listen(port) takes it from whoever has it;   *)
(* close() gives up the port, whoever has it.                               *)
ListenOn(s) ==
  /\ tcpServer[s] = Unbound
  /\ \E p \in PortNumber :
       /\ IF p = 0 THEN UNCHANGED nextPort ELSE AllocPort(p)
       /\ tcpServer' = [tcpServer EXCEPT ![s] = p]
       /\ listeners' = [listeners EXCEPT ![p] = s]
  /\ UNCHANGED <<tcpWs, readyCbs, conn, sock, table, wire, peer>>

CloseServer(s) ==
  /\ tcpServer[s] # Unbound /\ listeners[tcpServer[s]] # None
  /\ listeners' = [listeners EXCEPT ![tcpServer[s]] = None]
  /\ UNCHANGED <<tcpWs, readyCbs, conn, sock, table, tcpServer, nextPort, wire,
                 peer>>

-----------------------------------------------------------------------------
(* The peer (external): what it sends, and when.                            *)

PeerSeg(p, x, flags, len) ==
  [port |-> p, flags |-> flags, seq |-> x.nxt, ack |-> x.rcv, len |-> len]

(* What takes a number is remembered, to be sent again; it acknowledges too.*)
PeerSends(p, x, flags, len) ==
  LET g == PeerSeg(p, x, flags, len)
  IN /\ wire' = Append(wire, g)
     /\ peer' = [peer EXCEPT ![p] = [x EXCEPT !.nxt = @ + 1, !.last = <<g>>,
                   !.owes = IF @ = "ack" THEN "nothing" ELSE @]]

PeerConnects(p) ==
  /\ p = 0 /\ peer[p].state = "closed" /\ peer[p].n < MaxConn
  /\ PeerSends(p, PeerNew(peer[p], "synSent", 0), {"SYN"}, 0)

PeerAccepts(p) ==
  /\ peer[p].state = "synHeard"
  /\ PeerSends(p, [peer[p] EXCEPT !.state = "synRcvd"], {"SYN", "ACK"}, 0)

PeerWrites(p) ==
  /\ peer[p].state = "open" /\ ~peer[p].fin /\ peer[p].sent < MaxSegment
  /\ PeerSends(p, [peer[p] EXCEPT !.sent = @ + 1], {"ACK"}, 1)

PeerEnds(p) ==
  /\ peer[p].state = "open" /\ ~peer[p].fin
  /\ PeerSends(p, [peer[p] EXCEPT !.fin = TRUE], {"FIN", "ACK"}, 0)

PeerRepeats(p) ==
  /\ peer[p].last # << >> /\ peer[p].again < MaxAgain
  /\ wire' = Append(wire, Head(peer[p].last))
  /\ peer' = [peer EXCEPT ![p].again = @ + 1]

(* A refusal, or a reset.                                                   *)
PeerResets(p) ==
  /\ peer[p].state # "closed"
  /\ wire' = Append(wire, PeerSeg(p, peer[p], {"RST", "ACK"}, 0))
  /\ peer' = [peer EXCEPT ![p] = [PeerGone(@) EXCEPT !.owes = "nothing"]]

PeerAnswers(p) ==
  /\ peer[p].owes # "nothing"
  /\ wire' = Append(wire, PeerSeg(p, peer[p],
       IF peer[p].owes = "ack" THEN {"ACK"} ELSE {"RST"}, 0))
  /\ peer' = [peer EXCEPT ![p].owes = "nothing",
                          ![p].state = IF @ = "acking" THEN "open" ELSE @]

PeerNext(p) ==
  /\ tcpWs = "open" /\ Len(wire) < MaxWire
  /\ \/ PeerConnects(p) \/ PeerAccepts(p) \/ PeerWrites(p) \/ PeerEnds(p)
     \/ PeerRepeats(p) \/ PeerResets(p) \/ PeerAnswers(p)
  /\ UNCHANGED <<tcpWs, readyCbs, conn, sock, table, listeners, tcpServer, nextPort>>

-----------------------------------------------------------------------------
CallNext(c) ==
  \/ \E half \in BOOLEAN : ConnectSocket(c, half)
  \/ WriteSocket(c) \/ EndSocket(c) \/ DestroySocket(c)

TimerNext(c) == Retransmit(c) \/ TimeWaitOver(c) \/ ReadyTimeout(c)

TcpNext ==
  \/ Receive \/ WsOpen \/ WsClose \/ \E p \in PortNumber : PeerNext(p)
  \/ \E c \in Id : \/ CallNext(c) \/ TimerNext(c)
                   \/ Resolved(c) \/ ResolveFails(c)
  \/ \E s \in 1 .. MaxServer : ListenOn(s) \/ CloseServer(s)

TcpSpec == TcpInit /\ [][TcpNext]_tcpVars

-----------------------------------------------------------------------------
(* What a socket is given is what the peer sent, from the first segment on, *)
(* without a hole or a repetition; and it is told of the end only when it   *)
(* has everything (segments are sent again, FINs are not looked at twice).  *)
StreamIsExact ==
  \A c \in Id :
    LET k == conn[c].recvNxt \div Stride
        x == peer[conn[c].port]
    IN /\ sock[c].got = [i \in 1 .. Len(sock[c].got) |-> Iss(k) + i]
       /\ sock[c].eof /\ x.n = k + 1 => x.fin /\ Len(sock[c].got) = x.sent

(* A connection that is not closed is found under its key, or a segment for *)
(* it is answered with RST: nothing but the TIME_WAIT timer of an earlier   *)
(* connection of the key may take it away (its timer outlives destroy()).   *)
OpenIsReachable ==
  \A c \in Id : conn[c].state \notin {"NONE", "CLOSED"} =>
    \/ table[conn[c].port] = c
    \/ \E d \in Id \ {c} : /\ conn[d].port = conn[c].port
                           /\ conn[d].timeWait = "stray"

(* A SYN that nobody answers is given up: the socket does not wait for ever.*)
SynIsAnswered ==
  \A c \in Id : conn[c].state = "SYN_SENT" ~> conn[c].state # "SYN_SENT"

(* Every connect() ends, in a connection or in an error (gvisor-net.js, line*)
(* 228: "fire error instead of hanging forever").                           *)
ConnectIsAnswered ==
  \A c \in Id : sock[c].connecting ~> ~sock[c].connecting
=============================================================================
