------------------------------ MODULE WispWire ------------------------------
(***************************************************************************)
(* The WebSocket that carries one Wisp session, as its two ends see it.    *)
(* Each Wisp packet is one binary WebSocket message, and a WebSocket is    *)
(* reliable and ordered while it is open (napi-bridge/wisp-client.js,      *)
(* header, lines 28-62), so each direction is a sequence of packets.       *)
(* Packets are kept as records: host names, ports and bytes are left out,  *)
(* a DATA payload is the number of the chunk within its stream.            *)
(***************************************************************************)
EXTENDS Integers, Sequences, FiniteSets

CONSTANTS
  MaxId,          \* bound: stream ids 1 .. MaxId are opened in a session
  MaxUp,          \* bound: chunks an application writes to one stream
  MaxDown,        \* bound: chunks a destination sends on one stream
  Buffer,         \* BUFFER_SIZE of the server: DATA packets of credit
  DefaultBuffer   \* DEFAULT_INITIAL_BUFFER of the client

ASSUME WireAssumption ==
  /\ MaxId \in Nat /\ MaxUp \in Nat /\ MaxDown \in Nat
  /\ Buffer \in Nat \ {0}
  /\ DefaultBuffer \in Nat

VARIABLES
  c2s,   \* packets sent by the client and not yet handled by the server
  s2c,   \* packets sent by the server and not yet handled by the client
  wsC,   \* readyState of the client's WebSocket
  wsS    \* readyState of the server's WebSocket

wire == <<c2s, s2c, wsC, wsS>>

Ids == 1 .. MaxId

Up == 1 .. MaxUp

Down == 1 .. MaxDown

(* Close reasons, as far as the client tells them apart: 0x02 and the rest. *)
Reason == {"voluntary", "error"}

Connect(id) == [type |-> "CONNECT", id |-> id]

Data(id, chunk) == [type |-> "DATA", id |-> id, chunk |-> chunk]

Continue(id, remaining) ==
  [type |-> "CONTINUE", id |-> id, remaining |-> remaining]

Close(id, reason) == [type |-> "CLOSE", id |-> id, reason |-> reason]

UpPackets ==
  [type : {"CONNECT"}, id : Ids]
    \cup [type : {"DATA"}, id : Ids, chunk : Up]
    \cup [type : {"CLOSE"}, id : Ids, reason : Reason]

DownPackets ==
  [type : {"CONTINUE"}, id : Ids \cup {0}, remaining : {Buffer}]
    \cup [type : {"DATA"}, id : Ids, chunk : Down]
    \cup [type : {"CLOSE"}, id : Ids, reason : Reason]

-----------------------------------------------------------------------------
(* A send is silently nothing when the sender's socket is not open, and     *)
(* what is sent to an end that will dispatch no more messages is lost.      *)
ToServer(pkts) ==
  c2s' = IF wsC = "open" /\ wsS = "open" THEN c2s \o pkts ELSE c2s

ToClient(pkts) ==
  s2c' = IF wsS = "open" /\ wsC \in {"connecting", "open"}
           THEN s2c \o pkts ELSE s2c

(* What a wire holds.                                                       *)
Matches(p, type, id) == p.type = type /\ p.id = id

Has(q, type, id) == \E i \in DOMAIN q : Matches(q[i], type, id)

AtMostOne(q, type, id) ==
  \A i, j \in DOMAIN q :
    Matches(q[i], type, id) /\ Matches(q[j], type, id) => i = j

WireInit ==
  /\ c2s = << >> /\ s2c = << >>
  /\ wsC = "connecting" /\ wsS = "none"

WireTypeOK ==
  /\ c2s \in Seq(UpPackets)
  /\ s2c \in Seq(DownPackets)
  /\ wsC \in {"connecting", "open", "closing", "closed"}
  /\ wsS \in {"none", "open", "closing", "closed"}
=============================================================================
