------------------------------ MODULE TlsSocket ------------------------------
(***************************************************************************)
(* TLS sockets: JavaScript that carries bytes between a TCP socket of the  *)
(* page's own stack and wolfSSL, a Wasm module with a fixed number of      *)
(* sessions and a ring buffer for each direction of each. A TLS record     *)
(* comes off the TCP stream in two pieces; wolfSSL returns whole ones.     *)
(*   The page leaves its events to microtasks, so a socket may be changed  *)
(* by its owner in between.                                                *)
(***************************************************************************)
EXTENDS Naturals, Sequences, FiniteSets

CONSTANTS
  Sock,        \* the sockets
  NoSock,
  MaxSession,  \* MAX_SESSIONS
  MaxRecord    \* records sent each way

ASSUME SocketAssumption == NoSock \notin Sock /\ MaxSession \in Nat /\ MaxRecord \in Nat

Slot == 1 .. MaxSession

VARIABLES
  slots,       \* the session table: the socket a slot was made for
  stage,       \* "new", "loading", "tcp", "handshake" or "open"
  session,     \* _sessionId, 0 for -1
  dead,        \* _destroyed
  failed,      \* whether it died of _emitError (history)
  early,       \* whether it was destroyed before it had a session (history)
  tcp,         \* its TCP socket: "none", "connecting", "open", "closed"
  ring,        \* pieces of records in the session's receive buffer
  arrived,     \* pieces that came over TCP in all
  got,         \* the records pushed to the reader
  write,       \* the write under way: "none", "parked" or "told"
  sent,        \* the records wolfSSL was given to send
  asked,       \* records the owner wrote so far
  ended,       \* whether _final ran
  micro        \* microtasks to come: "secureConnect", "close"

socketVars == <<stage, session, dead, failed, early, tcp>>
dataVars == <<ring, arrived, got>>
writeVars == <<write, sent, asked, ended>>
tlsVars == <<slots, socketVars, dataVars, writeVars, micro>>

TlsInit ==
  /\ slots = [i \in Slot |-> NoSock]
  /\ stage = [s \in Sock |-> "new"]
  /\ session = [s \in Sock |-> 0]
  /\ dead = [s \in Sock |-> FALSE]
  /\ failed = [s \in Sock |-> FALSE]
  /\ early = [s \in Sock |-> FALSE]
  /\ tcp = [s \in Sock |-> "none"]
  /\ ring = [s \in Sock |-> 0]
  /\ arrived = [s \in Sock |-> 0]
  /\ got = [s \in Sock |-> << >>]
  /\ write = [s \in Sock |-> "none"]
  /\ sent = [s \in Sock |-> << >>]
  /\ asked = [s \in Sock |-> 0]
  /\ ended = [s \in Sock |-> FALSE]
  /\ micro = [s \in Sock |-> {}]

TlsTypeOK ==
  /\ slots \in [Slot -> Sock \cup {NoSock}]
  /\ stage \in [Sock -> {"new", "loading", "tcp", "handshake", "open"}]
  /\ session \in [Sock -> 0 .. MaxSession]
  /\ {dead, failed, early, ended} \subseteq [Sock -> BOOLEAN]
  /\ tcp \in [Sock -> {"none", "connecting", "open", "closed"}]
  /\ ring \in [Sock -> 0 .. 2 * MaxRecord]
  /\ arrived \in [Sock -> 0 .. 2 * MaxRecord]
  /\ got \in [Sock -> Seq(1 .. MaxRecord)]
  /\ write \in [Sock -> {"none", "parked", "told"}]
  /\ sent \in [Sock -> Seq(1 .. MaxRecord)]
  /\ asked \in [Sock -> 0 .. MaxRecord]
  /\ micro \in [Sock -> SUBSET {"secureConnect", "close"}]

(* _emitError marks the socket destroyed and frees nothing.                 *)
EmitError(s) ==
  /\ dead' = [dead EXCEPT ![s] = TRUE]
  /\ failed' = [failed EXCEPT ![s] = TRUE]
  /\ micro' = [micro EXCEPT ![s] = @ \cup {"close"}]

-----------------------------------------------------------------------------
(* tls.connect: the constructor calls _start, which waits for the Wasm      *)
(* module to be loaded ...                                                  *)
Connect(s) ==
  /\ stage[s] = "new"
  /\ stage' = [stage EXCEPT ![s] = "loading"]
  /\ UNCHANGED <<slots, session, dead, failed, early, tcp, dataVars, writeVars, micro>>

(* ... and then takes the first session that is free and opens a TCP        *)
(* connection, also for a socket that was destroyed meanwhile.              *)
Start(s) ==
  /\ stage[s] = "loading"
  /\ stage' = [stage EXCEPT ![s] = "tcp"]
  /\ LET free == {i \in Slot : slots[i] = NoSock}
     IN IF free = {}
        THEN EmitError(s) /\ UNCHANGED <<slots, session, early, tcp>>
        ELSE LET id == CHOOSE i \in free : \A j \in free : i <= j
             IN /\ slots' = [slots EXCEPT ![id] = s]
                /\ session' = [session EXCEPT ![s] = id]
                /\ tcp' = [tcp EXCEPT ![s] = "connecting"]
                /\ UNCHANGED <<dead, failed, early, micro>>
  /\ UNCHANGED <<dataVars, writeVars>>

TcpConnects(s) ==
  /\ tcp[s] = "connecting"
  /\ tcp' = [tcp EXCEPT ![s] = "open"]
  /\ stage' = [stage EXCEPT ![s] = "handshake"]
  /\ UNCHANGED <<slots, session, dead, failed, early, dataVars, writeVars, micro>>

\* Mutant: a record is read while its second piece is still to come.
ReadableSoon(pieces) == (pieces + 1) \div 2

(* wssl_read returns whole records, and 0 (WANT_READ) before one is there.  *)
Readable(pieces) == pieces \div 2

(* _driveRead, over the pieces that the ring buffer has.                    *)
Drain(s, pieces) ==
  /\ got' = [got EXCEPT ![s] = @ \o [i \in 1 .. Readable(pieces) |-> Len(@) + i]]
  /\ ring' = [ring EXCEPT ![s] = IF 2 * Readable(pieces) > pieces THEN 0
                                 ELSE pieces - 2 * Readable(pieces)]

(* TCP data: pushed to wolfSSL; in the handshake it may be its last message *)
(* with the first records behind it, after the handshake it is records.     *)
TcpData(s, pieces) ==
  /\ tcp[s] = "open"
  /\ arrived[s] + pieces <= 2 * MaxRecord
  /\ IF dead[s] \/ session[s] = 0
     THEN UNCHANGED <<stage, dataVars, micro>>
     ELSE /\ arrived' = [arrived EXCEPT ![s] = @ + pieces]
          /\ stage' = [stage EXCEPT ![s] = "open"]
          /\ Drain(s, ring[s] + pieces)
          /\ micro' = IF stage[s] = "handshake"
                      THEN [micro EXCEPT ![s] = @ \cup {"secureConnect"}] ELSE micro
  /\ UNCHANGED <<slots, session, dead, failed, early, tcp, writeVars>>

(* A handshake that fails, a read that fails: the session stays as it is.   *)
TlsFails(s) ==
  /\ tcp[s] = "open" /\ session[s] # 0 /\ ~dead[s]
  /\ EmitError(s)
  /\ UNCHANGED <<slots, stage, session, early, tcp, dataVars, writeVars>>

TcpFails(s) ==
  /\ tcp[s] \in {"connecting", "open"}
  /\ tcp' = [tcp EXCEPT ![s] = "closed"]
  /\ IF dead[s] THEN UNCHANGED <<dead, failed, micro>> ELSE EmitError(s)
  /\ UNCHANGED <<slots, stage, session, early, dataVars, writeVars>>

(* The TCP connection ends: the socket is told, and stays as it is.         *)
TcpCloses(s) ==
  /\ tcp[s] = "open"
  /\ tcp' = [tcp EXCEPT ![s] = "closed"]
  /\ micro' = IF dead[s] THEN micro ELSE [micro EXCEPT ![s] = @ \cup {"close"}]
  /\ UNCHANGED <<slots, stage, session, dead, failed, early, dataVars, writeVars>>

\* Mutant: the socket keeps the number of the session it freed.
DestroyKeepsNumber(s) ==
  /\ stage[s] # "new" /\ ~dead[s]
  /\ dead' = [dead EXCEPT ![s] = TRUE]
  /\ early' = [early EXCEPT ![s] = session[s] = 0]
  /\ IF session[s] = 0 THEN UNCHANGED slots
     ELSE slots' = [slots EXCEPT ![session[s]] = NoSock]
  /\ tcp' = [tcp EXCEPT ![s] = IF @ = "none" THEN @ ELSE "closed"]
  /\ micro' = [micro EXCEPT ![s] = @ \cup {"close"}]
  /\ UNCHANGED <<stage, session, failed, dataVars, writeVars>>

(* destroy: nothing, if the socket is marked already; otherwise the session *)
(* and the buffers go, and the TCP socket.                                  *)
Destroy(s) ==
  /\ stage[s] # "new" /\ ~dead[s]
  /\ dead' = [dead EXCEPT ![s] = TRUE]
  /\ early' = [early EXCEPT ![s] = session[s] = 0]
  /\ IF session[s] = 0 THEN UNCHANGED <<slots, session>>
     ELSE /\ slots' = [slots EXCEPT ![session[s]] = NoSock]
          /\ session' = [session EXCEPT ![s] = 0]
  /\ tcp' = [tcp EXCEPT ![s] = IF @ = "none" THEN @ ELSE "closed"]
  /\ micro' = [micro EXCEPT ![s] = @ \cup {"close"}]
  /\ UNCHANGED <<stage, failed, dataVars, writeVars>>

-----------------------------------------------------------------------------
Encrypt(s) == sent' = [sent EXCEPT ![s] = Append(@, asked'[s])]

(* A write, one at a time: told of an error without a session, parked until *)
(* 'secureConnect' before the handshake is done, or encrypted.              *)
Write(s) ==
  /\ stage[s] # "new" /\ write[s] # "parked"
  /\ asked[s] < MaxRecord /\ ~ended[s]
  /\ asked' = [asked EXCEPT ![s] = @ + 1]
  /\ IF dead[s] \/ session[s] = 0
     THEN write' = [write EXCEPT ![s] = "told"] /\ UNCHANGED sent
     ELSE IF stage[s] # "open"
     THEN write' = [write EXCEPT ![s] = "parked"] /\ UNCHANGED sent
     ELSE write' = [write EXCEPT ![s] = "none"] /\ Encrypt(s)
  /\ UNCHANGED <<slots, socketVars, dataVars, micro, ended>>

SecureConnect(s) ==
  /\ "secureConnect" \in micro[s]
  /\ micro' = [micro EXCEPT ![s] = @ \ {"secureConnect"}]
  /\ asked' = asked
  /\ IF write[s] # "parked" THEN UNCHANGED <<write, sent>>
     ELSE IF dead[s] \/ session[s] = 0
     THEN write' = [write EXCEPT ![s] = "told"] /\ UNCHANGED sent
     ELSE write' = [write EXCEPT ![s] = "none"] /\ Encrypt(s)
  /\ UNCHANGED <<slots, socketVars, dataVars, ended>>

(* end(): once no write waits, wolfSSL says goodbye if there is a session,  *)
(* and the TCP socket, if there is one, is ended; it closes later.          *)
Final(s) ==
  /\ stage[s] # "new" /\ write[s] # "parked" /\ ~ended[s]
  /\ ended' = [ended EXCEPT ![s] = TRUE]
  /\ UNCHANGED <<slots, socketVars, dataVars, write, sent, asked, micro>>

CloseTold(s) ==
  /\ "close" \in micro[s]
  /\ micro' = [micro EXCEPT ![s] = @ \ {"close"}]
  /\ UNCHANGED <<slots, socketVars, dataVars, writeVars>>

TlsNext ==
  \E s \in Sock :
    \/ Connect(s) \/ Start(s) \/ TcpConnects(s) \/ TlsFails(s) \/ TcpFails(s)
    \/ TcpCloses(s) \/ Destroy(s) \/ Write(s) \/ SecureConnect(s) \/ CloseTold(s)
    \/ Final(s)
    \/ \E pieces \in 1 .. 3 : TcpData(s, pieces)

TlsSpec == TlsInit /\ [][TlsNext]_tlsVars

-----------------------------------------------------------------------------
(* No two sockets use one session of wolfSSL: a socket's number is that of  *)
(* a slot made for it, and a slot that is taken is some socket's.           *)
SessionsAreApart ==
  /\ \A s \in Sock : session[s] # 0 => slots[session[s]] = s
  /\ \A i \in Slot : slots[i] # NoSock => session[slots[i]] = i

(* A destroyed socket gives its session back, unless an error destroyed it  *)
(* (wolfssl-tls.js, line 282, after which destroy() does nothing), or it    *)
(* was destroyed while the module was loading (line 97, which goes on).     *)
SessionsComeBack ==
  \A s \in Sock : (dead[s] /\ session[s] # 0) => failed[s] \/ early[s]

(* What the reader gets is what the peer sent, whole records in their       *)
(* order; what wolfSSL is given is what the owner wrote, in its order, and  *)
(* a write that waits for the handshake goes before any later one.          *)
RecordsInOrder ==
  \A s \in Sock :
    /\ Len(got[s]) <= arrived[s] \div 2
    /\ \A i \in DOMAIN got[s] : got[s][i] = i
    /\ \A i, j \in DOMAIN sent[s] : i < j => sent[s][i] < sent[s][j]
    /\ (write[s] = "parked" /\ ~dead[s]) => sent[s] = << >>

(* All of it: nobody loses a session, a record or its place in the queue.   *)
SocketsAreKept == SessionsAreApart /\ SessionsComeBack /\ RecordsInOrder
=============================================================================
