----------------------------- MODULE WispServer -----------------------------
(***************************************************************************)
(* The server's end of a Wisp session: Session and its Streams, and the    *)
(* 'connection' handler of the WebSocket server                            *)
(* (cmd/wisp-server-node/server.js).                                       *)
(*                                                                         *)
(* _handleConnect is asynchronous: it checks the limits, then awaits the   *)
(* name's resolution, then waits for the TCP connection, and only then     *)
(* puts a Stream into the Map. phase[id] is where the handling of the      *)
(* CONNECT of id is; every other event may come in between, the end of the *)
(* session included. Names, addresses and ports are left out: a check of   *)
(* the guard passes or fails.                                              *)
(***************************************************************************)
EXTENDS WispWire, Functions

CONSTANTS
  MaxStreams,  \* limits.maxStreamsPerSession
  Throttled    \* FALSE iff limits.bandwidthBps = 0, i.e. no throttling

ASSUME ServerAssumption == MaxStreams \in Nat /\ Throttled \in BOOLEAN

VARIABLES
  janitor,   \* is the session's janitor interval armed?
  smap,      \* keys of Session.streams
  phase,     \* handling of the CONNECT, then of the Stream, of each id
  accepted,  \* history: chunks given to the upstream socket, per stream
  dropped,   \* history: DATA packets that found no Stream, per stream
  produced,  \* chunks received from the upstream socket, per stream
  waiting    \* chunks waiting in _throttle, per stream

server == <<janitor, smap, phase, accepted, dropped, produced, waiting>>

Phase == {"none", "resolving", "connecting", "open", "closed"}

ServerInit ==
  /\ janitor = FALSE
  /\ smap = {}
  /\ phase = [id \in Ids |-> "none"]
  /\ accepted = [id \in Ids |-> << >>]
  /\ dropped = [id \in Ids |-> 0]
  /\ produced = [id \in Ids |-> 0]
  /\ waiting = [id \in Ids |-> << >>]

ServerTypeOK ==
  /\ janitor \in BOOLEAN
  /\ smap \subseteq Ids
  /\ phase \in [Ids -> Phase]
  /\ accepted \in [Ids -> Seq(Up)]
  /\ dropped \in [Ids -> Nat]
  /\ produced \in [Ids -> 0 .. MaxDown]
  /\ waiting \in [Ids -> Seq(Down)]

-----------------------------------------------------------------------------
(* wss 'connection': a Session, its janitor, and CONTINUE on stream 0.      *)
Connection ==
  /\ wsS = "none" /\ wsC = "connecting"
  /\ wsS' = "open"
  /\ janitor' = TRUE
  /\ s2c' = <<Continue(0, Buffer)>>
  /\ UNCHANGED <<c2s, wsC, smap, phase, accepted, dropped, produced, waiting>>

(* Session.close(): streams are closed without a packet; an unfinished      *)
(* _handleConnect is not told. It runs on the WebSocket's 'error' and again *)
(* on 'close'. Messages not yet dispatched are lost.                        *)
SessionClose ==
  /\ wsS \in {"open", "closing"}
  /\ wsS' \in IF wsS = "open" THEN {"closing", "closed"} ELSE {"closed"}
  /\ janitor' = FALSE
  /\ phase' = [id \in Ids |-> IF id \in smap THEN "closed" ELSE phase[id]]
  /\ smap' = {}
  /\ c2s' = << >>
  /\ UNCHANGED <<s2c, wsC, accepted, dropped, produced, waiting>>

-----------------------------------------------------------------------------
(* handlePacket: one action per type of packet.                             *)

Handle(type) ==
  /\ wsS = "open" /\ c2s # << >>
  /\ Head(c2s).type = type
  /\ c2s' = Tail(c2s)

(* _handleConnect up to its first await. The stream limit counts the        *)
(* Streams that are open, not the CONNECTs that are still being handled.    *)
HandleConnect ==
  LET id == Head(c2s).id
      start == /\ phase' = [phase EXCEPT ![id] = "resolving"]
               /\ UNCHANGED s2c
      refuse == /\ phase' = [phase EXCEPT ![id] = "closed"]
                /\ ToClient(<<Close(id, "error")>>)
  IN /\ Handle("CONNECT")
     /\ IF Cardinality(smap) >= MaxStreams THEN refuse
        ELSE start \/ refuse  \* refuse: checkPort
     /\ UNCHANGED <<wsC, wsS, janitor, smap, accepted, dropped, produced,
                    waiting>>

HandleData ==
  LET id == Head(c2s).id
  IN /\ Handle("DATA")
     /\ IF id \in smap
          THEN /\ accepted' = [accepted EXCEPT ![id] =
                                 Append(@, Head(c2s).chunk)]
               /\ UNCHANGED dropped
          ELSE /\ dropped' = [dropped EXCEPT ![id] = @ + 1]
               /\ UNCHANGED accepted
     /\ UNCHANGED <<s2c, wsC, wsS, janitor, smap, phase, produced, waiting>>

HandleClose ==
  LET id == Head(c2s).id
  IN /\ Handle("CLOSE")
     /\ IF id \in smap
          THEN /\ phase' = [phase EXCEPT ![id] = "closed"]  \* closeFromClient
               /\ smap' = smap \ {id}
          ELSE UNCHANGED <<phase, smap>>
     /\ UNCHANGED <<s2c, wsC, wsS, janitor, accepted, dropped, produced,
                    waiting>>

-----------------------------------------------------------------------------
(* The rest of _handleConnect: these run whatever became of the session.    *)

(* resolveAndCheck fails, or the socket's 'error' comes before 'connect'.   *)
ConnectFailsSilently(id) ==
  /\ phase[id] \in {"resolving", "connecting"}
  /\ phase' = [phase EXCEPT ![id] = "closed"]
  /\ UNCHANGED <<wire, janitor, smap, accepted, dropped, produced, waiting>>

ConnectFails(id) ==
  /\ phase[id] \in {"resolving", "connecting"}
  /\ phase' = [phase EXCEPT ![id] = "closed"]
  /\ ToClient(<<Close(id, "error")>>)
  /\ UNCHANGED <<c2s, wsC, wsS, janitor, smap, accepted, dropped, produced,
                 waiting>>

Resolved(id) ==
  /\ phase[id] = "resolving"
  /\ phase' = [phase EXCEPT ![id] = "connecting"]
  /\ UNCHANGED <<wire, janitor, smap, accepted, dropped, produced, waiting>>

(* 'connect' *)
Connected(id) ==
  /\ phase[id] = "connecting"
  /\ phase' = [phase EXCEPT ![id] = "open"]
  /\ smap' = smap \cup {id}
  /\ ToClient(<<Continue(id, Buffer)>>)
  /\ UNCHANGED <<c2s, wsC, wsS, janitor, accepted, dropped, produced, waiting>>

-----------------------------------------------------------------------------
(* Stream: the upstream socket's events and the janitor.                    *)

(* _throttle returns at once when there is no cap; otherwise it may wait.   *)
MayWait == Throttled

(* 'data': the chunk is sent when _throttle's promise resolves.             *)
SocketData(id) ==
  LET chunk == produced[id] + 1
  IN /\ phase[id] = "open" /\ chunk \in Down
     /\ produced' = [produced EXCEPT ![id] = chunk]
     /\ \/ ToClient(<<Data(id, chunk)>>) /\ UNCHANGED waiting
        \/ /\ MayWait
           /\ waiting' = [waiting EXCEPT ![id] = Append(@, chunk)]
           /\ UNCHANGED s2c
     /\ UNCHANGED <<c2s, wsC, wsS, janitor, smap, phase, accepted, dropped>>

(* A throttled chunk's timer fires, and not in the order the timers were    *)
(* set (_throttle, lines 203-223). The chunk is lost if the Stream has       *)
(* closed.                                                                  *)
StillOpenUnchecked(id) == TRUE

StillOpen(id) == phase[id] = "open"

ThrottleDone(id) ==
  \E k \in DOMAIN waiting[id] :
    /\ waiting' = [waiting EXCEPT ![id] =
                     SubSeq(@, 1, k - 1) \o SubSeq(@, k + 1, Len(@))]
    /\ IF StillOpen(id) THEN ToClient(<<Data(id, waiting[id][k])>>)
       ELSE UNCHANGED s2c
    /\ UNCHANGED <<c2s, wsC, wsS, janitor, smap, phase, accepted, dropped,
                   produced>>

(* _closeSelf, on the streams of S in some order: Close packets to the      *)
(* client, if the WebSocket is open.                                        *)
CloseSelfSilently(S, reason) ==
  /\ phase' = [id \in Ids |-> IF id \in S THEN "closed" ELSE phase[id]]
  /\ smap' = smap \ S
  /\ UNCHANGED s2c

CloseSelf(S, reason) ==
  \E order \in [1 .. Cardinality(S) -> S] :
    /\ IsInjective(order)
    /\ phase' = [id \in Ids |-> IF id \in S THEN "closed" ELSE phase[id]]
    /\ smap' = smap \ S
    /\ ToClient([k \in 1 .. Cardinality(S) |-> Close(order[k], reason)])

(* 'end' and 'close' are voluntary; 'error', and a write that throws, not.  *)
SocketEnds(id) ==
  /\ phase[id] = "open"
  /\ \E reason \in Reason : CloseSelf({id}, reason)
  /\ UNCHANGED <<c2s, wsC, wsS, janitor, accepted, dropped, produced, waiting>>

(* _janitorTick finds that some streams have been idle, or alive, too long. *)
ExpirableOnceUsed == {id \in smap : accepted[id] # << >>}

Expirable == smap

JanitorTick ==
  /\ janitor
  /\ \E expired \in SUBSET Expirable :
       expired # {} /\ CloseSelf(expired, "error")
  /\ UNCHANGED <<c2s, wsC, wsS, janitor, accepted, dropped, produced, waiting>>

-----------------------------------------------------------------------------
HandlePacket == HandleConnect \/ HandleData \/ HandleClose

ConnectNext(id) == ConnectFails(id) \/ Resolved(id) \/ Connected(id)

StreamNext(id) == SocketData(id) \/ ThrottleDone(id) \/ SocketEnds(id)

ServerNext ==
  \/ Connection \/ SessionClose \/ HandlePacket \/ JanitorTick
  \/ \E id \in Ids : ConnectNext(id) \/ StreamNext(id)
=============================================================================
