----------------------------- MODULE WispTunnel -----------------------------
(***************************************************************************)
(* One Wisp session end to end: the browser's WispConnection and the       *)
(* server's Session over one WebSocket. A step is a step of one end; the   *)
(* ends share only the wire.                                               *)
(***************************************************************************)
EXTENDS WispClient, WispServer

vars == <<wire, client, server>>

Init == WireInit /\ ClientInit /\ ServerInit

Next ==
  \/ ClientNext /\ UNCHANGED server
  \/ ServerNext /\ UNCHANGED client

Spec == Init /\ [][Next]_vars

(* What eventually happens: messages are dispatched; a name's resolution    *)
(* and a TCP connection end in success or failure (both have time-outs);    *)
(* and the janitor, which runs every 5 s, closes a stream that outlives     *)
(* streamMaxLifetimeMs. Callers, destinations and the network owe nothing.  *)
Fairness ==
  /\ WF_vars(OnMessage /\ UNCHANGED server)
  /\ WF_vars(HandlePacket /\ UNCHANGED client)
  /\ \A id \in Ids :
       /\ WF_vars(ConnectNext(id) /\ UNCHANGED client)
       /\ WF_vars(JanitorTick /\ id \in smap \ smap' /\ UNCHANGED client)

FairSpec == Spec /\ Fairness

(* For the runs: one stream with data, whether or not its caller listens;   *)
(* or two streams that carry none, and whose callers listen.                *)
OneMatter ==
  \/ nextStreamId <= 2
  \/ \A id \in Ids :
       /\ cstream[id].written = 0 /\ produced[id] = 0
       /\ cstream[id].held => cstream[id].listens

MixedSpec == Init /\ [][Next /\ OneMatter']_vars /\ Fairness

TypeOK == WireTypeOK /\ ClientTypeOK /\ ServerTypeOK

-----------------------------------------------------------------------------
InitialCredit == IF Buffer > DefaultBuffer THEN Buffer ELSE DefaultBuffer

(* The client and the server agree on nothing but the packets, and yet a    *)
(* stream never carries more DATA packets than its initial credit plus the  *)
(* one CONTINUE the server sends when the upstream connects (server.js,     *)
(* line 310): however CONTINUEs, writes and closes interleave, no grant is  *)
(* counted twice. It is also the most a stream will ever carry.             *)
CreditCap == \A id \in Ids : sent[id] <= InitialCredit + Buffer

(* Why CreditCap holds: a stream's CONNECT is handled once, so its upstream *)
(* connects once, so one CONTINUE is sent for it, and until the client has  *)
(* handled that one, it lives on its initial credit.                        *)
Granted(id) == phase[id] \in {"open", "closed"} /\ ~Has(s2c, "CONTINUE", id)

CreditOf(id) ==
  /\ AtMostOne(c2s, "CONNECT", id)
  /\ Has(c2s, "CONNECT", id) => phase[id] = "none"
  /\ AtMostOne(s2c, "CONTINUE", id)
  /\ Has(s2c, "CONTINUE", id) => phase[id] \in {"open", "closed"}
  /\ id \in smap => phase[id] = "open"
  /\ sent[id] + cstream[id].credit
       <= InitialCredit + (IF Granted(id) THEN Buffer ELSE 0)
  /\ id >= nextStreamId =>
       /\ phase[id] = "none" /\ ~Has(c2s, "CONNECT", id)
       /\ sent[id] = 0 /\ ~cstream[id].held

CreditInv == \A id \in Ids : CreditOf(id)

(* CLOSE is the last packet of a stream in either direction, although both  *)
(* ends go on holding chunks for it (the client's send queue, the server's  *)
(* throttle) and learn of the close at different times.                     *)
CloseIsLast ==
  \A q \in {c2s, s2c} : \A i, j \in DOMAIN q :
    i < j /\ q[i].type = "CLOSE" => q[j].id # q[i].id

(* The client believes that stream id lives.                                *)
Alive(id) ==
  /\ wsC = "open" /\ wsS = "open"
  /\ id \in cmap /\ ~cstream[id].closed

(* A stream the server has refused or closed, on whatever path, and that    *)
(* the client believes alive, has its CLOSE on the way: nobody waits for a  *)
(* stream that is gone.                                                     *)
CloseIsPending ==
  \A id \in Ids : Alive(id) /\ phase[id] = "closed" =>
    Has(s2c, "CLOSE", id)

(* Why both hold: a CLOSE on its way to the server belongs to a stream that *)
(* the client has closed and taken out of its Map, so that nothing is sent  *)
(* for it any more; one on its way to the client, to a stream whose phase is*)
(* over. A stream that is yet to be opened has nothing on the wire, and none*)
(* is opened before the WebSocket is.                                       *)
NothingOf(q, id) == \A i \in DOMAIN q : q[i].id # id

ClosesLast(q, id) ==
  \A i, j \in DOMAIN q :
    i < j /\ Matches(q[i], "CLOSE", id) => q[j].id # id

CloseOf(id) ==
  /\ ClosesLast(c2s, id) /\ ClosesLast(s2c, id)
  /\ Has(c2s, "CLOSE", id) => cstream[id].closed /\ id \notin cmap
  /\ Has(s2c, "CLOSE", id) => phase[id] = "closed"
  /\ id >= nextStreamId => NothingOf(c2s, id)
  /\ Alive(id) /\ phase[id] = "closed" => Has(s2c, "CLOSE", id)

CloseInv ==
  /\ wsC = "connecting" => ~ready /\ cmap = {}
  /\ \A id \in Ids : CloseOf(id)

(* When the WebSocket has closed, every stream a caller holds has been told *)
(* so, although a stream without an 'error' listener cuts the loop of the   *)
(* 'close' listener short (wisp-client.js, lines 202-205). It needs the     *)
(* callers of earlier streams to listen: see ListenChoices.                 *)
EveryHolderIsTold ==
  wsC = "closed" => \A id \in cmap : cstream[id].held => cstream[id].closed

EveryCallerListens == \A id \in Ids : cstream[id].held => cstream[id].listens

(* Why it holds when they do: the streams nobody holds were opened after the*)
(* WebSocket had begun to close, and so come last in the Map; a stream that *)
(* was not told comes after one that is held and has no listener.           *)
HolderInv ==
  /\ wsC = "closed" => connClosed
  /\ \A id \in cmap : ~cstream[id].held => wsC \in {"closing", "closed"}
  /\ \A j, id \in cmap : j < id /\ cstream[id].held => cstream[j].held
  /\ wsC = "closed" =>
       \A id \in cmap : cstream[id].held /\ ~cstream[id].closed =>
         \E j \in Ids : j < id /\ cstream[j].held /\ ~cstream[j].listens

(* What an application's writes come to: see WispPipe.                      *)
LostPrefix(id) ==
  IF accepted[id] = << >> THEN dropped[id] ELSE accepted[id][1] - 1

Pipe == INSTANCE WispPipe WITH
  written <- [id \in Ids |-> cstream[id].written],
  lost <- [id \in Ids |-> LostPrefix(id)],
  delivered <- accepted

ImplementsPipe == Pipe!Spec

(* Why it does: the chunks of a stream are numbered, and go one after       *)
(* another through its queue, over the wire and to the destination. As long *)
(* as both ends are open and the stream is, nothing is missing; what is lost*)
(* at the client's end is followed by nothing.                              *)
IsData(p, id) == Matches(p, "DATA", id)

\* The DATA packets of id in q carry the chunks after h up to n, in order.
Numbered(q, id, h, n) ==
  /\ \A i \in DOMAIN q : IsData(q[i], id) => q[i].chunk \in h + 1 .. n
  /\ \A i, j \in DOMAIN q :
       IsData(q[i], id) /\ IsData(q[j], id) /\ i < j => q[i].chunk < q[j].chunk
  /\ \A m \in h + 1 .. n :
       \E i \in DOMAIN q : IsData(q[i], id) /\ q[i].chunk = m

Handled(id) == Len(accepted[id]) + dropped[id]

\* Nothing of the stream has been lost at the client's end.
Whole(id) ==
  /\ wsC = "open" /\ wsS = "open"
  /\ ~cstream[id].closed \/ cstream[id].queue # << >>

PipeOf(id) ==
  LET s == cstream[id]
  IN /\ \A i \in DOMAIN s.queue : s.queue[i] = s.written - Len(s.queue) + i
     /\ \E n \in Handled(id) .. s.written :
          Numbered(c2s, id, Handled(id), n) /\ (Whole(id) => n + Len(s.queue) = s.written)
     /\ phase[id] = "open" => id \in smap
     /\ accepted[id] # << >> =>
          /\ phase[id] \in {"open", "closed"}
          /\ phase[id] = "open" => accepted[id][1] = dropped[id] + 1
     /\ id >= nextStreamId => s.written = 0 /\ Handled(id) = 0

PipeInv ==
  /\ wsC = "connecting" => nextStreamId = 1
  /\ \A id \in Ids : PipeOf(id)

-----------------------------------------------------------------------------
(* A CONNECT is answered: the upstream opens, or the client learns that it  *)
(* will not.                                                                *)
ConnectIsAnswered ==
  \A id \in Ids : Alive(id) ~> (phase[id] = "open" \/ ~Alive(id))

(* What the server has closed the client stops believing alive.             *)
CloseIsLearnt ==
  \A id \in Ids : phase[id] = "closed" ~> ~Alive(id)

(* A stream the client has given up while its CONNECT was being handled (its*)
(* CLOSE finds no Stream, server.js lines 237-243) opens all the same, and  *)
(* is closed by the janitor as long as the session lasts.                   *)
OrphansAreReaped ==
  \A id \in Ids :
    (id \in smap /\ janitor) ~> (phase[id] = "closed" \/ ~janitor)

-----------------------------------------------------------------------------
(* Claims of the sources that this session does not keep.                   *)

(* wisp-client.js, lines 51-55: a packet within the announced credit may be *)
(* sent, so it should reach the stream it is for.                           *)
EarlyDataIsKept ==
  \A id \in Ids : phase[id] \in {"resolving", "connecting", "open"}
                    => dropped[id] = 0

(* wisp-client.js, lines 51-55: at zero the client waits for a CONTINUE.    *)
(* A writer is never left waiting with nothing on the way to release it.    *)
CreditComesBack ==
  \A id \in Ids :
    ~ /\ Alive(id) /\ phase[id] = "open"
      /\ cstream[id].queue # << >> /\ cstream[id].credit = 0
      /\ c2s = << >> /\ s2c = << >>
=============================================================================
