-------------------------- MODULE WispTunnel_proofs --------------------------
(***************************************************************************)
(* Proofs about the Wisp session, in four parts: types, and the bound on   *)
(* what a stream may carry (CreditCap); CLOSE, which is last and comes     *)
(* (CloseIsLast, CloseIsPending); who is told that the WebSocket has closed*)
(* (EveryHolderIsTold); and the way of a stream's chunks, with the         *)
(* refinement of WispPipe (ImplementsPipe).                                *)
(***************************************************************************)
EXTENDS WispTunnel, SequenceTheorems, FiniteSetTheorems, TLAPS

-----------------------------------------------------------------------------
(* What the client puts on the wire is well typed (buildConnect, buildData, *)
(* buildClose), and so is what it reads back from a packet of each type.    *)
LEMMA UpPacketsTyped ==
  /\ \A id \in Ids : Connect(id) \in UpPackets
  /\ \A id \in Ids, chunk \in Up : Data(id, chunk) \in UpPackets
  /\ \A id \in Ids, reason \in Reason : Close(id, reason) \in UpPackets
  /\ \A p \in UpPackets :
       /\ p.id \in Ids
       /\ p.type = "DATA" => p.chunk \in Up
BY DEF Connect, Data, Close, UpPackets

(* The same for the server's packets.                                       *)
LEMMA DownPacketsTyped ==
  /\ \A id \in Ids \cup {0} : Continue(id, Buffer) \in DownPackets
  /\ \A id \in Ids, chunk \in Down : Data(id, chunk) \in DownPackets
  /\ \A id \in Ids, reason \in Reason : Close(id, reason) \in DownPackets
  /\ \A p \in DownPackets :
       /\ p.id \in Ids \cup {0}
       /\ p.type \in {"CONTINUE", "DATA", "CLOSE"}
       /\ p.type = "CONTINUE" => p.remaining = Buffer
       /\ p.type = "DATA" => p.chunk \in Down /\ p.id \in Ids
       /\ p.type = "CLOSE" => p.reason \in Reason /\ p.id \in Ids
BY DEF Continue, Data, Close, DownPackets

(* Dispatching the first packet: what remains was there before.             *)
LEMMA HasTail ==
  ASSUME NEW S, NEW q \in Seq(S), q # << >>, NEW type, NEW id
  PROVE  /\ Has(Tail(q), type, id) => Has(q, type, id)
         /\ Matches(Head(q), type, id) => Has(q, type, id)
         /\ AtMostOne(q, type, id) => AtMostOne(Tail(q), type, id)
         /\ AtMostOne(q, type, id) /\ Matches(Head(q), type, id)
              => ~Has(Tail(q), type, id)
<1> DEFINE t == Tail(q)
<1>1. /\ t \in Seq(S) /\ Len(t) = Len(q) - 1
      /\ \A i \in 1 .. Len(t) : t[i] = q[i + 1]
  BY HeadTailProperties
<1>2. /\ DOMAIN t = 1 .. Len(t) /\ DOMAIN q = 1 .. Len(q)
      /\ Len(q) \in Nat \ {0} /\ Len(t) \in Nat
  BY <1>1, LenProperties, EmptySeq
<1>3. Head(q) = q[1]
  BY <1>2
<1>4. \A i \in DOMAIN t : i + 1 \in DOMAIN q /\ t[i] = q[i + 1] /\ i + 1 # 1
  BY <1>1, <1>2
<1>5. 1 \in DOMAIN q
  BY <1>2
<1> HIDE DEF t
<1>6. Has(t, type, id) => Has(q, type, id)
  BY <1>4 DEF Has
<1>7. Matches(Head(q), type, id) => Has(q, type, id)
  BY <1>3, <1>5 DEF Has
<1>8. AtMostOne(q, type, id) => AtMostOne(t, type, id)
  <2> SUFFICES ASSUME AtMostOne(q, type, id),
                      NEW i \in DOMAIN t, NEW j \in DOMAIN t,
                      Matches(t[i], type, id), Matches(t[j], type, id)
               PROVE  i = j
    BY DEF AtMostOne
  <2>1. i + 1 = j + 1
    BY <1>4 DEF AtMostOne
  <2> QED BY <2>1, <1>2
<1>9. AtMostOne(q, type, id) /\ Matches(Head(q), type, id) => ~Has(t, type, id)
  BY <1>3, <1>4, <1>5 DEF Has, AtMostOne
<1> QED BY <1>6, <1>7, <1>8, <1>9 DEF t

(* Sending more packets: the wire has what it had and what was sent.        *)
LEMMA HasConcat ==
  ASSUME NEW S, NEW q \in Seq(S), NEW r \in Seq(S), NEW type, NEW id
  PROVE  /\ Has(q \o r, type, id) => Has(q, type, id) \/ Has(r, type, id)
         /\ AtMostOne(q, type, id) /\ ~Has(r, type, id)
              => AtMostOne(q \o r, type, id)
         /\ ~Has(q, type, id) /\ AtMostOne(r, type, id)
              => AtMostOne(q \o r, type, id)
<1> DEFINE s == q \o r
           m == Len(q)
<1>1. /\ s \in Seq(S) /\ Len(s) = m + Len(r)
      /\ \A i \in 1 .. m + Len(r) : s[i] = IF i <= m THEN q[i] ELSE r[i - m]
  BY ConcatProperties
<1>2. /\ DOMAIN q = 1 .. m /\ DOMAIN r = 1 .. Len(r) /\ DOMAIN s = 1 .. Len(s)
      /\ m \in Nat /\ Len(r) \in Nat /\ DOMAIN s \subseteq Int
  BY <1>1, LenProperties
<1>3. \A i \in DOMAIN s :
        \/ i \in DOMAIN q /\ s[i] = q[i]
        \/ i > m /\ i - m \in DOMAIN r /\ s[i] = r[i - m]
  BY <1>1, <1>2
<1> HIDE DEF s, m
<1>4. Has(s, type, id) => Has(q, type, id) \/ Has(r, type, id)
  BY <1>3 DEF Has
<1>5. ASSUME AtMostOne(q, type, id), ~Has(r, type, id)
      PROVE  AtMostOne(s, type, id)
  BY <1>3, <1>5 DEF Has, AtMostOne
<1>6. ASSUME ~Has(q, type, id), AtMostOne(r, type, id)
      PROVE  AtMostOne(s, type, id)
  <2> SUFFICES ASSUME NEW i \in DOMAIN s, NEW j \in DOMAIN s,
                      Matches(s[i], type, id), Matches(s[j], type, id)
               PROVE  i = j
    BY DEF AtMostOne
  <2>1. i - m \in DOMAIN r /\ j - m \in DOMAIN r /\ i - m = j - m
    BY <1>3, <1>6 DEF Has, AtMostOne
  <2> QED BY <2>1, <1>2
<1> QED BY <1>4, <1>5, <1>6 DEF s

-----------------------------------------------------------------------------
LEMMA ToServerTyped ==
  ASSUME WireTypeOK, NEW pkts \in Seq(UpPackets), ToServer(pkts)
  PROVE  c2s' \in Seq(UpPackets)
BY ConcatProperties DEF WireTypeOK, ToServer

LEMMA ToClientTyped ==
  ASSUME WireTypeOK, NEW pkts \in Seq(DownPackets), ToClient(pkts)
  PROVE  s2c' \in Seq(DownPackets)
BY ConcatProperties DEF WireTypeOK, ToClient

LEMMA OnePacket == \A S : \A p \in S : <<p>> \in Seq(S)
OBVIOUS

(* A stream's send queue: what leaves is typed, and so is what stays.       *)
LEMMA DrainTyped ==
  ASSUME NEW id \in Ids, NEW s \in ClientStreams,
         NEW n \in 0 .. Len(s.queue), n <= s.credit
  PROVE  /\ DataPackets(id, s, n) \in Seq(UpPackets)
         /\ Drained(s, n) \in ClientStreams
<1>1. /\ s.queue \in Seq(Up) /\ Len(s.queue) \in Nat /\ n \in Nat
      /\ DOMAIN s.queue = 1 .. Len(s.queue)
  BY LenProperties DEF ClientStreams
<1>2. \A k \in 1 .. n : s.queue[k] \in Up
  BY <1>1, ElementOfSeq
<1>3. \A k \in 1 .. n : Data(id, s.queue[k]) \in UpPackets
  BY <1>2, UpPacketsTyped
<1>4. DataPackets(id, s, n) \in Seq(UpPackets)
  <2>1. DataPackets(id, s, n) \in [1 .. n -> UpPackets]
    BY <1>3 DEF DataPackets
  <2> QED BY <2>1, <1>1, SeqDef
<1>5. SubSeq(s.queue, n + 1, Len(s.queue)) \in Seq(Up)
  <2>1. \A i \in n + 1 .. Len(s.queue) : s.queue[i] \in Up
    BY <1>1, ElementOfSeq
  <2> QED BY <2>1, <1>1, SubSeqProperties
<1>6. s.credit - n \in Nat
  BY <1>1 DEF ClientStreams
<1>7. Drained(s, n) \in ClientStreams
  BY <1>5, <1>6 DEF Drained, ClientStreams
<1> QED BY <1>4, <1>7

LEMMA DrainCountBounds ==
  ASSUME NEW s \in ClientStreams
  PROVE  DrainCount(s) \in 0 .. Len(s.queue) /\ DrainCount(s) <= s.credit
<1>1. s.credit \in Nat /\ Len(s.queue) \in Nat
  BY LenProperties DEF ClientStreams
<1> QED BY <1>1 DEF DrainCount

-----------------------------------------------------------------------------
LEMMA TypeInit == Init => TypeOK
<1> SUFFICES ASSUME Init PROVE TypeOK
  OBVIOUS
<1> USE WireAssumption, ListenAssumption, ServerAssumption
<1>1. WireTypeOK
  BY DEF Init, WireInit, WireTypeOK
<1>2. NewStream(0, FALSE, FALSE) \in ClientStreams
  BY DEF NewStream, ClientStreams
<1>3. ClientTypeOK
  <2>1. 1 \in 1 .. MaxId + 1
    OBVIOUS
  <2>2. [id \in Ids |-> << >>] \in [Ids -> Seq(Down)]
    BY EmptySeq
  <2>3. [id \in Ids |-> 0] \in [Ids -> Nat]
    OBVIOUS
  <2> QED BY <1>2, <2>1, <2>2, <2>3 DEF Init, ClientInit, ClientTypeOK
<1>4. ServerTypeOK
  <2>1. \A S : [id \in Ids |-> << >>] \in [Ids -> Seq(S)]
    BY EmptySeq
  <2>2. [id \in Ids |-> 0] \in [Ids -> Nat]
    OBVIOUS
  <2>3. [id \in Ids |-> 0] \in [Ids -> 0 .. MaxDown]
    OBVIOUS
  <2>4. [id \in Ids |-> "none"] \in [Ids -> Phase]
    BY DEF Phase
  <2> QED BY <2>1, <2>2, <2>3, <2>4 DEF Init, ServerInit, ServerTypeOK
<1> QED BY <1>1, <1>3, <1>4 DEF TypeOK

LEMMA ClientTypeStep ==
  ASSUME TypeOK, ClientNext
  PROVE  WireTypeOK' /\ ClientTypeOK'
<1> USE WireAssumption, ListenAssumption
<1> USE DEF TypeOK
<1>0. /\ WireTypeOK /\ ClientTypeOK
      /\ \A id \in Ids : cstream[id] \in ClientStreams
      /\ Ids \subseteq Nat
  BY DEF ClientTypeOK, Ids
<1>1. CASE WsOpen
  <2>1. /\ wsC' = "open" /\ UNCHANGED <<c2s, s2c, wsS>>
        /\ UNCHANGED <<ready, connClosed, initialBuffer, nextStreamId>>
        /\ UNCHANGED <<cmap, cstream, sent, got>>
    BY <1>1 DEF WsOpen, client
  <2> QED BY <1>0, <2>1 DEF WireTypeOK, ClientTypeOK
<1>2. CASE ReadyTimeout
  BY <1>0, <1>2 DEF ReadyTimeout, wire, WireTypeOK, ClientTypeOK
<1>3. CASE ConnectionClose
  <2>1. WireTypeOK'
    BY <1>0, <1>3, EmptySeq DEF ConnectionClose, WireTypeOK
  <2>2. connClosed' \in BOOLEAN
    BY <1>0, <1>3 DEF ConnectionClose, ClientTypeOK
  <2>3. /\ UNCHANGED <<ready, initialBuffer, nextStreamId, cmap>>
        /\ UNCHANGED <<cstream, sent, got>>
    BY <1>3 DEF ConnectionClose
  <2> QED BY <1>0, <2>1, <2>2, <2>3 DEF ClientTypeOK
<1>4. CASE WsClosed
  <2>1. \A id \in Ids : RemoteClosed(cstream[id]) \in ClientStreams
    BY <1>0 DEF RemoteClosed, ClientStreams
  <2>2. cstream' \in [Ids -> ClientStreams]
    BY <1>0, <1>4, <2>1 DEF WsClosed
  <2>3. cmap' \subseteq cmap
    BY <1>4 DEF WsClosed
  <2> QED BY <1>0, <1>4, <2>2, <2>3 DEF WsClosed, WireTypeOK, ClientTypeOK
<1>5. ASSUME NEW listens \in ListenChoices, ConnectTcp(listens)
      PROVE  WireTypeOK' /\ ClientTypeOK'
  <2>1. nextStreamId \in Ids /\ nextStreamId + 1 \in 1 .. MaxId + 1
    BY <1>5 DEF ConnectTcp, Ids
  <2>2. NewStream(initialBuffer, wsC = "open", wsC = "open" /\ listens)
          \in ClientStreams
    <3>1. (wsC = "open") \in BOOLEAN /\ (wsC = "open" /\ listens) \in BOOLEAN
      OBVIOUS
    <3> QED BY <3>1, <1>0 DEF NewStream, ClientStreams, ClientTypeOK
  <2>3. cstream' \in [Ids -> ClientStreams]
    BY <1>0, <1>5, <2>1, <2>2 DEF ConnectTcp, ClientTypeOK
  <2>4. cmap' \subseteq 1 .. nextStreamId' - 1
    BY <1>0, <1>5, <2>1 DEF ConnectTcp, ClientTypeOK
  <2>5. <<Connect(nextStreamId)>> \in Seq(UpPackets)
    BY <2>1, OnePacket, UpPacketsTyped
  <2>6. c2s' \in Seq(UpPackets)
    BY <1>0, <1>5, <2>5, ToServerTyped DEF ConnectTcp
  <2> QED BY <1>0, <1>5, <2>1, <2>3, <2>4, <2>6
          DEF ConnectTcp, WireTypeOK, ClientTypeOK
<1>6. ASSUME NEW id \in Ids, Write(id)
      PROVE  WireTypeOK' /\ ClientTypeOK'
  <2> DEFINE s == cstream[id]
             chunk == s.written + 1
             queued == [s EXCEPT !.written = chunk, !.queue = Append(@, chunk)]
  <2>1. s \in ClientStreams /\ s.queue \in Seq(Up) /\ chunk \in Up
    BY <1>0, <1>6 DEF Write, ClientStreams
  <2>2. /\ Append(s.queue, chunk) \in Seq(Up)
        /\ Len(Append(s.queue, chunk)) = Len(s.queue) + 1
        /\ Len(s.queue) \in Nat
    BY <2>1, AppendProperties, LenProperties
  <2>3. chunk \in 0 .. MaxUp
    BY <2>1 DEF Up
  <2>4. queued \in ClientStreams /\ queued.queue = Append(s.queue, chunk)
        /\ queued.credit = s.credit
    BY <2>1, <2>2, <2>3 DEF ClientStreams
  <2>5. [s EXCEPT !.written = chunk] \in ClientStreams
    BY <2>1, <2>3 DEF ClientStreams
  <2>6. CASE s.queue # << >> \/ (~s.closed /\ s.credit = 0)
    <3>1. cstream' = [cstream EXCEPT ![id] = queued]
          /\ UNCHANGED <<c2s, s2c, wsC, wsS, sent>>
      BY <1>6, <2>6 DEF Write
    <3> QED BY <1>0, <1>6, <2>4, <3>1 DEF Write, WireTypeOK, ClientTypeOK
  <2>7. CASE ~(s.queue # << >> \/ (~s.closed /\ s.credit = 0))
             /\ (s.closed \/ wsC # "open")
    <3>1. cstream' = [cstream EXCEPT ![id].written = chunk]
          /\ UNCHANGED <<c2s, s2c, wsC, wsS, sent>>
      BY <1>6, <2>7 DEF Write
    <3>2. cstream' \in [Ids -> ClientStreams]
      BY <1>0, <2>5, <3>1 DEF ClientTypeOK
    <3> QED BY <1>0, <1>6, <3>1, <3>2 DEF Write, WireTypeOK, ClientTypeOK
  <2>8. CASE ~(s.queue # << >> \/ (~s.closed /\ s.credit = 0))
             /\ ~(s.closed \/ wsC # "open")
    <3>1. /\ cstream' = [cstream EXCEPT ![id] = Drained(queued, 1)]
          /\ ToServer(DataPackets(id, queued, 1))
          /\ sent' = [sent EXCEPT ![id] = @ + 1]
          /\ UNCHANGED <<s2c, wsC, wsS>>
      BY <1>6, <2>8 DEF Write
    <3>2. 1 \in 0 .. Len(queued.queue) /\ 1 <= queued.credit
      BY <2>1, <2>2, <2>4, <2>8 DEF ClientStreams
    <3>3. /\ DataPackets(id, queued, 1) \in Seq(UpPackets)
          /\ Drained(queued, 1) \in ClientStreams
      BY <2>4, <3>2, DrainTyped
    <3>4. c2s' \in Seq(UpPackets)
      BY <1>0, <3>1, <3>3, ToServerTyped
    <3>5. cstream' \in [Ids -> ClientStreams] /\ sent' \in [Ids -> Nat]
      BY <1>0, <3>1, <3>3 DEF ClientTypeOK
    <3> QED BY <1>0, <1>6, <3>1, <3>4, <3>5 DEF Write, WireTypeOK, ClientTypeOK
  <2> QED BY <2>6, <2>7, <2>8
<1>7. \A id \in Ids : VoluntaryClose(id, cstream[id]) \in Seq(UpPackets)
  BY UpPacketsTyped, OnePacket DEF VoluntaryClose, Reason
<1>8. \A s \in ClientStreams : Finished(s) \in ClientStreams
  BY DEF Finished, ClientStreams
<1>9. ASSUME NEW id \in Ids, End(id)
      PROVE  WireTypeOK' /\ ClientTypeOK'
  <2>1. CASE cstream[id].queue = << >>
    <3>1. /\ cstream' = [cstream EXCEPT ![id] = Finished(cstream[id])]
          /\ ToServer(VoluntaryClose(id, cstream[id]))
          /\ cmap' \subseteq cmap
      BY <1>9, <2>1 DEF End
    <3>2. c2s' \in Seq(UpPackets)
      BY <1>0, <1>7, <3>1, ToServerTyped
    <3>3. cstream' \in [Ids -> ClientStreams]
      BY <1>0, <1>8, <3>1 DEF ClientTypeOK
    <3> QED BY <1>0, <1>9, <3>1, <3>2, <3>3 DEF End, WireTypeOK, ClientTypeOK
  <2>2. CASE cstream[id].queue # << >>
    <3>1. /\ cstream' = [cstream EXCEPT ![id].ended = TRUE]
          /\ UNCHANGED <<c2s, cmap>>
      BY <1>9, <2>2 DEF End
    <3>2. [cstream[id] EXCEPT !.ended = TRUE] \in ClientStreams
      BY <1>0 DEF ClientStreams
    <3>3. cstream' \in [Ids -> ClientStreams]
      BY <1>0, <3>1, <3>2 DEF ClientTypeOK
    <3> QED BY <1>0, <1>9, <3>1, <3>3 DEF End, WireTypeOK, ClientTypeOK
  <2> QED BY <2>1, <2>2
<1>10. ASSUME NEW id \in Ids, Destroy(id)
       PROVE  WireTypeOK' /\ ClientTypeOK'
  <2> DEFINE d == [cstream[id] EXCEPT !.destroyed = TRUE, !.closed = TRUE,
                                      !.eof = TRUE]
  <2>1. d \in ClientStreams
    BY <1>0 DEF ClientStreams
  <2>2. /\ cstream' = [cstream EXCEPT ![id] = d]
        /\ ToServer(VoluntaryClose(id, cstream[id]))
        /\ cmap' \subseteq cmap
    BY <1>10 DEF Destroy
  <2>3. c2s' \in Seq(UpPackets)
    BY <1>0, <1>7, <2>2, ToServerTyped
  <2>4. cstream' \in [Ids -> ClientStreams]
    BY <1>0, <2>1, <2>2 DEF ClientTypeOK
  <2> QED BY <1>0, <1>10, <2>2, <2>3, <2>4 DEF Destroy, WireTypeOK, ClientTypeOK
<1>11. ASSUME NEW type, Receive(type)
       PROVE  /\ Head(s2c) \in DownPackets /\ Head(s2c).type = type
              /\ s2c' \in Seq(DownPackets)
  BY <1>0, <1>11, HeadTailProperties DEF Receive, WireTypeOK
<1>12. CASE RecvControlContinue
  <2>1. Head(s2c).remaining = Buffer /\ s2c' \in Seq(DownPackets)
    BY <1>11, <1>12, DownPacketsTyped DEF RecvControlContinue
  <2> QED BY <1>0, <1>12, <2>1 DEF RecvControlContinue, WireTypeOK, ClientTypeOK
<1>13. CASE RecvData
  <2>1. /\ Head(s2c).id \in Ids /\ Head(s2c).chunk \in Down
        /\ s2c' \in Seq(DownPackets)
    BY <1>11, <1>13, DownPacketsTyped DEF RecvData
  <2>2. Append(got[Head(s2c).id], Head(s2c).chunk) \in Seq(Down)
    BY <1>0, <2>1, AppendProperties DEF ClientTypeOK
  <2>3. got' \in [Ids -> Seq(Down)]
    BY <1>0, <1>13, <2>1, <2>2 DEF RecvData, ClientTypeOK
  <2> QED BY <1>0, <1>13, <2>1, <2>3 DEF RecvData, WireTypeOK, ClientTypeOK
<1>14. CASE RecvContinue
  <2> DEFINE id == Head(s2c).id
             s == [cstream[id] EXCEPT !.credit = Head(s2c).remaining]
             n == DrainCount(s)
             d == Drained(s, n)
             final == s.ended /\ n > 0 /\ d.queue = << >>
             close == IF final THEN VoluntaryClose(id, s) ELSE << >>
  <2>1. /\ id \in Ids /\ Head(s2c).remaining \in Nat
        /\ s2c' \in Seq(DownPackets)
    BY <1>11, <1>14, DownPacketsTyped DEF RecvContinue
  <2>2. CASE id \notin cmap
    BY <1>0, <1>14, <2>1, <2>2 DEF RecvContinue, WireTypeOK, ClientTypeOK
  <2>3. CASE id \in cmap
    <3>1. s \in ClientStreams
      <4>1. \A q \in ClientStreams, k \in Nat : [q EXCEPT !.credit = k] \in ClientStreams
        BY DEF ClientStreams
      <4> QED BY <1>0, <2>1, <4>1
    <3>2. n \in 0 .. Len(s.queue) /\ n <= s.credit /\ n \in Nat
      <4>1. n \in 0 .. Len(s.queue) /\ n <= s.credit
        BY <3>1, DrainCountBounds
      <4>2. s.queue \in Seq(Up)
        BY <3>1 DEF ClientStreams
      <4>3. Len(s.queue) \in Nat
        BY <4>2, LenProperties
      <4> HIDE DEF n, s
      <4> QED BY <4>1, <4>3
    <3>3. DataPackets(id, s, n) \in Seq(UpPackets) /\ d \in ClientStreams
      BY <2>1, <3>1, <3>2, DrainTyped
    <3>4. Finished(d) \in ClientStreams
      BY <1>8, <3>3
    <3>5. /\ cstream' = [cstream EXCEPT ![id] = IF final THEN Finished(d) ELSE d]
          /\ ToServer(DataPackets(id, s, n) \o close)
          /\ cmap' \subseteq cmap
          /\ sent' = [sent EXCEPT ![id] = @ + n]
          /\ UNCHANGED <<wsC, wsS, ready, connClosed, initialBuffer>>
          /\ UNCHANGED <<nextStreamId, got>>
      BY <1>14, <2>3 DEF RecvContinue
    <3>6. close \in Seq(UpPackets)
      BY <2>1, UpPacketsTyped, OnePacket, EmptySeq DEF VoluntaryClose, Reason
    <3>7. DataPackets(id, s, n) \o close \in Seq(UpPackets)
      BY <3>3, <3>6, ConcatProperties
    <3> HIDE DEF s, n, d, final, close
    <3>8. c2s' \in Seq(UpPackets)
      BY <1>0, <3>5, <3>7, ToServerTyped
    <3>9. cstream' \in [Ids -> ClientStreams]
      BY <1>0, <2>1, <3>3, <3>4, <3>5 DEF ClientTypeOK
    <3>10. sent' \in [Ids -> Nat]
      <4>1. sent \in [Ids -> Nat] /\ sent[id] \in Nat
        BY <1>0, <2>1 DEF ClientTypeOK
      <4>2. sent[id] + n \in Nat
        BY <3>2, <4>1
      <4> QED BY <3>5, <4>1, <4>2
    <3> QED BY <1>0, <2>1, <3>5, <3>8, <3>9, <3>10
            DEF WireTypeOK, ClientTypeOK
  <2> QED BY <2>2, <2>3
<1>15. CASE RecvClose
  <2>1. Head(s2c).id \in Ids /\ s2c' \in Seq(DownPackets)
    BY <1>11, <1>15, DownPacketsTyped DEF RecvClose
  <2>2. \A id \in Ids : RemoteClosed(cstream[id]) \in ClientStreams
    BY <1>0 DEF RemoteClosed, ClientStreams
  <2>3. cstream' \in [Ids -> ClientStreams] /\ cmap' \subseteq cmap
    BY <1>0, <1>15, <2>1, <2>2 DEF RecvClose, ClientTypeOK
  <2> QED BY <1>0, <1>15, <2>1, <2>3 DEF RecvClose, WireTypeOK, ClientTypeOK
<1> QED BY <1>1, <1>2, <1>3, <1>4, <1>5, <1>6, <1>9, <1>10, <1>12, <1>13, <1>14,
           <1>15 DEF ClientNext, AppNext, OnMessage

LEMMA CloseSelfTyped ==
  ASSUME TypeOK, NEW S \in SUBSET Ids, NEW reason \in Reason,
         CloseSelf(S, reason)
  PROVE  /\ s2c' \in Seq(DownPackets) /\ smap' = smap \ S
         /\ phase' = [id \in Ids |-> IF id \in S THEN "closed" ELSE phase[id]]
         /\ \E r \in Seq(DownPackets) :
              /\ ToClient(r)
              /\ \A i \in DOMAIN r : r[i].type = "CLOSE"
<1>1. IsFiniteSet(S)
  <2>1. 1 \in Int /\ MaxId \in Int
    BY WireAssumption
  <2>2. IsFiniteSet(Ids)
    BY <2>1, FS_Interval DEF Ids
  <2> QED BY <2>2, FS_Subset
<1>2. Cardinality(S) \in Nat
  BY <1>1, FS_CardinalityType
<1>3. PICK order \in [1 .. Cardinality(S) -> S] :
        ToClient([k \in 1 .. Cardinality(S) |-> Close(order[k], reason)])
  BY DEF CloseSelf
<1> DEFINE r == [k \in 1 .. Cardinality(S) |-> Close(order[k], reason)]
<1>4. \A k \in 1 .. Cardinality(S) : Close(order[k], reason) \in DownPackets
  BY <1>3, DownPacketsTyped
<1>5. r \in [1 .. Cardinality(S) -> DownPackets]
  BY <1>4
<1>6. r \in Seq(DownPackets)
  BY <1>2, <1>5, SeqDef
<1>7. \A i \in DOMAIN r : r[i].type = "CLOSE"
  BY DEF Close
<1>8. s2c' \in Seq(DownPackets)
  BY <1>3, <1>6, ToClientTyped DEF TypeOK
<1> QED BY <1>3, <1>6, <1>7, <1>8 DEF CloseSelf

LEMMA ServerTypeStep ==
  ASSUME TypeOK, ServerNext
  PROVE  WireTypeOK' /\ ServerTypeOK'
<1> USE WireAssumption, ServerAssumption
<1>0. /\ WireTypeOK /\ ServerTypeOK
      /\ {"none", "resolving", "connecting", "open", "closed"} \subseteq Phase
      /\ Reason = {"voluntary", "error"}
  BY DEF TypeOK, Phase, Reason
<1>1. CASE Connection
  <2>1. <<Continue(0, Buffer)>> \in Seq(DownPackets)
    BY DownPacketsTyped, OnePacket
  <2> QED BY <1>0, <1>1, <2>1 DEF Connection, WireTypeOK, ServerTypeOK
<1>2. CASE SessionClose
  <2>1. phase' \in [Ids -> Phase]
    BY <1>0, <1>2 DEF SessionClose, ServerTypeOK
  <2>2. wsS' \in {"closing", "closed"} /\ c2s' = << >>
    BY <1>2 DEF SessionClose
  <2> QED BY <1>0, <1>2, <2>1, <2>2, EmptySeq
          DEF SessionClose, WireTypeOK, ServerTypeOK
<1>3. ASSUME NEW type, Handle(type)
      PROVE  /\ Head(c2s) \in UpPackets /\ Head(c2s).type = type
             /\ Head(c2s).id \in Ids
             /\ c2s' \in Seq(UpPackets)
  BY <1>0, <1>3, HeadTailProperties, UpPacketsTyped DEF Handle, WireTypeOK
<1>4. CASE HandleConnect
  <2>1. Head(c2s).id \in Ids /\ c2s' \in Seq(UpPackets)
    BY <1>3, <1>4 DEF HandleConnect
  <2>2. <<Close(Head(c2s).id, "error")>> \in Seq(DownPackets)
    BY <1>0, <2>1, DownPacketsTyped, OnePacket
  <2>3. s2c' \in Seq(DownPackets)
    BY <1>0, <1>4, <2>2, ToClientTyped DEF HandleConnect, WireTypeOK
  <2>4. phase' \in [Ids -> Phase]
    BY <1>0, <1>4 DEF HandleConnect, ServerTypeOK
  <2> QED BY <1>0, <1>4, <2>1, <2>3, <2>4
          DEF HandleConnect, WireTypeOK, ServerTypeOK
<1>5. CASE HandleData
  <2>1. /\ Head(c2s).id \in Ids /\ Head(c2s).chunk \in Up
        /\ c2s' \in Seq(UpPackets)
    BY <1>3, <1>5, UpPacketsTyped DEF HandleData
  <2>2. /\ Append(accepted[Head(c2s).id], Head(c2s).chunk) \in Seq(Up)
        /\ dropped[Head(c2s).id] + 1 \in Nat
    BY <1>0, <2>1, AppendProperties DEF ServerTypeOK
  <2>3. accepted' \in [Ids -> Seq(Up)] /\ dropped' \in [Ids -> Nat]
    BY <1>0, <1>5, <2>1, <2>2 DEF HandleData, ServerTypeOK
  <2> QED BY <1>0, <1>5, <2>1, <2>3 DEF HandleData, WireTypeOK, ServerTypeOK
<1>6. CASE HandleClose
  <2>1. Head(c2s).id \in Ids /\ c2s' \in Seq(UpPackets)
    BY <1>3, <1>6 DEF HandleClose
  <2>2. phase' \in [Ids -> Phase] /\ smap' \subseteq Ids
    BY <1>0, <1>6 DEF HandleClose, ServerTypeOK
  <2> QED BY <1>0, <1>6, <2>1, <2>2 DEF HandleClose, WireTypeOK, ServerTypeOK
<1>7. ASSUME NEW id \in Ids, ConnectFails(id)
      PROVE  WireTypeOK' /\ ServerTypeOK'
  <2>1. <<Close(id, "error")>> \in Seq(DownPackets)
    BY <1>0, DownPacketsTyped, OnePacket
  <2>2. s2c' \in Seq(DownPackets)
    BY <1>0, <1>7, <2>1, ToClientTyped DEF ConnectFails
  <2> QED BY <1>0, <1>7, <2>2 DEF ConnectFails, WireTypeOK, ServerTypeOK
<1>8. ASSUME NEW id \in Ids, Resolved(id)
      PROVE  WireTypeOK' /\ ServerTypeOK'
  BY <1>0, <1>8 DEF Resolved, wire, WireTypeOK, ServerTypeOK
<1>9. ASSUME NEW id \in Ids, Connected(id)
      PROVE  WireTypeOK' /\ ServerTypeOK'
  <2>1. <<Continue(id, Buffer)>> \in Seq(DownPackets)
    BY DownPacketsTyped, OnePacket
  <2>2. s2c' \in Seq(DownPackets)
    BY <1>0, <1>9, <2>1, ToClientTyped DEF Connected
  <2> QED BY <1>0, <1>9, <2>2 DEF Connected, WireTypeOK, ServerTypeOK
<1>10. ASSUME NEW id \in Ids, SocketData(id)
       PROVE  WireTypeOK' /\ ServerTypeOK'
  <2> DEFINE chunk == produced[id] + 1
  <2>1. chunk \in Down
    BY <1>10 DEF SocketData
  <2>2. <<Data(id, chunk)>> \in Seq(DownPackets)
    BY <2>1, DownPacketsTyped, OnePacket
  <2>3. s2c' \in Seq(DownPackets)
    BY <1>0, <1>10, <2>2, ToClientTyped DEF SocketData, WireTypeOK
  <2>4. Append(waiting[id], chunk) \in Seq(Down)
    BY <1>0, <2>1, AppendProperties DEF ServerTypeOK
  <2>5. waiting' \in [Ids -> Seq(Down)]
    BY <1>0, <1>10, <2>4 DEF SocketData, ServerTypeOK
  <2>6. produced' \in [Ids -> 0 .. MaxDown]
    BY <1>0, <1>10, <2>1 DEF SocketData, ServerTypeOK, Down
  <2> QED BY <1>0, <1>10, <2>3, <2>5, <2>6
          DEF SocketData, WireTypeOK, ServerTypeOK
<1>11. ASSUME NEW id \in Ids, ThrottleDone(id)
       PROVE  WireTypeOK' /\ ServerTypeOK'
  <2> DEFINE w == waiting[id]
  <2>1. PICK k \in DOMAIN w :
          /\ waiting' = [waiting EXCEPT ![id] =
                           SubSeq(w, 1, k - 1) \o SubSeq(w, k + 1, Len(w))]
          /\ IF StillOpen(id) THEN ToClient(<<Data(id, w[k])>>)
             ELSE UNCHANGED s2c
    BY <1>11 DEF ThrottleDone
  <2>2. w \in Seq(Down) /\ DOMAIN w = 1 .. Len(w) /\ Len(w) \in Nat
    BY <1>0, LenProperties DEF ServerTypeOK
  <2>3. \A i \in 1 .. Len(w) : w[i] \in Down
    BY <2>2, ElementOfSeq
  <2>4. /\ SubSeq(w, 1, k - 1) \in Seq(Down)
        /\ SubSeq(w, k + 1, Len(w)) \in Seq(Down)
    BY <2>2, <2>3, SubSeqProperties
  <2>5. waiting' \in [Ids -> Seq(Down)]
    <3>1. SubSeq(w, 1, k - 1) \o SubSeq(w, k + 1, Len(w)) \in Seq(Down)
      BY <2>4, ConcatProperties
    <3> QED BY <1>0, <2>1, <3>1 DEF ServerTypeOK
  <2>6. <<Data(id, w[k])>> \in Seq(DownPackets)
    BY <2>2, <2>3, DownPacketsTyped, OnePacket
  <2>7. s2c' \in Seq(DownPackets)
    BY <1>0, <2>1, <2>6, ToClientTyped DEF WireTypeOK
  <2> QED BY <1>0, <1>11, <2>5, <2>7 DEF ThrottleDone, WireTypeOK, ServerTypeOK
<1>12. ASSUME NEW S \in SUBSET Ids, NEW reason \in Reason,
              CloseSelf(S, reason),
              UNCHANGED <<c2s, wsC, wsS, janitor, accepted, dropped, produced,
                          waiting>>
       PROVE  WireTypeOK' /\ ServerTypeOK'
  <2>1. /\ s2c' \in Seq(DownPackets) /\ smap' = smap \ S
        /\ phase' = [id \in Ids |-> IF id \in S THEN "closed" ELSE phase[id]]
    BY <1>12, CloseSelfTyped
  <2> QED BY <1>0, <1>12, <2>1 DEF WireTypeOK, ServerTypeOK
<1>13. ASSUME NEW id \in Ids, SocketEnds(id)
       PROVE  WireTypeOK' /\ ServerTypeOK'
  BY <1>12, <1>13 DEF SocketEnds
<1>14. CASE JanitorTick
  <2>1. PICK expired \in SUBSET Ids : CloseSelf(expired, "error")
    BY <1>0, <1>14 DEF JanitorTick, Expirable, ServerTypeOK
  <2>2. "error" \in Reason
    BY <1>0
  <2> QED BY <1>12, <1>14, <2>1, <2>2 DEF JanitorTick
<1> QED BY <1>1, <1>2, <1>4, <1>5, <1>6, <1>7, <1>8, <1>9, <1>10, <1>11, <1>13,
           <1>14 DEF ServerNext, HandlePacket, ConnectNext, StreamNext

(* Every variable keeps its type.                                           *)
THEOREM TypeCorrect == Spec => []TypeOK
<1>1. Init => TypeOK
  BY TypeInit
<1>2. TypeOK /\ [Next]_vars => TypeOK'
  <2> SUFFICES ASSUME TypeOK, [Next]_vars PROVE TypeOK'
    OBVIOUS
  <2>1. CASE ClientNext /\ UNCHANGED server
    BY <2>1, ClientTypeStep DEF TypeOK, server, ServerTypeOK
  <2>2. CASE ServerNext /\ UNCHANGED client
    BY <2>2, ServerTypeStep DEF TypeOK, client, ClientTypeOK
  <2>3. CASE UNCHANGED vars
    BY <2>3 DEF vars, wire, client, server, TypeOK, WireTypeOK, ClientTypeOK,
                ServerTypeOK
  <2> QED BY <2>1, <2>2, <2>3 DEF Next
<1> QED BY <1>1, <1>2, PTL DEF Spec

-----------------------------------------------------------------------------
(* CreditInv, one stream at a time. A step leaves CreditOf(id) true if it   *)
(* adds no CONNECT and no CONTINUE of id to the wires, lets the phase only  *)
(* advance or close, and does not enlarge sent + credit.                    *)
LEMMA QuietStep ==
  ASSUME TypeOK, NEW id \in Ids, CreditOf(id),
         AtMostOne(c2s', "CONNECT", id),
         Has(c2s', "CONNECT", id) => Has(c2s, "CONNECT", id),
         AtMostOne(s2c', "CONTINUE", id),
         Has(s2c', "CONTINUE", id) => Has(s2c, "CONTINUE", id),
         \/ phase'[id] = phase[id]
         \/ phase[id] # "none" /\ phase'[id] = "closed" /\ id \notin smap',
         id \in smap' => id \in smap,
         sent'[id] \in Nat, cstream'[id].credit \in Nat,
         sent'[id] + cstream'[id].credit <= sent[id] + cstream[id].credit,
         nextStreamId' >= nextStreamId, nextStreamId' \in Nat,
         cstream'[id].held = cstream[id].held,
         ~cstream[id].held => sent'[id] = sent[id]
  PROVE  CreditOf(id)'
<1>1. /\ nextStreamId \in Nat /\ id \in Nat /\ sent[id] \in Nat
      /\ cstream[id].credit \in Nat /\ InitialCredit \in Nat /\ Buffer \in Nat
  <2>1. nextStreamId \in Nat
    BY WireAssumption DEF TypeOK, ClientTypeOK
  <2>2. sent[id] \in Nat /\ cstream[id] \in ClientStreams
    BY DEF TypeOK, ClientTypeOK
  <2>3. cstream[id].credit \in Nat
    BY <2>2 DEF ClientStreams
  <2>4. id \in Nat /\ InitialCredit \in Nat /\ Buffer \in Nat
    BY WireAssumption DEF Ids, InitialCredit
  <2> QED BY <2>1, <2>2, <2>3, <2>4
<1>2. Granted(id) => Granted(id)'
  BY DEF Granted
<1>3. (sent[id] + cstream[id].credit)'
        <= InitialCredit + (IF Granted(id)' THEN Buffer ELSE 0)
  <2>1. sent[id] + cstream[id].credit
          <= InitialCredit + (IF Granted(id)' THEN Buffer ELSE 0)
    BY <1>1, <1>2 DEF CreditOf
  <2> QED BY <1>1, <2>1
<1>4. Has(c2s', "CONNECT", id) => phase'[id] = "none"
  BY DEF CreditOf
<1>5. Has(s2c', "CONTINUE", id) => phase'[id] \in {"open", "closed"}
  BY DEF CreditOf
<1>6. id \in smap' => phase'[id] = "open"
  BY DEF CreditOf
<1>7. id >= nextStreamId' =>
        /\ phase'[id] = "none" /\ ~Has(c2s', "CONNECT", id)
        /\ sent'[id] = 0 /\ ~cstream'[id].held
  BY <1>1 DEF CreditOf
<1> QED BY <1>3, <1>4, <1>5, <1>6, <1>7 DEF CreditOf

(* Sending packets of other types does not disturb a wire.                  *)
LEMMA UpUndisturbed ==
  ASSUME WireTypeOK, NEW pkts \in Seq(UpPackets), ToServer(pkts), NEW id,
         ~Has(pkts, "CONNECT", id), AtMostOne(c2s, "CONNECT", id)
  PROVE  /\ AtMostOne(c2s', "CONNECT", id)
         /\ Has(c2s', "CONNECT", id) => Has(c2s, "CONNECT", id)
<1>1. c2s \in Seq(UpPackets) /\ (c2s' = c2s \/ c2s' = c2s \o pkts)
  BY DEF WireTypeOK, ToServer
<1>2. CASE c2s' = c2s
  BY <1>2 DEF Has, AtMostOne
<1>3. CASE c2s' = c2s \o pkts
  <2>1. /\ AtMostOne(c2s \o pkts, "CONNECT", id)
        /\ Has(c2s \o pkts, "CONNECT", id) => Has(c2s, "CONNECT", id)
    BY <1>1, HasConcat
  <2> QED BY <1>3, <2>1
<1> QED BY <1>1, <1>2, <1>3

LEMMA DownUndisturbed ==
  ASSUME WireTypeOK, NEW pkts \in Seq(DownPackets), ToClient(pkts), NEW id,
         ~Has(pkts, "CONTINUE", id), AtMostOne(s2c, "CONTINUE", id)
  PROVE  /\ AtMostOne(s2c', "CONTINUE", id)
         /\ Has(s2c', "CONTINUE", id) => Has(s2c, "CONTINUE", id)
<1>1. s2c \in Seq(DownPackets) /\ (s2c' = s2c \/ s2c' = s2c \o pkts)
  BY DEF WireTypeOK, ToClient
<1>2. CASE s2c' = s2c
  BY <1>2 DEF Has, AtMostOne
<1>3. CASE s2c' = s2c \o pkts
  <2>1. /\ AtMostOne(s2c \o pkts, "CONTINUE", id)
        /\ Has(s2c \o pkts, "CONTINUE", id) => Has(s2c, "CONTINUE", id)
    BY <1>1, HasConcat
  <2> QED BY <1>3, <2>1
<1> QED BY <1>1, <1>2, <1>3

LEMMA OtherPackets ==
  ASSUME NEW id, NEW j
  PROVE  /\ \A chunk : ~Has(<<Data(id, chunk)>>, "CONTINUE", j)
         /\ \A reason : /\ ~Has(<<Close(id, reason)>>, "CONTINUE", j)
                        /\ ~Has(<<Close(id, reason)>>, "CONNECT", j)
         /\ \A type : ~Has(<< >>, type, j) /\ AtMostOne(<< >>, type, j)
         /\ \A s, n : ~Has(DataPackets(id, s, n), "CONNECT", j)
         /\ \A r : id # j => ~Has(<<Continue(id, r)>>, "CONTINUE", j)
         /\ \A r : AtMostOne(<<Continue(id, r)>>, "CONTINUE", j)
         /\ id # j => ~Has(<<Connect(id)>>, "CONNECT", j)
         /\ AtMostOne(<<Connect(id)>>, "CONNECT", j)
<1>1. \A p : DOMAIN <<p>> = {1} /\ <<p>>[1] = p
  OBVIOUS
<1>2. DOMAIN << >> = {}
  OBVIOUS
<1>3. \A p, type : Has(<<p>>, type, j) <=> Matches(p, type, j)
  BY <1>1 DEF Has
<1>4. \A p, type : AtMostOne(<<p>>, type, j)
  BY <1>1 DEF AtMostOne
<1>5. \A type : ~Has(<< >>, type, j) /\ AtMostOne(<< >>, type, j)
  BY <1>2 DEF Has, AtMostOne
<1>6. \A s, n : ~Has(DataPackets(id, s, n), "CONNECT", j)
  BY DEF Has, Matches, DataPackets, Data
<1>7. /\ \A chunk : ~Matches(Data(id, chunk), "CONTINUE", j)
      /\ \A reason : /\ ~Matches(Close(id, reason), "CONTINUE", j)
                     /\ ~Matches(Close(id, reason), "CONNECT", j)
      /\ \A r : id # j => ~Matches(Continue(id, r), "CONTINUE", j)
      /\ id # j => ~Matches(Connect(id), "CONNECT", j)
  BY DEF Matches, Data, Close, Continue, Connect
<1> QED BY <1>3, <1>4, <1>5, <1>6, <1>7

(* Dispatching the head of a wire does not disturb it either.               *)
LEMMA TailUndisturbed ==
  ASSUME NEW S, NEW q \in Seq(S), q # << >>, NEW type, NEW id,
         AtMostOne(q, type, id)
  PROVE  /\ AtMostOne(Tail(q), type, id)
         /\ Has(Tail(q), type, id) => Has(q, type, id)
BY HasTail

LEMMA CreditInit == Init => CreditInv
<1> SUFFICES ASSUME Init, NEW id \in Ids PROVE CreditOf(id)
  BY DEF CreditInv
<1>1. /\ c2s = << >> /\ s2c = << >> /\ smap = {} /\ phase[id] = "none"
      /\ sent[id] = 0 /\ cstream[id].credit = 0 /\ ~cstream[id].held
  BY DEF Init, WireInit, ClientInit, ServerInit, NewStream
<1>2. InitialCredit \in Nat
  BY WireAssumption DEF InitialCredit
<1>3. /\ ~Has(<< >>, "CONNECT", id) /\ AtMostOne(<< >>, "CONNECT", id)
      /\ ~Has(<< >>, "CONTINUE", id) /\ AtMostOne(<< >>, "CONTINUE", id)
  BY OtherPackets
<1> QED BY <1>1, <1>2, <1>3 DEF CreditOf, Granted

LEMMA ClientCreditStep ==
  ASSUME TypeOK, TypeOK', CreditInv, ClientNext, UNCHANGED server
  PROVE  CreditInv'
<1> SUFFICES ASSUME NEW id \in Ids PROVE CreditOf(id)'
  BY DEF CreditInv
<1>0. /\ WireTypeOK /\ CreditOf(id) /\ id \in Nat
      /\ sent[id] \in Nat /\ cstream[id] \in ClientStreams
      /\ cstream[id].credit \in Nat
      /\ nextStreamId \in Nat /\ initialBuffer <= InitialCredit
      /\ initialBuffer \in Nat /\ InitialCredit \in Nat
      /\ DOMAIN cstream = Ids /\ DOMAIN sent = Ids /\ cmap \subseteq Ids
  BY WireAssumption DEF TypeOK, ClientTypeOK, CreditInv, ClientStreams, Ids,
                        InitialCredit
<1>1. /\ sent'[id] \in Nat /\ cstream'[id].credit \in Nat
      /\ nextStreamId' \in Nat
  BY DEF TypeOK, ClientTypeOK, ClientStreams
<1>2. /\ phase'[id] = phase[id] /\ (id \in smap' => id \in smap)
      /\ UNCHANGED <<phase, smap>>
  BY DEF server
<1>3. /\ AtMostOne(c2s, "CONNECT", id) /\ AtMostOne(s2c, "CONTINUE", id)
  BY <1>0 DEF CreditOf
<1>4. UNCHANGED c2s =>
        /\ AtMostOne(c2s', "CONNECT", id)
        /\ Has(c2s', "CONNECT", id) => Has(c2s, "CONNECT", id)
  BY <1>3
<1>5. UNCHANGED s2c \/ s2c' = << >> =>
        /\ AtMostOne(s2c', "CONTINUE", id)
        /\ Has(s2c', "CONTINUE", id) => Has(s2c, "CONTINUE", id)
  BY <1>3, OtherPackets
<1>6. CASE \/ WsOpen \/ ReadyTimeout \/ ConnectionClose
  <2>1. /\ UNCHANGED <<c2s, nextStreamId, cstream, sent>>
        /\ UNCHANGED s2c \/ s2c' = << >>
    BY <1>6 DEF WsOpen, ReadyTimeout, ConnectionClose, wire, client
  <2> QED BY <1>0, <1>1, <1>2, <1>4, <1>5, <2>1, QuietStep
<1>7. CASE WsClosed
  <2>1. /\ UNCHANGED <<c2s, nextStreamId, sent>> /\ s2c' = << >>
        /\ \/ cstream'[id] = RemoteClosed(cstream[id])
           \/ cstream'[id] = cstream[id]
    BY <1>7 DEF WsClosed
  <2>2. /\ cstream'[id].credit = cstream[id].credit
        /\ cstream'[id].held = cstream[id].held
    BY <1>0, <2>1 DEF RemoteClosed, ClientStreams
  <2> QED BY <1>0, <1>1, <1>2, <1>4, <1>5, <2>1, <2>2, QuietStep
<1>8. ASSUME NEW listens \in ListenChoices, ConnectTcp(listens)
      PROVE  CreditOf(id)'
  <2>1. /\ nextStreamId \in Ids /\ nextStreamId' = nextStreamId + 1
        /\ ToServer(<<Connect(nextStreamId)>>)
        /\ UNCHANGED <<s2c, sent>>
    BY <1>8 DEF ConnectTcp
  <2>2. <<Connect(nextStreamId)>> \in Seq(UpPackets)
    BY <2>1, OnePacket, UpPacketsTyped
  <2>3. /\ AtMostOne(s2c', "CONTINUE", id)
        /\ Has(s2c', "CONTINUE", id) => Has(s2c, "CONTINUE", id)
    BY <1>5, <2>1
  <2>4. CASE id # nextStreamId
    <3>1. ~Has(<<Connect(nextStreamId)>>, "CONNECT", id)
      BY <2>4, OtherPackets
    <3>2. /\ AtMostOne(c2s', "CONNECT", id)
          /\ Has(c2s', "CONNECT", id) => Has(c2s, "CONNECT", id)
      BY <1>0, <1>3, <2>1, <2>2, <3>1, UpUndisturbed
    <3>3. cstream'[id] = cstream[id]
      BY <1>8, <2>4 DEF ConnectTcp
    <3> QED BY <1>0, <1>1, <1>2, <2>1, <2>3, <3>2, <3>3, QuietStep
  <2>5. CASE id = nextStreamId
    <3>1. phase[id] = "none" /\ ~Has(c2s, "CONNECT", id) /\ sent[id] = 0
      BY <1>0, <2>5 DEF CreditOf
    <3>2. c2s \in Seq(UpPackets)
          /\ (c2s' = c2s \/ c2s' = c2s \o <<Connect(nextStreamId)>>)
      BY <1>0, <2>1 DEF ToServer, WireTypeOK
    <3>3. AtMostOne(<<Connect(nextStreamId)>>, "CONNECT", id)
      BY OtherPackets
    <3>4. AtMostOne(c2s', "CONNECT", id)
      <4>1. AtMostOne(c2s \o <<Connect(nextStreamId)>>, "CONNECT", id)
        BY <2>2, <3>1, <3>2, <3>3, HasConcat
      <4>2. CASE c2s' = c2s
        BY <1>4, <4>2
      <4>3. CASE c2s' = c2s \o <<Connect(nextStreamId)>>
        BY <4>1, <4>3
      <4> QED BY <3>2, <4>2, <4>3
    <3>5. cstream'[id].credit = initialBuffer
      BY <1>0, <1>8, <2>5 DEF ConnectTcp, NewStream
    <3>6. ~Has(s2c, "CONTINUE", id) /\ id \notin smap
      BY <1>0, <3>1 DEF CreditOf
    <3>7. ~Granted(id)'
      BY <1>2, <3>1 DEF Granted
    <3>8. ~(id >= nextStreamId')
      BY <1>0, <2>1, <2>5
    <3> QED BY <1>0, <1>2, <2>1, <2>3, <3>1, <3>4, <3>5, <3>6, <3>7, <3>8
            DEF CreditOf
  <2> QED BY <2>4, <2>5
<1>9. ASSUME NEW j \in Ids, NEW pkts \in Seq(UpPackets), ToServer(pkts),
             ~Has(pkts, "CONNECT", id)
      PROVE  /\ AtMostOne(c2s', "CONNECT", id)
             /\ Has(c2s', "CONNECT", id) => Has(c2s, "CONNECT", id)
  BY <1>0, <1>3, <1>9, UpUndisturbed
<1>10. ASSUME NEW j \in Ids, NEW s
       PROVE  /\ VoluntaryClose(j, s) \in Seq(UpPackets)
              /\ ~Has(VoluntaryClose(j, s), "CONNECT", id)
  BY UpPacketsTyped, OnePacket, EmptySeq, OtherPackets
     DEF VoluntaryClose, Reason
<1>11. ASSUME NEW j \in Ids, End(j) \/ Destroy(j)
       PROVE  CreditOf(id)'
  <2>1. /\ UNCHANGED <<s2c, nextStreamId, sent>>
        /\ UNCHANGED c2s \/ ToServer(VoluntaryClose(j, cstream[j]))
    BY <1>11 DEF End, Destroy
  <2>2. /\ cstream'[id].credit = cstream[id].credit
        /\ cstream'[id].held = cstream[id].held
    <3>1. cstream \in [Ids -> ClientStreams]
      BY DEF TypeOK, ClientTypeOK
    <3>2. CASE End(j)
      <4>1. PICK s \in {Finished(cstream[j]), [cstream[j] EXCEPT !.ended = TRUE]} :
              cstream' = [cstream EXCEPT ![j] = s]
        BY <3>2 DEF End
      <4>2. s.credit = cstream[j].credit /\ s.held = cstream[j].held
        BY <3>1, <4>1 DEF Finished, ClientStreams
      <4> QED BY <3>1, <4>1, <4>2
    <3>3. CASE Destroy(j)
      <4> DEFINE s == [cstream[j] EXCEPT !.destroyed = TRUE, !.closed = TRUE,
                                         !.eof = TRUE]
      <4>1. cstream' = [cstream EXCEPT ![j] = s]
        BY <3>3 DEF Destroy
      <4>2. s.credit = cstream[j].credit /\ s.held = cstream[j].held
        BY <3>1 DEF ClientStreams
      <4> HIDE DEF s
      <4> QED BY <3>1, <4>1, <4>2
    <3> QED BY <1>11, <3>2, <3>3
  <2>3. /\ AtMostOne(c2s', "CONNECT", id)
        /\ Has(c2s', "CONNECT", id) => Has(c2s, "CONNECT", id)
    BY <1>4, <1>9, <1>10, <2>1
  <2> QED BY <1>0, <1>1, <1>2, <1>5, <2>1, <2>2, <2>3, QuietStep
<1>12. ASSUME NEW type, Receive(type)
       PROVE  /\ Head(s2c) \in DownPackets /\ Head(s2c).type = type
              /\ AtMostOne(s2c', "CONTINUE", id)
              /\ Has(s2c', "CONTINUE", id) => Has(s2c, "CONTINUE", id)
  <2>1. s2c \in Seq(DownPackets) /\ s2c # << >> /\ s2c' = Tail(s2c)
        /\ Head(s2c).type = type
    BY <1>0, <1>12 DEF Receive, WireTypeOK
  <2>2. /\ AtMostOne(Tail(s2c), "CONTINUE", id)
        /\ Has(Tail(s2c), "CONTINUE", id) => Has(s2c, "CONTINUE", id)
    BY <1>3, <2>1, TailUndisturbed
  <2> QED BY <2>1, <2>2, HeadTailProperties
<1>13. CASE RecvControlContinue \/ RecvData
  <2>1. /\ UNCHANGED <<c2s, nextStreamId, cstream, sent>>
        /\ Receive("CONTINUE") \/ Receive("DATA")
    BY <1>13 DEF RecvControlContinue, RecvData
  <2> QED BY <1>0, <1>1, <1>2, <1>4, <1>12, <2>1, QuietStep
<1>14. CASE RecvClose
  <2>1. /\ UNCHANGED <<c2s, nextStreamId, sent>> /\ Receive("CLOSE")
        /\ \/ cstream'[id] = RemoteClosed(cstream[id])
           \/ cstream'[id] = cstream[id]
    BY <1>0, <1>14 DEF RecvClose
  <2>2. /\ cstream'[id].credit = cstream[id].credit
        /\ cstream'[id].held = cstream[id].held
    BY <1>0, <2>1 DEF RemoteClosed, ClientStreams
  <2> QED BY <1>0, <1>1, <1>2, <1>4, <1>12, <2>1, <2>2, QuietStep
<1>15. ASSUME NEW j \in Ids, Write(j)
       PROVE  CreditOf(id)'
  <2> DEFINE s == cstream[j]
             chunk == s.written + 1
             queued == [s EXCEPT !.written = chunk, !.queue = Append(@, chunk)]
  <2>1. /\ UNCHANGED <<s2c, nextStreamId>> /\ s \in ClientStreams /\ s.held
        /\ chunk \in Up
    BY <1>15 DEF Write, TypeOK, ClientTypeOK
  <2>2. queued.credit = s.credit /\ queued.held = s.held
    BY <2>1 DEF ClientStreams
  <2>3. CASE UNCHANGED <<c2s, sent>> /\ cstream'[id].credit = cstream[id].credit
             /\ cstream'[id].held = cstream[id].held
    BY <1>0, <1>1, <1>2, <1>4, <1>5, <2>1, <2>3, QuietStep
  <2>4. CASE /\ cstream' = [cstream EXCEPT ![j] = Drained(queued, 1)]
             /\ ToServer(DataPackets(j, queued, 1))
             /\ sent' = [sent EXCEPT ![j] = @ + 1]
             /\ s.credit # 0 /\ s.queue = << >>
    <3>1. queued \in ClientStreams /\ queued.queue = <<chunk>>
      <4>1. s.queue \in Seq(Up) /\ Append(s.queue, chunk) = <<chunk>>
        BY <2>1, <2>4 DEF ClientStreams
      <4>2. Append(s.queue, chunk) \in Seq(Up) /\ chunk \in 0 .. MaxUp
        BY <2>1, <4>1, OnePacket DEF Up
      <4> QED BY <2>1, <4>1, <4>2 DEF ClientStreams
    <3>2. /\ 1 \in 0 .. Len(queued.queue) /\ 1 <= queued.credit
      BY <2>1, <2>2, <2>4, <3>1 DEF ClientStreams
    <3>3. DataPackets(j, queued, 1) \in Seq(UpPackets)
      BY <3>1, <3>2, DrainTyped
    <3>4. ~Has(DataPackets(j, queued, 1), "CONNECT", id)
      BY OtherPackets
    <3>5. /\ AtMostOne(c2s', "CONNECT", id)
          /\ Has(c2s', "CONNECT", id) => Has(c2s, "CONNECT", id)
      BY <1>9, <2>4, <3>3, <3>4
    <3>6. /\ Drained(queued, 1).credit = s.credit - 1
          /\ Drained(queued, 1).held = s.held
      BY <2>2, <3>1 DEF Drained, ClientStreams
    <3>7. /\ cstream'[id].held = cstream[id].held
          /\ sent'[id] + cstream'[id].credit = sent[id] + cstream[id].credit
          /\ ~cstream[id].held => sent'[id] = sent[id]
      <4>1. CASE id = j
        <5>1. sent'[id] = sent[id] + 1
          BY <1>0, <2>4, <4>1
        <5>2. /\ cstream'[id].credit = cstream[id].credit - 1
              /\ cstream'[id].held = cstream[id].held
          BY <1>0, <2>4, <3>6, <4>1
        <5>3. cstream[id].held
          BY <2>1, <4>1
        <5>4. sent[id] + 1 + (cstream[id].credit - 1)
                = sent[id] + cstream[id].credit
          BY <1>0
        <5> HIDE DEF queued, chunk, s
        <5> QED BY <5>1, <5>2, <5>3, <5>4
      <4>2. CASE id # j
        BY <1>0, <2>4, <4>2
      <4> QED BY <4>1, <4>2
    <3>8. sent'[id] + cstream'[id].credit <= sent[id] + cstream[id].credit
      BY <1>0, <1>1, <3>7
    <3> QED BY <1>0, <1>1, <1>2, <1>5, <2>1, <3>5, <3>7, <3>8, QuietStep
  <2>5. CASE s.queue # << >> \/ (~s.closed /\ s.credit = 0)
    <3>1. UNCHANGED <<c2s, sent>> /\ cstream' = [cstream EXCEPT ![j] = queued]
      BY <1>15, <2>5 DEF Write
    <3> QED BY <1>0, <2>2, <2>3, <3>1
  <2>6. CASE /\ ~(s.queue # << >> \/ (~s.closed /\ s.credit = 0))
             /\ s.closed \/ wsC # "open"
    <3>1. /\ UNCHANGED <<c2s, sent>>
          /\ cstream' = [cstream EXCEPT ![j].written = chunk]
      BY <1>15, <2>6 DEF Write
    <3> QED BY <1>0, <2>1, <2>3, <3>1 DEF ClientStreams
  <2>7. CASE /\ ~(s.queue # << >> \/ (~s.closed /\ s.credit = 0))
             /\ ~(s.closed \/ wsC # "open")
    BY <1>15, <2>4, <2>7 DEF Write
  <2> QED BY <2>5, <2>6, <2>7
<1>16. CASE RecvContinue
  <2> DEFINE j == Head(s2c).id
             s == [cstream[j] EXCEPT !.credit = Head(s2c).remaining]
             n == DrainCount(s)
             d == Drained(s, n)
             final == s.ended /\ n > 0 /\ d.queue = << >>
             close == IF final THEN VoluntaryClose(j, s) ELSE << >>
  <2>1. /\ Receive("CONTINUE") /\ j # 0 /\ UNCHANGED nextStreamId
    BY <1>16 DEF RecvContinue
  <2>2. j \in Ids /\ Head(s2c).remaining = Buffer /\ Head(s2c).type = "CONTINUE"
    BY <1>12, <2>1, DownPacketsTyped
  <2>3. CASE j \notin cmap
    <3>1. UNCHANGED <<c2s, cstream, sent>>
      BY <1>16, <2>3 DEF RecvContinue
    <3> QED BY <1>0, <1>1, <1>2, <1>4, <1>12, <2>1, <3>1, QuietStep
  <2>4. CASE j \in cmap
    <3>1. /\ cstream' = [cstream EXCEPT ![j] = IF final THEN Finished(d) ELSE d]
          /\ ToServer(DataPackets(j, s, n) \o close)
          /\ sent' = [sent EXCEPT ![j] = @ + n]
      BY <1>16, <2>4 DEF RecvContinue
    <3>2. cstream[j] \in ClientStreams /\ Buffer \in Nat
      BY <2>2, WireAssumption DEF TypeOK, ClientTypeOK
    <3>3. /\ s \in ClientStreams /\ s.credit = Buffer
          /\ s.held = cstream[j].held
      BY <2>2, <3>2 DEF ClientStreams
    <3>4. n \in 0 .. Len(s.queue) /\ n <= Buffer
      BY <3>3, DrainCountBounds
    <3>5. s.queue \in Seq(Up)
      BY <3>3 DEF ClientStreams
    <3>6. n \in Nat
      <4>1. Len(s.queue) \in Nat
        BY <3>5, LenProperties
      <4> HIDE DEF n, s
      <4> QED BY <3>4, <4>1
    <3>7. DataPackets(j, s, n) \in Seq(UpPackets)
      BY <2>2, <3>3, <3>4, DrainTyped
    <3>8. d.credit = Buffer - n /\ d.held = cstream[j].held
      BY <3>3 DEF Drained, ClientStreams
    <3>9. d \in ClientStreams
      BY <2>2, <3>3, <3>4, DrainTyped
    <3>10. Finished(d).credit = Buffer - n /\ Finished(d).held = cstream[j].held
      BY <3>8, <3>9 DEF Finished, ClientStreams
    <3>11. close \in Seq(UpPackets) /\ ~Has(close, "CONNECT", id)
      BY <1>10, <2>2, EmptySeq, OtherPackets
    <3>12. ~Has(DataPackets(j, s, n), "CONNECT", id)
      BY OtherPackets
    <3> HIDE DEF s, n, d, final, close
    <3>13. /\ DataPackets(j, s, n) \o close \in Seq(UpPackets)
           /\ ~Has(DataPackets(j, s, n) \o close, "CONNECT", id)
      BY <3>7, <3>11, <3>12, ConcatProperties, HasConcat
    <3>14. /\ AtMostOne(c2s', "CONNECT", id)
           /\ Has(c2s', "CONNECT", id) => Has(c2s, "CONNECT", id)
      BY <1>9, <2>2, <3>1, <3>13
    <3>15. CASE id # j
      <4>1. UNCHANGED sent[id] /\ UNCHANGED cstream[id]
        BY <1>0, <3>1, <3>15
      <4> QED BY <1>0, <1>1, <1>2, <1>12, <2>1, <3>14, <4>1, QuietStep
    <3>16. CASE id = j
      <4>1. Matches(Head(s2c), "CONTINUE", id)
        BY <2>2, <3>16 DEF Matches
      <4>2. s2c \in Seq(DownPackets) /\ s2c # << >> /\ s2c' = Tail(s2c)
        BY <1>0, <2>1 DEF Receive, WireTypeOK
      <4>3. Has(s2c, "CONTINUE", id) /\ ~Has(s2c', "CONTINUE", id)
        BY <1>3, <4>1, <4>2, HasTail
      <4>4. phase[id] \in {"open", "closed"} /\ ~Granted(id)
        BY <1>0, <4>3 DEF CreditOf, Granted
      <4>5. Granted(id)'
        BY <1>2, <4>3, <4>4 DEF Granted
      <4>6. /\ sent[id] + cstream[id].credit <= InitialCredit
            /\ id < nextStreamId
        BY <1>0, <4>4 DEF CreditOf
      <4>7. sent'[id] = sent[id] + n /\ cstream'[id].credit = Buffer - n
        BY <1>0, <3>1, <3>8, <3>10, <3>16
      <4>8. sent'[id] + cstream'[id].credit <= InitialCredit + Buffer
        BY <1>0, <3>2, <3>6, <4>6, <4>7
      <4>9. AtMostOne(s2c', "CONTINUE", id)
        BY <1>12, <2>1
      <4>10. ~(id >= nextStreamId')
        BY <1>0, <2>1, <4>6
      <4>11. id \in smap' => phase'[id] = "open"
        BY <1>0, <1>2 DEF CreditOf
      <4>12. Has(c2s', "CONNECT", id) => phase'[id] = "none"
        BY <1>0, <1>2, <3>14 DEF CreditOf
      <4> QED BY <3>14, <4>3, <4>5, <4>8, <4>9, <4>10, <4>11, <4>12 DEF CreditOf
    <3> QED BY <3>15, <3>16
  <2> QED BY <2>3, <2>4
<1> QED BY <1>6, <1>7, <1>8, <1>11, <1>13, <1>14, <1>15, <1>16
        DEF ClientNext, AppNext, OnMessage

LEMMA ServerCreditStep ==
  ASSUME TypeOK, TypeOK', CreditInv, ServerNext, UNCHANGED client
  PROVE  CreditInv'
<1> SUFFICES ASSUME NEW id \in Ids PROVE CreditOf(id)'
  BY DEF CreditInv
<1>0. /\ WireTypeOK /\ ServerTypeOK /\ CreditOf(id) /\ id \in Nat
      /\ sent[id] \in Nat /\ cstream[id].credit \in Nat
      /\ nextStreamId \in Nat /\ InitialCredit \in Nat /\ Buffer \in Nat
      /\ DOMAIN phase = Ids /\ smap \subseteq Ids
  <2>1. WireTypeOK /\ ServerTypeOK /\ CreditOf(id)
    BY DEF TypeOK, CreditInv
  <2>2. id \in Nat /\ InitialCredit \in Nat /\ Buffer \in Nat
    BY WireAssumption DEF Ids, InitialCredit
  <2>3. sent[id] \in Nat /\ cstream[id].credit \in Nat /\ nextStreamId \in Nat
    BY DEF TypeOK, ClientTypeOK, ClientStreams
  <2> QED BY <2>1, <2>2, <2>3 DEF ServerTypeOK
<1>1. /\ sent' = sent /\ cstream' = cstream /\ nextStreamId' = nextStreamId
  BY DEF client
<1>2. AtMostOne(c2s, "CONNECT", id) /\ AtMostOne(s2c, "CONTINUE", id)
  BY <1>0 DEF CreditOf
<1>3. UNCHANGED c2s \/ c2s' = << >> =>
        /\ AtMostOne(c2s', "CONNECT", id)
        /\ Has(c2s', "CONNECT", id) => Has(c2s, "CONNECT", id)
  BY <1>2, OtherPackets
<1>4. UNCHANGED s2c =>
        /\ AtMostOne(s2c', "CONTINUE", id)
        /\ Has(s2c', "CONTINUE", id) => Has(s2c, "CONTINUE", id)
  BY <1>2
<1>5. ASSUME /\ AtMostOne(c2s', "CONNECT", id)
             /\ Has(c2s', "CONNECT", id) => Has(c2s, "CONNECT", id),
             /\ AtMostOne(s2c', "CONTINUE", id)
             /\ Has(s2c', "CONTINUE", id) => Has(s2c, "CONTINUE", id),
             \/ phase'[id] = phase[id]
             \/ /\ phase[id] # "none" /\ phase'[id] = "closed"
                /\ id \notin smap',
             id \in smap' => id \in smap
      PROVE  CreditOf(id)'
  <2>1. /\ sent'[id] \in Nat /\ cstream'[id].credit \in Nat
        /\ sent'[id] + cstream'[id].credit <= sent[id] + cstream[id].credit
        /\ cstream'[id].held = cstream[id].held /\ sent'[id] = sent[id]
        /\ nextStreamId' >= nextStreamId /\ nextStreamId' \in Nat
    BY <1>0, <1>1
  <2> QED BY <1>0, <1>5, <2>1, QuietStep
<1>6. ASSUME NEW pkts \in Seq(DownPackets), ToClient(pkts),
             ~Has(pkts, "CONTINUE", id)
      PROVE  /\ AtMostOne(s2c', "CONTINUE", id)
             /\ Has(s2c', "CONTINUE", id) => Has(s2c, "CONTINUE", id)
  BY <1>0, <1>2, <1>6, DownUndisturbed
<1>7. ASSUME NEW type, Handle(type)
      PROVE  /\ Head(c2s) \in UpPackets /\ Head(c2s).type = type
             /\ c2s \in Seq(UpPackets) /\ c2s # << >> /\ c2s' = Tail(c2s)
             /\ AtMostOne(c2s', "CONNECT", id)
             /\ Has(c2s', "CONNECT", id) => Has(c2s, "CONNECT", id)
  <2>1. /\ c2s \in Seq(UpPackets) /\ c2s # << >> /\ c2s' = Tail(c2s)
        /\ Head(c2s).type = type
    BY <1>0, <1>7 DEF Handle, WireTypeOK
  <2>2. /\ AtMostOne(Tail(c2s), "CONNECT", id)
        /\ Has(Tail(c2s), "CONNECT", id) => Has(c2s, "CONNECT", id)
    BY <1>2, <2>1, TailUndisturbed
  <2> QED BY <2>1, <2>2, HeadTailProperties
<1>8. CASE Connection
  <2>1. /\ UNCHANGED <<c2s, phase, smap>> /\ s2c' = <<Continue(0, Buffer)>>
    BY <1>8 DEF Connection
  <2>2. id # 0
    BY DEF Ids
  <2>3. /\ AtMostOne(s2c', "CONTINUE", id) /\ ~Has(s2c', "CONTINUE", id)
    BY <2>1, <2>2, OtherPackets
  <2> QED BY <1>3, <1>5, <2>1, <2>3
<1>9. CASE SessionClose
  <2>1. /\ UNCHANGED s2c /\ c2s' = << >> /\ smap' = {}
        /\ phase'[id] = IF id \in smap THEN "closed" ELSE phase[id]
    BY <1>9 DEF SessionClose
  <2>2. id \in smap => phase[id] = "open"
    BY <1>0 DEF CreditOf
  <2> QED BY <1>3, <1>4, <1>5, <2>1, <2>2
<1>10. CASE HandleConnect
  <2> DEFINE j == Head(c2s).id
  <2>1. /\ Handle("CONNECT") /\ UNCHANGED smap
        /\ \/ /\ phase' = [phase EXCEPT ![j] = "resolving"]
              /\ UNCHANGED s2c
           \/ /\ phase' = [phase EXCEPT ![j] = "closed"]
              /\ ToClient(<<Close(j, "error")>>)
    BY <1>10 DEF HandleConnect
  <2>2. j \in Ids /\ Head(c2s).type = "CONNECT"
    BY <1>7, <2>1, UpPacketsTyped
  <2>3. <<Close(j, "error")>> \in Seq(DownPackets)
        /\ ~Has(<<Close(j, "error")>>, "CONTINUE", id)
    BY <2>2, DownPacketsTyped, OnePacket, OtherPackets DEF Reason
  <2>4. /\ AtMostOne(s2c', "CONTINUE", id)
        /\ Has(s2c', "CONTINUE", id) => Has(s2c, "CONTINUE", id)
    BY <1>4, <1>6, <2>1, <2>3
  <2>5. CASE id # j
    <3>1. phase'[id] = phase[id]
      BY <1>0, <2>1, <2>5
    <3> QED BY <1>5, <1>7, <2>1, <2>4, <3>1
  <2>6. CASE id = j
    <3>1. Matches(Head(c2s), "CONNECT", id)
      BY <2>2, <2>6 DEF Matches
    <3>2. Has(c2s, "CONNECT", id) /\ ~Has(c2s', "CONNECT", id)
      <4>1. c2s \in Seq(UpPackets) /\ c2s # << >> /\ c2s' = Tail(c2s)
        BY <1>7, <2>1
      <4>2. Has(c2s, "CONNECT", id) /\ ~Has(Tail(c2s), "CONNECT", id)
        BY <1>2, <3>1, <4>1, HasTail
      <4> QED BY <4>1, <4>2
    <3>3. /\ phase[id] = "none" /\ id < nextStreamId /\ id \notin smap
          /\ ~Has(s2c, "CONTINUE", id) /\ ~Granted(id)
      BY <1>0, <3>2 DEF CreditOf, Granted
    <3>4. sent[id] + cstream[id].credit <= InitialCredit
      BY <1>0, <3>3 DEF CreditOf
    <3>5. (sent[id] + cstream[id].credit)'
             <= InitialCredit + (IF Granted(id)' THEN Buffer ELSE 0)
      BY <1>0, <1>1, <3>4
    <3>6. ~(id >= nextStreamId')
      BY <1>0, <1>1, <3>3
    <3>7. id \notin smap' /\ ~Has(s2c', "CONTINUE", id)
      BY <2>1, <2>4, <3>3
    <3>8. AtMostOne(c2s', "CONNECT", id)
      BY <1>7, <2>1
    <3> QED BY <2>4, <3>2, <3>5, <3>6, <3>7, <3>8 DEF CreditOf
  <2> QED BY <2>5, <2>6
<1>11. CASE HandleData
  <2>1. Handle("DATA") /\ UNCHANGED <<s2c, phase, smap>>
    BY <1>11 DEF HandleData
  <2> QED BY <1>4, <1>5, <1>7, <2>1
<1>12. CASE HandleClose
  <2>1. /\ Handle("CLOSE") /\ UNCHANGED s2c /\ (id \in smap' => id \in smap)
        /\ \/ phase'[id] = phase[id]
           \/ id \in smap /\ id \notin smap' /\ phase'[id] = "closed"
    BY <1>0, <1>12 DEF HandleClose
  <2>2. id \in smap => phase[id] = "open"
    BY <1>0 DEF CreditOf
  <2> QED BY <1>4, <1>5, <1>7, <2>1, <2>2
<1>13. ASSUME NEW j \in Ids, ConnectFails(j)
       PROVE  CreditOf(id)'
  <2>1. /\ UNCHANGED <<c2s, smap>> /\ ToClient(<<Close(j, "error")>>)
        /\ phase[j] \in {"resolving", "connecting"}
        /\ phase' = [phase EXCEPT ![j] = "closed"]
    BY <1>13 DEF ConnectFails
  <2>2. <<Close(j, "error")>> \in Seq(DownPackets)
        /\ ~Has(<<Close(j, "error")>>, "CONTINUE", id)
    BY DownPacketsTyped, OnePacket, OtherPackets DEF Reason
  <2>3. id \in smap => phase[id] = "open"
    BY <1>0 DEF CreditOf
  <2>4. \/ phase'[id] = phase[id]
        \/ phase[id] # "none" /\ phase'[id] = "closed" /\ id \notin smap'
    BY <1>0, <2>1, <2>3
  <2> QED BY <1>3, <1>5, <1>6, <2>1, <2>2, <2>4
<1>14. ASSUME NEW j \in Ids, Resolved(j)
       PROVE  CreditOf(id)'
  <2>1. /\ UNCHANGED <<c2s, s2c, smap>> /\ phase[j] = "resolving"
        /\ phase' = [phase EXCEPT ![j] = "connecting"]
    BY <1>14 DEF Resolved, wire
  <2>2. CASE id # j
    BY <1>3, <1>4, <1>5, <2>1, <2>2
  <2>3. CASE id = j
    <3>1. phase[id] = "resolving" /\ phase'[id] = "connecting"
      BY <1>0, <2>1, <2>3
    <3>2. ~Granted(id) /\ ~Granted(id)'
      BY <3>1 DEF Granted
    <3> QED BY <1>0, <1>1, <2>1, <3>1, <3>2 DEF CreditOf
  <2> QED BY <2>2, <2>3
<1>15. ASSUME NEW j \in Ids, Connected(j)
       PROVE  CreditOf(id)'
  <2>1. /\ UNCHANGED c2s /\ smap' = smap \cup {j} /\ phase[j] = "connecting"
        /\ phase' = [phase EXCEPT ![j] = "open"]
        /\ ToClient(<<Continue(j, Buffer)>>)
    BY <1>15 DEF Connected
  <2>2. <<Continue(j, Buffer)>> \in Seq(DownPackets)
    BY DownPacketsTyped, OnePacket
  <2>3. CASE id # j
    <3>1. ~Has(<<Continue(j, Buffer)>>, "CONTINUE", id)
      BY <2>3, OtherPackets
    <3>2. phase'[id] = phase[id] /\ (id \in smap' => id \in smap)
      BY <1>0, <2>1, <2>3
    <3>3. /\ AtMostOne(s2c', "CONTINUE", id)
          /\ Has(s2c', "CONTINUE", id) => Has(s2c, "CONTINUE", id)
      BY <1>6, <2>1, <2>2, <3>1
    <3> QED BY <1>3, <1>5, <2>1, <3>2, <3>3
  <2>4. CASE id = j
    <3>1. phase[id] = "connecting" /\ phase'[id] = "open"
      BY <1>0, <2>1, <2>4
    <3>2. /\ ~Has(s2c, "CONTINUE", id) /\ ~Granted(id)
          /\ ~Has(c2s, "CONNECT", id) /\ id < nextStreamId
      BY <1>0, <3>1 DEF CreditOf, Granted
    <3>3. s2c' = s2c \/ s2c' = s2c \o <<Continue(j, Buffer)>>
      BY <2>1 DEF ToClient
    <3>4. AtMostOne(<<Continue(j, Buffer)>>, "CONTINUE", id)
      BY OtherPackets
    <3>5. AtMostOne(s2c', "CONTINUE", id)
      <4>1. AtMostOne(s2c \o <<Continue(j, Buffer)>>, "CONTINUE", id)
        BY <1>0, <2>2, <3>2, <3>4, HasConcat DEF WireTypeOK
      <4>2. CASE s2c' = s2c
        BY <1>2, <4>2
      <4>3. CASE s2c' = s2c \o <<Continue(j, Buffer)>>
        BY <4>1, <4>3
      <4> QED BY <3>3, <4>2, <4>3
    <3>6. sent[id] + cstream[id].credit <= InitialCredit
      BY <1>0, <3>2 DEF CreditOf
    <3>7. (sent[id] + cstream[id].credit)'
            <= InitialCredit + (IF Granted(id)' THEN Buffer ELSE 0)
      BY <1>0, <1>1, <3>6
    <3>8. ~(id >= nextStreamId')
      BY <1>0, <1>1, <3>2
    <3>9. AtMostOne(c2s', "CONNECT", id) /\ ~Has(c2s', "CONNECT", id)
      BY <1>2, <2>1, <3>2
    <3> QED BY <3>1, <3>5, <3>7, <3>8, <3>9 DEF CreditOf
  <2> QED BY <2>3, <2>4
<1>16. ASSUME NEW j \in Ids, SocketData(j) \/ ThrottleDone(j)
       PROVE  CreditOf(id)'
  <2>1. UNCHANGED <<c2s, phase, smap>>
    BY <1>16 DEF SocketData, ThrottleDone
  <2>2. \/ UNCHANGED s2c
        \/ \E chunk \in Down : ToClient(<<Data(j, chunk)>>)
    <3>1. CASE SocketData(j)
      BY <3>1 DEF SocketData
    <3>2. CASE ThrottleDone(j)
      <4>1. PICK k \in DOMAIN waiting[j] :
              UNCHANGED s2c \/ ToClient(<<Data(j, waiting[j][k])>>)
        BY <3>2 DEF ThrottleDone
      <4>2. waiting[j][k] \in Down
        BY <1>0, LenProperties, ElementOfSeq DEF ServerTypeOK
      <4> QED BY <4>1, <4>2
    <3> QED BY <1>16, <3>1, <3>2
  <2>3. \A chunk \in Down : /\ <<Data(j, chunk)>> \in Seq(DownPackets)
                            /\ ~Has(<<Data(j, chunk)>>, "CONTINUE", id)
    BY DownPacketsTyped, OnePacket, OtherPackets
  <2>4. /\ AtMostOne(s2c', "CONTINUE", id)
        /\ Has(s2c', "CONTINUE", id) => Has(s2c, "CONTINUE", id)
    BY <1>4, <1>6, <2>2, <2>3
  <2> QED BY <1>3, <1>5, <2>1, <2>4
<1>17. ASSUME NEW S \in SUBSET Ids, NEW reason \in Reason,
              CloseSelf(S, reason), UNCHANGED c2s,
              \A j \in S : phase[j] = "open"
       PROVE  CreditOf(id)'
  <2>1. /\ smap' = smap \ S
        /\ phase' = [j \in Ids |-> IF j \in S THEN "closed" ELSE phase[j]]
    BY <1>17, CloseSelfTyped
  <2>2. PICK r \in Seq(DownPackets) :
          ToClient(r) /\ \A i \in DOMAIN r : r[i].type = "CLOSE"
    BY <1>17, CloseSelfTyped
  <2>3. ~Has(r, "CONTINUE", id)
    BY <2>2 DEF Has, Matches
  <2>4. \/ phase'[id] = phase[id]
        \/ phase[id] # "none" /\ phase'[id] = "closed" /\ id \notin smap'
    BY <1>17, <2>1
  <2> QED BY <1>3, <1>5, <1>6, <1>17, <2>1, <2>2, <2>3, <2>4
<1>18. ASSUME NEW j \in Ids, SocketEnds(j)
       PROVE  CreditOf(id)'
  <2>1. PICK reason \in Reason : CloseSelf({j}, reason)
    BY <1>18 DEF SocketEnds
  <2>2. UNCHANGED c2s /\ phase[j] = "open" /\ {j} \in SUBSET Ids
    BY <1>18 DEF SocketEnds
  <2> QED BY <1>17, <2>1, <2>2
<1>19. CASE JanitorTick
  <2>1. PICK expired \in SUBSET smap : CloseSelf(expired, "error")
    BY <1>19 DEF JanitorTick, Expirable
  <2>2. UNCHANGED c2s /\ expired \in SUBSET Ids /\ "error" \in Reason
    BY <1>0, <1>19 DEF JanitorTick, Reason
  <2>3. \A j \in expired : phase[j] = "open"
    BY <1>0 DEF CreditInv, CreditOf
  <2> QED BY <1>17, <2>1, <2>2, <2>3
<1> QED BY <1>8, <1>9, <1>10, <1>11, <1>12, <1>13, <1>14, <1>15, <1>16, <1>18,
           <1>19 DEF ServerNext, HandlePacket, ConnectNext, StreamNext

(* The inductive invariant behind CreditCap.                                *)
THEOREM CreditCorrect == Spec => []CreditInv
<1>1. Init => CreditInv
  BY CreditInit
<1>2. TypeOK /\ TypeOK' /\ CreditInv /\ [Next]_vars => CreditInv'
  <2> SUFFICES ASSUME TypeOK, TypeOK', CreditInv, [Next]_vars PROVE CreditInv'
    OBVIOUS
  <2>1. CASE ClientNext /\ UNCHANGED server
    BY <2>1, ClientCreditStep
  <2>2. CASE ServerNext /\ UNCHANGED client
    BY <2>2, ServerCreditStep
  <2>3. CASE UNCHANGED vars
    BY <2>3 DEF vars, wire, client, server, CreditInv, CreditOf, Granted, Has,
                AtMostOne
  <2> QED BY <2>1, <2>2, <2>3 DEF Next
<1> QED BY <1>1, <1>2, TypeCorrect, PTL DEF Spec

(* A stream never carries more DATA packets than its initial credit and the *)
(* server's one CONTINUE, whatever the sizes of the buffers.                *)
THEOREM CreditBounded == Spec => []CreditCap
<1>1. TypeOK /\ CreditInv => CreditCap
  <2> SUFFICES ASSUME TypeOK, CreditInv, NEW id \in Ids
               PROVE  sent[id] <= InitialCredit + Buffer
    BY DEF CreditCap
  <2>1. /\ sent[id] \in Nat /\ cstream[id].credit \in Nat
        /\ InitialCredit \in Nat /\ Buffer \in Nat
    BY WireAssumption DEF TypeOK, ClientTypeOK, ClientStreams, InitialCredit
  <2>2. sent[id] + cstream[id].credit
          <= InitialCredit + (IF Granted(id) THEN Buffer ELSE 0)
    BY DEF CreditInv, CreditOf
  <2> QED BY <2>1, <2>2
<1> QED BY <1>1, TypeCorrect, CreditCorrect, PTL

-----------------------------------------------------------------------------
(* CLOSE: it is last, and it comes.                                         *)

(* CLOSE is last, and is on its way: the two wires.                         *)
LEMMA ClosesTail ==
  ASSUME NEW S, NEW q \in Seq(S), q # << >>, NEW id
  PROVE  /\ ClosesLast(q, id) => ClosesLast(Tail(q), id)
         /\ NothingOf(q, id) => NothingOf(Tail(q), id)
         /\ \A type : Has(q, type, id) /\ ~Matches(Head(q), type, id)
                        => Has(Tail(q), type, id)
<1> DEFINE t == Tail(q)
<1>1. /\ t \in Seq(S) /\ Len(t) = Len(q) - 1
      /\ \A i \in 1 .. Len(t) : t[i] = q[i + 1]
  BY HeadTailProperties
<1>2. /\ DOMAIN t = 1 .. Len(t) /\ DOMAIN q = 1 .. Len(q)
      /\ Len(q) \in Nat \ {0} /\ Len(t) \in Nat
  BY <1>1, LenProperties, EmptySeq
<1>3. Head(q) = q[1]
  BY <1>2
<1>4. \A i \in DOMAIN t : i \in Nat /\ i + 1 \in DOMAIN q /\ t[i] = q[i + 1]
  BY <1>1, <1>2
<1>5. \A i \in DOMAIN q : i = 1 \/ (i - 1 \in DOMAIN t /\ t[i - 1] = q[i])
  BY <1>1, <1>2
<1> HIDE DEF t
<1>6. ClosesLast(q, id) => ClosesLast(t, id)
  <2> SUFFICES ASSUME ClosesLast(q, id), NEW i \in DOMAIN t, NEW j \in DOMAIN t,
                      i < j, Matches(t[i], "CLOSE", id)
               PROVE  t[j].id # id
    BY DEF ClosesLast
  <2>1. i + 1 < j + 1
    BY <1>4
  <2> QED BY <1>4, <2>1 DEF ClosesLast
<1>7. NothingOf(q, id) => NothingOf(t, id)
  BY <1>4 DEF NothingOf
<1>8. ASSUME NEW type, Has(q, type, id), ~Matches(Head(q), type, id)
      PROVE  Has(t, type, id)
  BY <1>3, <1>5, <1>8 DEF Has
<1> QED BY <1>6, <1>7, <1>8 DEF t

LEMMA ClosesConcat ==
  ASSUME NEW S, NEW q \in Seq(S), NEW r \in Seq(S), NEW id
  PROVE  /\ ClosesLast(q, id) /\ ClosesLast(r, id)
           /\ (~Has(q, "CLOSE", id) \/ NothingOf(r, id))
              => ClosesLast(q \o r, id)
         /\ NothingOf(q, id) /\ NothingOf(r, id) => NothingOf(q \o r, id)
         /\ \A type : Has(q, type, id) \/ Has(r, type, id)
                        => Has(q \o r, type, id)
<1> DEFINE s == q \o r
           m == Len(q)
<1>1. /\ s \in Seq(S) /\ Len(s) = m + Len(r)
      /\ \A i \in 1 .. m + Len(r) : s[i] = IF i <= m THEN q[i] ELSE r[i - m]
  BY ConcatProperties
<1>2. /\ DOMAIN q = 1 .. m /\ DOMAIN r = 1 .. Len(r) /\ DOMAIN s = 1 .. Len(s)
      /\ m \in Nat /\ Len(r) \in Nat /\ DOMAIN s \subseteq Int
  BY <1>1, LenProperties
<1>3. \A i \in DOMAIN s :
        \/ i \in DOMAIN q /\ i <= m /\ s[i] = q[i]
        \/ i > m /\ i - m \in DOMAIN r /\ s[i] = r[i - m]
  BY <1>1, <1>2
<1>4. /\ \A i \in DOMAIN q : i \in DOMAIN s /\ s[i] = q[i]
      /\ \A i \in DOMAIN r : i + m \in DOMAIN s /\ s[i + m] = r[i]
  BY <1>1, <1>2
<1> HIDE DEF s, m
<1>5. ASSUME ClosesLast(q, id), ClosesLast(r, id),
             ~Has(q, "CLOSE", id) \/ NothingOf(r, id)
      PROVE  ClosesLast(s, id)
  <2> SUFFICES ASSUME NEW i \in DOMAIN s, NEW j \in DOMAIN s, i < j,
                      Matches(s[i], "CLOSE", id)
               PROVE  s[j].id # id
    BY DEF ClosesLast
  <2>0. i \in Int /\ j \in Int /\ m \in Nat
    BY <1>2
  <2>1. CASE i \in DOMAIN q /\ i <= m /\ s[i] = q[i]
    <3>1. Has(q, "CLOSE", id)
      BY <2>1 DEF Has
    <3>2. CASE j \in DOMAIN q /\ s[j] = q[j]
      BY <1>5, <2>1, <3>2 DEF ClosesLast
    <3>3. CASE j - m \in DOMAIN r /\ s[j] = r[j - m]
      BY <1>5, <3>1, <3>3 DEF NothingOf
    <3> QED BY <1>3, <3>2, <3>3
  <2>2. CASE i > m /\ i - m \in DOMAIN r /\ s[i] = r[i - m]
    <3>1. j > m
      BY <2>0, <2>2
    <3>2. j - m \in DOMAIN r /\ s[j] = r[j - m]
      BY <1>3, <2>0, <3>1
    <3>3. i - m < j - m
      BY <2>0
    <3> QED BY <1>5, <2>2, <3>2, <3>3 DEF ClosesLast
  <2> QED BY <1>3, <2>1, <2>2
<1>6. NothingOf(q, id) /\ NothingOf(r, id) => NothingOf(s, id)
  BY <1>3 DEF NothingOf
<1>7. ASSUME NEW type, Has(q, type, id) \/ Has(r, type, id)
      PROVE  Has(s, type, id)
  <2>1. CASE Has(q, type, id)
    BY <1>4, <2>1 DEF Has
  <2>2. CASE Has(r, type, id)
    BY <1>4, <2>2 DEF Has
  <2> QED BY <1>7, <2>1, <2>2
<1> QED BY <1>5, <1>6, <1>7 DEF s

LEMMA ClosesSome ==
  ASSUME NEW id
  PROVE  /\ NothingOf(<< >>, id) /\ \A type : ~Has(<< >>, type, id)
         /\ \A q : NothingOf(q, id) =>
              ClosesLast(q, id) /\ \A type : ~Has(q, type, id)
         /\ \A p : /\ ClosesLast(<<p>>, id)
                   /\ \A type : Has(<<p>>, type, id) <=> Matches(p, type, id)
                   /\ p.id # id => NothingOf(<<p>>, id)
<1>1. DOMAIN << >> = {} /\ \A p : DOMAIN <<p>> = {1} /\ <<p>>[1] = p
  OBVIOUS
<1>2. ASSUME NEW p PROVE ClosesLast(<<p>>, id)
  BY <1>1 DEF ClosesLast
<1> QED BY <1>1, <1>2 DEF NothingOf, Has, ClosesLast, Matches

LEMMA CloseStart == Init => CloseInv
<1> SUFFICES ASSUME Init PROVE CloseInv
  OBVIOUS
<1>1. /\ c2s = << >> /\ s2c = << >> /\ cmap = {} /\ ready = FALSE
      /\ \A id \in Ids : phase[id] = "none"
  BY DEF Init, WireInit, ClientInit, ServerInit
<1>2. \A id \in Ids : CloseOf(id)
  BY <1>1, ClosesSome DEF CloseOf, Alive
<1> QED BY <1>1, <1>2 DEF CloseInv

(* A step of the client. It may send packets of a stream only while it has  *)
(* not closed it, and a CLOSE only as it closes it and lets it go.          *)
LEMMA ClientCloseQuiet ==
  ASSUME TypeOK, NEW id \in Ids, CloseOf(id), UNCHANGED phase,
         NEW pkts \in Seq(UpPackets), c2s' = c2s \/ c2s' = c2s \o pkts,
         ClosesLast(pkts, id),
         NothingOf(pkts, id) \/ ~cstream[id].closed \/ id \in cmap,
         Has(pkts, "CLOSE", id) => cstream'[id].closed /\ id \notin cmap',
         id >= nextStreamId => NothingOf(pkts, id),
         cstream[id].closed => cstream'[id].closed,
         id \in cmap' => id \in cmap,
         nextStreamId' \in Nat, nextStreamId' >= nextStreamId,
         \/ s2c' = s2c \/ s2c' = << >>
         \/ s2c # << >> /\ s2c' = Tail(s2c),
         Alive(id)' =>
           /\ Alive(id)
           /\ \/ s2c' = s2c
              \/ /\ s2c # << >> /\ s2c' = Tail(s2c)
                 /\ ~Matches(Head(s2c), "CLOSE", id)
  PROVE  CloseOf(id)'
<1>1. /\ c2s \in Seq(UpPackets) /\ s2c \in Seq(DownPackets)
      /\ nextStreamId \in Nat /\ id \in Nat
  BY WireAssumption DEF TypeOK, WireTypeOK, ClientTypeOK, Ids
<1>2. /\ ClosesLast(c2s, id) /\ ClosesLast(s2c, id)
      /\ Has(c2s, "CLOSE", id) => cstream[id].closed /\ id \notin cmap
      /\ Has(s2c, "CLOSE", id) => phase[id] = "closed"
      /\ id >= nextStreamId => NothingOf(c2s, id)
      /\ Alive(id) /\ phase[id] = "closed" => Has(s2c, "CLOSE", id)
  BY DEF CloseOf
<1>3. /\ ClosesLast(c2s', id)
      /\ Has(c2s', "CLOSE", id) => Has(c2s, "CLOSE", id) \/ Has(pkts, "CLOSE", id)
      /\ id >= nextStreamId => NothingOf(c2s', id)
  <2>1. CASE c2s' = c2s
    BY <1>2, <2>1
  <2>2. CASE c2s' = c2s \o pkts
    <3>1. ~Has(c2s, "CLOSE", id) \/ NothingOf(pkts, id)
      BY <1>2
    <3>2. ClosesLast(c2s \o pkts, id)
      BY <1>1, <1>2, <3>1, ClosesConcat
    <3>3. id >= nextStreamId => NothingOf(c2s \o pkts, id)
      BY <1>1, <1>2, ClosesConcat
    <3>4. Has(c2s \o pkts, "CLOSE", id)
            => Has(c2s, "CLOSE", id) \/ Has(pkts, "CLOSE", id)
      BY <1>1, HasConcat
    <3> QED BY <2>2, <3>2, <3>3, <3>4
  <2> QED BY <2>1, <2>2
<1>4. /\ ClosesLast(s2c', id)
      /\ Has(s2c', "CLOSE", id) => Has(s2c, "CLOSE", id)
  <2>1. CASE s2c' = s2c
    BY <1>2, <2>1
  <2>2. CASE s2c' = << >>
    BY <2>2, ClosesSome
  <2>3. CASE s2c # << >> /\ s2c' = Tail(s2c)
    <3>1. ClosesLast(Tail(s2c), id)
      BY <1>1, <1>2, <2>3, ClosesTail
    <3>2. Has(Tail(s2c), "CLOSE", id) => Has(s2c, "CLOSE", id)
      BY <1>1, <2>3, HasTail
    <3> QED BY <2>3, <3>1, <3>2
  <2> QED BY <2>1, <2>2, <2>3
<1>5. Has(c2s', "CLOSE", id) => cstream'[id].closed /\ id \notin cmap'
  BY <1>2, <1>3
<1>6. Has(s2c', "CLOSE", id) => phase'[id] = "closed"
  BY <1>2, <1>4
<1>7. id >= nextStreamId' => NothingOf(c2s', id)
  BY <1>1, <1>3
<1>8. Alive(id)' /\ phase'[id] = "closed" => Has(s2c', "CLOSE", id)
  <2> SUFFICES ASSUME Alive(id)', phase'[id] = "closed"
               PROVE  Has(s2c', "CLOSE", id)
    OBVIOUS
  <2>1. Has(s2c, "CLOSE", id)
    BY <1>2
  <2>2. CASE s2c' = s2c
    BY <2>1, <2>2
  <2>3. CASE s2c # << >> /\ s2c' = Tail(s2c) /\ ~Matches(Head(s2c), "CLOSE", id)
    BY <1>1, <2>1, <2>3, ClosesTail
  <2> QED BY <2>2, <2>3
<1> QED BY <1>3, <1>4, <1>5, <1>6, <1>7, <1>8 DEF CloseOf

LEMMA ConnectingStep ==
  ASSUME CloseInv, ClientNext, wsC' = "connecting"
  PROVE  ~ready' /\ cmap' = {}
<1>1. CASE WsOpen \/ ReadyTimeout \/ ConnectionClose \/ WsClosed \/ OnMessage
  BY <1>1 DEF WsOpen, ReadyTimeout, ConnectionClose, WsClosed, OnMessage, wire,
       client, RecvControlContinue, RecvData, RecvContinue, RecvClose, Receive,
       CloseInv
<1>2. ASSUME NEW listens \in ListenChoices, ConnectTcp(listens)
      PROVE  FALSE
  BY <1>2 DEF ConnectTcp, CloseInv
<1>3. ASSUME NEW id \in Ids, Write(id) \/ End(id) \/ Destroy(id)
      PROVE  ~ready' /\ cmap' = {}
  <2>1. UNCHANGED <<wsC, ready>> /\ cmap' \subseteq cmap
    BY <1>3 DEF Write, End, Destroy
  <2> QED BY <2>1 DEF CloseInv
<1> QED BY <1>1, <1>2, <1>3 DEF ClientNext, AppNext

(* What a stream sends when it drains or closes: DATA, then at most a CLOSE.*)
LEMMA SentTail ==
  ASSUME NEW j \in Ids, NEW s, NEW n, NEW id,
         DataPackets(j, s, n) \in Seq(UpPackets)
  PROVE  /\ VoluntaryClose(j, s) \in Seq(UpPackets)
         /\ j # id => NothingOf(DataPackets(j, s, n), id)
                        /\ NothingOf(VoluntaryClose(j, s), id)
         /\ ~Has(DataPackets(j, s, n), "CLOSE", id)
         /\ ClosesLast(DataPackets(j, s, n), id)
         /\ ClosesLast(VoluntaryClose(j, s), id)
         /\ ClosesLast(DataPackets(j, s, n) \o VoluntaryClose(j, s), id)
         /\ Has(VoluntaryClose(j, s), "CLOSE", id) => j = id /\ ~s.closed
         /\ s.closed => VoluntaryClose(j, s) = << >>
<1>1. VoluntaryClose(j, s) \in Seq(UpPackets)
  BY UpPacketsTyped, OnePacket, EmptySeq DEF VoluntaryClose, Reason
<1>2. j # id => NothingOf(DataPackets(j, s, n), id)
  BY DEF NothingOf, DataPackets, Data
<1>3. ~Has(DataPackets(j, s, n), "CLOSE", id)
  BY DEF Has, Matches, DataPackets, Data
<1>4. ClosesLast(DataPackets(j, s, n), id)
  BY <1>3 DEF Has, ClosesLast
<1>5. /\ Close(j, "voluntary").id = j
      /\ ClosesLast(VoluntaryClose(j, s), id)
      /\ j # id => NothingOf(VoluntaryClose(j, s), id)
      /\ Has(VoluntaryClose(j, s), "CLOSE", id) => j = id /\ ~s.closed
  <2>1. Close(j, "voluntary").id = j
    BY DEF Close
  <2>2. CASE s.closed
    BY <2>1, <2>2, ClosesSome DEF VoluntaryClose
  <2>3. CASE ~s.closed
    <3>1. VoluntaryClose(j, s) = <<Close(j, "voluntary")>>
      BY <2>3 DEF VoluntaryClose
    <3> QED BY <2>1, <2>3, <3>1, ClosesSome DEF Matches
  <2> QED BY <2>2, <2>3, <2>1
<1>6. ClosesLast(DataPackets(j, s, n) \o VoluntaryClose(j, s), id)
  BY <1>1, <1>3, <1>4, <1>5, ClosesConcat
<1> QED BY <1>1, <1>2, <1>3, <1>4, <1>5, <1>6 DEF VoluntaryClose

LEMMA ClientCloseStep ==
  ASSUME TypeOK, TypeOK', CreditInv, CloseInv, ClientNext, UNCHANGED server
  PROVE  \A id \in Ids : CloseOf(id)'
<1> SUFFICES ASSUME NEW id \in Ids PROVE CloseOf(id)'
  OBVIOUS
<1>0. /\ WireTypeOK /\ CloseOf(id) /\ id \in Nat /\ UNCHANGED <<phase, wsS>>
      /\ cstream \in [Ids -> ClientStreams]
      /\ nextStreamId \in Nat /\ nextStreamId' \in Nat /\ cmap \subseteq Ids
      /\ << >> \in Seq(UpPackets) /\ (c2s' = c2s \/ TRUE)
  <2>1. WireTypeOK /\ CloseOf(id) /\ cstream \in [Ids -> ClientStreams]
    BY DEF TypeOK, ClientTypeOK, CloseInv
  <2>2. id \in Nat /\ nextStreamId \in Nat /\ nextStreamId' \in Nat
    BY WireAssumption DEF TypeOK, ClientTypeOK, Ids
  <2>3. UNCHANGED phase
    BY DEF server
  <2>4. UNCHANGED wsS
    BY DEF ClientNext, AppNext, OnMessage, WsOpen, ReadyTimeout, ConnectionClose,
       WsClosed, ConnectTcp, Write, End, Destroy, RecvControlContinue, RecvData,
       RecvContinue, RecvClose, wire
  <2>5. cmap \subseteq Ids
    BY WireAssumption DEF TypeOK, ClientTypeOK, Ids
  <2> QED BY <2>1, <2>2, <2>3, <2>4, <2>5, EmptySeq
<1>1. /\ NothingOf(<< >>, id) /\ ClosesLast(<< >>, id) /\ ~Has(<< >>, "CLOSE", id)
  BY ClosesSome
<1>2. ASSUME /\ UNCHANGED c2s /\ nextStreamId' >= nextStreamId,
             cstream[id].closed => cstream'[id].closed,
             id \in cmap' => id \in cmap,
             \/ s2c' = s2c \/ s2c' = << >>
             \/ s2c # << >> /\ s2c' = Tail(s2c),
             Alive(id)' =>
               /\ Alive(id)
               /\ \/ s2c' = s2c
                  \/ /\ s2c # << >> /\ s2c' = Tail(s2c)
                     /\ ~Matches(Head(s2c), "CLOSE", id)
      PROVE  CloseOf(id)'
  BY <1>0, <1>1, <1>2, ClientCloseQuiet
<1>3. CASE WsOpen
  <2>1. /\ wsC = "connecting"
        /\ UNCHANGED <<c2s, s2c, nextStreamId, cstream, cmap>>
    BY <1>3 DEF WsOpen, client
  <2>2. ~Alive(id)'
    BY <2>1 DEF CloseInv, Alive
  <2> QED BY <1>0, <1>2, <2>1, <2>2
<1>4. CASE ReadyTimeout \/ ConnectionClose
  <2>1. /\ UNCHANGED <<c2s, nextStreamId, cstream, cmap>>
        /\ \/ UNCHANGED <<s2c, wsC, wsS>>
           \/ s2c' = << >> /\ wsC' # "open"
    BY <1>4 DEF ReadyTimeout, ConnectionClose, wire
  <2>2. Alive(id)' => Alive(id) /\ s2c' = s2c
    BY <2>1 DEF Alive
  <2> QED BY <1>0, <1>2, <2>1, <2>2
<1>5. CASE WsClosed
  <2>1. /\ UNCHANGED <<c2s, nextStreamId>> /\ s2c' = << >> /\ wsC' # "open"
        /\ cmap' \subseteq cmap
        /\ \/ cstream'[id] = RemoteClosed(cstream[id])
           \/ cstream'[id] = cstream[id]
    BY <1>5 DEF WsClosed
  <2>2. cstream[id].closed => cstream'[id].closed
    BY <1>0, <2>1 DEF RemoteClosed, ClientStreams
  <2>3. ~Alive(id)'
    BY <2>1 DEF Alive
  <2> QED BY <1>0, <1>2, <2>1, <2>2, <2>3
<1>6. ASSUME NEW listens \in ListenChoices, ConnectTcp(listens)
      PROVE  CloseOf(id)'
  <2> DEFINE k == nextStreamId
             pkts == <<Connect(k)>>
  <2>1. /\ k \in Ids /\ nextStreamId' = k + 1 /\ ToServer(pkts)
        /\ cmap' = cmap \cup {k} /\ UNCHANGED <<s2c, wsC>>
    BY <1>6 DEF ConnectTcp
  <2>2. pkts \in Seq(UpPackets) /\ ClosesLast(pkts, id)
        /\ ~Has(pkts, "CLOSE", id) /\ (id # k => NothingOf(pkts, id))
    BY <2>1, OnePacket, UpPacketsTyped, ClosesSome DEF Connect, Matches
  <2>3. c2s' = c2s \/ c2s' = c2s \o pkts
    BY <2>1 DEF ToServer
  <2> HIDE DEF pkts
  <2>4. CASE id # k
    <3>1. cstream'[id] = cstream[id] /\ (id \in cmap' => id \in cmap)
      BY <1>6, <2>1, <2>4 DEF ConnectTcp
    <3>2. Alive(id)' => Alive(id) /\ s2c' = s2c
      BY <1>0, <2>1, <3>1 DEF Alive
    <3> QED BY <1>0, <2>1, <2>2, <2>3, <2>4, <3>1, <3>2, ClientCloseQuiet
  <2>5. CASE id = k
    <3>1. NothingOf(c2s, id) /\ phase[id] = "none"
      BY <1>0, <2>5 DEF CloseOf, CreditInv, CreditOf
    <3>2. ClosesLast(c2s, id) /\ ~Has(c2s, "CLOSE", id)
      BY <3>1, ClosesSome
    <3>3. ClosesLast(c2s', id) /\ ~Has(c2s', "CLOSE", id)
      <4>1. c2s \in Seq(UpPackets)
        BY <1>0 DEF WireTypeOK
      <4>2. ClosesLast(c2s \o pkts, id)
        BY <2>2, <3>2, <4>1, ClosesConcat
      <4>3. ~Has(c2s \o pkts, "CLOSE", id)
        BY <2>2, <3>2, <4>1, HasConcat
      <4> QED BY <2>3, <3>2, <4>2, <4>3
    <3>4. ClosesLast(s2c', id) /\ ~Has(s2c', "CLOSE", id)
      BY <1>0, <2>1, <3>1 DEF CloseOf
    <3>5. ~(id >= nextStreamId')
      BY <1>0, <2>1, <2>5
    <3> QED BY <1>0, <3>1, <3>3, <3>4, <3>5 DEF CloseOf
  <2> QED BY <2>4, <2>5
<1>7. ASSUME NEW j \in Ids, Write(j)
      PROVE  CloseOf(id)'
  <2> DEFINE s == cstream[j]
             chunk == s.written + 1
             queued == [s EXCEPT !.written = chunk, !.queue = Append(@, chunk)]
             p == DataPackets(j, queued, 1)
  <2>1. /\ UNCHANGED <<s2c, wsC, nextStreamId, cmap>> /\ s \in ClientStreams
        /\ chunk \in Up /\ s.held
    BY <1>0, <1>7 DEF Write
  <2>2. queued.closed = s.closed /\ [s EXCEPT !.written = chunk].closed = s.closed
    BY <2>1 DEF ClientStreams
  <2>3. CASE s.queue # << >> \/ (~s.closed /\ s.credit = 0)
             \/ s.closed \/ wsC # "open"
    <3>1. PICK r \in {queued, [s EXCEPT !.written = chunk]} :
            cstream' = [cstream EXCEPT ![j] = r] /\ UNCHANGED c2s
      BY <1>7, <2>3 DEF Write
    <3>2. cstream'[id].closed = cstream[id].closed
      BY <1>0, <2>2, <3>1
    <3>3. Alive(id)' => Alive(id) /\ s2c' = s2c
      BY <1>0, <2>1, <3>2 DEF Alive
    <3> QED BY <1>0, <1>2, <2>1, <3>1, <3>2, <3>3
  <2>4. CASE ~(s.queue # << >> \/ (~s.closed /\ s.credit = 0)
               \/ s.closed \/ wsC # "open")
    <3>1. /\ cstream' = [cstream EXCEPT ![j] = Drained(queued, 1)]
          /\ ToServer(p) /\ ~s.closed
      BY <1>7, <2>4 DEF Write
    <3>2. Drained(queued, 1).closed = s.closed
      BY <2>1 DEF Drained, ClientStreams
    <3>3. p \in Seq(UpPackets)
      <4>1. p = <<Data(j, queued.queue[1])>>
        BY DEF DataPackets
      <4>2. s.queue = << >> /\ s.queue \in Seq(Up)
        BY <2>1, <2>4 DEF ClientStreams
      <4>3. queued.queue = Append(s.queue, chunk)
        BY <2>1 DEF ClientStreams
      <4>4. queued.queue[1] = chunk
        BY <4>2, <4>3
      <4> QED BY <2>1, <4>1, <4>4, OnePacket, UpPacketsTyped
    <3> HIDE DEF p
    <3>4. /\ ClosesLast(p, id) /\ ~Has(p, "CLOSE", id)
          /\ j # id => NothingOf(p, id)
      BY <3>3, SentTail DEF p
    <3>5. cstream'[id].closed = cstream[id].closed
      BY <1>0, <3>1, <3>2
    <3>6. Alive(id)' => Alive(id) /\ s2c' = s2c
      BY <1>0, <2>1, <3>5 DEF Alive
    <3>7. NothingOf(p, id) \/ ~cstream[id].closed
      BY <3>1, <3>4
    <3>8. c2s' = c2s \/ c2s' = c2s \o p
      BY <3>1 DEF ToServer
    <3>9. id >= nextStreamId => NothingOf(p, id)
      <4>1. id >= nextStreamId => ~cstream[id].held
        BY DEF CreditInv, CreditOf
      <4> QED BY <2>1, <3>4, <4>1
    <3> QED BY <1>0, <2>1, <3>3, <3>4, <3>5, <3>6, <3>7, <3>8, <3>9,
               ClientCloseQuiet
  <2> QED BY <2>3, <2>4
<1>8. ASSUME NEW j \in Ids, cstream[j].held, NEW r \in ClientStreams, r.closed,
             cstream' = [cstream EXCEPT ![j] = r],
             ToServer(VoluntaryClose(j, cstream[j])),
             cmap' = IF cstream[j].closed THEN cmap ELSE cmap \ {j},
             UNCHANGED <<s2c, wsC, nextStreamId>>
      PROVE  CloseOf(id)'
  <2> DEFINE s == cstream[j]
             v == VoluntaryClose(j, s)
  <2>1. /\ v \in Seq(UpPackets) /\ ClosesLast(v, id)
        /\ j # id => NothingOf(v, id)
        /\ Has(v, "CLOSE", id) => j = id /\ ~s.closed
        /\ s.closed => v = << >>
    <3>1. DataPackets(j, s, 0) \in Seq(UpPackets)
      BY EmptySeq DEF DataPackets
    <3> QED BY <3>1, SentTail
  <2>2. c2s' = c2s \/ c2s' = c2s \o v
    BY <1>8 DEF ToServer
  <2>3. NothingOf(v, id) \/ ~cstream[id].closed
    BY <1>1, <2>1
  <2>4. cstream[id].closed => cstream'[id].closed
    BY <1>0, <1>8
  <2>5. Has(v, "CLOSE", id) => cstream'[id].closed /\ id \notin cmap'
    BY <1>0, <1>8, <2>1
  <2>6. id >= nextStreamId => NothingOf(v, id)
    <3>1. id >= nextStreamId => ~cstream[id].held
      BY DEF CreditInv, CreditOf
    <3> QED BY <1>8, <2>1, <3>1
  <2>7. id \in cmap' => id \in cmap
    BY <1>8
  <2>8. Alive(id)' => Alive(id) /\ s2c' = s2c
    BY <1>0, <1>8, <2>4, <2>7 DEF Alive
  <2> HIDE DEF v, s
  <2>9. nextStreamId' >= nextStreamId
    BY <1>0, <1>8
  <2> QED BY <1>0, <1>8, <2>1, <2>2, <2>3, <2>4, <2>5, <2>6, <2>7, <2>8, <2>9,
             ClientCloseQuiet
<1>9. ASSUME NEW j \in Ids, End(j)
      PROVE  CloseOf(id)'
  <2>1. cstream[j] \in ClientStreams /\ cstream[j].held
        /\ UNCHANGED <<s2c, wsC, nextStreamId>>
    BY <1>0, <1>9 DEF End
  <2>2. CASE cstream[j].queue = << >>
    <3>1. /\ cstream' = [cstream EXCEPT ![j] = Finished(cstream[j])]
          /\ ToServer(VoluntaryClose(j, cstream[j]))
          /\ cmap' = IF cstream[j].closed THEN cmap ELSE cmap \ {j}
      BY <1>9, <2>2 DEF End
    <3>2. Finished(cstream[j]) \in ClientStreams /\ Finished(cstream[j]).closed
      BY <2>1 DEF Finished, ClientStreams
    <3> QED BY <1>8, <2>1, <3>1, <3>2
  <2>3. CASE cstream[j].queue # << >>
    <3>1. cstream' = [cstream EXCEPT ![j].ended = TRUE] /\ UNCHANGED <<c2s, cmap>>
      BY <1>9, <2>3 DEF End
    <3>2. cstream'[id].closed = cstream[id].closed
      BY <1>0, <3>1 DEF ClientStreams
    <3>3. Alive(id)' => Alive(id) /\ s2c' = s2c
      BY <1>0, <2>1, <3>1, <3>2 DEF Alive
    <3> QED BY <1>0, <1>2, <2>1, <3>1, <3>2, <3>3
  <2> QED BY <2>2, <2>3
<1>10. ASSUME NEW j \in Ids, Destroy(j)
       PROVE  CloseOf(id)'
  <2> DEFINE r == [cstream[j] EXCEPT !.destroyed = TRUE, !.closed = TRUE,
                                     !.eof = TRUE]
  <2>1. /\ cstream[j].held /\ UNCHANGED <<s2c, wsC, nextStreamId>>
        /\ cstream' = [cstream EXCEPT ![j] = r]
        /\ ToServer(VoluntaryClose(j, cstream[j]))
        /\ cmap' = IF cstream[j].closed THEN cmap ELSE cmap \ {j}
    BY <1>10 DEF Destroy
  <2>2. r \in ClientStreams /\ r.closed
    BY <1>0 DEF ClientStreams
  <2> HIDE DEF r
  <2> QED BY <1>8, <2>1, <2>2
<1>11. ASSUME NEW type, Receive(type)
       PROVE  /\ Head(s2c) \in DownPackets /\ Head(s2c).type = type
              /\ s2c # << >> /\ s2c' = Tail(s2c) /\ wsC = "open"
  BY <1>0, <1>11, HeadTailProperties DEF Receive, WireTypeOK
<1>12. CASE RecvControlContinue \/ RecvData
  <2>1. /\ UNCHANGED <<c2s, nextStreamId, cstream, cmap>>
        /\ Receive("CONTINUE") \/ Receive("DATA")
    BY <1>12 DEF RecvControlContinue, RecvData
  <2>2. s2c # << >> /\ s2c' = Tail(s2c) /\ ~Matches(Head(s2c), "CLOSE", id)
        /\ wsC = "open"
    BY <1>11, <2>1 DEF Matches
  <2>3. Alive(id)' => Alive(id)
    BY <1>0, <2>1, <2>2 DEF Alive
  <2> QED BY <1>0, <1>2, <2>1, <2>2, <2>3
<1>13. CASE RecvClose
  <2> DEFINE j == Head(s2c).id
  <2>1. /\ Receive("CLOSE") /\ UNCHANGED <<c2s, nextStreamId>>
    BY <1>13 DEF RecvClose
  <2>2. j \in Ids /\ Head(s2c).type = "CLOSE" /\ s2c # << >> /\ s2c' = Tail(s2c)
        /\ wsC = "open"
    BY <1>11, <2>1, DownPacketsTyped
  <2>3. CASE j \notin cmap
    <3>1. UNCHANGED <<cmap, cstream>>
      BY <1>13, <2>3 DEF RecvClose
    <3>2. Alive(id)' => Alive(id) /\ ~Matches(Head(s2c), "CLOSE", id)
      BY <1>0, <2>2, <2>3, <3>1 DEF Alive, Matches
    <3> QED BY <1>0, <1>2, <2>1, <2>2, <3>1, <3>2
  <2>4. CASE j \in cmap
    <3>1. /\ cstream' = [cstream EXCEPT ![j] = RemoteClosed(cstream[j])]
          /\ cmap' \subseteq cmap
      BY <1>13, <2>4 DEF RecvClose
    <3>2. RemoteClosed(cstream[j]).closed
      BY <1>0, <2>2 DEF RemoteClosed, ClientStreams
    <3>3. cstream[id].closed => cstream'[id].closed
      BY <1>0, <2>2, <3>1, <3>2
    <3>4. Alive(id)' => Alive(id) /\ ~Matches(Head(s2c), "CLOSE", id)
      BY <1>0, <2>2, <3>1, <3>2 DEF Alive, Matches
    <3> QED BY <1>0, <1>2, <2>1, <2>2, <3>1, <3>3, <3>4
  <2> QED BY <2>3, <2>4
<1>14. CASE RecvContinue
  <2> DEFINE j == Head(s2c).id
             s == [cstream[j] EXCEPT !.credit = Head(s2c).remaining]
             n == DrainCount(s)
             d == Drained(s, n)
             final == s.ended /\ n > 0 /\ d.queue = << >>
             v == VoluntaryClose(j, s)
             p == DataPackets(j, s, n)
             pkts == p \o IF final THEN v ELSE << >>
  <2>1. /\ Receive("CONTINUE") /\ j # 0 /\ UNCHANGED nextStreamId
    BY <1>14 DEF RecvContinue
  <2>2. /\ j \in Ids /\ Head(s2c).remaining = Buffer /\ wsC = "open"
        /\ s2c # << >> /\ s2c' = Tail(s2c) /\ ~Matches(Head(s2c), "CLOSE", id)
        /\ UNCHANGED wsC
    BY <1>11, <1>14, <2>1, DownPacketsTyped DEF RecvContinue, Matches
  <2>3. CASE j \notin cmap
    <3>1. UNCHANGED <<c2s, cstream, cmap>>
      BY <1>14, <2>3 DEF RecvContinue
    <3>2. Alive(id)' => Alive(id)
      BY <1>0, <2>2, <3>1 DEF Alive
    <3> QED BY <1>0, <1>2, <2>1, <2>2, <3>1, <3>2
  <2>4. CASE j \in cmap
    <3>1. /\ cstream' = [cstream EXCEPT ![j] = IF final THEN Finished(d) ELSE d]
          /\ ToServer(pkts)
          /\ cmap' = IF final /\ ~s.closed THEN cmap \ {j} ELSE cmap
      BY <1>14, <2>4 DEF RecvContinue
    <3>2. cstream[j] \in ClientStreams /\ Buffer \in Nat
      BY <1>0, <2>2, WireAssumption
    <3>3. s \in ClientStreams /\ s.closed = cstream[j].closed
      BY <2>2, <3>2 DEF ClientStreams
    <3>4. n \in 0 .. Len(s.queue) /\ n <= s.credit
      BY <3>3, DrainCountBounds
    <3>5. p \in Seq(UpPackets) /\ d \in ClientStreams
      BY <2>2, <3>3, <3>4, DrainTyped
    <3>6. d.closed = s.closed /\ Finished(d).closed
      BY <3>3, <3>5 DEF Drained, Finished, ClientStreams
    <3> HIDE DEF s, n, d, p, v
    <3>7. /\ v \in Seq(UpPackets) /\ ~Has(p, "CLOSE", id)
          /\ j # id => NothingOf(p, id) /\ NothingOf(v, id)
          /\ ClosesLast(p, id) /\ ClosesLast(p \o v, id)
          /\ Has(v, "CLOSE", id) => j = id /\ ~s.closed
      BY <2>2, <3>5, SentTail DEF p, v
    <3>8. p \o << >> = p
      BY <3>5, ConcatEmptySeq
    <3>9. final \in BOOLEAN
      OBVIOUS
    <3> HIDE DEF final
    <3>10. /\ pkts \in Seq(UpPackets) /\ ClosesLast(pkts, id)
           /\ j # id => NothingOf(pkts, id)
           /\ Has(pkts, "CLOSE", id) => j = id /\ final /\ ~s.closed
      <4>1. CASE final
        <5>1. pkts = p \o v
          BY <4>1
        <5>2. p \o v \in Seq(UpPackets)
          BY <3>5, <3>7, ConcatProperties
        <5>3. j # id => NothingOf(p \o v, id)
          BY <3>5, <3>7, ClosesConcat
        <5>4. Has(p \o v, "CLOSE", id) => Has(v, "CLOSE", id)
          BY <3>5, <3>7, HasConcat
        <5> QED BY <3>7, <4>1, <5>1, <5>2, <5>3, <5>4
      <4>2. CASE ~final
        BY <3>5, <3>7, <3>8, <4>2
      <4> QED BY <3>9, <4>1, <4>2
    <3>11. c2s' = c2s \/ c2s' = c2s \o pkts
      BY <3>1 DEF ToServer
    <3> HIDE DEF pkts
    <3>12. NothingOf(pkts, id) \/ id \in cmap
      BY <2>4, <3>10
    <3>13. cstream[id].closed => cstream'[id].closed
      BY <1>0, <2>2, <3>1, <3>3, <3>6
    <3>14. Has(pkts, "CLOSE", id) => cstream'[id].closed /\ id \notin cmap'
      BY <1>0, <2>2, <3>1, <3>6, <3>10
    <3>15. id >= nextStreamId => NothingOf(pkts, id)
      <4>1. cmap \subseteq 1 .. nextStreamId - 1
        BY DEF TypeOK, ClientTypeOK
      <4> HIDE DEF j
      <4>2. j < nextStreamId
        <5>1. j \in 1 .. nextStreamId - 1 /\ nextStreamId \in Nat
          BY <1>0, <2>4, <4>1
        <5> QED BY <5>1
      <4>3. id >= nextStreamId => j # id
        BY <1>0, <4>2
      <4> QED BY <3>10, <4>3
    <3>16. id \in cmap' => id \in cmap
      BY <3>1
    <3>17. Alive(id)' => Alive(id)
      BY <1>0, <2>2, <3>13, <3>16 DEF Alive
    <3>18. nextStreamId' >= nextStreamId
      BY <1>0, <2>1
    <3> QED BY <1>0, <2>2, <3>10, <3>11, <3>12, <3>13, <3>14, <3>15, <3>16,
               <3>17, <3>18, ClientCloseQuiet
  <2> QED BY <2>3, <2>4
<1> QED BY <1>3, <1>4, <1>5, <1>6, <1>7, <1>9, <1>10, <1>12, <1>13, <1>14
        DEF ClientNext, AppNext, OnMessage

(* A step of the server. It sends packets of a stream only while it is not  *)
(* over, and a CLOSE only as it ends it; one that ends without a CLOSE being*)
(* sent is not alive for the client any more.                               *)
LEMMA ServerCloseQuiet ==
  ASSUME TypeOK, NEW id \in Ids, CloseOf(id), UNCHANGED <<client, wsC>>,
         \/ c2s' = c2s \/ c2s' = << >>
         \/ c2s # << >> /\ c2s' = Tail(c2s),
         NEW pkts \in Seq(DownPackets), s2c' = s2c \/ s2c' = s2c \o pkts,
         ClosesLast(pkts, id),
         NothingOf(pkts, id) \/ phase[id] # "closed",
         phase[id] = "closed" => phase'[id] = "closed",
         Has(pkts, "CLOSE", id) => phase'[id] = "closed",
         Alive(id)' /\ phase'[id] = "closed" =>
           \/ Alive(id) /\ phase[id] = "closed"
           \/ Has(pkts, "CLOSE", id) /\ s2c' = s2c \o pkts
  PROVE  CloseOf(id)'
<1>1. /\ c2s \in Seq(UpPackets) /\ s2c \in Seq(DownPackets)
      /\ UNCHANGED <<cstream, cmap, nextStreamId>>
  BY DEF TypeOK, WireTypeOK, client
<1>2. /\ ClosesLast(c2s, id) /\ ClosesLast(s2c, id)
      /\ Has(c2s, "CLOSE", id) => cstream[id].closed /\ id \notin cmap
      /\ Has(s2c, "CLOSE", id) => phase[id] = "closed"
      /\ id >= nextStreamId => NothingOf(c2s, id)
      /\ Alive(id) /\ phase[id] = "closed" => Has(s2c, "CLOSE", id)
  BY DEF CloseOf
<1>3. /\ ClosesLast(c2s', id)
      /\ Has(c2s', "CLOSE", id) => Has(c2s, "CLOSE", id)
      /\ id >= nextStreamId => NothingOf(c2s', id)
  <2>1. CASE c2s' = c2s
    BY <1>2, <2>1
  <2>2. CASE c2s' = << >>
    BY <2>2, ClosesSome
  <2>3. CASE c2s # << >> /\ c2s' = Tail(c2s)
    <3>1. ClosesLast(Tail(c2s), id)
      BY <1>1, <1>2, <2>3, ClosesTail
    <3>2. Has(Tail(c2s), "CLOSE", id) => Has(c2s, "CLOSE", id)
      BY <1>1, <2>3, HasTail
    <3>3. id >= nextStreamId => NothingOf(Tail(c2s), id)
      BY <1>1, <1>2, <2>3, ClosesTail
    <3> QED BY <2>3, <3>1, <3>2, <3>3
  <2> QED BY <2>1, <2>2, <2>3
<1>4. /\ ClosesLast(s2c', id)
      /\ Has(s2c', "CLOSE", id) => Has(s2c, "CLOSE", id) \/ Has(pkts, "CLOSE", id)
      /\ Has(s2c, "CLOSE", id) => Has(s2c', "CLOSE", id)
      /\ Has(pkts, "CLOSE", id) /\ s2c' = s2c \o pkts => Has(s2c', "CLOSE", id)
  <2>1. /\ Has(s2c \o pkts, "CLOSE", id)
             => Has(s2c, "CLOSE", id) \/ Has(pkts, "CLOSE", id)
        /\ Has(s2c, "CLOSE", id) \/ Has(pkts, "CLOSE", id)
             => Has(s2c \o pkts, "CLOSE", id)
    BY <1>1, HasConcat, ClosesConcat
  <2>2. ~Has(s2c, "CLOSE", id) \/ NothingOf(pkts, id)
    BY <1>2
  <2>3. ClosesLast(s2c \o pkts, id)
    BY <1>1, <1>2, <2>2, ClosesConcat
  <2>4. CASE s2c' = s2c
    <3>1. Has(pkts, "CLOSE", id) /\ s2c' = s2c \o pkts => Has(s2c', "CLOSE", id)
      BY <2>1
    <3> QED BY <1>2, <2>4, <3>1
  <2>5. CASE s2c' = s2c \o pkts
    BY <2>1, <2>3, <2>5
  <2> QED BY <2>4, <2>5
<1>5. Has(c2s', "CLOSE", id) => cstream'[id].closed /\ id \notin cmap'
  BY <1>1, <1>2, <1>3
<1>6. Has(s2c', "CLOSE", id) => phase'[id] = "closed"
  BY <1>2, <1>4
<1>7. Alive(id)' /\ phase'[id] = "closed" => Has(s2c', "CLOSE", id)
  BY <1>2, <1>4
<1>8. id >= nextStreamId' => NothingOf(c2s', id)
  BY <1>1, <1>3
<1> QED BY <1>3, <1>4, <1>5, <1>6, <1>7, <1>8 DEF CloseOf

(* The Close packets of _closeSelf: one for each stream.                    *)
LEMMA CloseSelfSends ==
  ASSUME TypeOK, NEW S \in SUBSET Ids, NEW reason \in Reason,
         CloseSelf(S, reason)
  PROVE  \E r \in Seq(DownPackets) :
           /\ ToClient(r)
           /\ \A id : /\ ClosesLast(r, id)
                      /\ Has(r, "CLOSE", id) <=> id \in S
                      /\ id \notin S => NothingOf(r, id)
<1>1. IsFiniteSet(S)
  <2>1. 1 \in Int /\ MaxId \in Int
    BY WireAssumption
  <2>2. IsFiniteSet(Ids)
    BY <2>1, FS_Interval DEF Ids
  <2> QED BY <2>2, FS_Subset
<1> DEFINE c == Cardinality(S)
<1>2. c \in Nat
  BY <1>1, FS_CardinalityType
<1>3. PICK order \in [1 .. c -> S] :
        /\ IsInjective(order)
        /\ ToClient([k \in 1 .. c |-> Close(order[k], reason)])
  BY DEF CloseSelf
<1> DEFINE r == [k \in 1 .. c |-> Close(order[k], reason)]
<1>4. r \in Seq(DownPackets)
  <2>1. \A k \in 1 .. c : Close(order[k], reason) \in DownPackets
    BY <1>3, DownPacketsTyped
  <2>2. r \in [1 .. c -> DownPackets]
    BY <2>1
  <2> QED BY <1>2, <2>2, SeqDef
<1>5. \A k \in 1 .. c : r[k].type = "CLOSE" /\ r[k].id = order[k]
  BY DEF Close
<1>6. DOMAIN r = 1 .. c /\ DOMAIN order = 1 .. c
  BY <1>3
<1>7. \A i, j \in 1 .. c : order[i] = order[j] => i = j
  BY <1>3, <1>6 DEF IsInjective
<1>8. \A x \in S : \E k \in 1 .. c : order[k] = x
  <2>1. IsFiniteSet(1 .. c) /\ Cardinality(1 .. c) = c
    <3>1. c \in Int /\ 1 \in Int /\ (IF 1 > c THEN 0 ELSE c - 1 + 1) = c
      BY <1>2
    <3> HIDE DEF c
    <3> QED BY <3>1, FS_Interval
  <2>2. order \in Injection(1 .. c, S)
    BY <1>3, <1>6 DEF Injection, IsInjective
  <2> HIDE DEF c
  <2>3. order \in Surjection(1 .. c, S)
    BY <1>1, <2>1, <2>2, FS_Injection DEF c
  <2> QED BY <2>3 DEF Surjection
<1> HIDE DEF c
<1>9. ASSUME NEW id
      PROVE  /\ ClosesLast(r, id)
             /\ Has(r, "CLOSE", id) <=> id \in S
             /\ id \notin S => NothingOf(r, id)
  <2>1. ClosesLast(r, id)
    <3> SUFFICES ASSUME NEW i \in 1 .. c, NEW j \in 1 .. c, i < j, r[i].id = id
                 PROVE  r[j].id # id
      BY <1>6 DEF ClosesLast, Matches
    <3>1. i # j
      BY <1>2
    <3> HIDE DEF r
    <3> QED BY <1>5, <1>7, <3>1
  <2>2. Has(r, "CLOSE", id) <=> \E k \in 1 .. c : order[k] = id
    BY <1>5, <1>6 DEF Has, Matches
  <2>3. \A k \in 1 .. c : order[k] \in S
    BY <1>3
  <2>4. id \notin S => NothingOf(r, id)
    BY <1>5, <1>6, <2>3 DEF NothingOf
  <2> QED BY <1>8, <2>1, <2>2, <2>3, <2>4
<1>10. ToClient(r)
  BY <1>3
<1> QED BY <1>4, <1>9, <1>10

(* The one packet that refuses stream j.                                    *)
LEMMA RefusePacket ==
  ASSUME NEW j \in Ids, NEW id
  PROVE  /\ <<Close(j, "error")>> \in Seq(DownPackets)
         /\ ClosesLast(<<Close(j, "error")>>, id)
         /\ Has(<<Close(j, "error")>>, "CLOSE", id) <=> id = j
         /\ id # j => NothingOf(<<Close(j, "error")>>, id)
<1> DEFINE p == Close(j, "error")
<1>1. p \in DownPackets
  BY DownPacketsTyped DEF Reason
<1>2. p.id = j /\ p.type = "CLOSE"
  BY DEF Close
<1> HIDE DEF p
<1>3. <<p>> \in Seq(DownPackets)
  BY <1>1, OnePacket
<1>4. ClosesLast(<<p>>, id) /\ (p.id # id => NothingOf(<<p>>, id))
  BY ClosesSome
<1>5. Has(<<p>>, "CLOSE", id) <=> Matches(p, "CLOSE", id)
  BY ClosesSome
<1>6. Matches(p, "CLOSE", id) <=> id = j
  BY <1>2 DEF Matches
<1> QED BY <1>2, <1>3, <1>4, <1>5, <1>6 DEF p

LEMMA ServerCloseStep ==
  ASSUME TypeOK, TypeOK', CreditInv, CloseInv, ServerNext, UNCHANGED client
  PROVE  \A id \in Ids : CloseOf(id)'
<1> SUFFICES ASSUME NEW id \in Ids PROVE CloseOf(id)'
  OBVIOUS
<1>0. /\ WireTypeOK /\ ServerTypeOK /\ CloseOf(id) /\ CreditOf(id)
      /\ UNCHANGED <<wsC, cmap, cstream, nextStreamId>>
      /\ phase \in [Ids -> Phase] /\ smap \subseteq Ids
      /\ << >> \in Seq(DownPackets)
  <2>1. WireTypeOK /\ ServerTypeOK /\ CloseOf(id) /\ CreditOf(id)
    BY DEF TypeOK, CloseInv, CreditInv
  <2>2. UNCHANGED wsC
    BY DEF ServerNext, HandlePacket, ConnectNext, StreamNext, Connection,
       SessionClose, HandleConnect, HandleData, HandleClose, JanitorTick,
       ConnectFails, Resolved, Connected, SocketData, ThrottleDone, SocketEnds, wire
  <2> QED BY <2>1, <2>2, EmptySeq DEF client, ServerTypeOK
<1>1. /\ NothingOf(<< >>, id) /\ ClosesLast(<< >>, id) /\ ~Has(<< >>, "CLOSE", id)
  BY ClosesSome
<1>2. ASSUME NEW type, Handle(type)
      PROVE  /\ Head(c2s) \in UpPackets /\ Head(c2s).type = type
             /\ c2s \in Seq(UpPackets) /\ c2s # << >> /\ c2s' = Tail(c2s)
             /\ Head(c2s).id \in Ids /\ wsS = "open"
             /\ Matches(Head(c2s), type, id) => Has(c2s, type, id)
  <2>1. /\ c2s \in Seq(UpPackets) /\ c2s # << >> /\ c2s' = Tail(c2s)
        /\ Head(c2s).type = type /\ wsS = "open"
    BY <1>0, <1>2 DEF Handle, WireTypeOK
  <2>2. Head(c2s) \in UpPackets
    BY <2>1, HeadTailProperties
  <2>3. Matches(Head(c2s), type, id) => Has(c2s, type, id)
    BY <2>1, HasTail
  <2> QED BY <2>1, <2>2, <2>3, UpPacketsTyped
<1>3. ASSUME \/ c2s' = c2s \/ c2s' = << >>
             \/ c2s # << >> /\ c2s' = Tail(c2s),
             UNCHANGED s2c, phase[id] = "closed" => phase'[id] = "closed",
             Alive(id)' /\ phase'[id] = "closed" => Alive(id) /\ phase[id] = "closed"
      PROVE  CloseOf(id)'
  BY <1>0, <1>1, <1>3, ServerCloseQuiet
<1>4. CASE Connection
  <2>1. /\ UNCHANGED <<c2s, phase>> /\ s2c' = <<Continue(0, Buffer)>>
        /\ wsC = "connecting"
    BY <1>4 DEF Connection
  <2>2. 0 # id /\ Continue(0, Buffer).id = 0
    BY DEF Ids, Continue
  <2>3. NothingOf(s2c', id)
    BY <2>1, <2>2, ClosesSome
  <2>4. ClosesLast(s2c', id) /\ ~Has(s2c', "CLOSE", id)
    BY <2>3, ClosesSome
  <2>5. ~Alive(id)'
    BY <1>0, <2>1 DEF Alive
  <2> QED BY <1>0, <2>1, <2>4, <2>5 DEF CloseOf
<1>5. CASE SessionClose
  <2>1. /\ c2s' = << >> /\ UNCHANGED s2c /\ wsS' # "open"
        /\ phase' = [k \in Ids |-> IF k \in smap THEN "closed" ELSE phase[k]]
    BY <1>5 DEF SessionClose
  <2>2. ~Alive(id)'
    BY <2>1 DEF Alive
  <2> QED BY <1>3, <2>1, <2>2
<1>6. ASSUME NEW j \in Ids, phase[j] # "closed", NEW p \in DownPackets,
             p.id = j, p.type # "CLOSE", UNCHANGED <<c2s, wsS>>, ToClient(<<p>>),
             id # j => phase'[id] = phase[id],
             id = j => phase'[id] # "closed"
      PROVE  CloseOf(id)'
  <2>1. <<p>> \in Seq(DownPackets) /\ (s2c' = s2c \/ s2c' = s2c \o <<p>>)
    BY <1>6, OnePacket DEF ToClient
  <2>2. /\ ClosesLast(<<p>>, id) /\ ~Has(<<p>>, "CLOSE", id)
        /\ NothingOf(<<p>>, id) \/ phase[id] # "closed"
    BY <1>6, ClosesSome DEF Matches
  <2>3. phase[id] = "closed" => phase'[id] = "closed"
    BY <1>6
  <2>4. Alive(id)' /\ phase'[id] = "closed" => Alive(id) /\ phase[id] = "closed"
    BY <1>0, <1>6 DEF Alive
  <2> QED BY <1>0, <1>6, <2>1, <2>2, <2>3, <2>4, ServerCloseQuiet
<1>7. ASSUME NEW S \in SUBSET Ids, \A j \in S : phase[j] # "closed",
             NEW r \in Seq(DownPackets), ToClient(r),
             ClosesLast(r, id), Has(r, "CLOSE", id) <=> id \in S,
             id \notin S => NothingOf(r, id),
             \/ c2s' = c2s
             \/ c2s # << >> /\ c2s' = Tail(c2s),
             UNCHANGED wsS,
             phase' = [k \in Ids |-> IF k \in S THEN "closed" ELSE phase[k]]
      PROVE  CloseOf(id)'
  <2>1. s2c' = s2c \/ s2c' = s2c \o r
    BY <1>7 DEF ToClient
  <2>2. phase[id] = "closed" => phase'[id] = "closed"
    BY <1>7
  <2>3. Has(r, "CLOSE", id) => phase'[id] = "closed"
    BY <1>7
  <2>4. Alive(id)' /\ phase'[id] = "closed" =>
           \/ Alive(id) /\ phase[id] = "closed"
           \/ Has(r, "CLOSE", id) /\ s2c' = s2c \o r
    BY <1>0, <1>7 DEF Alive, ToClient
  <2> QED BY <1>0, <1>7, <2>1, <2>2, <2>3, <2>4, ServerCloseQuiet
<1>8. CASE HandleConnect
  <2> DEFINE j == Head(c2s).id
             r == <<Close(j, "error")>>
  <2>1. /\ Handle("CONNECT") /\ UNCHANGED wsS
        /\ \/ /\ phase' = [phase EXCEPT ![j] = "resolving"]
              /\ UNCHANGED s2c
           \/ /\ phase' = [phase EXCEPT ![j] = "closed"]
              /\ ToClient(r)
    BY <1>8 DEF HandleConnect
  <2>2. j \in Ids /\ c2s # << >> /\ c2s' = Tail(c2s)
    BY <1>2, <2>1
  <2>3. phase[j] = "none"
    <3>1. /\ c2s \in Seq(UpPackets) /\ c2s # << >> /\ Head(c2s).type = "CONNECT"
      BY <1>2, <2>1
    <3>2. Has(c2s, "CONNECT", j)
      BY <3>1, HasTail DEF Matches
    <3> QED BY <2>2, <3>2 DEF CreditInv, CreditOf
  <2>4. r \in Seq(DownPackets) /\ ClosesLast(r, id)
        /\ (Has(r, "CLOSE", id) <=> id = j) /\ (id # j => NothingOf(r, id))
    BY <2>2, RefusePacket
  <2>5. CASE UNCHANGED s2c /\ phase' = [phase EXCEPT ![j] = "resolving"]
    <3>1. phase'[id] = "closed" <=> phase[id] = "closed"
      BY <1>0, <2>2, <2>3, <2>5
    <3>2. Alive(id)' => Alive(id)
      BY <1>0, <2>1 DEF Alive
    <3> QED BY <1>3, <2>2, <2>5, <3>1, <3>2
  <2>6. CASE ToClient(r) /\ phase' = [phase EXCEPT ![j] = "closed"]
    <3> HIDE DEF r, j
    <3>1. phase' = [k \in Ids |-> IF k \in {j} THEN "closed" ELSE phase[k]]
      BY <1>0, <2>2, <2>6
    <3>2. {j} \in SUBSET Ids /\ (\A k \in {j} : phase[k] # "closed")
          /\ (id \in {j} <=> id = j)
      BY <2>2, <2>3
    <3> QED BY <1>7, <2>1, <2>2, <2>4, <2>6, <3>1, <3>2
  <2> QED BY <2>1, <2>5, <2>6
<1>9. CASE HandleData
  <2>1. Handle("DATA") /\ UNCHANGED <<s2c, phase, wsS>>
    BY <1>9 DEF HandleData
  <2>2. c2s # << >> /\ c2s' = Tail(c2s)
    BY <1>2, <2>1
  <2>3. Alive(id)' => Alive(id)
    BY <1>0, <2>1 DEF Alive
  <2> QED BY <1>3, <2>1, <2>2, <2>3
<1>10. CASE HandleClose
  <2> DEFINE j == Head(c2s).id
  <2>1. /\ Handle("CLOSE") /\ UNCHANGED <<s2c, wsS>>
        /\ phase' = phase \/ phase' = [phase EXCEPT ![j] = "closed"]
    BY <1>10 DEF HandleClose
  <2>2. c2s # << >> /\ c2s' = Tail(c2s) /\ j \in Ids
    BY <1>2, <2>1
  <2>3. Alive(id)' => Alive(id)
    BY <1>0, <2>1 DEF Alive
  <2>4. CASE id # j
    <3>1. phase'[id] = phase[id]
      BY <1>0, <2>1, <2>4
    <3> QED BY <1>3, <2>1, <2>2, <2>3, <3>1
  <2>5. CASE id = j
    <3>1. Has(c2s, "CLOSE", id)
      BY <1>2, <2>1, <2>5 DEF Matches
    <3>2. ~Alive(id)
      BY <1>0, <3>1 DEF CloseOf, Alive
    <3>3. phase[id] = "closed" => phase'[id] = "closed"
      BY <1>0, <2>1, <2>5
    <3> QED BY <1>3, <2>1, <2>2, <2>3, <3>2, <3>3
  <2> QED BY <2>4, <2>5
<1>11. ASSUME NEW j \in Ids, ConnectFails(j)
       PROVE  CloseOf(id)'
  <2> DEFINE r == <<Close(j, "error")>>
  <2>1. /\ UNCHANGED <<c2s, wsS>> /\ ToClient(r) /\ phase[j] # "closed"
        /\ phase' = [phase EXCEPT ![j] = "closed"]
    BY <1>11 DEF ConnectFails
  <2>2. r \in Seq(DownPackets) /\ ClosesLast(r, id)
        /\ (Has(r, "CLOSE", id) <=> id = j) /\ (id # j => NothingOf(r, id))
    BY RefusePacket
  <2>3. phase' = [k \in Ids |-> IF k \in {j} THEN "closed" ELSE phase[k]]
    BY <1>0, <2>1
  <2> HIDE DEF r
  <2>4. {j} \in SUBSET Ids /\ (\A k \in {j} : phase[k] # "closed")
        /\ (id \in {j} <=> id = j)
    BY <2>1
  <2> QED BY <1>7, <2>1, <2>2, <2>3, <2>4
<1>12. ASSUME NEW j \in Ids, Resolved(j)
       PROVE  CloseOf(id)'
  <2>1. /\ UNCHANGED <<c2s, s2c, wsS>> /\ phase[j] = "resolving"
        /\ phase' = [phase EXCEPT ![j] = "connecting"]
    BY <1>12 DEF Resolved, wire
  <2>2. phase'[id] = "closed" <=> phase[id] = "closed"
    BY <1>0, <2>1
  <2>3. Alive(id)' => Alive(id)
    BY <1>0, <2>1 DEF Alive
  <2> QED BY <1>3, <2>1, <2>2, <2>3
<1>13. ASSUME NEW j \in Ids, Connected(j)
       PROVE  CloseOf(id)'
  <2>1. /\ UNCHANGED <<c2s, wsS>> /\ phase[j] = "connecting"
        /\ phase' = [phase EXCEPT ![j] = "open"]
        /\ ToClient(<<Continue(j, Buffer)>>)
    BY <1>13 DEF Connected
  <2>2. /\ Continue(j, Buffer) \in DownPackets /\ Continue(j, Buffer).id = j
        /\ Continue(j, Buffer).type # "CLOSE"
    BY DownPacketsTyped DEF Continue
  <2>3. (id # j => phase'[id] = phase[id]) /\ (id = j => phase'[id] # "closed")
    BY <1>0, <2>1
  <2> QED BY <1>6, <2>1, <2>2, <2>3
<1>14. ASSUME NEW j \in Ids, SocketData(j) \/ ThrottleDone(j)
       PROVE  CloseOf(id)'
  <2>1. UNCHANGED <<c2s, wsS, phase>>
    BY <1>14 DEF SocketData, ThrottleDone
  <2>2. \/ UNCHANGED s2c
        \/ phase[j] = "open" /\ \E chunk \in Down : ToClient(<<Data(j, chunk)>>)
    <3>1. CASE SocketData(j)
      BY <3>1 DEF SocketData
    <3>2. CASE ThrottleDone(j)
      <4>1. PICK k \in DOMAIN waiting[j] :
              \/ UNCHANGED s2c
              \/ phase[j] = "open" /\ ToClient(<<Data(j, waiting[j][k])>>)
        BY <3>2 DEF ThrottleDone, StillOpen
      <4>2. waiting[j][k] \in Down
        BY <1>0, LenProperties, ElementOfSeq DEF ServerTypeOK
      <4> QED BY <4>1, <4>2
    <3> QED BY <1>14, <3>1, <3>2
  <2>3. Alive(id)' => Alive(id)
    BY <1>0, <2>1 DEF Alive
  <2>4. CASE UNCHANGED s2c
    BY <1>3, <2>1, <2>3, <2>4
  <2>5. ASSUME phase[j] = "open", NEW chunk \in Down, ToClient(<<Data(j, chunk)>>)
        PROVE  CloseOf(id)'
    <3>1. /\ Data(j, chunk) \in DownPackets /\ Data(j, chunk).id = j
          /\ Data(j, chunk).type # "CLOSE"
      BY DownPacketsTyped DEF Data
    <3> QED BY <1>6, <2>1, <2>5, <3>1
  <2> QED BY <2>2, <2>4, <2>5
<1>15. ASSUME NEW S \in SUBSET Ids, NEW reason \in Reason, CloseSelf(S, reason),
              UNCHANGED <<c2s, wsS>>, \A j \in S : phase[j] = "open"
       PROVE  CloseOf(id)'
  <2>1. phase' = [k \in Ids |-> IF k \in S THEN "closed" ELSE phase[k]]
    BY <1>15, CloseSelfTyped
  <2>2. PICK r \in Seq(DownPackets) :
           /\ ToClient(r)
           /\ ClosesLast(r, id) /\ (Has(r, "CLOSE", id) <=> id \in S)
           /\ id \notin S => NothingOf(r, id)
    BY <1>15, CloseSelfSends
  <2>3. \A j \in S : phase[j] # "closed"
    BY <1>15
  <2> QED BY <1>7, <1>15, <2>1, <2>2, <2>3
<1>16. ASSUME NEW j \in Ids, SocketEnds(j)
       PROVE  CloseOf(id)'
  <2>1. PICK reason \in Reason : CloseSelf({j}, reason)
    BY <1>16 DEF SocketEnds
  <2>2. UNCHANGED <<c2s, wsS>> /\ phase[j] = "open" /\ {j} \in SUBSET Ids
    BY <1>16 DEF SocketEnds
  <2> QED BY <1>15, <2>1, <2>2
<1>17. CASE JanitorTick
  <2>1. PICK expired \in SUBSET smap : CloseSelf(expired, "error")
    BY <1>17 DEF JanitorTick, Expirable
  <2>2. UNCHANGED <<c2s, wsS>> /\ expired \in SUBSET Ids /\ "error" \in Reason
    BY <1>0, <1>17 DEF JanitorTick, Reason
  <2>3. \A j \in expired : phase[j] = "open"
    BY <1>0 DEF CreditInv, CreditOf
  <2> QED BY <1>15, <2>1, <2>2, <2>3
<1> QED BY <1>4, <1>5, <1>8, <1>9, <1>10, <1>11, <1>12, <1>13, <1>14, <1>16,
           <1>17 DEF ServerNext, HandlePacket, ConnectNext, StreamNext

(* The inductive invariant behind CloseIsLast and CloseIsPending.           *)
THEOREM CloseCorrect == Spec => []CloseInv
<1>1. Init => CloseInv
  BY CloseStart
<1>2. TypeOK /\ TypeOK' /\ CreditInv /\ CloseInv /\ [Next]_vars => CloseInv'
  <2> SUFFICES ASSUME TypeOK, TypeOK', CreditInv, CloseInv, [Next]_vars
               PROVE  CloseInv'
    OBVIOUS
  <2>1. CASE ClientNext /\ UNCHANGED server
    BY <2>1, ClientCloseStep, ConnectingStep DEF CloseInv
  <2>2. CASE ServerNext /\ UNCHANGED client
    <3>1. UNCHANGED <<wsC, ready, cmap>>
      BY <2>2 DEF client, ServerNext, HandlePacket, ConnectNext, StreamNext,
         Connection, SessionClose, HandleConnect, HandleData, HandleClose,
         JanitorTick, ConnectFails, Resolved, Connected, SocketData, ThrottleDone,
         SocketEnds, wire
    <3>2. \A id \in Ids : CloseOf(id)'
      BY <2>2, ServerCloseStep
    <3> QED BY <3>1, <3>2 DEF CloseInv
  <2>3. CASE UNCHANGED vars
    BY <2>3 DEF vars, wire, client, server, CloseInv, CloseOf, Alive, Has,
                ClosesLast, NothingOf
  <2> QED BY <2>1, <2>2, <2>3 DEF Next
<1> QED BY <1>1, <1>2, TypeCorrect, CreditCorrect, PTL DEF Spec

(* Nothing of a stream follows its CLOSE, in either direction, whichever end*)
(* closes first and whatever the ends still hold for the stream.            *)
THEOREM CloseComesLast == Spec => []CloseIsLast
<1>1. TypeOK /\ CloseInv => CloseIsLast
  <2> SUFFICES ASSUME TypeOK, CloseInv, NEW q \in {c2s, s2c},
                      NEW i \in DOMAIN q, NEW j \in DOMAIN q,
                      i < j, q[i].type = "CLOSE"
               PROVE  q[j].id # q[i].id
    BY DEF CloseIsLast
  <2>1. q[i].id \in Ids
    <3>1. c2s \in Seq(UpPackets) /\ s2c \in Seq(DownPackets)
      BY DEF TypeOK, WireTypeOK
    <3>2. CASE q = c2s
      <4>1. q[i] \in UpPackets
        BY <3>1, <3>2, ElementOfSeq, LenProperties
      <4> QED BY <4>1, UpPacketsTyped
    <3>3. CASE q = s2c
      <4>1. q[i] \in DownPackets
        BY <3>1, <3>3, ElementOfSeq, LenProperties
      <4> QED BY <4>1, DownPacketsTyped
    <3> QED BY <3>2, <3>3
  <2>2. ClosesLast(q, q[i].id)
    BY <2>1 DEF CloseInv, CloseOf
  <2> QED BY <2>2 DEF ClosesLast, Matches
<1> QED BY <1>1, TypeCorrect, CloseCorrect, PTL

(* A stream that is over at the server, and that the client believes alive, *)
(* has its CLOSE on the way, on every path by which the server ends it.     *)
THEOREM CloseComes == Spec => []CloseIsPending
<1>1. CloseInv => CloseIsPending
  BY DEF CloseInv, CloseOf, CloseIsPending
<1> QED BY <1>1, CloseCorrect, PTL

-----------------------------------------------------------------------------
(* Those who hold a stream when the WebSocket closes.                       *)

(* Who holds a stream, and listens to it, is settled as it is opened; what  *)
(* is closed stays closed; and what leaves the Map does not come back.      *)
CallersKept ==
  /\ cmap' \subseteq cmap /\ (connClosed => connClosed')
  /\ \A id \in Ids : /\ cstream'[id].held = cstream[id].held
                     /\ cstream'[id].listens = cstream[id].listens
                     /\ cstream[id].closed => cstream'[id].closed

LEMMA StreamKept ==
  ASSUME NEW s \in ClientStreams
  PROVE  /\ \A r \in {RemoteClosed(s), Finished(s)} :
              /\ r \in ClientStreams /\ r.closed
              /\ r.held = s.held /\ r.listens = s.listens
         /\ \A b \in Nat : LET r == [s EXCEPT !.credit = b]
                           IN  /\ r \in ClientStreams /\ r.closed = s.closed
                               /\ r.held = s.held /\ r.listens = s.listens
         /\ \A n : /\ Drained(s, n).closed = s.closed
                   /\ Drained(s, n).held = s.held
                   /\ Drained(s, n).listens = s.listens
<1>1. /\ RemoteClosed(s) \in ClientStreams /\ RemoteClosed(s).closed
      /\ RemoteClosed(s).held = s.held /\ RemoteClosed(s).listens = s.listens
  BY DEF RemoteClosed, ClientStreams
<1>2. /\ Finished(s) \in ClientStreams /\ Finished(s).closed
      /\ Finished(s).held = s.held /\ Finished(s).listens = s.listens
  BY DEF Finished, ClientStreams
<1>3. ASSUME NEW b \in Nat
      PROVE  LET r == [s EXCEPT !.credit = b]
             IN  /\ r \in ClientStreams /\ r.closed = s.closed
                 /\ r.held = s.held /\ r.listens = s.listens
  BY <1>3 DEF ClientStreams
<1>4. ASSUME NEW n
      PROVE  /\ Drained(s, n).closed = s.closed
             /\ Drained(s, n).held = s.held
             /\ Drained(s, n).listens = s.listens
  BY DEF Drained, ClientStreams
<1> QED BY <1>1, <1>2, <1>3, <1>4

LEMMA ClientKeepsCallers ==
  ASSUME TypeOK, ClientNext, ~WsClosed,
         \A listens \in ListenChoices : ~ConnectTcp(listens)
  PROVE  CallersKept
<1>0. /\ WireTypeOK /\ ClientTypeOK /\ connClosed \in BOOLEAN
      /\ cstream \in [Ids -> ClientStreams]
      /\ \A id \in Ids : cstream[id] \in ClientStreams
  BY DEF TypeOK, ClientTypeOK
<1>1. ASSUME NEW j \in Ids, NEW r, cstream' = [cstream EXCEPT ![j] = r],
             r.held = cstream[j].held, r.listens = cstream[j].listens,
             cstream[j].closed => r.closed,
             cmap' \subseteq cmap, UNCHANGED connClosed
      PROVE  CallersKept
  BY <1>0, <1>1 DEF CallersKept
<1>2. UNCHANGED <<cmap, cstream>> /\ (connClosed => connClosed')
        => CallersKept
  BY DEF CallersKept
<1>3. CASE WsOpen \/ ReadyTimeout \/ ConnectionClose
  BY <1>2, <1>3 DEF WsOpen, ReadyTimeout, ConnectionClose, client
<1>4. ASSUME NEW j \in Ids, Write(j)
      PROVE  CallersKept
  <2> DEFINE s == cstream[j]
             q == [s EXCEPT !.written = s.written + 1,
                            !.queue = Append(@, s.written + 1)]
             w == [s EXCEPT !.written = s.written + 1]
  <2>1. /\ UNCHANGED <<cmap, connClosed>>
        /\ \E r \in {q, w, Drained(q, 1)} : cstream' = [cstream EXCEPT ![j] = r]
    BY <1>4 DEF Write
  <2>2. \A r \in {q, w} : /\ r.held = s.held /\ r.listens = s.listens
                          /\ r.closed = s.closed
    BY <1>0 DEF ClientStreams
  <2>3. /\ Drained(q, 1).held = s.held /\ Drained(q, 1).listens = s.listens
        /\ Drained(q, 1).closed = s.closed
    BY <1>0 DEF ClientStreams, Drained
  <2> HIDE DEF q, w
  <2> QED BY <1>1, <2>1, <2>2, <2>3
<1>5. ASSUME NEW j \in Ids, End(j) \/ Destroy(j)
      PROVE  CallersKept
  <2> DEFINE s == cstream[j]
             d == [s EXCEPT !.destroyed = TRUE, !.closed = TRUE, !.eof = TRUE]
             e == [s EXCEPT !.ended = TRUE]
  <2>1. /\ cmap' \subseteq cmap /\ UNCHANGED connClosed
        /\ \E r \in {Finished(s), d, e} : cstream' = [cstream EXCEPT ![j] = r]
    BY <1>5 DEF End, Destroy
  <2>2. \A r \in {d, e} : /\ r.held = s.held /\ r.listens = s.listens
                          /\ s.closed => r.closed
    BY <1>0 DEF ClientStreams
  <2>3. /\ Finished(s).held = s.held /\ Finished(s).listens = s.listens
        /\ Finished(s).closed
    BY <1>0, StreamKept
  <2> HIDE DEF d, e
  <2> QED BY <1>1, <2>1, <2>2, <2>3
<1>6. CASE RecvControlContinue \/ RecvData
  BY <1>2, <1>6 DEF RecvControlContinue, RecvData
<1>7. ASSUME NEW type, Receive(type)
      PROVE  Head(s2c) \in DownPackets /\ Head(s2c).type = type
  BY <1>0, <1>7, HeadTailProperties DEF Receive, WireTypeOK
<1>8. CASE RecvClose
  <2>1. Receive("CLOSE")
    BY <1>8 DEF RecvClose
  <2>2. Head(s2c).id \in Ids
    BY <1>7, <2>1, DownPacketsTyped
  <2>3. CASE Head(s2c).id \notin cmap
    BY <1>2, <1>8, <2>3 DEF RecvClose
  <2>4. CASE Head(s2c).id \in cmap
    <3>1. /\ cstream' = [cstream EXCEPT ![Head(s2c).id]
                           = RemoteClosed(cstream[Head(s2c).id])]
          /\ cmap' \subseteq cmap /\ UNCHANGED connClosed
      BY <1>8, <2>4 DEF RecvClose
    <3> QED BY <1>0, <1>1, <2>2, <3>1, StreamKept
  <2> QED BY <2>3, <2>4
<1>9. CASE RecvContinue
  <2> DEFINE j == Head(s2c).id
             b == Head(s2c).remaining
             s == [cstream[j] EXCEPT !.credit = b]
             d == Drained(s, DrainCount(s))
  <2>1. Receive("CONTINUE") /\ j # 0
    BY <1>9 DEF RecvContinue
  <2>2. j \in Ids /\ b \in Nat
    BY <1>7, <2>1, DownPacketsTyped, WireAssumption
  <2>3. CASE j \notin cmap
    BY <1>2, <1>9, <2>3 DEF RecvContinue
  <2>4. CASE j \in cmap
    <3>1. /\ cmap' \subseteq cmap /\ UNCHANGED connClosed
          /\ \E r \in {Finished(d), d} : cstream' = [cstream EXCEPT ![j] = r]
      BY <1>9, <2>4 DEF RecvContinue
    <3>2. /\ s \in ClientStreams /\ s.closed = cstream[j].closed
          /\ s.held = cstream[j].held /\ s.listens = cstream[j].listens
      BY <1>0, <2>2, StreamKept
    <3> HIDE DEF s
    <3>3. /\ d.closed = s.closed /\ d.held = s.held /\ d.listens = s.listens
          /\ d \in ClientStreams
      BY <3>2, StreamKept, DrainCountBounds, <2>2, DrainTyped
    <3> HIDE DEF d
    <3>4. /\ Finished(d).closed
          /\ Finished(d).held = d.held /\ Finished(d).listens = d.listens
      BY <3>3, StreamKept
    <3>5. PICK r \in {Finished(d), d} : cstream' = [cstream EXCEPT ![j] = r]
      BY <3>1
    <3>6. /\ r.held = cstream[j].held /\ r.listens = cstream[j].listens
          /\ cstream[j].closed => r.closed
      BY <3>2, <3>3, <3>4
    <3> HIDE DEF j
    <3> QED BY <1>1, <2>2, <3>1, <3>5, <3>6
  <2> QED BY <2>3, <2>4
<1> QED BY <1>3, <1>4, <1>5, <1>6, <1>8, <1>9 DEF ClientNext, AppNext, OnMessage

LEMMA HolderStart == Init => HolderInv
BY DEF Init, ClientInit, WireInit, HolderInv

LEMMA HolderQuiet ==
  ASSUME HolderInv, CallersKept, TypeOK,
         \/ wsC' = wsC \/ wsC' = "closing"
         \/ wsC \in {"connecting", "open"} /\ wsC' = "open"
  PROVE  HolderInv'
<1>0. cmap \subseteq Ids /\ cmap' \subseteq cmap
  BY WireAssumption DEF TypeOK, ClientTypeOK, Ids, CallersKept
<1>1. wsC' = "closed" => connClosed'
  BY DEF HolderInv, CallersKept
<1>2. \A id \in cmap' : ~cstream'[id].held => wsC' \in {"closing", "closed"}
  BY <1>0 DEF HolderInv, CallersKept
<1>3. \A j, id \in cmap' : j < id /\ cstream'[id].held => cstream'[j].held
  BY <1>0 DEF HolderInv, CallersKept
<1>4. ASSUME wsC' = "closed", NEW id \in cmap',
             cstream'[id].held, ~cstream'[id].closed
      PROVE  \E j \in Ids : j < id /\ cstream'[j].held /\ ~cstream'[j].listens
  <2>1. wsC = "closed" /\ id \in cmap /\ cstream[id].held /\ ~cstream[id].closed
    BY <1>0, <1>4 DEF CallersKept
  <2>2. PICK j \in Ids : j < id /\ cstream[j].held /\ ~cstream[j].listens
    BY <2>1 DEF HolderInv
  <2> QED BY <2>2 DEF CallersKept
<1> QED BY <1>1, <1>2, <1>3, <1>4 DEF HolderInv

LEMMA HolderStep ==
  ASSUME TypeOK, CloseInv, HolderInv, [Next]_vars
  PROVE  HolderInv'
<1>0. /\ cstream \in [Ids -> ClientStreams] /\ cmap \subseteq Ids
      /\ nextStreamId \in Nat /\ cmap \subseteq 1 .. nextStreamId - 1
      /\ Ids \subseteq Nat
  BY WireAssumption DEF TypeOK, ClientTypeOK, Ids
<1>1. CASE ServerNext /\ UNCHANGED client
  <2>1. UNCHANGED wsC
    BY <1>1 DEF ServerNext, HandlePacket, ConnectNext, StreamNext,
       Connection, SessionClose, HandleConnect, HandleData, HandleClose,
       JanitorTick, ConnectFails, Resolved, Connected, SocketData, ThrottleDone,
       SocketEnds, wire
  <2> QED BY <1>1, <2>1, HolderQuiet DEF client, CallersKept
<1>2. CASE UNCHANGED vars
  BY <1>2, HolderQuiet DEF vars, wire, client, CallersKept
<1>3. ASSUME NEW listens \in ListenChoices, ConnectTcp(listens)
      PROVE  HolderInv'
  <2> DEFINE k == nextStreamId
             new == NewStream(initialBuffer, wsC = "open", wsC = "open" /\ listens)
  <2>1. /\ k \in Ids /\ cmap' = cmap \cup {k} /\ UNCHANGED <<wsC, connClosed>>
        /\ ready /\ ~connClosed /\ cstream' = [cstream EXCEPT ![k] = new]
    BY <1>3 DEF ConnectTcp
  <2>2. wsC \in {"open", "closing"}
    BY <2>1 DEF CloseInv, HolderInv, TypeOK, WireTypeOK
  <2>3. new.held <=> wsC = "open"
    BY DEF NewStream
  <2>4. \A id \in cmap : id < k /\ id \in Ids /\ id # k
    BY <1>0
  <2> HIDE DEF new, k
  <2>5. \A id \in Ids : id # k => cstream'[id] = cstream[id]
    BY <1>0, <2>1
  <2>6. cstream'[k] = new
    BY <1>0, <2>1
  <2>7. \A id \in cmap' : ~cstream'[id].held => wsC' \in {"closing", "closed"}
    BY <2>1, <2>2, <2>3, <2>4, <2>5, <2>6 DEF HolderInv
  <2>8. ASSUME NEW j \in cmap', NEW id \in cmap', j < id, cstream'[id].held
        PROVE  cstream'[j].held
    <3>1. j \in cmap
      BY <1>0, <2>1, <2>4, <2>8
    <3>2. CASE id = k
      BY <2>1, <2>2, <2>3, <2>4, <2>5, <2>6, <2>8, <3>1, <3>2 DEF HolderInv
    <3>3. CASE id \in cmap
      BY <2>4, <2>5, <2>8, <3>1, <3>3 DEF HolderInv
    <3> QED BY <2>1, <3>2, <3>3
  <2> QED BY <2>1, <2>2, <2>7, <2>8 DEF HolderInv
<1>4. CASE WsClosed
  <2>1. /\ wsC' = "closed" /\ connClosed' = TRUE
    BY <1>4 DEF WsClosed
  <2>2. /\ cmap' \subseteq cmap
        /\ \A id \in Ids : cstream'[id] \in {cstream[id], RemoteClosed(cstream[id])}
        /\ \A id \in cmap' : cstream'[id] = RemoteClosed(cstream[id])
              \/ \E j \in cmap : j < id /\ Throws(cstream[j], "error")
    BY <1>0, <1>4 DEF WsClosed
  <2>3. \A id \in Ids : /\ RemoteClosed(cstream[id]).closed
                        /\ RemoteClosed(cstream[id]).held = cstream[id].held
                        /\ RemoteClosed(cstream[id]).listens = cstream[id].listens
    BY <1>0, StreamKept
  <2>4. \A id \in Ids : /\ cstream'[id].held = cstream[id].held
                        /\ cstream'[id].listens = cstream[id].listens
    BY <2>2, <2>3
  <2>5. \A j, id \in cmap' : j < id /\ cstream'[id].held => cstream'[j].held
    BY <1>0, <2>2, <2>4 DEF HolderInv
  <2>6. ASSUME NEW id \in cmap', cstream'[id].held, ~cstream'[id].closed
        PROVE  \E j \in Ids : j < id /\ cstream'[j].held /\ ~cstream'[j].listens
    <3>1. PICK j \in cmap : j < id /\ Throws(cstream[j], "error")
      BY <1>0, <2>2, <2>3, <2>6
    <3>2. id \in cmap /\ cstream[id].held
      BY <1>0, <2>2, <2>4, <2>6
    <3>3. cstream[j].held /\ ~cstream[j].listens /\ j \in Ids
      BY <1>0, <3>1, <3>2 DEF HolderInv, Throws
    <3> QED BY <2>4, <3>1, <3>3
  <2> QED BY <2>1, <2>5, <2>6 DEF HolderInv
<1>5. CASE /\ ClientNext /\ ~WsClosed
           /\ \A listens \in ListenChoices : ~ConnectTcp(listens)
  <2>1. CallersKept
    BY <1>5, ClientKeepsCallers
  <2>2. \/ wsC' = wsC \/ wsC' = "closing"
        \/ wsC \in {"connecting", "open"} /\ wsC' = "open"
    BY <1>5 DEF ClientNext, AppNext, OnMessage, WsOpen, ReadyTimeout,
       ConnectionClose, Write, End, Destroy, RecvControlContinue, RecvData,
       RecvContinue, RecvClose, Receive, wire
  <2> QED BY <2>1, <2>2, HolderQuiet
<1> QED BY <1>1, <1>2, <1>3, <1>4, <1>5 DEF Next

(* Whatever the callers do, a stream whose holder was not told that the     *)
(* WebSocket closed comes after one whose caller does not listen to 'error'.*)
THEOREM HolderCorrect == Spec => []HolderInv
<1>1. Init => HolderInv
  BY HolderStart
<1>2. TypeOK /\ CloseInv /\ HolderInv /\ [Next]_vars => HolderInv'
  BY HolderStep
<1> QED BY <1>1, <1>2, TypeCorrect, CloseCorrect, PTL DEF Spec

(* As long as every caller listens, every holder is told.                   *)
THEOREM HoldersAreTold == Spec => [](EveryCallerListens => EveryHolderIsTold)
<1>1. TypeOK /\ HolderInv => (EveryCallerListens => EveryHolderIsTold)
  BY DEF HolderInv, EveryCallerListens, EveryHolderIsTold
<1> QED BY <1>1, TypeCorrect, HolderCorrect, PTL

-----------------------------------------------------------------------------
(* The chunks of a stream, and the pipe they make.                          *)

(* The chunks of a stream on the wire.                                      *)
LEMMA NumberedTail ==
  ASSUME NEW S, NEW q \in Seq(S), q # << >>, NEW id, NEW h \in Nat, NEW n \in Nat,
         Numbered(q, id, h, n)
  PROVE  /\ ~IsData(Head(q), id) => Numbered(Tail(q), id, h, n)
         /\ IsData(Head(q), id) =>
              /\ Head(q).chunk = h + 1 /\ h + 1 <= n
              /\ Numbered(Tail(q), id, h + 1, n)
<1> DEFINE t == Tail(q)
<1>1. /\ t \in Seq(S) /\ Len(t) = Len(q) - 1
      /\ \A i \in 1 .. Len(t) : t[i] = q[i + 1]
  BY HeadTailProperties
<1>2. /\ DOMAIN t = 1 .. Len(t) /\ DOMAIN q = 1 .. Len(q)
      /\ Len(q) \in Nat \ {0} /\ Len(t) \in Nat
  BY <1>1, LenProperties, EmptySeq
<1>3. Head(q) = q[1] /\ 1 \in DOMAIN q /\ DOMAIN q \subseteq Nat \ {0}
      /\ DOMAIN t \subseteq Nat
  BY <1>2
<1>4. \A i \in DOMAIN t : i + 1 \in DOMAIN q /\ t[i] = q[i + 1]
  BY <1>1, <1>2
<1>5. \A i \in DOMAIN q : i = 1 \/ (i - 1 \in DOMAIN t /\ t[i - 1] = q[i])
  BY <1>1, <1>2
<1> HIDE DEF t
<1>6. /\ \A i \in DOMAIN q : IsData(q[i], id) => q[i].chunk \in h + 1 .. n
      /\ \A i, j \in DOMAIN q :
           IsData(q[i], id) /\ IsData(q[j], id) /\ i < j => q[i].chunk < q[j].chunk
      /\ \A m \in h + 1 .. n : \E i \in DOMAIN q : IsData(q[i], id) /\ q[i].chunk = m
  BY DEF Numbered
<1>7. \A i, j \in DOMAIN t :
        IsData(t[i], id) /\ IsData(t[j], id) /\ i < j => t[i].chunk < t[j].chunk
  <2> SUFFICES ASSUME NEW i \in DOMAIN t, NEW j \in DOMAIN t, i < j,
                      IsData(t[i], id), IsData(t[j], id)
               PROVE  t[i].chunk < t[j].chunk
    OBVIOUS
  <2>1. i + 1 < j + 1
    BY <1>3
  <2> QED BY <1>4, <1>6, <2>1
<1>8. ASSUME ~IsData(q[1], id)
      PROVE  Numbered(t, id, h, n)
  <2>1. \A i \in DOMAIN t : IsData(t[i], id) => t[i].chunk \in h + 1 .. n
    BY <1>4, <1>6
  <2>2. ASSUME NEW m \in h + 1 .. n
        PROVE  \E i \in DOMAIN t : IsData(t[i], id) /\ t[i].chunk = m
    <3>1. PICK i \in DOMAIN q : IsData(q[i], id) /\ q[i].chunk = m
      BY <1>6
    <3>2. i - 1 \in DOMAIN t /\ t[i - 1] = q[i]
      BY <1>5, <1>8, <3>1
    <3> QED BY <3>1, <3>2
  <2> QED BY <1>7, <2>1, <2>2 DEF Numbered
<1>9. ASSUME IsData(q[1], id)
      PROVE  /\ q[1].chunk = h + 1 /\ h + 1 <= n
             /\ Numbered(t, id, h + 1, n)
  <2>1. q[1].chunk \in h + 1 .. n
    BY <1>3, <1>6, <1>9
  <2>2. h + 1 \in h + 1 .. n /\ h + 1 <= n
    BY <2>1
  <2>3. PICK k \in DOMAIN q : IsData(q[k], id) /\ q[k].chunk = h + 1
    BY <1>6, <2>2
  <2>4. k = 1
    <3> SUFFICES ASSUME k # 1 PROVE FALSE
      OBVIOUS
    <3>1. 1 < k
      BY <1>3
    <3>2. q[1].chunk < h + 1
      BY <1>3, <1>6, <1>9, <2>3, <3>1
    <3> QED BY <2>1, <3>2
  <2>5. ASSUME NEW i \in DOMAIN t, IsData(t[i], id)
        PROVE  t[i].chunk \in h + 2 .. n
    <3>1. i + 1 \in DOMAIN q /\ t[i] = q[i + 1] /\ 1 < i + 1
      <4>1. i \in Nat /\ i + 1 \in DOMAIN q /\ t[i] = q[i + 1]
        BY <1>3, <1>4
      <4>2. i + 1 \in Nat \ {0} /\ i # 0
        BY <1>2, <4>1
      <4> QED BY <4>1, <4>2
    <3>2. q[i + 1].chunk \in h + 1 .. n /\ q[1].chunk < q[i + 1].chunk
      BY <1>3, <1>6, <1>9, <2>5, <3>1
    <3> QED BY <2>3, <2>4, <3>1, <3>2
  <2>6. ASSUME NEW m \in h + 2 .. n
        PROVE  \E i \in DOMAIN t : IsData(t[i], id) /\ t[i].chunk = m
    <3>1. m \in h + 1 .. n /\ m # h + 1
      OBVIOUS
    <3>2. PICK i \in DOMAIN q : IsData(q[i], id) /\ q[i].chunk = m
      BY <1>6, <3>1
    <3>3. i # 1
      BY <2>3, <2>4, <3>1, <3>2
    <3>4. i - 1 \in DOMAIN t /\ t[i - 1] = q[i]
      BY <1>5, <3>3
    <3> QED BY <3>2, <3>4
  <2>7. (h + 1) + 1 = h + 2
    OBVIOUS
  <2>8. Numbered(t, id, h + 1, n)
    BY <1>7, <2>5, <2>6, <2>7 DEF Numbered
  <2> QED BY <2>2, <2>3, <2>4, <2>8
<1> QED BY <1>3, <1>8, <1>9 DEF t

LEMMA NumberedConcat ==
  ASSUME NEW S, NEW q \in Seq(S), NEW r \in Seq(S), NEW id,
         NEW h \in Nat, NEW n \in Nat, NEW m \in Nat, h <= n, n <= m,
         Numbered(q, id, h, n), Numbered(r, id, n, m)
  PROVE  Numbered(q \o r, id, h, m)
<1> DEFINE s == q \o r
           l == Len(q)
<1>1. /\ s \in Seq(S) /\ Len(s) = l + Len(r)
      /\ \A i \in 1 .. l + Len(r) : s[i] = IF i <= l THEN q[i] ELSE r[i - l]
  BY ConcatProperties
<1>2. /\ DOMAIN q = 1 .. l /\ DOMAIN r = 1 .. Len(r) /\ DOMAIN s = 1 .. Len(s)
      /\ l \in Nat /\ Len(r) \in Nat /\ DOMAIN s \subseteq Int
  BY <1>1, LenProperties
<1>3. \A i \in DOMAIN s :
        \/ i \in DOMAIN q /\ i <= l /\ s[i] = q[i]
        \/ i > l /\ i - l \in DOMAIN r /\ s[i] = r[i - l]
  BY <1>1, <1>2
<1>4. /\ \A i \in DOMAIN q : i \in DOMAIN s /\ s[i] = q[i]
      /\ \A i \in DOMAIN r : i + l \in DOMAIN s /\ s[i + l] = r[i]
  BY <1>1, <1>2
<1> HIDE DEF s, l
<1>5. /\ \A i \in DOMAIN q : IsData(q[i], id) => q[i].chunk \in h + 1 .. n
      /\ \A i, j \in DOMAIN q :
           IsData(q[i], id) /\ IsData(q[j], id) /\ i < j => q[i].chunk < q[j].chunk
      /\ \A k \in h + 1 .. n : \E i \in DOMAIN q : IsData(q[i], id) /\ q[i].chunk = k
  BY DEF Numbered
<1>6. /\ \A i \in DOMAIN r : IsData(r[i], id) => r[i].chunk \in n + 1 .. m
      /\ \A i, j \in DOMAIN r :
           IsData(r[i], id) /\ IsData(r[j], id) /\ i < j => r[i].chunk < r[j].chunk
      /\ \A k \in n + 1 .. m : \E i \in DOMAIN r : IsData(r[i], id) /\ r[i].chunk = k
  BY DEF Numbered
<1>7. ASSUME NEW i \in DOMAIN s, IsData(s[i], id)
      PROVE  s[i].chunk \in h + 1 .. m
  BY <1>3, <1>5, <1>6, <1>7
<1>8. ASSUME NEW i \in DOMAIN s, NEW j \in DOMAIN s, i < j,
             IsData(s[i], id), IsData(s[j], id)
      PROVE  s[i].chunk < s[j].chunk
  <2>0. i \in Int /\ j \in Int /\ l \in Int
    BY <1>2
  <2>1. CASE i > l /\ i - l \in DOMAIN r /\ s[i] = r[i - l]
    <3>1. j > l /\ i - l < j - l
      BY <1>8, <2>0, <2>1
    <3>2. j - l \in DOMAIN r /\ s[j] = r[j - l]
      BY <1>3, <2>0, <3>1
    <3> QED BY <1>6, <1>8, <2>1, <3>1, <3>2
  <2>2. CASE i \in DOMAIN q /\ i <= l /\ s[i] = q[i]
    <3>1. CASE j \in DOMAIN q /\ j <= l /\ s[j] = q[j]
      BY <1>5, <1>8, <2>2, <3>1
    <3>2. CASE j > l /\ j - l \in DOMAIN r /\ s[j] = r[j - l]
      <4>1. s[i].chunk \in h + 1 .. n /\ s[j].chunk \in n + 1 .. m
        BY <1>5, <1>6, <1>8, <2>2, <3>2
      <4> QED BY <4>1
    <3> QED BY <1>3, <3>1, <3>2
  <2> QED BY <1>3, <2>1, <2>2
<1>9. ASSUME NEW k \in h + 1 .. m
      PROVE  \E i \in DOMAIN s : IsData(s[i], id) /\ s[i].chunk = k
  <2>1. k \in h + 1 .. n \/ k \in n + 1 .. m
    OBVIOUS
  <2>2. CASE k \in h + 1 .. n
    <3>1. PICK i \in DOMAIN q : IsData(q[i], id) /\ q[i].chunk = k
      BY <1>5, <2>2
    <3> QED BY <1>4, <3>1
  <2>3. CASE k \in n + 1 .. m
    <3>1. PICK i \in DOMAIN r : IsData(r[i], id) /\ r[i].chunk = k
      BY <1>6, <2>3
    <3>2. i + l \in DOMAIN s /\ s[i + l] = r[i]
      BY <1>4
    <3> QED BY <3>1, <3>2
  <2> QED BY <2>1, <2>2, <2>3
<1> QED BY <1>7, <1>8, <1>9 DEF Numbered, s

LEMMA NumberedNone ==
  ASSUME NEW q, NEW id, NEW n \in Int, \A i \in DOMAIN q : ~IsData(q[i], id)
  PROVE  Numbered(q, id, n, n)
<1>1. n + 1 .. n = {}
  OBVIOUS
<1> QED BY <1>1 DEF Numbered

LEMMA NumberedDrained ==
  ASSUME NEW id, NEW s, NEW k \in Nat, NEW n \in Nat,
         \A i \in 1 .. k : s.queue[i] = n + i
  PROVE  Numbered(DataPackets(id, s, k), id, n, n + k)
<1> DEFINE p == DataPackets(id, s, k)
<1>1. DOMAIN p = 1 .. k /\ \A i \in 1 .. k : IsData(p[i], id) /\ p[i].chunk = n + i
  BY DEF DataPackets, Data, IsData, Matches
<1> HIDE DEF p
<1>2. \A i \in DOMAIN p : p[i].chunk \in n + 1 .. n + k
  BY <1>1
<1>3. \A i, j \in DOMAIN p : i < j => p[i].chunk < p[j].chunk
  BY <1>1
<1>4. ASSUME NEW m \in n + 1 .. n + k
      PROVE  \E i \in DOMAIN p : IsData(p[i], id) /\ p[i].chunk = m
  <2>1. m - n \in 1 .. k /\ n + (m - n) = m
    OBVIOUS
  <2> QED BY <1>1, <2>1
<1> QED BY <1>2, <1>3, <1>4 DEF Numbered, p

NoData(q, id) == \A i \in DOMAIN q : ~IsData(q[i], id)

LEMMA PipeStart == Init => PipeInv
<1> SUFFICES ASSUME Init, NEW id \in Ids PROVE PipeOf(id)
  BY DEF PipeInv, Init, ClientInit
<1>1. /\ c2s = << >> /\ smap = {} /\ phase[id] = "none" /\ nextStreamId = 1
      /\ cstream[id].queue = << >> /\ cstream[id].written = 0
      /\ accepted[id] = << >> /\ dropped[id] = 0
  BY DEF Init, WireInit, ClientInit, ServerInit, NewStream
<1>2. Handled(id) = 0
  BY <1>1 DEF Handled
<1>3. Numbered(c2s, id, 0, 0)
  BY <1>1, NumberedNone
<1> QED BY <1>1, <1>2, <1>3 DEF PipeOf

(* A stream of which nothing has been written has nothing queued.           *)
LEMMA UnwrittenQueue ==
  ASSUME TypeOK, NEW id \in Ids, PipeOf(id), cstream[id].written = 0
  PROVE  cstream[id].queue = << >> /\ Len(cstream[id].queue) = 0
<1> DEFINE q == cstream[id].queue
<1>1. q \in Seq(Up)
  BY DEF TypeOK, ClientTypeOK, ClientStreams
<1>2. \A i \in DOMAIN q : q[i] = 0 - Len(q) + i /\ q[i] \in Up
  BY <1>1, ElementOfSeq, LenProperties DEF PipeOf
<1> HIDE DEF q
<1>3. Len(q) \in Nat /\ DOMAIN q = 1 .. Len(q)
  BY <1>1, LenProperties
<1>4. ASSUME Len(q) # 0 PROVE FALSE
  <2>1. Len(q) \in DOMAIN q
    BY <1>3, <1>4
  <2>2. q[Len(q)] = 0
    BY <1>2, <1>3, <2>1
  <2> QED BY <1>2, <2>1, <2>2 DEF Up
<1> QED BY <1>1, <1>4, EmptySeq DEF q

(* What does not concern the chunks of stream id.                           *)
LEMMA PipeFrame ==
  ASSUME TypeOK, NEW id \in Ids, PipeOf(id),
         cstream'[id].queue = cstream[id].queue,
         cstream'[id].written = cstream[id].written,
         accepted'[id] = accepted[id], dropped'[id] = dropped[id],
         \/ c2s' = c2s
         \/ \E r \in Seq(UpPackets) : c2s' = c2s \o r /\ NoData(r, id)
         \/ c2s # << >> /\ c2s' = Tail(c2s) /\ ~IsData(Head(c2s), id)
         \/ c2s' = << >> /\ ~Whole(id)',
         Whole(id)' => Whole(id) \/ cstream[id].written = 0,
         phase'[id] = "open" => id \in smap',
         \/ phase'[id] = phase[id] \/ phase'[id] = "closed"
         \/ accepted[id] = << >>,
         id >= nextStreamId' => id >= nextStreamId
  PROVE  PipeOf(id)'
<1> DEFINE w == cstream[id].written
           l == Len(cstream[id].queue)
           h == Handled(id)
<1>0. /\ w \in Nat /\ l \in Nat /\ h \in Nat /\ c2s \in Seq(UpPackets)
  BY LenProperties, WireAssumption
     DEF TypeOK, ClientTypeOK, ClientStreams, ServerTypeOK, Handled, WireTypeOK
<1>1. PICK n \in h .. w :
        Numbered(c2s, id, h, n) /\ (Whole(id) => n + l = w)
  BY DEF PipeOf
<1>2. Handled(id)' = h
  BY DEF Handled
<1>3. w = 0 => l = 0 /\ n = 0
  <2>1. w = 0 => l = 0
    BY UnwrittenQueue
  <2> HIDE DEF w, l, h
  <2> QED BY <1>0, <1>1, <2>1
<1>4. PICK m \in h .. w :
        Numbered(c2s', id, h, m) /\ (Whole(id)' => m + l = w)
  <2> HIDE DEF w, l, h
  <2>1. (Whole(id)' => n + l = w) /\ n \in Nat /\ h <= n
    <3>1. Whole(id)' => Whole(id) \/ w = 0
      BY DEF w
    <3> QED BY <1>0, <1>1, <1>3, <3>1
  <2>2. CASE c2s' = c2s
    BY <1>1, <2>1, <2>2
  <2>3. ASSUME NEW r \in Seq(UpPackets), c2s' = c2s \o r, NoData(r, id)
        PROVE  Numbered(c2s', id, h, n)
    <3>1. Numbered(r, id, n, n)
      BY <2>1, <2>3, NumberedNone DEF NoData
    <3>2. n <= n
      BY <2>1
    <3> QED BY <1>0, <1>1, <2>1, <2>3, <3>1, <3>2, NumberedConcat
  <2>4. CASE c2s # << >> /\ c2s' = Tail(c2s) /\ ~IsData(Head(c2s), id)
    BY <1>0, <1>1, <2>1, <2>4, NumberedTail
  <2>5. CASE c2s' = << >> /\ ~Whole(id)'
    <3>1. Numbered(<< >>, id, h, h)
      BY <1>0, NumberedNone
    <3>2. h \in h .. w
      BY <1>0, <1>1
    <3> QED BY <2>5, <3>1, <3>2
  <2> QED BY <1>1, <2>1, <2>2, <2>3, <2>4, <2>5
<1>5. \A i \in DOMAIN cstream'[id].queue :
        cstream'[id].queue[i]
          = cstream'[id].written - Len(cstream'[id].queue) + i
  BY DEF PipeOf
<1>6. \E k \in Handled(id)' .. cstream'[id].written :
        /\ Numbered(c2s', id, Handled(id)', k)
        /\ Whole(id)' => k + Len(cstream'[id].queue) = cstream'[id].written
  BY <1>2, <1>4
<1>7. accepted'[id] # << >> =>
        /\ phase'[id] \in {"open", "closed"}
        /\ phase'[id] = "open" => accepted'[id][1] = dropped'[id] + 1
  BY DEF PipeOf
<1>8. id >= nextStreamId' => cstream'[id].written = 0 /\ Handled(id)' = 0
  BY <1>2 DEF PipeOf
<1> HIDE DEF w, l, h
<1> QED BY <1>5, <1>6, <1>7, <1>8 DEF PipeOf

LEMMA QueueAppend ==
  ASSUME NEW q \in Seq(Up), NEW w \in Nat, w + 1 \in Up,
         \A i \in DOMAIN q : q[i] = w - Len(q) + i
  PROVE  LET a == Append(q, w + 1)
         IN  /\ Len(a) = Len(q) + 1 /\ Len(q) \in Nat /\ a # << >>
             /\ \A i \in DOMAIN a : a[i] = (w + 1) - Len(a) + i
<1> DEFINE a == Append(q, w + 1)
<1>1. /\ a \in Seq(Up) /\ Len(a) = Len(q) + 1 /\ Len(q) \in Nat
      /\ \A i \in 1 .. Len(q) : a[i] = q[i]
      /\ a[Len(q) + 1] = w + 1
  BY AppendProperties, LenProperties
<1>2. DOMAIN q = 1 .. Len(q) /\ DOMAIN a = 1 .. Len(q) + 1 /\ a # << >>
  <2> HIDE DEF a
  <2>1. DOMAIN q = 1 .. Len(q) /\ DOMAIN a = 1 .. Len(a)
    BY <1>1, LenProperties
  <2>2. Len(a) # 0
    BY <1>1
  <2> QED BY <1>1, <2>1, <2>2, EmptySeq
<1> HIDE DEF a
<1>3. ASSUME NEW i \in DOMAIN a
      PROVE  a[i] = (w + 1) - Len(a) + i
  <2>1. CASE i \in 1 .. Len(q)
    <3>1. a[i] = w - Len(q) + i
      BY <1>1, <1>2, <2>1
    <3> QED BY <1>1, <2>1, <3>1
  <2>2. CASE i = Len(q) + 1
    <3>1. a[i] = w + 1
      BY <1>1, <2>2
    <3> QED BY <1>1, <2>2, <3>1
  <2> QED BY <1>1, <1>2, <2>1, <2>2
<1> QED BY <1>1, <1>2, <1>3 DEF a

LEMMA QueueDrain ==
  ASSUME NEW q \in Seq(Up), NEW w \in Nat, NEW k \in 0 .. Len(q),
         \A i \in DOMAIN q : q[i] = w - Len(q) + i
  PROVE  LET a == SubSeq(q, k + 1, Len(q))
         IN  /\ Len(a) = Len(q) - k /\ Len(q) \in Nat
             /\ \A i \in DOMAIN a : a[i] = w - Len(a) + i
<1> DEFINE a == SubSeq(q, k + 1, Len(q))
<1>0. Len(q) \in Nat /\ k \in Nat /\ k <= Len(q) /\ DOMAIN q = 1 .. Len(q)
  BY LenProperties
<1>1. /\ Len(a) = Len(q) - k
      /\ \A i \in 1 .. Len(q) - k : a[i] = q[k + i]
      /\ DOMAIN a = 1 .. Len(q) - k
  <2>1. \A i \in k + 1 .. Len(q) : q[i] \in Up
    BY <1>0, ElementOfSeq
  <2>2. k + 1 \in Int /\ Len(q) \in Int
    BY <1>0
  <2>3. /\ a \in Seq(Up)
        /\ Len(a) = IF k + 1 <= Len(q) THEN Len(q) - (k + 1) + 1 ELSE 0
        /\ \A i \in 1 .. Len(q) - (k + 1) + 1 : a[i] = q[(k + 1) + i - 1]
    BY <2>1, <2>2, SubSeqProperties
  <2> HIDE DEF a
  <2>4. Len(a) = Len(q) - k
    <3> DEFINE l == Len(q)
               la == Len(a)
    <3>1. l \in Nat /\ k \in Nat /\ k <= l
          /\ la = IF k + 1 <= l THEN l - (k + 1) + 1 ELSE 0
      BY <1>0, <2>3
    <3> HIDE DEF l, la
    <3>2. la = l - k
      BY <3>1
    <3> QED BY <3>2 DEF l, la
  <2>5. Len(q) - (k + 1) + 1 = Len(q) - k
    BY <1>0
  <2>6. \A i \in 1 .. Len(q) - k : (k + 1) + i - 1 = k + i
    BY <1>0
  <2>7. \A i \in 1 .. Len(q) - k : a[i] = q[k + i]
    BY <2>3, <2>5, <2>6
  <2>8. DOMAIN a = 1 .. Len(a)
    BY <2>3, LenProperties
  <2> QED BY <2>4, <2>7, <2>8
<1> HIDE DEF a
<1>2. ASSUME NEW i \in DOMAIN a
      PROVE  a[i] = w - Len(a) + i
  <2>1. i \in 1 .. Len(q) - k /\ k + i \in DOMAIN q
    BY <1>0, <1>1
  <2>2. a[i] = w - Len(q) + (k + i)
    BY <1>1, <2>1
  <2> QED BY <1>0, <1>1, <2>1, <2>2
<1> QED BY <1>0, <1>1, <1>2 DEF a

LEMMA SentNoData ==
  ASSUME NEW j \in Ids, NEW s, NEW id
  PROVE  /\ NoData(VoluntaryClose(j, s), id)
         /\ NoData(<<Connect(j)>>, id) /\ NoData(<< >>, id)
         /\ \A n : j # id => NoData(DataPackets(j, s, n), id)
<1>1. NoData(<< >>, id)
  BY DEF NoData
<1>2. NoData(<<Close(j, "voluntary")>>, id) /\ NoData(<<Connect(j)>>, id)
  BY DEF NoData, IsData, Matches, Close, Connect
<1>3. \A n : j # id => NoData(DataPackets(j, s, n), id)
  BY DEF NoData, IsData, Matches, DataPackets, Data
<1> QED BY <1>1, <1>2, <1>3 DEF VoluntaryClose

(* A step of stream j at the client's end: what leaves its queue is sent.   *)
LEMMA ClientPipeStep ==
  ASSUME TypeOK, TypeOK', CreditInv, CloseInv, PipeInv, ClientNext,
         UNCHANGED server
  PROVE  \A id \in Ids : PipeOf(id)'
<1> SUFFICES ASSUME NEW id \in Ids PROVE PipeOf(id)'
  OBVIOUS
<1>0. /\ WireTypeOK /\ PipeOf(id) /\ id \in Nat
      /\ UNCHANGED <<phase, wsS, smap, accepted, dropped>>
      /\ cstream \in [Ids -> ClientStreams]
      /\ \A j \in Ids : cstream[j] \in ClientStreams
      /\ nextStreamId \in Nat /\ cmap \subseteq 1 .. nextStreamId - 1
      /\ cmap \subseteq Ids /\ (phase[id] = "open" => id \in smap)
      /\ c2s \in Seq(UpPackets) /\ s2c \in Seq(DownPackets)
  <2>1. UNCHANGED wsS
    BY DEF ClientNext, AppNext, OnMessage, WsOpen, ReadyTimeout, ConnectionClose,
       WsClosed, ConnectTcp, Write, End, Destroy, RecvControlContinue, RecvData,
       RecvContinue, RecvClose, wire
  <2>2. cmap \subseteq Ids /\ nextStreamId \in Nat /\ id \in Nat
    BY WireAssumption DEF TypeOK, ClientTypeOK, Ids
  <2> QED BY <2>1, <2>2 DEF TypeOK, ClientTypeOK, WireTypeOK, PipeInv, PipeOf, server
<1>1. ASSUME cstream'[id].queue = cstream[id].queue,
             cstream'[id].written = cstream[id].written,
             NEW r \in Seq(UpPackets), NoData(r, id),
             c2s' = c2s \/ c2s' = c2s \o r,
             Whole(id)' => Whole(id) \/ cstream[id].written = 0,
             id >= nextStreamId' => id >= nextStreamId
      PROVE  PipeOf(id)'
  BY <1>0, <1>1, PipeFrame
<1>2. << >> \in Seq(UpPackets) /\ NoData(<< >>, id)
  BY EmptySeq DEF NoData
<1>3. CASE WsOpen
  <2>1. UNCHANGED <<cstream, c2s, nextStreamId>> /\ wsC = "connecting"
    BY <1>3 DEF WsOpen, client
  <2>2. id >= nextStreamId
    BY <2>1 DEF PipeInv, Ids
  <2>3. cstream[id].written = 0
    BY <1>0, <2>2 DEF PipeOf
  <2> QED BY <1>1, <1>2, <2>1, <2>3
<1>4. CASE ReadyTimeout \/ ConnectionClose
  <2>1. /\ UNCHANGED <<cstream, c2s, nextStreamId>>
        /\ wsC' = wsC \/ wsC' = "closing"
    BY <1>4 DEF ReadyTimeout, ConnectionClose, wire
  <2>2. Whole(id)' => Whole(id)
    BY <1>0, <2>1 DEF Whole
  <2> QED BY <1>1, <1>2, <2>1, <2>2
<1>5. CASE WsClosed
  <2>1. /\ UNCHANGED <<c2s, nextStreamId>> /\ wsC' = "closed"
        /\ cstream'[id] \in {cstream[id], RemoteClosed(cstream[id])}
    BY <1>5 DEF WsClosed
  <2>2. /\ cstream'[id].queue = cstream[id].queue
        /\ cstream'[id].written = cstream[id].written
    BY <1>0, <2>1 DEF RemoteClosed, ClientStreams
  <2>3. ~Whole(id)'
    BY <2>1 DEF Whole
  <2> QED BY <1>1, <1>2, <2>1, <2>2, <2>3
<1>6. ASSUME NEW listens \in ListenChoices, ConnectTcp(listens)
      PROVE  PipeOf(id)'
  <2> DEFINE k == nextStreamId
             new == NewStream(initialBuffer, wsC = "open", wsC = "open" /\ listens)
             r == <<Connect(k)>>
  <2>1. /\ k \in Ids /\ nextStreamId' = k + 1 /\ ToServer(r)
        /\ UNCHANGED wsC /\ cstream' = [cstream EXCEPT ![k] = new]
    BY <1>6 DEF ConnectTcp
  <2>2. r \in Seq(UpPackets) /\ NoData(r, id) /\ (c2s' = c2s \/ c2s' = c2s \o r)
    BY <2>1, UpPacketsTyped, OnePacket, SentNoData DEF ToServer
  <2>3. new.queue = << >> /\ new.written = 0
    BY DEF NewStream
  <2> HIDE DEF new, r
  <2>4. id >= nextStreamId' => id >= nextStreamId
    BY <1>0, <2>1
  <2>5. CASE id # k
    <3>1. cstream'[id] = cstream[id]
      BY <1>0, <2>1, <2>5
    <3>2. Whole(id)' => Whole(id)
      BY <1>0, <2>1, <3>1 DEF Whole
    <3> QED BY <1>1, <2>2, <2>4, <3>1, <3>2
  <2>6. CASE id = k
    <3>1. cstream[id].written = 0
      BY <1>0, <2>6 DEF PipeOf
    <3>2. cstream[id].queue = << >>
      BY <1>0, <3>1, UnwrittenQueue
    <3>3. cstream'[id] = new
      BY <1>0, <2>1, <2>6
    <3> QED BY <1>1, <2>2, <2>3, <2>4, <3>1, <3>2, <3>3
  <2> QED BY <2>5, <2>6
(* One stream's record changes, and packets are sent for it.                *)
<1>7. ASSUME NEW j \in Ids, id # j, NEW r \in Seq(UpPackets), NoData(r, id),
             c2s' = c2s \/ c2s' = c2s \o r, UNCHANGED <<wsC, nextStreamId>>,
             NEW s, cstream' = [cstream EXCEPT ![j] = s]
      PROVE  PipeOf(id)'
  <2>1. cstream'[id] = cstream[id]
    BY <1>0, <1>7
  <2>2. Whole(id)' => Whole(id)
    BY <1>0, <1>7, <2>1 DEF Whole
  <2> QED BY <1>1, <1>7, <2>1, <2>2
<1>8. ASSUME NEW s, cstream' = [cstream EXCEPT ![id] = s],
             s.queue = cstream[id].queue, s.written = cstream[id].written,
             cstream[id].closed => s.closed,
             NEW r \in Seq(UpPackets), NoData(r, id),
             c2s' = c2s \/ c2s' = c2s \o r, UNCHANGED <<wsC, nextStreamId>>
      PROVE  PipeOf(id)'
  <2>1. cstream'[id] = s
    BY <1>0, <1>8
  <2>2. Whole(id)' => Whole(id)
    BY <1>0, <1>8, <2>1 DEF Whole
  <2> QED BY <1>1, <1>8, <2>1, <2>2
<1>9. ASSUME NEW j \in Ids, End(j)
      PROVE  PipeOf(id)'
  <2> DEFINE s == cstream[j]
             v == VoluntaryClose(j, s)
  <2>1. /\ UNCHANGED <<wsC, nextStreamId>>
        /\ \/ cstream' = [cstream EXCEPT ![j] = Finished(s)] /\ ToServer(v)
           \/ cstream' = [cstream EXCEPT ![j] = [s EXCEPT !.ended = TRUE]]
              /\ UNCHANGED c2s
    BY <1>9 DEF End
  <2>2. v \in Seq(UpPackets) /\ NoData(v, id)
    <3>1. DataPackets(j, s, 0) \in Seq(UpPackets)
      BY EmptySeq DEF DataPackets
    <3> QED BY <3>1, SentTail, SentNoData
  <2>3. /\ Finished(s).queue = s.queue /\ Finished(s).written = s.written
        /\ Finished(s).closed
        /\ [s EXCEPT !.ended = TRUE].queue = s.queue
        /\ [s EXCEPT !.ended = TRUE].written = s.written
        /\ [s EXCEPT !.ended = TRUE].closed = s.closed
    BY <1>0 DEF Finished, ClientStreams
  <2>4. ToServer(v) => c2s' = c2s \/ c2s' = c2s \o v
    BY DEF ToServer
  <2> HIDE DEF v
  <2>5. CASE id # j
    BY <1>2, <1>7, <2>1, <2>2, <2>4, <2>5
  <2>6. CASE id = j
    BY <1>2, <1>8, <2>1, <2>2, <2>3, <2>4, <2>6
  <2> QED BY <2>5, <2>6
<1>10. ASSUME NEW j \in Ids, Destroy(j)
       PROVE  PipeOf(id)'
  <2> DEFINE s == cstream[j]
             v == VoluntaryClose(j, s)
             d == [s EXCEPT !.destroyed = TRUE, !.closed = TRUE, !.eof = TRUE]
  <2>1. /\ UNCHANGED <<wsC, nextStreamId>>
        /\ cstream' = [cstream EXCEPT ![j] = d] /\ ToServer(v)
    BY <1>10 DEF Destroy
  <2>2. v \in Seq(UpPackets) /\ NoData(v, id)
    <3>1. DataPackets(j, s, 0) \in Seq(UpPackets)
      BY EmptySeq DEF DataPackets
    <3> QED BY <3>1, SentTail, SentNoData
  <2>3. d.queue = s.queue /\ d.written = s.written /\ d.closed
    BY <1>0 DEF ClientStreams
  <2>4. c2s' = c2s \/ c2s' = c2s \o v
    BY <2>1 DEF ToServer
  <2> HIDE DEF v, d
  <2>5. CASE id # j
    BY <1>7, <2>1, <2>2, <2>4, <2>5
  <2>6. CASE id = j
    BY <1>8, <2>1, <2>2, <2>3, <2>4, <2>6
  <2> QED BY <2>5, <2>6
<1>11. CASE RecvControlContinue \/ RecvData
  <2>1. UNCHANGED <<c2s, nextStreamId, cstream, wsC>>
    BY <1>11 DEF RecvControlContinue, RecvData, Receive
  <2>2. Whole(id)' => Whole(id)
    BY <1>0, <2>1 DEF Whole
  <2> QED BY <1>1, <1>2, <2>1, <2>2
<1>12. ASSUME NEW type, Receive(type)
       PROVE  Head(s2c) \in DownPackets /\ Head(s2c).type = type /\ wsC = "open"
  BY <1>0, <1>12, HeadTailProperties DEF Receive
<1>13. CASE RecvClose
  <2> DEFINE j == Head(s2c).id
  <2>1. /\ Receive("CLOSE") /\ UNCHANGED <<c2s, wsC, nextStreamId>>
        /\ \/ UNCHANGED cstream
           \/ cstream' = [cstream EXCEPT ![j] = RemoteClosed(cstream[j])]
    BY <1>13 DEF RecvClose
  <2>2. j \in Ids
    BY <1>12, <2>1, DownPacketsTyped
  <2>3. LET s == RemoteClosed(cstream[j])
        IN s.queue = cstream[j].queue /\ s.written = cstream[j].written /\ s.closed
    BY <1>0, <2>2 DEF RemoteClosed, ClientStreams
  <2>4. CASE UNCHANGED cstream
    <3>1. Whole(id)' => Whole(id)
      BY <1>0, <2>1, <2>4 DEF Whole
    <3> QED BY <1>1, <1>2, <2>1, <2>4, <3>1
  <2>5. CASE cstream' = [cstream EXCEPT ![j] = RemoteClosed(cstream[j])] /\ id # j
    BY <1>2, <1>7, <2>1, <2>2, <2>5
  <2>6. CASE cstream' = [cstream EXCEPT ![j] = RemoteClosed(cstream[j])] /\ id = j
    BY <1>2, <1>8, <2>1, <2>3, <2>6
  <2> QED BY <2>1, <2>4, <2>5, <2>6
<1>14. ASSUME NEW j \in Ids, Write(j)
       PROVE  PipeOf(id)'
  <2> DEFINE s == cstream[j]
             w == s.written
             chunk == w + 1
             lost == [s EXCEPT !.written = chunk]
             queued == [s EXCEPT !.written = chunk, !.queue = Append(@, chunk)]
             p == DataPackets(j, queued, 1)
  <2>1. /\ s.held /\ chunk \in Up /\ UNCHANGED <<wsC, nextStreamId>>
        /\ s \in ClientStreams /\ s.queue \in Seq(Up) /\ w \in Nat
    BY <1>0, <1>14, WireAssumption DEF Write, ClientStreams
  <2>2. \/ /\ s.queue # << >> \/ (~s.closed /\ s.credit = 0)
           /\ cstream' = [cstream EXCEPT ![j] = queued] /\ UNCHANGED c2s
        \/ /\ s.queue = << >> /\ (s.closed \/ wsC # "open")
           /\ cstream' = [cstream EXCEPT ![j] = lost] /\ UNCHANGED c2s
        \/ /\ s.queue = << >> /\ ~s.closed /\ wsC = "open"
           /\ cstream' = [cstream EXCEPT ![j] = Drained(queued, 1)]
           /\ ToServer(p)
    BY <1>14 DEF Write
  <2>3. /\ queued.queue = Append(s.queue, chunk) /\ queued.written = chunk
        /\ queued.closed = s.closed
        /\ lost.queue = s.queue /\ lost.written = chunk /\ lost.closed = s.closed
    BY <2>1 DEF ClientStreams
  <2>4. /\ Drained(queued, 1).queue = SubSeq(queued.queue, 2, Len(queued.queue))
        /\ Drained(queued, 1).written = chunk
    BY <2>1 DEF Drained, ClientStreams
  <2>5. ASSUME s.queue = << >>
        PROVE  /\ p \in Seq(UpPackets) /\ queued.queue[1] = chunk
               /\ Drained(queued, 1).queue = << >>
    <3>1. p = <<Data(j, queued.queue[1])>>
      BY DEF DataPackets
    <3>2. queued.queue[1] = chunk /\ queued.queue = <<chunk>>
      BY <2>1, <2>3, <2>5
    <3>3. p \in Seq(UpPackets)
      BY <2>1, <3>1, <3>2, OnePacket, UpPacketsTyped
    <3>4. SubSeq(<<chunk>>, 2, Len(<<chunk>>)) = << >>
      BY SubSeqEmpty
    <3> QED BY <2>4, <3>2, <3>3, <3>4
  <2>6. ToServer(p) => c2s' = c2s \/ c2s' = c2s \o p
    BY DEF ToServer
  <2>7. CASE id # j
    <3>1. NoData(p, id)
      BY <2>7, SentNoData
    <3> HIDE DEF p, queued, lost
    <3> QED BY <1>2, <1>7, <2>1, <2>2, <2>5, <2>6, <2>7, <3>1
  <2>8. CASE id = j
    <3> DEFINE q == s.queue
               h == Handled(id)
    <3>1. /\ \A i \in DOMAIN q : q[i] = w - Len(q) + i
          /\ accepted[id] # << >> =>
               /\ phase[id] \in {"open", "closed"}
               /\ phase[id] = "open" => accepted[id][1] = dropped[id] + 1
      BY <1>0, <2>8 DEF PipeOf
    <3>2. PICK n \in h .. w : Numbered(c2s, id, h, n)
                              /\ (Whole(id) => n + Len(q) = w)
      BY <1>0, <2>8 DEF PipeOf
    <3>3. Handled(id)' = h /\ h \in Nat /\ n \in Nat /\ n <= w /\ h <= n
          /\ Len(q) \in Nat
      <4>0. accepted[id] \in Seq(Up) /\ dropped[id] \in Nat
        BY DEF TypeOK, ServerTypeOK
      <4>1. h \in Nat /\ Len(q) \in Nat
        BY <2>1, <4>0, LenProperties DEF Handled
      <4>2. Handled(id)' = h
        BY <1>0 DEF Handled
      <4> HIDE DEF h, q, w
      <4> QED BY <2>1, <3>2, <4>1, <4>2 DEF w
    <3>4. ~(id >= nextStreamId')
      BY <2>1, <2>8 DEF CreditInv, CreditOf
    <3>5. ASSUME NEW r, cstream' = [cstream EXCEPT ![j] = r],
                 r.written = w + 1,
                 \A i \in DOMAIN r.queue : r.queue[i] = (w + 1) - Len(r.queue) + i,
                 NEW m \in h .. w + 1, Numbered(c2s', id, h, m),
                 Whole(id)' => m + Len(r.queue) = w + 1
          PROVE  PipeOf(id)'
      <4>1. cstream'[id] = r
        BY <1>0, <2>8, <3>5
      <4> HIDE DEF w, h, q, queued, lost, p
      <4>2. \A i \in DOMAIN cstream'[id].queue :
              cstream'[id].queue[i]
                = cstream'[id].written - Len(cstream'[id].queue) + i
        BY <3>5, <4>1
      <4>3. \E k \in Handled(id)' .. cstream'[id].written :
              /\ Numbered(c2s', id, Handled(id)', k)
              /\ Whole(id)' => k + Len(cstream'[id].queue) = cstream'[id].written
        BY <3>3, <3>5, <4>1
      <4>4. (phase'[id] = "open" => id \in smap') /\
            (accepted'[id] # << >> =>
               /\ phase'[id] \in {"open", "closed"}
               /\ phase'[id] = "open" => accepted'[id][1] = dropped'[id] + 1)
        BY <1>0, <3>1
      <4> QED BY <3>4, <4>2, <4>3, <4>4 DEF PipeOf
    <3>6. n \in h .. w + 1 /\ w + 1 \in h .. w + 1 /\ n <= w + 1
      <4> HIDE DEF h, w
      <4> QED BY <2>1, <3>3 DEF w
    <3>7. CASE /\ s.queue # << >> \/ (~s.closed /\ s.credit = 0)
               /\ cstream' = [cstream EXCEPT ![j] = queued] /\ UNCHANGED c2s
      <4>1. /\ Len(queued.queue) = Len(q) + 1
            /\ \A i \in DOMAIN queued.queue :
                 queued.queue[i] = (w + 1) - Len(queued.queue) + i
        <5> HIDE DEF q, w, queued
        <5>1. queued.queue = Append(q, w + 1) /\ q \in Seq(Up) /\ w + 1 \in Up
              /\ w \in Nat
          BY <2>1, <2>3 DEF q, w
        <5> QED BY <3>1, <5>1, QueueAppend
      <4>2. Whole(id)' => Whole(id)
        BY <1>0, <2>1, <2>3, <2>8, <3>7 DEF Whole
      <4>3. Whole(id)' => n + Len(queued.queue) = w + 1
        <5> HIDE DEF q, w, queued
        <5> QED BY <2>1, <3>2, <3>3, <4>1, <4>2 DEF w
      <4> HIDE DEF queued, w, h
      <4> QED BY <2>3, <3>2, <3>5, <3>6, <3>7, <4>1, <4>3
    <3>8. CASE /\ s.queue = << >> /\ (s.closed \/ wsC # "open")
               /\ cstream' = [cstream EXCEPT ![j] = lost] /\ UNCHANGED c2s
      <4>1. cstream'[id] = lost
        BY <1>0, <2>8, <3>8
      <4>2. ~Whole(id)'
        BY <2>1, <2>3, <3>8, <4>1 DEF Whole
      <4>3. \A i \in DOMAIN lost.queue : FALSE
        BY <2>3, <3>8
      <4> HIDE DEF lost, w, h
      <4> QED BY <2>3, <3>2, <3>5, <3>6, <3>8, <4>2, <4>3
    <3>9. CASE /\ s.queue = << >> /\ ~s.closed /\ wsC = "open"
               /\ cstream' = [cstream EXCEPT ![j] = Drained(queued, 1)]
               /\ ToServer(p)
      <4>1. /\ p \in Seq(UpPackets) /\ queued.queue[1] = w + 1
            /\ Drained(queued, 1).queue = << >>
        BY <2>5, <3>9
      <4>2. Len(q) = 0 /\ Len(<< >>) = 0 /\ (\A i \in DOMAIN << >> : FALSE)
        BY <3>9
      <4>3. CASE wsS = "open"
        <5>1. n = w
          <6>1. Whole(id)
            BY <2>8, <3>9, <4>3 DEF Whole
          <6> HIDE DEF q, w
          <6> QED BY <3>2, <3>3, <4>2, <6>1
        <5>2. Numbered(p, id, n, n + 1)
          <6>1. \A i \in 1 .. 1 : queued.queue[i] = n + i
            <7> HIDE DEF w, queued
            <7> QED BY <4>1, <5>1
          <6> HIDE DEF queued
          <6> QED BY <2>8, <3>3, <6>1, NumberedDrained
        <5>3. c2s' = c2s \o p
          BY <3>9, <4>3 DEF ToServer
        <5>4. n + 1 \in Nat /\ n <= n + 1
          BY <3>3
        <5> HIDE DEF p, h, w, q, queued
        <5>5. Numbered(c2s', id, h, n + 1)
          BY <1>0, <3>2, <3>3, <4>1, <5>2, <5>3, <5>4, NumberedConcat
        <5>6. n + 1 = w + 1 /\ n + 1 \in h .. w + 1 /\ n + 1 + 0 = w + 1
          BY <3>3, <3>6, <5>1
        <5> DEFINE r == Drained(queued, 1)
        <5>7. r.written = w + 1
          BY <2>4
        <5>8. r.queue = << >>
          BY <4>1
        <5>9. cstream' = [cstream EXCEPT ![j] = r]
          BY <3>9
        <5> HIDE DEF r
        <5> QED BY <3>5, <4>2, <5>5, <5>6, <5>7, <5>8, <5>9
      <4>4. CASE wsS # "open"
        <5>1. c2s' = c2s /\ ~Whole(id)'
          BY <1>0, <3>9, <4>4 DEF ToServer, Whole
        <5> DEFINE r == Drained(queued, 1)
        <5>2. r.written = w + 1 /\ r.queue = << >>
              /\ cstream' = [cstream EXCEPT ![j] = r]
          BY <2>4, <3>9, <4>1
        <5> HIDE DEF r, p, h, w, q, queued
        <5> QED BY <3>2, <3>5, <3>6, <4>2, <5>1, <5>2
      <4> QED BY <4>3, <4>4
    <3> QED BY <2>2, <3>7, <3>8, <3>9
  <2> QED BY <2>7, <2>8
<1>15. CASE RecvContinue
  <2> DEFINE j == Head(s2c).id
             s == [cstream[j] EXCEPT !.credit = Head(s2c).remaining]
             k == DrainCount(s)
             d == Drained(s, k)
             final == s.ended /\ k > 0 /\ d.queue = << >>
             p == DataPackets(j, s, k)
             v == VoluntaryClose(j, s)
             f == IF final THEN v ELSE << >>
             r == IF final THEN Finished(d) ELSE d
  <2>1. Receive("CONTINUE") /\ j # 0 /\ UNCHANGED <<wsC, nextStreamId>>
    BY <1>15 DEF RecvContinue
  <2>2. j \in Ids /\ Head(s2c).remaining = Buffer /\ wsC = "open"
    BY <1>12, <2>1, DownPacketsTyped
  <2>3. CASE j \notin cmap
    <3>1. UNCHANGED <<c2s, cstream>>
      BY <1>15, <2>3 DEF RecvContinue
    <3>2. Whole(id)' => Whole(id)
      BY <1>0, <2>1, <3>1 DEF Whole
    <3> QED BY <1>1, <1>2, <2>1, <3>1, <3>2
  <2>4. CASE j \in cmap
    <3>1. cstream' = [cstream EXCEPT ![j] = r] /\ ToServer(p \o f)
      BY <1>15, <2>4 DEF RecvContinue
    <3>2. /\ s \in ClientStreams /\ s.queue = cstream[j].queue
          /\ s.written = cstream[j].written /\ s.closed = cstream[j].closed
      <4>1. \A t \in ClientStreams, b \in Nat :
              LET u == [t EXCEPT !.credit = b]
              IN  /\ u \in ClientStreams /\ u.queue = t.queue
                  /\ u.written = t.written /\ u.closed = t.closed
        BY DEF ClientStreams
      <4>2. cstream[j] \in ClientStreams /\ Head(s2c).remaining \in Nat
        BY <1>0, <2>2, WireAssumption
      <4> QED BY <4>1, <4>2
    <3>3. k \in 0 .. Len(s.queue) /\ k <= s.credit
      BY <3>2, DrainCountBounds
    <3>4. p \in Seq(UpPackets) /\ d \in ClientStreams
      <4> HIDE DEF s, k, j
      <4> QED BY <2>2, <3>2, <3>3, DrainTyped
    <3>5. v \in Seq(UpPackets) /\ NoData(v, id)
      <4> HIDE DEF s, k, j, d, r
      <4>1. v \in Seq(UpPackets)
        BY <2>2, <3>4, SentTail
      <4> QED BY <2>2, <4>1, SentNoData
    <3>6. f \in Seq(UpPackets) /\ NoData(f, id)
      BY <1>2, <3>5
    <3>7. /\ d.queue = SubSeq(s.queue, k + 1, Len(s.queue))
          /\ d.written = s.written /\ d.closed = s.closed
          /\ r.queue = d.queue /\ r.written = d.written
          /\ d.closed => r.closed
      BY <3>2, <3>4 DEF Drained, Finished, ClientStreams
    <3>8. /\ p \o f \in Seq(UpPackets)
          /\ c2s' = c2s \/ c2s' = c2s \o (p \o f)
      BY <3>1, <3>4, <3>6, ConcatProperties DEF ToServer
    <3>9. CASE id # j
      <4>1. NoData(p, id)
        BY <2>2, <3>9, SentNoData
      <4>2. NoData(p \o f, id)
        <5> HIDE DEF p, f
        <5> QED BY <3>4, <3>6, <4>1, ConcatProperties, LenProperties DEF NoData
      <4> HIDE DEF p, f, r
      <4> QED BY <1>7, <2>1, <2>2, <3>1, <3>8, <3>9, <4>2
    <3>10. CASE id = j
      <4> DEFINE q == s.queue
                 w == s.written
                 h == Handled(id)
      <4> HIDE DEF r, f, d, k, s
      <4>1. /\ \A i \in DOMAIN q : q[i] = w - Len(q) + i
            /\ accepted[id] # << >> =>
                 /\ phase[id] \in {"open", "closed"}
                 /\ phase[id] = "open" => accepted[id][1] = dropped[id] + 1
        BY <1>0, <3>2, <3>10 DEF PipeOf
      <4>2. PICK n \in h .. w : Numbered(c2s, id, h, n)
                                /\ (Whole(id) => n + Len(q) = w)
        BY <1>0, <3>2, <3>10 DEF PipeOf
      <4>3. /\ q \in Seq(Up) /\ w \in Nat /\ accepted[id] \in Seq(Up)
            /\ dropped[id] \in Nat
        BY <3>2, WireAssumption DEF ClientStreams, TypeOK, ServerTypeOK
      <4>4. Len(q) \in Nat /\ h \in Nat /\ k \in Nat /\ k <= Len(q)
            /\ Handled(id)' = h
        <5>1. Len(q) \in Nat /\ Len(accepted[id]) \in Nat
          BY <4>3, LenProperties
        <5>2. h \in Nat /\ Handled(id)' = h
          BY <1>0, <4>3, <5>1 DEF Handled
        <5> HIDE DEF q, h
        <5> QED BY <3>3, <5>1, <5>2 DEF q
      <4>5. n \in Nat /\ h <= n /\ n <= w
        <5> HIDE DEF h, w
        <5> QED BY <4>2, <4>3, <4>4
      <4>6. /\ Len(r.queue) = Len(q) - k
            /\ \A i \in DOMAIN r.queue : r.queue[i] = w - Len(r.queue) + i
        <5> HIDE DEF q, w
        <5>1. r.queue = SubSeq(q, k + 1, Len(q))
          BY <3>7 DEF q
        <5>2. k \in 0 .. Len(q)
          BY <3>3 DEF q
        <5>3. LET a == SubSeq(q, k + 1, Len(q))
              IN  /\ Len(a) = Len(q) - k
                  /\ \A i \in DOMAIN a : a[i] = w - Len(a) + i
          BY <4>1, <4>3, <5>2, QueueDrain
        <5> QED BY <5>1, <5>3
      <4>7. ~(id >= nextStreamId')
        BY <1>0, <2>1, <2>4, <3>10
      <4>8. cstream'[id] = r /\ r.written = w
        BY <1>0, <3>1, <3>7, <3>10
      <4>9. ASSUME NEW m \in h .. w, Numbered(c2s', id, h, m),
                   Whole(id)' => m + Len(r.queue) = w
            PROVE  PipeOf(id)'
        <5> HIDE DEF h, w, q, p
        <5>1. \A i \in DOMAIN cstream'[id].queue :
                cstream'[id].queue[i]
                  = cstream'[id].written - Len(cstream'[id].queue) + i
          BY <4>6, <4>8
        <5>2. \E i \in Handled(id)' .. cstream'[id].written :
                /\ Numbered(c2s', id, Handled(id)', i)
                /\ Whole(id)' => i + Len(cstream'[id].queue) = cstream'[id].written
          BY <4>4, <4>8, <4>9
        <5>3. (phase'[id] = "open" => id \in smap') /\
              (accepted'[id] # << >> =>
                 /\ phase'[id] \in {"open", "closed"}
                 /\ phase'[id] = "open" => accepted'[id][1] = dropped'[id] + 1)
          BY <1>0, <4>1
        <5> QED BY <4>7, <5>1, <5>2, <5>3 DEF PipeOf
      <4>10. CASE wsS # "open"
        <5>1. c2s' = c2s /\ ~Whole(id)'
          BY <1>0, <3>1, <4>10 DEF ToServer, Whole
        <5> HIDE DEF h, w, q, p
        <5> QED BY <4>2, <4>9, <5>1
      <4>11. CASE wsS = "open"
        <5>1. c2s' = c2s \o (p \o f)
          BY <2>2, <3>1, <4>11 DEF ToServer
        <5>2. Len(q) # 0 => Whole(id)
          BY <2>2, <3>2, <3>10, <4>11 DEF Whole
        <5>3. k # 0 => n + Len(q) = w
          <6> HIDE DEF q, w, h
          <6> QED BY <4>2, <4>4, <5>2
        <5>4. \A i \in 1 .. k : s.queue[i] = n + i
          <6>1. \A i \in 1 .. k : i \in DOMAIN q /\ q[i] = w - Len(q) + i
            BY <4>1, <4>3, <4>4, LenProperties
          <6> HIDE DEF w
          <6> QED BY <4>3, <4>4, <4>5, <5>3, <6>1
        <5>5. Numbered(p, id, n, n + k)
          BY <3>10, <4>4, <4>5, <5>4, NumberedDrained
        <5>6. n + k \in Nat /\ n <= n + k /\ n + k \in h .. w /\ n + k <= n + k
          <6> HIDE DEF q, w, h
          <6> QED BY <4>3, <4>4, <4>5, <5>3
        <5> HIDE DEF p, h, w, q
        <5>7. Numbered(f, id, n + k, n + k)
          BY <3>6, <5>6, NumberedNone DEF NoData
        <5>8. Numbered(p \o f, id, n, n + k)
          BY <3>4, <3>6, <4>5, <5>5, <5>6, <5>7, NumberedConcat
        <5>9. Numbered(c2s', id, h, n + k)
          BY <1>0, <3>8, <4>2, <4>4, <4>5, <5>1, <5>6, <5>8, NumberedConcat
        <5>10. Whole(id)' => Whole(id)
          BY <1>0, <2>1, <3>2, <3>7, <3>10, <4>4, <4>6, <4>8, <5>2 DEF Whole, q
        <5>11. Whole(id)' => n + k + Len(r.queue) = w
          BY <4>2, <4>3, <4>4, <4>5, <4>6, <5>10
        <5> QED BY <4>9, <5>6, <5>9, <5>11
      <4> QED BY <4>10, <4>11
    <3> QED BY <3>9, <3>10
  <2> QED BY <2>3, <2>4
<1> QED BY <1>3, <1>4, <1>5, <1>6, <1>9, <1>10, <1>11, <1>13, <1>14, <1>15
        DEF ClientNext, AppNext, OnMessage

LEMMA ServerPipeStep ==
  ASSUME TypeOK, TypeOK', CreditInv, CloseInv, PipeInv, ServerNext,
         UNCHANGED client
  PROVE  \A id \in Ids : PipeOf(id)'
<1> SUFFICES ASSUME NEW id \in Ids PROVE PipeOf(id)'
  OBVIOUS
<1>0. /\ PipeOf(id) /\ id \in Nat /\ UNCHANGED <<wsC, cstream, nextStreamId>>
      /\ (phase[id] = "open" => id \in smap) /\ (id \in smap => phase[id] = "open")
      /\ (accepted[id] # << >> => phase[id] \in {"open", "closed"})
      /\ phase \in [Ids -> Phase] /\ smap \subseteq Ids
      /\ accepted \in [Ids -> Seq(Up)] /\ dropped \in [Ids -> Nat]
      /\ c2s \in Seq(UpPackets)
  <2>1. UNCHANGED wsC
    BY DEF ServerNext, HandlePacket, ConnectNext, StreamNext,
       Connection, SessionClose, HandleConnect, HandleData, HandleClose,
       JanitorTick, ConnectFails, Resolved, Connected, SocketData, ThrottleDone,
       SocketEnds, wire
  <2>2. CreditOf(id) /\ PipeOf(id) /\ id \in Nat
    BY DEF CreditInv, PipeInv, Ids
  <2> QED BY <2>1, <2>2
          DEF client, PipeOf, CreditOf, TypeOK, ServerTypeOK, WireTypeOK
<1>1. ASSUME accepted'[id] = accepted[id], dropped'[id] = dropped[id],
             \/ c2s' = c2s
             \/ c2s # << >> /\ c2s' = Tail(c2s) /\ ~IsData(Head(c2s), id)
             \/ c2s' = << >> /\ ~Whole(id)',
             Whole(id)' => Whole(id),
             phase'[id] = "open" => id \in smap',
             \/ phase'[id] = phase[id] \/ phase'[id] = "closed"
             \/ accepted[id] = << >>
      PROVE  PipeOf(id)'
  BY <1>0, <1>1, PipeFrame
<1>2. UNCHANGED wsS => (Whole(id)' => Whole(id))
  BY <1>0 DEF Whole
<1>3. ASSUME NEW type, Handle(type)
      PROVE  /\ Head(c2s).type = type /\ c2s # << >> /\ c2s' = Tail(c2s)
             /\ Head(c2s).id \in Ids /\ Head(c2s) \in UpPackets
             /\ type # "DATA" => ~IsData(Head(c2s), id)
  BY <1>0, <1>3, HeadTailProperties, UpPacketsTyped DEF Handle, IsData, Matches
<1>4. CASE Connection
  <2>1. UNCHANGED <<c2s, smap, phase, accepted, dropped>> /\ wsC = "connecting"
    BY <1>4 DEF Connection
  <2>2. ~Whole(id)'
    BY <1>0, <2>1 DEF Whole
  <2> QED BY <1>0, <1>1, <2>1, <2>2
<1>5. CASE SessionClose
  <2>1. /\ UNCHANGED <<accepted, dropped>> /\ c2s' = << >> /\ smap' = {}
        /\ phase' = [k \in Ids |-> IF k \in smap THEN "closed" ELSE phase[k]]
        /\ wsS' # "open"
    BY <1>5 DEF SessionClose
  <2>2. ~Whole(id)'
    BY <2>1 DEF Whole
  <2>3. phase'[id] = IF id \in smap THEN "closed" ELSE phase[id]
    BY <2>1
  <2>4. phase'[id] # "open"
    BY <1>0, <2>3
  <2> QED BY <1>1, <2>1, <2>2, <2>3, <2>4
<1>6. CASE HandleConnect
  <2> DEFINE j == Head(c2s).id
  <2>1. /\ Handle("CONNECT") /\ UNCHANGED <<wsS, smap, accepted, dropped>>
        /\ \/ phase' = [phase EXCEPT ![j] = "resolving"]
           \/ phase' = [phase EXCEPT ![j] = "closed"]
    BY <1>6 DEF HandleConnect
  <2>2. Has(c2s, "CONNECT", j) /\ j \in Ids
    BY <1>0, <1>3, <2>1, HasTail DEF Matches
  <2>3. phase[j] = "none"
    BY <2>2 DEF CreditInv, CreditOf
  <2>4. phase'[id] = phase[id] \/ (id = j /\ phase'[id] # "open")
    BY <1>0, <2>1, <2>2
  <2>5. id = j => accepted[id] = << >>
    BY <1>0, <2>3
  <2> HIDE DEF j
  <2> QED BY <1>0, <1>1, <1>2, <1>3, <2>1, <2>4, <2>5
<1>7. CASE HandleClose
  <2> DEFINE j == Head(c2s).id
  <2>1. /\ Handle("CLOSE") /\ UNCHANGED <<wsS, accepted, dropped>>
        /\ \/ UNCHANGED <<phase, smap>>
           \/ /\ phase' = [phase EXCEPT ![j] = "closed"]
              /\ smap' = smap \ {j}
    BY <1>7 DEF HandleClose
  <2>2. j \in Ids
    BY <1>3, <2>1
  <2> HIDE DEF j
  <2>3. /\ phase'[id] = phase[id] \/ phase'[id] = "closed"
        /\ phase'[id] = "open" => id \in smap'
    BY <1>0, <2>1, <2>2
  <2> QED BY <1>1, <1>2, <1>3, <2>1, <2>3
<1>8. ASSUME NEW j \in Ids, ConnectFails(j) \/ Resolved(j) \/ Connected(j)
      PROVE  PipeOf(id)'
  <2>1. /\ UNCHANGED <<c2s, wsS, accepted, dropped>>
        /\ phase[j] \in {"resolving", "connecting"}
        /\ \/ /\ phase' = [phase EXCEPT ![j] = "closed"] /\ UNCHANGED smap
           \/ /\ phase' = [phase EXCEPT ![j] = "connecting"] /\ UNCHANGED smap
           \/ /\ phase' = [phase EXCEPT ![j] = "open"] /\ smap' = smap \cup {j}
    BY <1>8 DEF ConnectFails, Resolved, Connected, wire
  <2>2. id = j => accepted[id] = << >>
    BY <1>0, <2>1
  <2>3. id # j => phase'[id] = phase[id]
    BY <1>0, <2>1
  <2>4. phase'[id] = "open" => id \in smap'
    BY <1>0, <2>1
  <2> QED BY <1>1, <1>2, <2>1, <2>2, <2>3, <2>4
<1>9. ASSUME NEW j \in Ids, SocketData(j) \/ ThrottleDone(j)
      PROVE  PipeOf(id)'
  <2>1. UNCHANGED <<c2s, wsS, accepted, dropped, phase, smap>>
    BY <1>9 DEF SocketData, ThrottleDone
  <2> QED BY <1>0, <1>1, <1>2, <2>1
<1>10. ASSUME NEW S \in SUBSET Ids, NEW reason, CloseSelf(S, reason),
              UNCHANGED <<c2s, wsS, accepted, dropped>>
       PROVE  PipeOf(id)'
  <2>1. /\ phase' = [k \in Ids |-> IF k \in S THEN "closed" ELSE phase[k]]
        /\ smap' = smap \ S
    BY <1>10 DEF CloseSelf
  <2>2. /\ phase'[id] = phase[id] \/ phase'[id] = "closed"
        /\ phase'[id] = "open" => id \in smap'
    BY <1>0, <2>1
  <2> QED BY <1>1, <1>2, <1>10, <2>2
<1>11. ASSUME NEW j \in Ids, SocketEnds(j)
       PROVE  PipeOf(id)'
  <2>1. /\ UNCHANGED <<c2s, wsS, accepted, dropped>> /\ {j} \in SUBSET Ids
        /\ \E reason \in Reason : CloseSelf({j}, reason)
    BY <1>11 DEF SocketEnds
  <2> QED BY <1>10, <2>1
<1>12. CASE JanitorTick
  <2>1. PICK S \in SUBSET smap : CloseSelf(S, "error")
    BY <1>12 DEF JanitorTick, Expirable
  <2>2. S \in SUBSET Ids /\ UNCHANGED <<c2s, wsS, accepted, dropped>>
    BY <1>0, <1>12 DEF JanitorTick
  <2> QED BY <1>10, <2>1, <2>2
<1>13. CASE HandleData
  <2> DEFINE j == Head(c2s).id
             c == Head(c2s).chunk
  <2>1. /\ Handle("DATA") /\ UNCHANGED <<wsS, phase, smap>>
        /\ \/ /\ j \in smap /\ UNCHANGED dropped
              /\ accepted' = [accepted EXCEPT ![j] = Append(accepted[j], c)]
           \/ /\ j \notin smap /\ UNCHANGED accepted
              /\ dropped' = [dropped EXCEPT ![j] = dropped[j] + 1]
    BY <1>13 DEF HandleData
  <2>2. /\ j \in Ids /\ Head(c2s).type = "DATA"
        /\ c2s # << >> /\ c2s' = Tail(c2s)
    BY <1>3, <2>1
  <2>3. CASE id # j
    <3>1. ~IsData(Head(c2s), id)
      BY <2>3 DEF IsData, Matches
    <3>2. accepted'[id] = accepted[id] /\ dropped'[id] = dropped[id]
      BY <1>0, <2>1, <2>2, <2>3
    <3> QED BY <1>0, <1>1, <1>2, <2>1, <2>2, <3>1, <3>2
  <2>4. CASE id = j
    <3> DEFINE h == Handled(id)
               w == cstream[id].written
               l == Len(cstream[id].queue)
               a == accepted[id]
    <3>1. IsData(Head(c2s), id)
      BY <2>2, <2>4 DEF IsData, Matches
    <3>2. PICK n \in h .. w : Numbered(c2s, id, h, n)
                              /\ (Whole(id) => n + l = w)
      BY <1>0 DEF PipeOf
    <3>3. a \in Seq(Up) /\ Len(a) \in Nat /\ dropped[id] \in Nat
          /\ h = Len(a) + dropped[id] /\ w \in Nat /\ l \in Nat
      <4>1. a \in Seq(Up) /\ dropped[id] \in Nat
        BY <1>0
      <4>2. w \in Nat /\ cstream[id].queue \in Seq(Up)
        BY WireAssumption DEF TypeOK, ClientTypeOK, ClientStreams
      <4> QED BY <4>1, <4>2, LenProperties DEF Handled
    <3> HIDE DEF w, l, h
    <3>4. n \in Nat /\ h \in Nat /\ h <= n /\ n <= w
      BY <3>2, <3>3
    <3>5. c = h + 1 /\ h + 1 <= n /\ Numbered(c2s', id, h + 1, n)
      BY <1>0, <2>2, <3>1, <3>2, <3>4, NumberedTail
    <3>6. ~(id >= nextStreamId)
      <4>1. c2s \in Seq(UpPackets) /\ 1 \in DOMAIN c2s /\ Head(c2s) = c2s[1]
        <5>1. Len(c2s) \in Nat \ {0} /\ DOMAIN c2s = 1 .. Len(c2s)
          BY <1>0, <2>2, EmptySeq, LenProperties
        <5> QED BY <1>0, <5>1
      <4>2. ~NothingOf(c2s, id)
        BY <2>4, <4>1 DEF NothingOf
      <4> QED BY <4>2 DEF CloseInv, CloseOf
    <3>7. ASSUME Handled(id)' = h + 1,
                 accepted'[id] # << >> =>
                   /\ phase'[id] \in {"open", "closed"}
                   /\ phase'[id] = "open" => accepted'[id][1] = dropped'[id] + 1
          PROVE  PipeOf(id)'
      <4>1. n \in h + 1 .. w /\ (Whole(id)' => n + l = w)
        BY <1>2, <2>1, <3>2, <3>4, <3>5
      <4>2. \E k \in Handled(id)' .. cstream'[id].written :
              /\ Numbered(c2s', id, Handled(id)', k)
              /\ Whole(id)' => k + Len(cstream'[id].queue) = cstream'[id].written
        BY <1>0, <3>5, <3>7, <4>1 DEF w, l
      <4>3. \A i \in DOMAIN cstream'[id].queue :
              cstream'[id].queue[i]
                = cstream'[id].written - Len(cstream'[id].queue) + i
        BY <1>0 DEF PipeOf
      <4>4. phase'[id] = "open" => id \in smap'
        BY <1>0, <2>1
      <4>5. ~(id >= nextStreamId')
        BY <1>0, <3>6
      <4> HIDE DEF a, c, j
      <4> QED BY <3>7, <4>2, <4>3, <4>4, <4>5 DEF PipeOf
    <3>8. CASE j \in smap
      <4>1. accepted'[id] = Append(a, c) /\ dropped'[id] = dropped[id]
        BY <1>0, <2>1, <2>4, <3>8
      <4>2. Len(Append(a, c)) = Len(a) + 1
            /\ Append(a, c)[1] = IF a = << >> THEN c ELSE a[1]
        <5> HIDE DEF a, c
        <5>1. c \in Up
          BY <1>3, <2>1, UpPacketsTyped DEF c
        <5>2. /\ Len(Append(a, c)) = Len(a) + 1
              /\ \A i \in 1 .. Len(a) : Append(a, c)[i] = a[i]
              /\ Append(a, c)[Len(a) + 1] = c
          BY <3>3, <5>1, AppendProperties
        <5>3. CASE a = << >>
          BY <5>2, <5>3
        <5>4. CASE a # << >>
          <6>1. 1 \in 1 .. Len(a)
            BY <3>3, <5>4, EmptySeq
          <6> QED BY <5>2, <5>4, <6>1
        <5> QED BY <5>2, <5>3, <5>4
      <4>3. Handled(id)' = h + 1
        BY <3>3, <4>1, <4>2 DEF Handled
      <4>4. phase'[id] = "open"
        BY <1>0, <2>1, <2>4, <3>8
      <4>5. a = << >> => h = dropped[id]
        BY <3>3, EmptySeq
      <4>6. a # << >> => a[1] = dropped[id] + 1
        BY <1>0, <2>1, <4>4 DEF PipeOf
      <4>7. accepted'[id][1] = dropped'[id] + 1
        <5> HIDE DEF a, c
        <5> QED BY <3>5, <4>1, <4>2, <4>5, <4>6
      <4> QED BY <3>7, <4>3, <4>4, <4>7
    <3>9. CASE j \notin smap
      <4>1. accepted'[id] = a /\ dropped'[id] = dropped[id] + 1
        BY <1>0, <2>1, <2>4, <3>9
      <4>2. Handled(id)' = h + 1
        BY <3>3, <4>1 DEF Handled
      <4>3. phase'[id] # "open" /\ phase'[id] = phase[id]
        BY <1>0, <2>1, <2>4, <3>9
      <4> QED BY <1>0, <3>7, <4>1, <4>2, <4>3
    <3> QED BY <3>8, <3>9
  <2> QED BY <2>3, <2>4
<1> QED BY <1>4, <1>5, <1>6, <1>7, <1>8, <1>9, <1>11, <1>12, <1>13
        DEF ServerNext, HandlePacket, ConnectNext, StreamNext

(* The inductive invariant of the chunks' way.                              *)
THEOREM PipeCorrect == Spec => []PipeInv
<1>1. Init => PipeInv
  BY PipeStart
<1>2. TypeOK /\ TypeOK' /\ CreditInv /\ CloseInv /\ PipeInv /\ [Next]_vars
        => PipeInv'
  <2> SUFFICES ASSUME TypeOK, TypeOK', CreditInv, CloseInv, PipeInv, [Next]_vars
               PROVE  PipeInv'
    OBVIOUS
  <2>1. CASE ClientNext /\ UNCHANGED server
    <3>1. \A id \in Ids : PipeOf(id)'
      BY <2>1, ClientPipeStep
    <3>2. ASSUME wsC' = "connecting"
          PROVE  nextStreamId' = 1
      <4>1. wsC = "connecting" /\ ~ready
        <5>1. wsC' = wsC \/ wsC' \in {"open", "closing", "closed"}
          BY <2>1 DEF ClientNext, AppNext, OnMessage, WsOpen, ReadyTimeout,
             ConnectionClose, WsClosed, ConnectTcp, Write, End, Destroy,
             RecvControlContinue, RecvData, RecvContinue, RecvClose, Receive, wire
        <5> QED BY <3>2, <5>1 DEF CloseInv
      <4>2. UNCHANGED nextStreamId
        BY <2>1, <4>1 DEF ClientNext, AppNext, OnMessage, WsOpen, ReadyTimeout,
           ConnectionClose, WsClosed, ConnectTcp, Write, End, Destroy, client,
           RecvControlContinue, RecvData, RecvContinue, RecvClose, Receive
      <4> QED BY <4>1, <4>2 DEF PipeInv
    <3> QED BY <3>1, <3>2 DEF PipeInv
  <2>2. CASE ServerNext /\ UNCHANGED client
    <3>1. UNCHANGED <<wsC, nextStreamId>>
      BY <2>2 DEF client, ServerNext, HandlePacket, ConnectNext, StreamNext,
         Connection, SessionClose, HandleConnect, HandleData, HandleClose,
         JanitorTick, ConnectFails, Resolved, Connected, SocketData, ThrottleDone,
         SocketEnds, wire
    <3>2. \A id \in Ids : PipeOf(id)'
      BY <2>2, ServerPipeStep
    <3> QED BY <3>1, <3>2 DEF PipeInv
  <2>3. CASE UNCHANGED vars
    BY <2>3 DEF vars, wire, client, server, PipeInv, PipeOf, Numbered, IsData,
                Matches, Handled, Whole
  <2> QED BY <2>1, <2>2, <2>3 DEF Next
<1> QED BY <1>1, <1>2, TypeCorrect, CreditCorrect, CloseCorrect, PTL DEF Spec

(* A step of the client that is no write writes nothing.                    *)
LEMMA OnlyWrites ==
  ASSUME TypeOK, PipeInv, ClientNext, \A j \in Ids : ~Write(j)
  PROVE  \A id \in Ids : cstream'[id].written = cstream[id].written
<1> SUFFICES ASSUME NEW id \in Ids
             PROVE  cstream'[id].written = cstream[id].written
  OBVIOUS
<1>0. /\ WireTypeOK /\ cstream \in [Ids -> ClientStreams] /\ PipeOf(id)
      /\ \A j \in Ids : cstream[j] \in ClientStreams
      /\ nextStreamId \in Nat /\ s2c \in Seq(DownPackets)
  BY WireAssumption DEF TypeOK, ClientTypeOK, WireTypeOK, PipeInv
<1>1. ASSUME NEW s \in ClientStreams
      PROVE  /\ RemoteClosed(s).written = s.written
             /\ Finished(s).written = s.written
             /\ [s EXCEPT !.ended = TRUE].written = s.written
             /\ [s EXCEPT !.destroyed = TRUE, !.closed = TRUE,
                          !.eof = TRUE].written = s.written
             /\ \A n : Drained(s, n).written = s.written
  BY DEF RemoteClosed, Finished, Drained, ClientStreams
<1>2. ASSUME NEW j \in Ids, NEW r, cstream' = [cstream EXCEPT ![j] = r],
             r.written = cstream[j].written
      PROVE  cstream'[id].written = cstream[id].written
  BY <1>0, <1>2
<1>3. CASE WsOpen \/ ReadyTimeout \/ ConnectionClose \/ RecvControlContinue \/ RecvData
  BY <1>3 DEF WsOpen, ReadyTimeout, ConnectionClose, RecvControlContinue, RecvData,
              client
<1>4. CASE WsClosed
  <2>1. cstream'[id] \in {cstream[id], RemoteClosed(cstream[id])}
    BY <1>4 DEF WsClosed
  <2> QED BY <1>0, <1>1, <2>1
<1>5. ASSUME NEW listens \in ListenChoices, ConnectTcp(listens)
      PROVE  cstream'[id].written = cstream[id].written
  <2> DEFINE k == nextStreamId
             new == NewStream(initialBuffer, wsC = "open", wsC = "open" /\ listens)
  <2>1. k \in Ids /\ cstream' = [cstream EXCEPT ![k] = new]
    BY <1>5 DEF ConnectTcp
  <2>2. new.written = 0
    BY DEF NewStream
  <2>3. cstream[k].written = 0
    <3>1. k >= nextStreamId /\ PipeOf(k)
      BY <1>0, <2>1 DEF PipeInv
    <3> QED BY <3>1 DEF PipeOf
  <2> HIDE DEF k, new
  <2> QED BY <1>2, <2>1, <2>2, <2>3
<1>6. ASSUME NEW j \in Ids, End(j) \/ Destroy(j)
      PROVE  cstream'[id].written = cstream[id].written
  <2> DEFINE s == cstream[j]
             d == [s EXCEPT !.destroyed = TRUE, !.closed = TRUE, !.eof = TRUE]
             e == [s EXCEPT !.ended = TRUE]
  <2>1. PICK r \in {Finished(s), d, e} : cstream' = [cstream EXCEPT ![j] = r]
    BY <1>6 DEF End, Destroy
  <2>2. r.written = s.written
    BY <1>0, <1>1, <2>1
  <2> HIDE DEF d, e
  <2> QED BY <1>2, <2>1, <2>2
<1>7. ASSUME NEW type, Receive(type)
      PROVE  Head(s2c) \in DownPackets /\ Head(s2c).type = type
  BY <1>0, <1>7, HeadTailProperties DEF Receive
<1>8. CASE RecvClose
  <2> DEFINE j == Head(s2c).id
  <2>1. /\ Receive("CLOSE")
        /\ \/ UNCHANGED cstream
           \/ cstream' = [cstream EXCEPT ![j] = RemoteClosed(cstream[j])]
    BY <1>8 DEF RecvClose
  <2>2. j \in Ids
    BY <1>7, <2>1, DownPacketsTyped
  <2> HIDE DEF j
  <2> QED BY <1>0, <1>1, <1>2, <2>1, <2>2
<1>9. CASE RecvContinue
  <2> DEFINE j == Head(s2c).id
             s == [cstream[j] EXCEPT !.credit = Head(s2c).remaining]
             d == Drained(s, DrainCount(s))
  <2>1. Receive("CONTINUE") /\ j # 0
    BY <1>9 DEF RecvContinue
  <2>2. j \in Ids /\ Head(s2c).remaining = Buffer /\ Buffer \in Nat
    BY <1>7, <2>1, DownPacketsTyped, WireAssumption
  <2>3. CASE UNCHANGED cstream
    BY <2>3
  <2>4. ASSUME NEW r \in {d, Finished(d)}, cstream' = [cstream EXCEPT ![j] = r]
        PROVE  cstream'[id].written = cstream[id].written
    <3>1. s \in ClientStreams /\ s.written = cstream[j].written
      BY <1>0, <2>2 DEF ClientStreams
    <3> HIDE DEF s
    <3>2. d \in ClientStreams /\ d.written = s.written
      BY <1>1, <2>2, <3>1, DrainCountBounds, DrainTyped
    <3> HIDE DEF d
    <3>3. r.written = cstream[j].written
      BY <1>1, <2>4, <3>1, <3>2
    <3> QED BY <1>2, <2>2, <2>4, <3>3
  <2>5. UNCHANGED cstream \/
        \E r \in {d, Finished(d)} : cstream' = [cstream EXCEPT ![j] = r]
    BY <1>9 DEF RecvContinue
  <2> QED BY <2>3, <2>4, <2>5
<1> QED BY <1>3, <1>4, <1>5, <1>6, <1>8, <1>9 DEF ClientNext, AppNext, OnMessage

(* The abstract pipe stutters when nothing is written and nothing handled.  *)
LEMMA PipeStutters ==
  ASSUME \A id \in Ids : cstream'[id].written = cstream[id].written,
         UNCHANGED <<accepted, dropped>>
  PROVE  UNCHANGED Pipe!pipe
BY DEF Pipe!pipe, LostPrefix

LEMMA WriteIsWrite ==
  ASSUME TypeOK, NEW j \in Ids, Write(j), UNCHANGED server
  PROVE  Pipe!Write(j)
<1> DEFINE s == cstream[j]
           q == [s EXCEPT !.written = s.written + 1,
                          !.queue = Append(@, s.written + 1)]
           w == [s EXCEPT !.written = s.written + 1]
<1>0. cstream \in [Ids -> ClientStreams] /\ s \in ClientStreams
  BY DEF TypeOK, ClientTypeOK
<1>1. /\ s.written + 1 \in Up /\ UNCHANGED <<accepted, dropped>>
      /\ \E r \in {q, w, Drained(q, 1)} : cstream' = [cstream EXCEPT ![j] = r]
  BY DEF Write, server
<1>2. /\ q.written = s.written + 1 /\ w.written = s.written + 1
      /\ Drained(q, 1).written = s.written + 1
  BY <1>0 DEF ClientStreams, Drained
<1> HIDE DEF q, w
<1>3. PICK r : cstream' = [cstream EXCEPT ![j] = r] /\ r.written = s.written + 1
  BY <1>1, <1>2
<1>4. [id \in Ids |-> cstream'[id].written]
        = [[id \in Ids |-> cstream[id].written] EXCEPT ![j] = s.written + 1]
  BY <1>0, <1>3
<1>5. s.written < MaxUp
  <2>1. s.written \in Nat /\ MaxUp \in Nat
    BY <1>0, WireAssumption DEF ClientStreams
  <2> HIDE DEF s
  <2> QED BY <1>1, <2>1 DEF Up
<1>6. UNCHANGED <<[id \in Ids |-> LostPrefix(id)], accepted>>
  BY <1>1 DEF LostPrefix
<1> QED BY <1>4, <1>5, <1>6 DEF Pipe!Write

(* A packet handled is a chunk delivered, or one more lost before the       *)
(* first, or one that nobody misses any more.                               *)
LEMMA HandleIsDeliver ==
  ASSUME TypeOK, CreditInv, PipeInv, HandleData, UNCHANGED client
  PROVE  \/ \E id \in Ids : Pipe!Deliver(id) \/ Pipe!LosePrefix(id)
         \/ UNCHANGED Pipe!pipe
<1>j. PICK j \in Ids : j = Head(c2s).id
  <2>1. c2s \in Seq(UpPackets) /\ c2s # << >>
    BY DEF TypeOK, WireTypeOK, HandleData, Handle
  <2> QED BY <2>1, HeadTailProperties, UpPacketsTyped
<1> DEFINE c == Head(c2s).chunk
           a == accepted[j]
           w == cstream[j].written
           h == Handled(j)
<1>0. /\ accepted \in [Ids -> Seq(Up)] /\ dropped \in [Ids -> Nat]
      /\ c2s \in Seq(UpPackets) /\ UNCHANGED cstream
  BY DEF TypeOK, ServerTypeOK, WireTypeOK, client
<1>1. /\ Head(c2s).type = "DATA" /\ c2s # << >>
      /\ \/ /\ j \in smap /\ UNCHANGED dropped
            /\ accepted' = [accepted EXCEPT ![j] = Append(a, c)]
         \/ /\ j \notin smap /\ UNCHANGED accepted
            /\ dropped' = [dropped EXCEPT ![j] = dropped[j] + 1]
  BY <1>j DEF HandleData, Handle
<1>2. j \in Ids /\ c \in Up /\ IsData(Head(c2s), j)
  BY <1>0, <1>1, <1>j, HeadTailProperties, UpPacketsTyped DEF IsData, Matches
<1>3. /\ a \in Seq(Up) /\ Len(a) \in Nat /\ dropped[j] \in Nat
      /\ h = Len(a) + dropped[j] /\ w \in Nat
  <2>1. a \in Seq(Up) /\ dropped[j] \in Nat
    BY <1>0, <1>2
  <2>2. w \in Nat
    BY <1>2, WireAssumption DEF TypeOK, ClientTypeOK, ClientStreams
  <2> QED BY <2>1, <2>2, LenProperties DEF Handled
<1>4. PICK n \in h .. w : Numbered(c2s, j, h, n)
  BY <1>2 DEF PipeInv, PipeOf
<1>5. c = h + 1 /\ h + 1 <= w
  <2>1. h \in Nat /\ n \in Nat /\ n <= w
    BY <1>3, <1>4
  <2>2. c = h + 1 /\ h + 1 <= n
    BY <1>0, <1>1, <1>2, <1>4, <2>1, NumberedTail
  <2> QED BY <1>3, <2>1, <2>2
<1>6. CASE j \in smap
  <2>1. phase[j] = "open"
    BY <1>2, <1>6 DEF CreditInv, CreditOf
  <2>2. a # << >> => a[1] = dropped[j] + 1
    BY <1>2, <2>1 DEF PipeInv, PipeOf
  <2>3. a = << >> => Len(a) = 0
    BY <1>3, EmptySeq
  <2>4. LostPrefix(j) = dropped[j]
    BY <1>3, <2>2 DEF LostPrefix
  <2>5. accepted' = [accepted EXCEPT ![j] = Append(a, c)] /\ UNCHANGED dropped
    BY <1>1, <1>6
  <2>6. accepted'[j] # << >> /\ accepted'[j][1] = dropped[j] + 1
    <3>1. accepted'[j] = Append(a, c)
      BY <1>0, <1>2, <2>5
    <3> HIDE DEF a, c, h, w
    <3>2. /\ Append(a, c) \in Seq(Up) /\ Len(Append(a, c)) = Len(a) + 1
          /\ \A i \in 1 .. Len(a) : Append(a, c)[i] = a[i]
          /\ Append(a, c)[Len(a) + 1] = c
      BY <1>2, <1>3, AppendProperties
    <3>3. Append(a, c) # << >>
      BY <1>3, <3>2, EmptySeq
    <3>4. CASE a = << >>
      <4>1. Append(a, c)[1] = c
        BY <2>3, <3>2, <3>4
      <4> QED BY <1>3, <1>5, <2>3, <3>1, <3>3, <3>4, <4>1
    <3>5. CASE a # << >>
      <4>1. 1 \in 1 .. Len(a)
        BY <1>3, <3>5, EmptySeq
      <4> QED BY <2>2, <3>1, <3>2, <3>3, <3>5, <4>1
    <3> QED BY <3>4, <3>5
  <2>7. \A id \in Ids : LostPrefix(id)' = LostPrefix(id)
    <3>1. LostPrefix(j)' = LostPrefix(j)
      BY <1>3, <2>4, <2>5, <2>6 DEF LostPrefix
    <3>2. ASSUME NEW id \in Ids, id # j PROVE LostPrefix(id)' = LostPrefix(id)
      <4>1. accepted'[id] = accepted[id] /\ dropped'[id] = dropped[id]
        BY <1>0, <1>2, <2>5, <3>2
      <4> QED BY <4>1 DEF LostPrefix
    <3> QED BY <3>1, <3>2
  <2>8. c = [id \in Ids |-> LostPrefix(id)][j] + Len(accepted[j]) + 1
    <3>1. [id \in Ids |-> LostPrefix(id)][j] = dropped[j]
      BY <1>2, <2>4
    <3> HIDE DEF c, h
    <3> QED BY <1>3, <1>5, <3>1 DEF a
  <2>9. c <= [id \in Ids |-> cstream[id].written][j]
    BY <1>2, <1>3, <1>5
  <2>10. Pipe!Deliver(j)
    <3> HIDE DEF c
    <3> QED BY <1>0, <2>5, <2>7, <2>8, <2>9 DEF Pipe!Deliver, a
  <2> QED BY <1>2, <2>10
<1>7. CASE j \notin smap /\ a # << >>
  <2>1. \A id \in Ids : LostPrefix(id)' = LostPrefix(id)
    BY <1>0, <1>1, <1>2, <1>7 DEF LostPrefix
  <2>2. UNCHANGED <<accepted, cstream>>
    BY <1>0, <1>1, <1>7
  <2> QED BY <2>1, <2>2 DEF Pipe!pipe
<1>8. CASE j \notin smap /\ a = << >>
  <2>1. UNCHANGED accepted /\ dropped' = [dropped EXCEPT ![j] = dropped[j] + 1]
    BY <1>1, <1>8
  <2>2. Len(a) = 0 /\ LostPrefix(j) = dropped[j] /\ LostPrefix(j)' = dropped[j] + 1
    BY <1>0, <1>2, <1>3, <1>8, <2>1, EmptySeq DEF LostPrefix
  <2>3. \A id \in Ids : id # j => LostPrefix(id)' = LostPrefix(id)
    BY <1>0, <1>2, <2>1 DEF LostPrefix
  <2>4. [id \in Ids |-> LostPrefix(id)']
          = [[id \in Ids |-> LostPrefix(id)] EXCEPT
               ![j] = [id \in Ids |-> LostPrefix(id)][j] + 1]
    <3> QED BY <1>2, <2>2, <2>3
  <2>5. [id \in Ids |-> LostPrefix(id)][j] < [id \in Ids |-> cstream[id].written][j]
    <3>1. LostPrefix(j) < w
      <4> HIDE DEF h, w
      <4> QED BY <1>3, <1>5, <2>2
    <3> QED BY <1>2, <3>1
  <2>6. Pipe!LosePrefix(j)
    <3> QED BY <1>0, <1>8, <2>1, <2>4, <2>5 DEF Pipe!LosePrefix, a
  <2> QED BY <1>2, <2>6
<1> QED BY <1>6, <1>7, <1>8

(* Whatever is lost, crossed or closed on the way, what an application's    *)
(* writes come to at the destination is what WispPipe promises.             *)
THEOREM TunnelImplementsPipe == Spec => ImplementsPipe
<1>1. Init => Pipe!Init
  BY DEF Init, ClientInit, ServerInit, NewStream, Pipe!Init, LostPrefix
<1>2. TypeOK /\ CreditInv /\ PipeInv /\ [Next]_vars => [Pipe!Next]_(Pipe!pipe)
  <2> SUFFICES ASSUME TypeOK, CreditInv, PipeInv, [Next]_vars
               PROVE  Pipe!Next \/ UNCHANGED Pipe!pipe
    OBVIOUS
  <2>1. ASSUME ClientNext, UNCHANGED server, NEW j \in Ids, Write(j)
        PROVE  Pipe!Next
    BY <2>1, WriteIsWrite DEF Pipe!Next
  <2>2. CASE ClientNext /\ UNCHANGED server /\ \A j \in Ids : ~Write(j)
    BY <2>2, OnlyWrites, PipeStutters DEF server
  <2>3. CASE HandleData /\ UNCHANGED client
    BY <2>3, HandleIsDeliver DEF Pipe!Next
  <2>4. CASE ServerNext /\ ~HandleData /\ UNCHANGED client
    <3>1. UNCHANGED <<accepted, dropped>>
      BY <2>4 DEF ServerNext, HandlePacket, ConnectNext, StreamNext,
         Connection, SessionClose, HandleConnect, HandleClose,
         JanitorTick, ConnectFails, Resolved, Connected, SocketData, ThrottleDone,
         SocketEnds
    <3> QED BY <2>4, <3>1, PipeStutters DEF client
  <2>5. CASE UNCHANGED vars
    BY <2>5, PipeStutters DEF vars, client, server
  <2> QED BY <2>1, <2>2, <2>3, <2>4, <2>5 DEF Next
<1> QED BY <1>1, <1>2, TypeCorrect, CreditCorrect, PipeCorrect, PTL
        DEF Spec, ImplementsPipe, Pipe!Spec
=============================================================================
