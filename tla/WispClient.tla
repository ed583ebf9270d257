----------------------------- MODULE WispClient -----------------------------
(***************************************************************************)
(* The browser's end of a Wisp session: WispConnection and its WispStreams *)
(* (napi-bridge/wisp-client.js), on top of the Writable of streams.js.     *)
(*                                                                         *)
(* A WispStream has at most one chunk in _sendQueue, the one whose _write  *)
(* callback has not been called; the rest wait in the Writable's buffer.   *)
(* The model keeps both as one sequence, queue, whose head is the chunk in *)
(* _sendQueue: calling that chunk's callback makes Writable hand over the  *)
(* next one at once (_clearBuffer), so the two move together.              *)
(***************************************************************************)
EXTENDS WispWire

CONSTANT ListenChoices  \* does the caller of wispConnect listen to 'error'?

ASSUME ListenAssumption == ListenChoices \subseteq BOOLEAN

VARIABLES
  ready,         \* has the promise of open() been resolved?
  connClosed,    \* WispConnection._closed
  initialBuffer, \* WispConnection._initialBuffer
  nextStreamId,  \* WispConnection._nextStreamId
  cmap,          \* keys of WispConnection._streams
  cstream,       \* the WispStream of each id
  sent,          \* history: DATA packets given to the WebSocket, per stream
  got            \* history: chunks pushed to the reader, per stream

client == <<ready, connClosed, initialBuffer, nextStreamId, cmap, cstream,
            sent, got>>

NewStream(buffer, held, listens) ==
  [held |-> held,         \* has connectTcp returned it to a caller?
   listens |-> listens,   \* is there an 'error' listener?
   credit |-> buffer,     \* _credit
   queue |-> << >>,       \* _sendQueue and the Writable's buffer
   written |-> 0,         \* chunks the caller has written
   ended |-> FALSE,       \* _writableState.ended
   closed |-> FALSE,      \* _closed
   destroyed |-> FALSE,   \* _destroyed
   eof |-> FALSE]         \* _readableState.ended

ClientStreams ==
  [held : BOOLEAN, listens : BOOLEAN, credit : Nat, queue : Seq(Up),
   written : 0 .. MaxUp, ended : BOOLEAN, closed : BOOLEAN,
   destroyed : BOOLEAN, eof : BOOLEAN]

ClientInit ==
  /\ ready = FALSE /\ connClosed = FALSE
  /\ initialBuffer = DefaultBuffer
  /\ nextStreamId = 1
  /\ cmap = {}
  /\ cstream = [id \in Ids |-> NewStream(0, FALSE, FALSE)]
  /\ sent = [id \in Ids |-> 0]
  /\ got = [id \in Ids |-> << >>]

ClientTypeOK ==
  /\ ready \in BOOLEAN /\ connClosed \in BOOLEAN
  /\ initialBuffer \in {DefaultBuffer, Buffer}
  /\ nextStreamId \in 1 .. MaxId + 1
  /\ cmap \subseteq 1 .. nextStreamId - 1
  /\ cstream \in [Ids -> ClientStreams]
  /\ sent \in [Ids -> Nat]
  /\ got \in [Ids -> Seq(Down)]

-----------------------------------------------------------------------------
(* The connection: open(), its event listeners and close().                 *)

(* 'open' *)
WsOpen ==
  /\ wsC = "connecting" /\ wsS # "none"
  /\ wsC' = "open"
  /\ UNCHANGED <<c2s, s2c, wsS, client>>

(* setTimeout(onReady, 2000), armed by 'open'. *)
ReadyTimeout ==
  /\ wsC \in {"open", "closing"} /\ ~ready
  /\ ready' = TRUE
  /\ UNCHANGED <<wire, connClosed, initialBuffer, nextStreamId, cmap, cstream,
                 sent, got>>

(* readyState becomes CLOSING: WispConnection.close() does it, and so does  *)
(* a close frame from the server, which leaves _closed alone until 'close'. *)
(* No message is dispatched afterwards.                                     *)
ConnectionClose ==
  /\ wsC \in {"connecting", "open"}
  /\ wsC' = "closing" /\ s2c' = << >>
  /\ \/ connClosed' = TRUE
     \/ wsC = "open" /\ wsS = "closed" /\ UNCHANGED connClosed
  /\ UNCHANGED <<c2s, wsS, ready, initialBuffer, nextStreamId, cmap, cstream,
                 sent, got>>

(* _onRemoteClose on a stream: EOF for the reader. It emits 'error' unless  *)
(* the close was voluntary, which throws when nobody listens.               *)
RemoteClosed(s) == [s EXCEPT !.closed = TRUE, !.eof = TRUE]

ThrowsAlways(s, reason) == ~s.closed /\ reason # "voluntary"

Throws(s, reason) == ~s.closed /\ reason # "voluntary" /\ ~s.listens

(* 'close': every stream is told, in the order of the Map (ids ascend). A   *)
(* stream that throws ends the listener: later streams are not told and the *)
(* Map is not cleared.                                                      *)
WsClosed ==
  /\ wsC # "closed"
  /\ wsC' = "closed" /\ s2c' = << >>
  /\ connClosed' = TRUE
  /\ LET told == {id \in cmap : \A j \in cmap :
                    j < id => ~Throws(cstream[j], "error")}
     IN /\ cstream' = [id \in Ids |-> IF id \in told
                                        THEN RemoteClosed(cstream[id])
                                        ELSE cstream[id]]
        /\ cmap' = IF \E id \in cmap : Throws(cstream[id], "error")
                     THEN cmap ELSE {}
  /\ UNCHANGED <<c2s, wsS, ready, initialBuffer, nextStreamId, sent, got>>

-----------------------------------------------------------------------------
(* The caller: wispConnect / connectTcp and the Duplex's write side.        *)

(* connectTcp after `await this.open()`. The stream enters the Map before   *)
(* the CONNECT is sent; if _send throws, the caller never gets the stream.  *)
ConnectTcp(listens) ==
  /\ ready /\ ~connClosed
  /\ nextStreamId \in Ids
  /\ nextStreamId' = nextStreamId + 1
  /\ cmap' = cmap \cup {nextStreamId}
  /\ cstream' = [cstream EXCEPT ![nextStreamId] =
                   NewStream(initialBuffer, wsC = "open",
                             wsC = "open" /\ listens)]
  /\ ToServer(<<Connect(nextStreamId)>>)
  /\ UNCHANGED <<s2c, wsC, wsS, ready, connClosed, initialBuffer, sent, got>>

(* _drainSendQueue: n packets leave, as far as credit and queue allow. The  *)
(* callback of the first makes Writable call _write for the next, which a   *)
(* closed stream refuses.                                                   *)
DrainCountUnchecked(s) == Len(s.queue)

DrainCount(s) ==
  LET room == IF s.credit < Len(s.queue) THEN s.credit ELSE Len(s.queue)
  IN IF s.closed /\ room > 1 THEN 1 ELSE room

DataPacketsPopped(id, s, n) ==
  [k \in 1 .. n |-> Data(id, s.queue[Len(s.queue) + 1 - k])]

DataPackets(id, s, n) == [k \in 1 .. n |-> Data(id, s.queue[k])]

DrainedForFree(s, n) == [s EXCEPT !.queue = SubSeq(@, n + 1, Len(@))]

Drained(s, n) ==
  [s EXCEPT !.credit = @ - n, !.queue = SubSeq(@, n + 1, Len(@))]

(* _sendCloseAndCleanup(0x02), the CLOSE packet it sends if it sends one.   *)
VoluntaryClose(id, s) ==
  IF s.closed THEN << >> ELSE <<Close(id, "voluntary")>>

(* write(): refused after end() or destroy(); queued behind a chunk that is *)
(* in flight; otherwise given to _write, which refuses when the stream is   *)
(* closed, keeps the chunk when there is no credit, and loses it when the   *)
(* WebSocket is not open.                                                   *)
Write(id) ==
  LET s == cstream[id]
      chunk == s.written + 1
      queued == [s EXCEPT !.written = chunk, !.queue = Append(@, chunk)]
  IN /\ s.held /\ ~s.ended /\ ~s.destroyed
     /\ chunk \in Up
     /\ IF s.queue # << >> \/ (~s.closed /\ s.credit = 0)
          THEN /\ cstream' = [cstream EXCEPT ![id] = queued]
               /\ UNCHANGED <<c2s, sent>>
          ELSE IF s.closed \/ wsC # "open"
          THEN /\ cstream' = [cstream EXCEPT ![id].written = chunk]
               /\ UNCHANGED <<c2s, sent>>
          ELSE /\ cstream' = [cstream EXCEPT ![id] = Drained(queued, 1)]
               /\ ToServer(DataPackets(id, queued, 1))
               /\ sent' = [sent EXCEPT ![id] = @ + 1]
     /\ UNCHANGED <<s2c, wsC, wsS, ready, connClosed, initialBuffer,
                    nextStreamId, cmap, got>>

(* The end of the write side once nothing is queued: _final closes the      *)
(* whole stream, and _doFinish ends the read side.                          *)
Finished(s) == [s EXCEPT !.ended = TRUE, !.closed = TRUE, !.eof = TRUE]

(* end() *)
End(id) ==
  LET s == cstream[id]
  IN /\ s.held /\ ~s.ended
     /\ IF s.queue = << >>
          THEN /\ cstream' = [cstream EXCEPT ![id] = Finished(s)]
               /\ ToServer(VoluntaryClose(id, s))
               /\ cmap' = IF s.closed THEN cmap ELSE cmap \ {id}
          ELSE /\ cstream' = [cstream EXCEPT ![id].ended = TRUE]
               /\ UNCHANGED <<c2s, cmap>>
     /\ UNCHANGED <<s2c, wsC, wsS, ready, connClosed, initialBuffer,
                    nextStreamId, sent, got>>

(* destroy() *)
Destroy(id) ==
  LET s == cstream[id]
  IN /\ s.held /\ ~s.destroyed
     /\ cstream' = [cstream EXCEPT ![id] =
                      [s EXCEPT !.destroyed = TRUE, !.closed = TRUE,
                                !.eof = TRUE]]
     /\ ToServer(VoluntaryClose(id, s))
     /\ cmap' = IF s.closed THEN cmap ELSE cmap \ {id}
     /\ UNCHANGED <<s2c, wsC, wsS, ready, connClosed, initialBuffer,
                    nextStreamId, sent, got>>

-----------------------------------------------------------------------------
(* _onMessage: one action per branch. A packet for a stream that is not in  *)
(* the Map is dropped.                                                      *)

Receive(type) ==
  /\ wsC = "open" /\ s2c # << >>
  /\ Head(s2c).type = type
  /\ s2c' = Tail(s2c)

RecvControlContinue ==
  /\ Receive("CONTINUE") /\ Head(s2c).id = 0
  /\ initialBuffer' = Head(s2c).remaining
  /\ ready' = TRUE
  /\ UNCHANGED <<c2s, wsC, wsS, connClosed, nextStreamId, cmap, cstream, sent,
                 got>>

RecvData ==
  LET id == Head(s2c).id
      pushed == id \in cmap /\ ~cstream[id].eof
  IN /\ Receive("DATA")
     /\ got' = IF pushed THEN [got EXCEPT ![id] = Append(@, Head(s2c).chunk)]
               ELSE got
     /\ UNCHANGED <<c2s, wsC, wsS, ready, connClosed, initialBuffer,
                    nextStreamId, cmap, cstream, sent>>

(* _onCredit: the new absolute count, then drain; if that empties the queue *)
(* of an ended stream, _final runs.                                         *)
RecvContinue ==
  LET id == Head(s2c).id
      s == [cstream[id] EXCEPT !.credit = Head(s2c).remaining]
      n == DrainCount(s)
      d == Drained(s, n)
      final == s.ended /\ n > 0 /\ d.queue = << >>
  IN /\ Receive("CONTINUE") /\ id # 0
     /\ IF id \notin cmap
          THEN UNCHANGED <<c2s, cmap, cstream, sent>>
          ELSE /\ cstream' = [cstream EXCEPT ![id] =
                                IF final THEN Finished(d) ELSE d]
               /\ ToServer(DataPackets(id, s, n) \o
                           IF final THEN VoluntaryClose(id, s) ELSE << >>)
               /\ cmap' = IF final /\ ~s.closed THEN cmap \ {id} ELSE cmap
               /\ sent' = [sent EXCEPT ![id] = @ + n]
     /\ UNCHANGED <<wsC, wsS, ready, connClosed, initialBuffer, nextStreamId,
                    got>>

(* A throwing _onRemoteClose skips the delete that follows it.              *)
RecvClose ==
  LET id == Head(s2c).id
  IN /\ Receive("CLOSE")
     /\ IF id \notin cmap
          THEN UNCHANGED <<cmap, cstream>>
          ELSE /\ cstream' = [cstream EXCEPT ![id] = RemoteClosed(@)]
               /\ cmap' = IF Throws(cstream[id], Head(s2c).reason)
                            THEN cmap ELSE cmap \ {id}
     /\ UNCHANGED <<c2s, wsC, wsS, ready, connClosed, initialBuffer,
                    nextStreamId, sent, got>>

-----------------------------------------------------------------------------
AppNext ==
  \/ \E listens \in ListenChoices : ConnectTcp(listens)
  \/ \E id \in Ids : Write(id) \/ End(id) \/ Destroy(id)

OnMessage == RecvControlContinue \/ RecvData \/ RecvContinue \/ RecvClose

ClientNext ==
  WsOpen \/ ReadyTimeout \/ ConnectionClose \/ WsClosed \/ AppNext \/ OnMessage
=============================================================================
