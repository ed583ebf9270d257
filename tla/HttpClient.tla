----------------------------- MODULE HttpClient -----------------------------
(***************************************************************************)
(* http.request in the tab (http.js, ClientRequest) and the transports it  *)
(* takes: gvisor TCP, a Wisp stream, or fetch with its fallbacks           *)
(* (transport-policy.mjs). One request; a chunk of its body is its number, *)
(* and of one size, the unit of both high-water marks. The streams of the  *)
(* browser, its fetch and the peers are external: a body that streams is   *)
(* taken chunk by chunk, or not to its end.                                *)
(***************************************************************************)
EXTENDS Integers, Sequences

CONSTANTS
  MaxChunk,        \* bound: chunks the caller writes
  MaxPiece,        \* bound: pieces of the response's body
  WriteMark,       \* _writableState.highWaterMark
  StreamMark       \* highWaterMark of the upload stream

ASSUME ClientAssumption ==
  /\ MaxChunk \in Nat /\ MaxPiece \in Nat
  /\ WriteMark \in Nat /\ StreamMark \in Nat

VARIABLES
  host,     \* what the page has: the tier, streaming uploads, http: or https:
  req,      \* the ClientRequest
  upload,   \* its ReadableStream
  net,      \* the transport: where it is, and the body the peer was given
  seen      \* history: what was written, what callers saw

clientVars == <<host, req, upload, net, seen>>

Chunks == Seq(1 .. MaxChunk)
Tiers == {"gvisor", "wisp", "fetch"}

ClientTypeOK ==
  /\ host \in [tier : Tiers, streams : BOOLEAN, post : BOOLEAN, secure : BOOLEAN]
  /\ req \in [body : Chunks, buffer : Chunks, deferred : BOOLEAN,
              started : BOOLEAN, ended : BOOLEAN, destroyed : BOOLEAN,
              timer : BOOLEAN]
  /\ upload \in [queue : Chunks, closed : BOOLEAN]
  /\ net \in [at : {"idle", "opening", "sent", "head", "over"},
              via : {"none", "gvisor", "wisp", "native", "proxy", "fallback"},
              body : Chunks, whole : BOOLEAN, pieces : 0 .. MaxPiece]
  /\ seen \in [written : Chunks, lost : BOOLEAN, read : 0 .. MaxPiece,
               answer : {"none", "response", "error"}, complete : BOOLEAN,
               timedOut : BOOLEAN]

ClientInit ==
  /\ host \in [tier : Tiers, streams : BOOLEAN, post : BOOLEAN, secure : BOOLEAN]
  /\ req = [body |-> << >>, buffer |-> << >>, deferred |-> FALSE,
            started |-> FALSE, ended |-> FALSE, destroyed |-> FALSE,
            timer |-> FALSE]
  /\ upload = [queue |-> << >>, closed |-> FALSE]
  /\ net = [at |-> "idle", via |-> "none", body |-> << >>, whole |-> FALSE,
            pieces |-> 0]
  /\ seen = [written |-> << >>, lost |-> FALSE, read |-> 0,
             answer |-> "none", complete |-> FALSE, timedOut |-> FALSE]

-----------------------------------------------------------------------------
(* Writing the body.                                                        *)

CanStream == host.streams /\ host.post

(* _startStreamingFetch, and what was buffered goes into the stream.        *)
Streaming(r) == [r EXCEPT !.started = TRUE, !.body = << >>]

(* _write: into the stream, whose callback waits while the stream is full;  *)
(* or into the body, which becomes a stream when it outgrows the mark.      *)
Written(r, u, c) ==
  IF r.started
  THEN LET q == Append(u.queue, c)
       IN  [req |-> [r EXCEPT !.deferred = Len(q) >= StreamMark],
            upload |-> [u EXCEPT !.queue = q]]
  ELSE LET b == Append(r.body, c)
           grown == [r EXCEPT !.body = b]
       IN  IF Len(b) > WriteMark /\ CanStream
           THEN [req |-> Streaming(grown), upload |-> [u EXCEPT !.queue = @ \o b]]
           ELSE [req |-> grown, upload |-> u]

Fetching == [net EXCEPT !.at = "sent", !.via = "native"]
Opened(was, now) == IF now.started /\ ~was.started THEN Fetching ELSE net

(* A chunk that is written while another waits for its callback waits too.  *)
WriteBody ==
  /\ ~req.ended /\ Len(seen.written) < MaxChunk
  /\ LET c == Len(seen.written) + 1
         now == Written(req, upload, c)
     IN  /\ seen' = [seen EXCEPT !.written = Append(@, c)]
         /\ IF req.deferred
            THEN req' = [req EXCEPT !.buffer = Append(@, c)] /\ UNCHANGED <<upload, net>>
            ELSE /\ req' = now.req /\ upload' = now.upload
                 /\ net' = Opened(req, now.req)
  /\ UNCHANGED host

(* What was buffered before flushHeaders() stays where it is, and is lost.  *)
FlushHeaders ==
  /\ ~req.started /\ CanStream /\ ~req.ended
  /\ req' = [req EXCEPT !.started = TRUE] /\ net' = Fetching
  /\ seen' = [seen EXCEPT !.lost = req.body # << >>]
  /\ UNCHANGED <<host, upload>>

(* The route of a request whose body is complete.                           *)
Routed == IF host.tier = "fetch" THEN "native" ELSE host.tier
Body == IF host.post THEN req.body ELSE << >>

(* end(chunk): the last chunk goes to the body or the stream at once, and   *)
(* the stream is closed: a chunk that still waits in the Writable is never  *)
(* pulled.                                                                  *)
End(last) ==
  /\ ~req.ended /\ (last => Len(seen.written) < MaxChunk)
  /\ LET c == IF last THEN <<Len(seen.written) + 1>> ELSE << >>
     IN  /\ seen' = [seen EXCEPT !.written = @ \o c, !.lost = @ \/ req.deferred]
         /\ IF req.started
            THEN /\ req' = [req EXCEPT !.ended = TRUE]
                 /\ upload' = [queue |-> upload.queue \o c, closed |-> TRUE]
                 /\ UNCHANGED net
            ELSE /\ req' = [req EXCEPT !.ended = TRUE, !.body = @ \o c]
                 /\ net' = [net EXCEPT !.at = "opening", !.via = Routed]
                 /\ UNCHANGED upload
  /\ UNCHANGED host

-----------------------------------------------------------------------------
(* fetch takes a chunk of the stream. Room in a stream that is not closed   *)
(* calls pull(), which calls the write's callback: the Writable goes on     *)
(* with what it holds, until the stream is full again.                      *)

Refilled(r, u) ==
  LET room == StreamMark - Len(u.queue)
      n == IF room < Len(r.buffer) THEN room ELSE Len(r.buffer)
      q == u.queue \o SubSeq(r.buffer, 1, n)
  IN  IF r.deferred /\ room > 0
      THEN [req |-> [r EXCEPT !.buffer = SubSeq(@, n + 1, Len(@)),
                              !.deferred = Len(q) >= StreamMark],
            upload |-> [u EXCEPT !.queue = q]]
      ELSE [req |-> r, upload |-> u]

\* Mutant: the writer goes on, past the chunks that wait.
PulledOnce(u) == [req |-> [req EXCEPT !.deferred = FALSE], upload |-> u]

Pulled(u) == IF u.closed THEN [req |-> req, upload |-> u] ELSE Refilled(req, u)

Take ==
  /\ req.started /\ net.at = "sent" /\ ~net.whole /\ ~req.destroyed
  /\ IF upload.queue = << >>
     THEN /\ upload.closed /\ net' = [net EXCEPT !.whole = TRUE]
          /\ UNCHANGED <<req, upload>>
     ELSE LET now == Pulled([upload EXCEPT !.queue = Tail(@)])
          IN  /\ net' = [net EXCEPT !.body = Append(@, Head(upload.queue))]
              /\ req' = now.req /\ upload' = now.upload
  /\ UNCHANGED <<host, seen>>

(* The stream is cancelled: the request is destroyed.                       *)
CancelUpload ==
  /\ req.started /\ net.at = "sent" /\ ~net.whole /\ ~req.destroyed
  /\ req' = [req EXCEPT !.destroyed = TRUE, !.timer = FALSE]
  /\ net' = [net EXCEPT !.at = "over"] /\ UNCHANGED <<host, upload, seen>>

-----------------------------------------------------------------------------
(* A body that is complete is sent whole, when the connection is there. A   *)
(* Wisp stream that a destroyed request gets is destroyed; gvisor's is      *)
(* written to; an aborted fetch is not made.                                *)

Reported == [seen EXCEPT !.answer = IF req.destroyed \/ @ = "response" THEN @ ELSE "error"]
Over == [net EXCEPT !.at = "over"]

Connected ==
  /\ net.at = "opening"
  /\ net' = IF req.destroyed /\ net.via # "gvisor" THEN Over
            ELSE [net EXCEPT !.at = "sent", !.body = Body, !.whole = TRUE]
  /\ UNCHANGED <<host, req, upload, seen>>

(* browserHttpFetch: a fetch that fails, before or after the request has    *)
(* reached the peer, is made again: through the proxy, then over a Wisp     *)
(* stream. A body of several chunks is a stream here as well, and the       *)
(* fallbacks do not take streams.                                           *)
Replayable == ~req.started /\ (Len(Body) <= 1 \/ ~host.streams)

Again(via) == [net EXCEPT !.at = "opening", !.via = via, !.body = << >>, !.whole = FALSE]

FetchFails ==
  /\ net.via \in {"native", "proxy", "fallback"} /\ net.at \in {"opening", "sent"}
  /\ \/ /\ net.via = "native" /\ Replayable /\ ~req.destroyed
        /\ net' = Again("proxy") /\ UNCHANGED <<req, seen>>
     \/ /\ net.via \in {"native", "proxy"} /\ Replayable /\ ~host.secure
        /\ ~(net.via = "native" /\ req.destroyed)
        /\ net' = Again("fallback") /\ UNCHANGED <<req, seen>>
     \/ /\ net' = Over /\ seen' = Reported /\ req' = [req EXCEPT !.timer = FALSE]
  /\ UNCHANGED <<host, upload>>

FetchAnswers ==
  /\ net.via \in {"native", "proxy", "fallback"} /\ net.at = "sent"
  /\ ~req.destroyed
  /\ net' = [net EXCEPT !.at = "head"] /\ req' = [req EXCEPT !.timer = FALSE]
  /\ seen' = [seen EXCEPT !.answer = "response"] /\ UNCHANGED <<host, upload>>

(* _wireSocketToResponse: the head is parsed when it is there in full.      *)
Socket == net.via \in {"gvisor", "wisp"}

HeadArrives ==
  /\ Socket /\ net.at = "sent" /\ net' = [net EXCEPT !.at = "head"]
  /\ req' = [req EXCEPT !.timer = FALSE]
  /\ seen' = [seen EXCEPT !.answer = "response"] /\ UNCHANGED <<host, upload>>

PieceArrives ==
  /\ net.at = "head" /\ net.pieces < MaxPiece
  /\ net' = [net EXCEPT !.pieces = @ + 1]
  /\ seen' = [seen EXCEPT !.read = @ + 1] /\ UNCHANGED <<host, req, upload>>

(* 'end' or 'close' completes the response; before the head it ends the     *)
(* request without a word.                                                  *)
ResponseEnds ==
  /\ net.at = "head" \/ (Socket /\ net.at = "sent")
  /\ net' = Over
  /\ seen' = [seen EXCEPT !.complete = net.at = "head"]
  /\ UNCHANGED <<host, req, upload>>

SocketFails ==
  /\ Socket /\ net.at \in {"opening", "sent", "head"} /\ net' = Over
  /\ seen' = [Reported EXCEPT !.complete = net.at = "head"]
  /\ req' = [req EXCEPT !.timer = FALSE] /\ UNCHANGED <<host, upload>>

(* abort() and destroy() reach a fetch; a socket goes on.                   *)
DestroyRequest ==
  /\ ~req.destroyed
  /\ req' = [req EXCEPT !.destroyed = TRUE, !.timer = FALSE]
  /\ net' = IF net.via \in {"native", "proxy", "fallback"} THEN Over ELSE net
  /\ UNCHANGED <<host, upload, seen>>

SetTimeout ==
  /\ ~req.timer /\ req' = [req EXCEPT !.timer = TRUE]
  /\ UNCHANGED <<host, upload, net, seen>>

TimerFires ==
  /\ req.timer /\ req' = [req EXCEPT !.timer = FALSE]
  /\ seen' = [seen EXCEPT !.timedOut = TRUE] /\ UNCHANGED <<host, upload, net>>

ClientNext ==
  \/ WriteBody \/ FlushHeaders \/ Take \/ CancelUpload \/ Connected
  \/ FetchFails \/ FetchAnswers \/ HeadArrives \/ PieceArrives \/ ResponseEnds
  \/ SocketFails \/ DestroyRequest \/ SetTimeout \/ TimerFires
  \/ \E last \in BOOLEAN : End(last)

ClientSpec == ClientInit /\ [][ClientNext]_clientVars

-----------------------------------------------------------------------------
(* The peer is given the chunks in the order they were written, and has all *)
(* of them when the body is complete, whether it was buffered, became a     *)
(* stream on the way, or waited for the peer: unless end() came while a     *)
(* write waited (the chunks behind it are lost), or flushHeaders() after a  *)
(* write (what was buffered is lost).                                       *)
BodyIsExact ==
  host.post /\ ~seen.lost =>
    /\ net.body = SubSeq(seen.written, 1, Len(net.body))
    /\ net.whole => net.body = seen.written
=============================================================================
