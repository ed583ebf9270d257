----------------------------- MODULE StreamPipe -----------------------------
(***************************************************************************)
(* streams.js: a Readable piped into Writables. A chunk is its number; a   *)
(* string has a length in bytes, which write() and push() count, and one in*)
(* UTF-16 units, which is taken off again. The source pushes when it likes:*)
(* chunks that _read pushes at once are pushes that follow the step that   *)
(* called _read. A destination's _write answers later, and so does _final. *)
(* Callers listen for 'error'; write callbacks do not write themselves.    *)
(***************************************************************************)
EXTENDS Integers, Sequences

CONSTANTS
  Dest,            \* Writables the source may be piped into
  HasFinal,        \* those with a _final
  MaxChunk,        \* bound: chunks the source pushes
  MaxPipes,        \* bound: calls of pipe() with one destination
  HighWaterMark,   \* of each destination
  Bytes, Units     \* the two lengths of each chunk

Chunk == 1 .. MaxChunk

ASSUME PipeAssumption ==
  /\ MaxChunk \in Nat \ {0} /\ MaxPipes \in Nat /\ HighWaterMark \in Nat
  /\ Bytes \in [Chunk -> Nat] /\ Units \in [Chunk -> Nat]
  /\ \A c \in Chunk : Units[c] <= Bytes[c]

VARIABLES
  source,   \* the Readable
  dest,     \* the Writables
  micro,    \* the microtask queue
  missed    \* history: chunks each destination was not given, or refused

pipeVars == <<source, dest, micro, missed>>

NoChunk == 0

PipeInit ==
  /\ source = [buffer |-> << >>, flowing |-> "initial", ended |-> FALSE,
               endEmitted |-> FALSE, destroyed |-> FALSE, pipes |-> {},
               pushed |-> 0]
  /\ dest = [d \in Dest |->
       [length |-> 0, writing |-> NoChunk, finalizing |-> FALSE,
        buffer |-> << >>, ended |-> FALSE, finished |-> FALSE,
        destroyed |-> FALSE, corked |-> FALSE, finalCalled |-> FALSE,
        needDrain |-> FALSE,
        taken |-> << >>,      \* history: chunks _write was given
        piped |-> 0,          \* history: calls of pipe()
        failed |-> FALSE,     \* history: has a write or _final failed?
        cut |-> FALSE]]       \* history: has the caller called end()?
  /\ micro = << >>
  /\ missed = [d \in Dest |-> {}]

PipeTypeOK ==
  /\ source \in [buffer : Seq(Chunk), flowing : {"initial", "flowing", "paused"},
                 ended : BOOLEAN, endEmitted : BOOLEAN, destroyed : BOOLEAN,
                 pipes : SUBSET Dest, pushed : 0 .. MaxChunk]
  /\ dest \in [Dest ->
       [length : Nat, writing : Chunk \cup {NoChunk}, finalizing : BOOLEAN,
        buffer : Seq(Chunk), ended : BOOLEAN, finished : BOOLEAN,
        destroyed : BOOLEAN, corked : BOOLEAN, finalCalled : BOOLEAN,
        needDrain : BOOLEAN, taken : Seq(Chunk), piped : 0 .. MaxPipes,
        failed : BOOLEAN, cut : BOOLEAN]]
  /\ micro \in Seq([type : {"flow", "error"}]
                   \cup [type : {"close"}, dest : Dest])
  /\ missed \in [Dest -> SUBSET Chunk]

Micro(type) == [type |-> type]
CloseTask(d) == [type |-> "close", dest |-> d]

-----------------------------------------------------------------------------
(* Writable.                                                                *)

Busy(w) == w.writing # NoChunk \/ w.finalizing

(* _doWrite up to the call of _write.                                       *)
Give(w, c) == [w EXCEPT !.writing = c, !.taken = Append(@, c)]

(* write(): given to _write, or queued behind the chunk that is; FALSE asks *)
(* the caller to wait for 'drain'.                                          *)
Refuses(w) == w.ended \/ w.destroyed

\* Mutant: only queued chunks are counted.
WrittenUncounted(w, c) ==
  IF Refuses(w) THEN w
  ELSE IF w.corked \/ Busy(w)
  THEN [w EXCEPT !.buffer = Append(@, c), !.length = @ + Bytes[c],
                 !.needDrain = @ \/ w.length + Bytes[c] >= HighWaterMark]
  ELSE Give(w, c)

Written(w, c) ==
  LET length == w.length + Bytes[c]
      counted == [w EXCEPT !.length = length,
                           !.needDrain = @ \/ length >= HighWaterMark]
  IN IF Refuses(w) THEN w
     ELSE IF w.corked \/ Busy(w) THEN [counted EXCEPT !.buffer = Append(@, c)]
     ELSE Give(counted, c)

\* Mutant: write() asks nobody to wait.
MoreWelcomeAlways(w, c) == ~Refuses(w)

MoreWelcome(w, c) == ~Refuses(w) /\ w.length + Bytes[c] < HighWaterMark

\* Mutant: the newest chunk first.
ClearedNewest(w) ==
  LET n == Len(w.buffer)
  IN IF Busy(w) \/ n = 0 THEN w
     ELSE Give([w EXCEPT !.buffer = SubSeq(@, 1, n - 1)], w.buffer[n])

(* _clearBuffer: the next queued chunk.                                     *)
Cleared(w) ==
  IF Busy(w) \/ w.buffer = << >> THEN w
  ELSE Give([w EXCEPT !.buffer = Tail(@)], Head(w.buffer))

\* Mutant: end() during a write finishes at once.
FinishMaybeBusy(d, w) ==
  IF ~w.ended \/ w.finished \/ w.buffer # << >> THEN w
  ELSE [w EXCEPT !.finished = TRUE]

(* _finishMaybe and _doFinish: _final first, once, if there is one. (That   *)
(* 'finish' is emitted a microtask later changes nothing here.)             *)
FinishMaybe(d, w) ==
  IF ~w.ended \/ w.finished \/ Busy(w) \/ w.buffer # << >> THEN w
  ELSE IF d \in HasFinal /\ ~w.finalCalled
  THEN [w EXCEPT !.finalCalled = TRUE, !.finalizing = TRUE]
  ELSE [w EXCEPT !.finished = TRUE]

(* end()                                                                    *)
Ended(d, w) == FinishMaybe(d, [w EXCEPT !.ended = TRUE])

-----------------------------------------------------------------------------
(* Readable, on a state of the source, the destinations and the microtasks. *)

State == [s |-> source, w |-> dest, queue |-> micro, missed |-> missed]

Turns(t) ==
  /\ source' = t.s /\ dest' = t.w /\ micro' = t.queue /\ missed' = t.missed

(* resume(): the flow is taken up by a later microtask.                     *)
Resumed(t) ==
  IF t.s.flowing = "flowing" THEN t
  ELSE [t EXCEPT !.s.flowing = "flowing", !.queue = Append(@, Micro("flow"))]

(* emit('data'): each pipe writes, and pauses the source when told to wait. *)
EmitChunk(t) ==
  LET c == Head(t.s.buffer)
  IN [t EXCEPT
       !.s.buffer = Tail(@),
       !.s.flowing = IF \A d \in t.s.pipes : MoreWelcome(t.w[d], c)
                       THEN @ ELSE "paused",
       !.w = [d \in Dest |-> IF d \in t.s.pipes THEN Written(@[d], c) ELSE @[d]],
       !.missed = [d \in Dest |->
         IF d \notin t.s.pipes \/ Refuses(t.w[d]) THEN @[d] \cup {c} ELSE @[d]]]

(* _maybeEnd: 'end' ends the destinations.                                  *)
MaybeEnd(t) ==
  IF ~t.s.ended \/ t.s.buffer # << >> \/ t.s.endEmitted THEN t
  ELSE [t EXCEPT
         !.s.endEmitted = TRUE,
         !.w = [d \in Dest |-> IF d \in t.s.pipes THEN Ended(d, @[d]) ELSE @[d]]]

(* _emitData: chunks, until a listener pauses or none is left.              *)
EmitNext(t) == IF t.s.flowing = "flowing" THEN EmitChunk(t) ELSE t

EmitData(t) ==
  LET n == Len(t.s.buffer)
      after[k \in 0 .. n] == IF k = 0 THEN t ELSE EmitNext(after[k - 1])
  IN MaybeEnd(after[n])

(* push(chunk) and push(null)                                               *)
Push ==
  LET c == source.pushed + 1
      t == [State EXCEPT !.s.buffer = Append(@, c), !.s.pushed = c]
  IN /\ ~source.ended /\ c \in Chunk
     /\ Turns(IF source.flowing = "flowing" THEN EmitData(t) ELSE t)

PushNull ==
  /\ ~source.ended
  /\ Turns(MaybeEnd([State EXCEPT !.s.ended = TRUE]))

(* pipe(): adding the 'data' listener resumes the source.                   *)
Pipe(d) ==
  /\ d \notin source.pipes /\ dest[d].piped < MaxPipes
  /\ Turns(Resumed([State EXCEPT !.s.pipes = @ \cup {d},
                                   !.w[d].piped = @ + 1]))

(* unpipe(dest): its listeners go, and the source keeps flowing.            *)
Unpiped(t, S) == [t EXCEPT !.s.pipes = @ \ S]

Unpipe(d) ==
  /\ d \in source.pipes
  /\ Turns(Unpiped(State, {d}))

(* Readable.destroy, with an error or not; with one the pipes are undone.   *)
SourceDestroy ==
  /\ ~source.destroyed
  /\ \E queued \in {<< >>, << Micro("error") >>} :
       Turns([State EXCEPT !.s.destroyed = TRUE, !.s.ended = TRUE,
                             !.queue = @ \o queued])

-----------------------------------------------------------------------------
\* Mutant: what was written is still counted.
AnsweredUncounted(w) == [w EXCEPT !.writing = NoChunk]

(* The callback of _write.                                                  *)
Answered(w) ==
  [w EXCEPT !.length = @ - Units[w.writing], !.writing = NoChunk]

\* Mutant: an end() that had to wait is forgotten.
ContinuedOnly(d, w) ==
  IF w.buffer # << >> /\ ~w.corked THEN Cleared(w) ELSE w

Continued(d, w) ==
  IF w.buffer # << >> /\ ~w.corked THEN Cleared(w) ELSE FinishMaybe(d, w)

\* Mutant: the pipe does not listen to 'drain'.
DrainUnheard(t, d) ==
  LET w == t.w[d]
  IN IF ~w.needDrain \/ w.length >= HighWaterMark THEN t
     ELSE [t EXCEPT !.w[d].needDrain = FALSE]

(* 'drain' resumes the source of a pipe.                                    *)
Drain(t, d) ==
  LET w == t.w[d]
      drained == [t EXCEPT !.w[d].needDrain = FALSE]
  IN IF ~w.needDrain \/ w.length >= HighWaterMark THEN t
     ELSE IF d \in t.s.pipes THEN Resumed(drained) ELSE drained

SinkDone(d) ==
  /\ dest[d].writing # NoChunk
  /\ Turns(Drain([State EXCEPT !.w[d] = Continued(d, Answered(@))], d))

(* ... with an error: the queue is left as it is.                           *)
SinkFails(d) ==
  /\ dest[d].writing # NoChunk
  /\ Turns([State EXCEPT !.w[d] = [Answered(@) EXCEPT !.failed = TRUE]])

(* The callback of _final.                                                  *)
FinalDone(d) ==
  /\ dest[d].finalizing
  /\ Turns([State EXCEPT !.w[d].finalizing = FALSE, !.w[d].finished = TRUE])

FinalFails(d) ==
  /\ dest[d].finalizing
  /\ Turns([State EXCEPT !.w[d].finalizing = FALSE, !.w[d].failed = TRUE])

Cork(d) ==
  /\ ~dest[d].corked
  /\ Turns([State EXCEPT !.w[d].corked = TRUE])

Uncork(d) ==
  /\ dest[d].corked
  /\ Turns([State EXCEPT !.w[d] = Cleared([@ EXCEPT !.corked = FALSE])])

(* A caller's own end() and destroy().                                      *)
End(d) ==
  /\ ~dest[d].cut
  /\ Turns([State EXCEPT !.w[d] = [Ended(d, @) EXCEPT !.cut = TRUE]])

Destroy(d) ==
  /\ ~dest[d].destroyed
  /\ Turns([State EXCEPT !.w[d].destroyed = TRUE,
                           !.queue = Append(@, CloseTask(d))])

-----------------------------------------------------------------------------
(* One microtask: a deferred flow, the source's 'error', or a 'close'.      *)
RunMicrotask ==
  /\ micro # << >>
  /\ LET task == Head(micro)
         t == [State EXCEPT !.queue = Tail(micro)]
     IN \/ /\ task.type = "flow"
           /\ Turns(IF source.flowing = "flowing" THEN EmitData(t) ELSE t)
        \/ task.type = "error" /\ Turns(Unpiped(t, Dest))
        \/ task.type = "close" /\ Turns(Unpiped(t, {task.dest}))

SinkNext(d) == SinkDone(d) \/ SinkFails(d) \/ FinalDone(d) \/ FinalFails(d)

WriterNext(d) ==
  Pipe(d) \/ Unpipe(d) \/ Cork(d) \/ Uncork(d) \/ End(d) \/ Destroy(d)

PipeNext ==
  \/ Push \/ PushNull \/ SourceDestroy \/ RunMicrotask
  \/ \E d \in Dest : SinkNext(d) \/ WriterNext(d)

PipeSpec == PipeInit /\ [][PipeNext]_pipeVars

(* Microtasks run, a destination answers, and who corks uncorks.            *)
PipeFairness ==
  /\ WF_pipeVars(RunMicrotask)
  /\ \A d \in Dest : WF_pipeVars(SinkNext(d)) /\ WF_pipeVars(Uncork(d))

PipeFairSpec == PipeSpec /\ PipeFairness

-----------------------------------------------------------------------------
(* A pipe's destination is given the source's chunks in order, and all those*)
(* it was offered while it was piped and accepted writes, whatever paused,  *)
(* queued, corked, unpiped and piped again meanwhile - until a write fails. *)
Accepted(w) == w.taken \o w.buffer

InOrder(d) ==
  LET a == Accepted(dest[d])
      given == {a[i] : i \in DOMAIN a}
  IN /\ \A i, j \in DOMAIN a : i < j => a[i] < a[j]
     /\ given \cup missed[d] = 1 .. source.pushed - Len(source.buffer)
     /\ given \cap missed[d] = {}

(* A destination finishes when everything it accepted has been written, and *)
(* if it was the end of the source that ended it, the source has delivered  *)
(* everything it was asked to (end() is called in the middle of a write, of *)
(* a cork, of a pause).                                                     *)
FinishIsComplete(d) ==
  dest[d].finished =>
    /\ dest[d].buffer = << >> /\ ~Busy(dest[d])
    /\ ~dest[d].cut => source.endEmitted /\ source.buffer = << >>

(* No chunk is lost, repeated or overtaken on the way through a pipe to its *)
(* destination's finish.                                                    *)
PipeInOrder ==
  \A d \in Dest : (~dest[d].failed => InOrder(d)) /\ FinishIsComplete(d)

(* Backpressure (streams.js, line 7): a destination holds less than its     *)
(* high-water mark and one more chunk, and one for each further pipe() that *)
(* resumed the source while it was full.                                    *)
MaxBytes == CHOOSE n \in {Bytes[c] : c \in Chunk} :
              \A c \in Chunk : Bytes[c] <= n

BufferBounded(d) ==
  dest[d].length <= HighWaterMark - 1 + MaxBytes * dest[d].piped

(* A pipe pauses its source only while the destination asks for it: no      *)
(* missed 'drain' leaves both waiting for each other.                       *)
PausedForAReason(d) ==
  d \in source.pipes /\ source.flowing = "paused" /\ ~Refuses(dest[d]) =>
    dest[d].needDrain

(* Whoever was told to wait (write() returned FALSE) has a 'drain' coming:  *)
(* a chunk is being written or is queued, until a write fails.              *)
EveryDrainComes ==
  \A d \in Dest :
    dest[d].needDrain /\ ~dest[d].failed =>
      Busy(dest[d]) \/ dest[d].buffer # << >>

(* Whoever waits, or holds much, does so for a reason that will pass.       *)
DrainIsComing ==
  EveryDrainComes /\ \A d \in Dest : PausedForAReason(d) /\ BufferBounded(d)

(* A source that has ended and is not destroyed carries a pipe to its end,  *)
(* unless the caller or a failing write comes in between.                   *)
Disturbed(d) ==
  \/ dest[d].failed \/ dest[d].cut \/ dest[d].destroyed
  \/ d \notin source.pipes \/ source.destroyed

PipeFinishes ==
  \A d \in Dest :
    (source.ended /\ ~source.endEmitted)
      ~> (dest[d].finished \/ Disturbed(d))
=============================================================================
