----------------------------- MODULE StreamChain -----------------------------
(***************************************************************************)
(* pipeline(source, transform, sink, callback) and finished(transform, ..) *)
(* over streams.js. The chunks are numbers; the source, the transform and  *)
(* the sink's _write answer when they like. Each pipe calls write of the   *)
(* next stream while 'data' is emitted. The highWaterMarks are far away    *)
(* (StreamPipe is about them), so that each stream keeps flowing.          *)
(***************************************************************************)
EXTENDS Naturals, Sequences

CONSTANTS MaxChunk   \* chunks of the source

VARIABLES
  next,        \* the next chunk of the source
  sourceEnded, \* whether the source pushed null
  gone,        \* streams that are destroyed: "source", "transform", "sink"
  piped,       \* pipes there still are: "first" and "second"
  paused,      \* "source" and "transform", paused by a pipe
  held,        \* of these, the ones with a chunk that was not emitted
  queue,       \* for "transform" and "sink": chunks that wait to be written
  writing,     \* for both: "no", "chunk" or "final"
  chunk,       \* for both: the chunk in _write
  ended,       \* for both: whether end() was called
  finished,    \* for both: writableFinished
  readEnded,   \* the transform pushed null, or was destroyed
  endEmitted,
  passed,      \* what the transform pushed on (history)
  written,     \* what the sink's _write did (history)
  error,       \* pipeline's error: "none" or the stream it came from
  told,        \* what the callback of pipeline was called with
  onFinished,  \* what the callback of finished was called with, "none" before
  micro        \* microtasks: <<stream, event>>

sourceVars == <<next, sourceEnded>>
writeVars == <<queue, writing, chunk, ended, finished, written>>
readVars == <<readEnded, endEmitted, passed>>
chainVars == <<gone, piped, paused, held, error, told, onFinished>>
vars == <<sourceVars, writeVars, readVars, chainVars, micro>>

Stream == {"source", "transform", "sink"}
Written == {"transform", "sink"}
Chunk == 1 .. MaxChunk

Init ==
  /\ next = 1 /\ sourceEnded = FALSE
  /\ gone = {} /\ piped = {"first", "second"} /\ paused = {} /\ held = {}
  /\ queue = [s \in Written |-> << >>]
  /\ writing = [s \in Written |-> "no"]
  /\ chunk = [s \in Written |-> 0]
  /\ ended = [s \in Written |-> FALSE]
  /\ finished = [s \in Written |-> FALSE]
  /\ readEnded = FALSE /\ endEmitted = FALSE
  /\ passed = << >> /\ written = << >>
  /\ error = "none" /\ told = << >> /\ onFinished = "none"
  /\ micro = {}

TypeOK ==
  /\ next \in 1 .. MaxChunk + 1 /\ sourceEnded \in BOOLEAN
  /\ gone \subseteq Stream /\ piped \subseteq {"first", "second"}
  /\ held \subseteq paused /\ paused \subseteq {"source", "transform"}
  /\ queue \in [Written -> Seq(Chunk)]
  /\ writing \in [Written -> {"no", "chunk", "final"}]
  /\ chunk \in [Written -> 0 .. MaxChunk]
  /\ {ended, finished} \subseteq [Written -> BOOLEAN]
  /\ {readEnded, endEmitted} \subseteq BOOLEAN
  /\ passed \in Seq(Chunk) /\ written \in Seq(Chunk)
  /\ error \in Stream \cup {"none"}
  /\ told \in Seq({"ok", "error"})
  /\ onFinished \in {"none", "ok", "error", "premature"}
  /\ micro \subseteq Stream \X {"finish", "close"}

-----------------------------------------------------------------------------
(* write and end of a stream, as a record of what they change.              *)
State(s) == [queue |-> queue[s], writing |-> writing[s], chunk |-> chunk[s],
             ended |-> ended[s], finished |-> finished[s]]

(* write(): in _write at once, or behind what waits.                        *)
Write(st, c) ==
  IF st.writing = "no" THEN [st EXCEPT !.writing = "chunk", !.chunk = c]
  ELSE [st EXCEPT !.queue = Append(@, c)]

\* Mutant: _final runs while a chunk is written.
FinishMaybeBusy(st) ==
  IF st.ended /\ ~st.finished /\ st.queue = << >> THEN [st EXCEPT !.writing = "final"] ELSE st

(* _finishMaybe: _final, once nothing is written and nothing waits.         *)
FinishMaybe(st) ==
  IF st.ended /\ ~st.finished /\ st.writing = "no" /\ st.queue = << >>
  THEN [st EXCEPT !.writing = "final"] ELSE st

End(st) == FinishMaybe([st EXCEPT !.ended = TRUE])

(* The callback of _write: the next chunk that waits, or the end.           *)
Answer(st) ==
  LET free == [st EXCEPT !.writing = "no", !.chunk = 0]
  IN IF free.queue # << >>
     THEN [free EXCEPT !.queue = Tail(@), !.writing = "chunk", !.chunk = Head(free.queue)]
     ELSE FinishMaybe(free)

Becomes(t, s) ==
  /\ queue' = [transform |-> t.queue, sink |-> s.queue]
  /\ writing' = [transform |-> t.writing, sink |-> s.writing]
  /\ chunk' = [transform |-> t.chunk, sink |-> s.chunk]
  /\ ended' = [transform |-> t.ended, sink |-> s.ended]
  /\ finished' = [transform |-> t.finished, sink |-> s.finished]

Done(what) == onFinished' = IF onFinished = "none" THEN what ELSE onFinished

-----------------------------------------------------------------------------
(* push(c): the pipe to a stream writes it there; a stream that is          *)
(* destroyed refuses, which pauses the pipe's source, and from then on the  *)
(* source keeps what it pushes.                                             *)
Received(from, to, pipe, c) ==
  IF from \notin paused /\ pipe \in piped /\ to \notin gone THEN Write(State(to), c)
  ELSE State(to)

Emit(from, to, pipe) ==
  /\ held' = IF from \in paused THEN held \cup {from} ELSE held
  /\ paused' = IF pipe \in piped /\ to \in gone THEN paused \cup {from} ELSE paused

(* 'end', once nothing is kept: the pipe ends the next stream.              *)
EndOf(from, to, pipe) ==
  IF pipe \in piped /\ from \notin held THEN End(State(to)) ELSE State(to)

SourcePush ==
  /\ next <= MaxChunk /\ ~sourceEnded /\ "source" \notin gone
  /\ next' = next + 1
  /\ Emit("source", "transform", "first")
  /\ Becomes(Received("source", "transform", "first", next), State("sink"))
  /\ UNCHANGED <<sourceEnded, written, readVars, gone, piped, error, told, onFinished, micro>>

SourceEnd ==
  /\ ~sourceEnded /\ "source" \notin gone
  /\ sourceEnded' = TRUE
  /\ Becomes(EndOf("source", "transform", "first"), State("sink"))
  /\ UNCHANGED <<next, written, readVars, chainVars, micro>>

(* _transform answers, with a chunk or without one. Its push does nothing   *)
(* after an end.                                                            *)
Transformed(keeps) ==
  /\ writing.transform = "chunk"
  /\ LET c == chunk.transform
     IN IF keeps /\ ~readEnded
        THEN /\ passed' = Append(passed, c)
             /\ Emit("transform", "sink", "second")
             /\ Becomes(Answer(State("transform")),
                        Received("transform", "sink", "second", c))
        ELSE Becomes(Answer(State("transform")), State("sink")) /\ UNCHANGED <<passed, paused, held>>
  /\ UNCHANGED <<sourceVars, written, readEnded, endEmitted, gone, piped, error, told,
                 onFinished, micro>>

(* _flush answers: push(null), so that 'end' is emitted and the sink ended, *)
(* and the transform has finished; 'finish' follows in a microtask.         *)
Flushed ==
  /\ writing.transform = "final"
  /\ Becomes([State("transform") EXCEPT !.writing = "no", !.finished = TRUE],
             IF readEnded THEN State("sink") ELSE EndOf("transform", "sink", "second"))
  /\ readEnded' = TRUE
  /\ IF readEnded \/ "transform" \in held THEN UNCHANGED <<onFinished, endEmitted>>
     ELSE endEmitted' = TRUE /\ Done("ok")
  /\ micro' = micro \cup {<<"transform", "finish">>}
  /\ UNCHANGED <<sourceVars, written, passed, gone, piped, paused, held, error, told>>

SinkWrote ==
  /\ writing.sink = "chunk"
  /\ written' = Append(written, chunk.sink)
  /\ Becomes(State("transform"), Answer(State("sink")))
  /\ UNCHANGED <<sourceVars, readVars, chainVars, micro>>

SinkFinal ==
  /\ writing.sink = "final"
  /\ Becomes(State("transform"), [State("sink") EXCEPT !.writing = "no", !.finished = TRUE])
  /\ micro' = micro \cup {<<"sink", "finish">>}
  /\ UNCHANGED <<sourceVars, written, readVars, chainVars>>

-----------------------------------------------------------------------------
\* Mutant: each error is an error of the pipeline.
OnErrorAlways(s) ==
  /\ error' = s
  /\ told' = Append(told, "error")
  /\ gone' = Stream
  /\ micro' = micro \cup {<<d, "close">> : d \in Stream \ gone}
  /\ readEnded' = TRUE
  /\ piped' = IF s = "source" THEN piped \ {"first"}
              ELSE IF s = "transform" THEN piped \ {"second"} ELSE piped

(* onError of pipeline: the first error destroys all streams and is told.   *)
(* The pipe whose source it is goes.                                        *)
OnError(s) ==
  /\ IF error # "none" THEN UNCHANGED <<error, told, gone, micro, readEnded>>
     ELSE /\ error' = s
          /\ told' = Append(told, "error")
          /\ gone' = Stream
          /\ micro' = micro \cup {<<d, "close">> : d \in Stream \ gone}
          /\ readEnded' = TRUE
  /\ piped' = IF s = "source" THEN piped \ {"first"}
              ELSE IF s = "transform" THEN piped \ {"second"} ELSE piped

SourceError ==
  /\ "source" \notin gone
  /\ OnError("source")
  /\ UNCHANGED <<sourceVars, writeVars, endEmitted, passed, paused, held, onFinished>>

(* _transform, _flush, _write or _final of a stream fails: 'error', and the *)
(* chunks that wait stay where they are.                                    *)
Fails(s) ==
  /\ writing[s] # "no"
  /\ writing' = [writing EXCEPT ![s] = "no"]
  /\ chunk' = [chunk EXCEPT ![s] = 0]
  /\ OnError(s)
  /\ IF s = "transform" THEN Done("error") ELSE UNCHANGED onFinished
  /\ UNCHANGED <<sourceVars, queue, ended, finished, written, endEmitted, passed,
                 paused, held>>

(* An owner destroys one stream: 'close', and no 'error'.                   *)
Destroy(s) ==
  /\ s \notin gone
  /\ gone' = gone \cup {s}
  /\ micro' = micro \cup {<<s, "close">>}
  /\ readEnded' = (readEnded \/ s = "transform")
  /\ UNCHANGED <<sourceVars, writeVars, endEmitted, passed, piped, paused, held,
                 error, told, onFinished>>

(* 'finish' of the sink is success, unless there was an error.              *)
Finish(s) ==
  /\ <<s, "finish">> \in micro
  /\ micro' = micro \ {<<s, "finish">>}
  /\ told' = IF s = "sink" /\ error = "none" THEN Append(told, "ok") ELSE told
  /\ IF s = "transform" THEN Done("ok") ELSE UNCHANGED onFinished
  /\ UNCHANGED <<sourceVars, writeVars, readVars, gone, piped, paused, held, error>>

(* 'close' of a stream takes down the pipe into it; finished() asks whether *)
(* the transform had ended.                                                 *)
Close(s) ==
  /\ <<s, "close">> \in micro
  /\ micro' = micro \ {<<s, "close">>}
  /\ piped' = IF s = "transform" THEN piped \ {"first"}
              ELSE IF s = "sink" THEN piped \ {"second"} ELSE piped
  /\ IF s # "transform" THEN UNCHANGED onFinished
     ELSE Done(IF endEmitted /\ finished.transform THEN "ok" ELSE "premature")
  /\ UNCHANGED <<sourceVars, writeVars, readVars, gone, paused, held, error, told>>

Next ==
  \/ SourcePush \/ SourceEnd \/ SourceError
  \/ \E keeps \in BOOLEAN : Transformed(keeps)
  \/ Flushed \/ SinkWrote \/ SinkFinal
  \/ \E s \in Written : Fails(s)
  \/ \E s \in Stream : Destroy(s) \/ Finish(s) \/ Close(s)

Spec == Init /\ [][Next]_vars

-----------------------------------------------------------------------------
(* pipeline's callback hears of success when the sink wrote all that the    *)
(* transform passed on, of all that the source pushed, unless an owner      *)
(* destroyed a stream. It hears once, but of an error that comes after      *)
(* success as well (streams.js, line 777).                                  *)
PipelineIsTrue ==
  /\ (told = <<"ok">> /\ gone = {}) =>
       /\ written = passed /\ queue.sink = << >>
       /\ sourceEnded /\ queue.transform = << >>
  /\ told \in {<< >>, <<"ok">>, <<"error">>, <<"ok", "error">>}

(* What the sink writes is what the transform passed on, in its order, with *)
(* nothing left out, whatever is destroyed in between.                      *)
ChainInOrder ==
  \E n \in 0 .. Len(passed) : written = SubSeq(passed, 1, n)

(* finished() of the transform says ok only when it took all it was given.  *)
FinishedIsTrue ==
  onFinished = "ok" => queue.transform = << >> /\ writing.transform # "chunk"
=============================================================================
