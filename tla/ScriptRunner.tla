---------------------------- MODULE ScriptRunner -----------------------------
(***************************************************************************)
(* Running a script in the page (index.js, executeCliAsync and the run by  *)
(* the JavaScript bridge it falls back to). A run puts its own console,    *)
(* process and Buffer in the place of the host's, waits for esbuild when   *)
(* the script is an ES module, waits for what the script imports, and puts *)
(* back what it found. Nothing keeps a second run from beginning while a   *)
(* first one waits. The code of a script is a call that runs to its next   *)
(* await; what it prints is left out, and what its timers do later.        *)
(***************************************************************************)
EXTENDS Integers, Sequences, SequencesExt

CONSTANTS
  Run,          \* the calls of executeCliAsync
  MaxImport     \* bound: imports

VARIABLES
  globals,      \* whose console, process and Buffer globalThis has
  importer,     \* globalThis.__memfsDynamicImport: the host's (none), or memfs
  tracked,      \* _pendingImportsForRun: the run whose set it is, or none
  useJsBridge,  \* the native main() has given up
  runs,         \* each run
  imports,      \* each import
  begun,        \* history: the runs between swap and restore, the oldest first
  overlapped,   \* history: the runs that were not alone
  crossed       \* history: a run ended before one that began in it

vars == <<globals, importer, tracked, useJsBridge, runs, imports,
          begun, overlapped, crossed>>

Host == "host"
None == "none"
Ids == 1 .. MaxImport
(* How a run ends: with 0, with 1, or with what process.exit() was given.   *)
Status == {"ok", "failed", "exited"}
Kinds == {"commonjs", "module", "awaits", "absent"}
Swapped == {"esbuild", "script", "awaiting", "draining"}
Watched == Swapped \ {"esbuild"}

TypeOK ==
  /\ globals \in {Host} \cup Run /\ importer \in {Host, "memfs"}
  /\ tracked \in {None} \cup Run /\ useJsBridge \in BOOLEAN
  /\ runs \in [Run -> [at : {"idle", "done"} \cup Swapped, kind : Kinds,
                       prev : {Host} \cup Run, prevDi : {Host, "memfs"},
                       batch : SUBSET Ids, status : Status]]
  /\ imports \in [Ids -> [at : {"none", "busy", "done", "failed"},
                          run : Run, set : {None} \cup Run]]
  /\ begun \in Seq(Run) /\ overlapped \subseteq Run /\ crossed \in BOOLEAN

Init ==
  /\ globals = Host /\ importer = Host /\ tracked = None /\ useJsBridge \in BOOLEAN
  /\ runs = [r \in Run |-> [at |-> "idle", kind |-> "absent", prev |-> Host,
                            prevDi |-> Host, batch |-> {}, status |-> "ok"]]
  /\ imports = [i \in Ids |-> [at |-> "none", run |-> CHOOSE r \in Run : TRUE, set |-> None]]
  /\ begun = << >> /\ overlapped = {} /\ crossed = FALSE

-----------------------------------------------------------------------------
(* No script's code is running: the page, or another script's, may.         *)
Quiet == \A r \in Run : runs[r].at # "script"

(* The imports in the set that is current.                                  *)
Pending == {i \in Ids : tracked # None /\ imports[i].set = tracked}

(* The script's code is called: the set, the importer and the module.       *)
Called(run, at) == [run EXCEPT !.at = at, !.prevDi = importer]

Call(r) == tracked' = r /\ importer' = "memfs"

(* A run is over: its status, the set, the importer and the globals.        *)
Over(r, status) ==
  /\ runs' = [runs EXCEPT ![r].at = "done", ![r].status = status, ![r].batch = {}]
  /\ tracked' = None /\ importer' = runs[r].prevDi /\ globals' = runs[r].prev
  /\ begun' = RemoveFirst(begun, r)
  /\ crossed' = (crossed \/ Last(begun) # r)
  /\ UNCHANGED <<useJsBridge, imports, overlapped>>

-----------------------------------------------------------------------------
(* executeCliAsync. A script with an await at its top is never the native   *)
(* main()'s; of the others main() may give a status, throw, or abort, and   *)
(* then it is not asked again.                                              *)

Bridge(r, kind) ==
  /\ useJsBridge' = TRUE
  /\ IF kind = "absent"
     THEN /\ runs' = [runs EXCEPT ![r].at = "done", ![r].status = "failed"]
          /\ UNCHANGED <<globals, importer, tracked, begun, overlapped>>
     ELSE LET run == [runs[r] EXCEPT !.kind = kind, !.prev = globals]
          IN  /\ globals' = r /\ begun' = Append(begun, r)
              /\ overlapped' = overlapped \cup
                   (IF begun = << >> THEN {} ELSE ToSet(begun) \cup {r})
              /\ IF kind = "commonjs"
                 THEN Call(r) /\ runs' = [runs EXCEPT ![r] = Called(run, "script")]
                 ELSE /\ runs' = [runs EXCEPT ![r] = [run EXCEPT !.at = "esbuild"]]
                      /\ UNCHANGED <<importer, tracked>>
  /\ UNCHANGED <<imports, crossed>>

Native(r) ==
  /\ ~useJsBridge
  /\ \E status \in Status :
       runs' = [runs EXCEPT ![r].at = "done", ![r].status = status]
  /\ UNCHANGED <<globals, importer, tracked, useJsBridge, imports,
                 begun, overlapped, crossed>>

ExecuteCliAsync(r) ==
  /\ runs[r].at = "idle" /\ Quiet
  /\ Native(r) \/ \E kind \in Kinds : Bridge(r, kind)

-----------------------------------------------------------------------------
(* executeViaBridgeAsync after its first await: esbuild has answered, or    *)
(* has refused, and then only the globals have to be put back.              *)

Transpile(r) ==
  /\ runs[r].at = "esbuild" /\ Quiet /\ Call(r)
  /\ runs' = [runs EXCEPT ![r] =
       Called(@, IF runs[r].kind = "awaits" THEN "awaiting" ELSE "script")]
  /\ UNCHANGED <<globals, useJsBridge, imports, begun, overlapped, crossed>>

\* Mutant: the answer "ESM transpile failed" leaves before the globals are put back.
RefusedAtOnce(r) ==
  /\ runs[r].at = "esbuild" /\ Quiet
  /\ runs' = [runs EXCEPT ![r].at = "done", ![r].status = "failed"]
  /\ begun' = RemoveFirst(begun, r)
  /\ UNCHANGED <<globals, importer, tracked, useJsBridge, imports, overlapped, crossed>>

Refused(r) ==
  /\ runs[r].at = "esbuild" /\ Quiet
  /\ runs' = [runs EXCEPT ![r].at = "done", ![r].status = "failed"]
  /\ globals' = runs[r].prev
  /\ begun' = RemoveFirst(begun, r)
  /\ crossed' = (crossed \/ Last(begun) # r)
  /\ UNCHANGED <<importer, tracked, useJsBridge, imports, overlapped>>

-----------------------------------------------------------------------------
(* The script. Its imports are noted in the set that is current when they   *)
(* begin, and forgotten by the set that is current when they have settled.  *)

Import(r, i) ==
  /\ runs[r].at = "script" \/ (Quiet /\ \E j \in Ids : imports[j].at = "busy" /\ imports[j].run = r)
  /\ importer = "memfs" /\ imports[i].at = "none" /\ \A j \in 1 .. i - 1 : imports[j].at # "none"
  /\ imports' = [imports EXCEPT ![i] = [at |-> "busy", run |-> r, set |-> tracked]]
  /\ UNCHANGED <<globals, importer, tracked, useJsBridge, runs, begun, overlapped, crossed>>

ImportSettles(i, at) ==
  /\ imports[i].at = "busy" /\ Quiet
  /\ imports' = [imports EXCEPT ![i].at = at,
                                ![i].set = IF @ = tracked THEN None ELSE @]
  /\ UNCHANGED <<globals, importer, tracked, useJsBridge, runs, begun, overlapped, crossed>>

(* The script waits, and goes on.                                           *)
Await(r) ==
  /\ runs[r].at = "script" /\ runs' = [runs EXCEPT ![r].at = "awaiting"]
  /\ UNCHANGED <<globals, importer, tracked, useJsBridge, imports, begun, overlapped, crossed>>

Resume(r) ==
  /\ runs[r].at = "awaiting" /\ Quiet /\ runs' = [runs EXCEPT ![r].at = "script"]
  /\ UNCHANGED <<globals, importer, tracked, useJsBridge, imports, begun, overlapped, crossed>>

(* What is pending is awaited, and again until the set is empty or gone.    *)
Drain(r) ==
  IF Pending = {} THEN Over(r, "ok")
  ELSE /\ runs' = [runs EXCEPT ![r].at = "draining", ![r].batch = Pending]
       /\ UNCHANGED <<globals, importer, tracked, useJsBridge, imports,
                      begun, overlapped, crossed>>

Return(r) == runs[r].at = "script" /\ Drain(r)
Throw(r) ==
  runs[r].at = "script" /\ \E status \in Status \ {"ok"} : Over(r, status)

Settled(r, at) == \A i \in runs[r].batch : imports[i].at \in at

\* Mutant: what is pending is awaited once.
DrainAgainOnce(r) ==
  runs[r].at = "draining" /\ Quiet /\ Settled(r, {"done"}) /\ Over(r, "ok")

DrainAgain(r) ==
  runs[r].at = "draining" /\ Quiet /\ Settled(r, {"done"}) /\ Drain(r)

DrainFails(r) ==
  /\ runs[r].at = "draining" /\ Quiet
  /\ ~Settled(r, {"none", "busy", "done"})
  /\ \E status \in Status \ {"ok"} : Over(r, status)

Next ==
  \/ \E r \in Run :
       \/ ExecuteCliAsync(r) \/ Transpile(r) \/ Refused(r)
       \/ Await(r) \/ Resume(r) \/ Return(r) \/ Throw(r)
       \/ DrainAgain(r) \/ DrainFails(r)
       \/ \E i \in Ids : Import(r, i)
  \/ \E i \in Ids, at \in {"done", "failed"} : ImportSettles(i, at)

Spec == Init /\ [][Next]_vars

-----------------------------------------------------------------------------
(* The globals are those of the last run that has begun and is not over,    *)
(* and the host's when there is none, whatever way the runs end: unless a   *)
(* run ends before one that began in it. The importer is there for the      *)
(* script's code and gone after it, as long as runs do not overlap.         *)
GlobalsComeBack ==
  /\ ~crossed => globals = IF begun = << >> THEN Host ELSE Last(begun)
  /\ overlapped = {} =>
       importer = IF \E r \in Run : runs[r].at \in Watched THEN "memfs" ELSE Host

(* A run that is over with status 0 has waited for all that it imported,    *)
(* what its imports import too, if it was alone and did not call exit().    *)
ImportsAreAwaited ==
  \A i \in Ids :
    LET r == imports[i].run
    IN  imports[i].at = "busy" /\ runs[r].at = "done" /\ r \notin overlapped
          => runs[r].status # "ok"
=============================================================================
