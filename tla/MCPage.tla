------------------------------- MODULE MCPage -------------------------------
(***************************************************************************)
(* Small instances of the parts of the runtime in the page: native code's  *)
(* bridge, the session, npm, files, modules, scripts, the terminal, events *)
(* and pipelines.                                                          *)
(* They share no state: the run takes each of them in turn, and its states *)
(* are the sum, not the product, of theirs. The handles are those of       *)
(* NapiHandles: two values that may be exchanged, and the depths at which  *)
(* JavaScript calls into native code. Before the program runs only the     *)
(* root scope is open; invokeMain (index.js, line 4074) opens another. The *)
(* session is that of PageSession: two tabs that share two saves, one edit *)
(* and two pages.                                                          *)
(***************************************************************************)
EXTENDS NapiHandles, PageSession, TLC

CONSTANTS v1, v2, t1, t2, Instances

VARIABLES part,
  \* The files, npm, modules and scripts.
  deps, files, specs, installed, stack, store, bad, puts, limited, spent, disturbed, crowded,
  inodes, fdTable, replica, ideal, apart, orphaned, tree, did,
  file, absent, moduleCache, imported, loads, loadStack, unseen, reentered,
  globals, importer, tracked, useJsBridge, runs, imports, begun, overlapped, crossed,
  where, mode, prev, dirs, load, script, scripts, run, detoured, cut, bundled, found,
  \* The terminal.
  autorun, stage, shell, keys, runCounter, lastExitCode, exitCode, resolver, listener,
  app, byBoot, wait, said, polled,
  \* Native code's bridge.
  names, meta, js, region, answer, stale, tainted,
  prop, frozen, calls, inside, thrownBy, answered,
  read, inString, templateDepth, inComment, escaped, keywords, classified, within, braces,
  expected, astray, compiled, scopeDepth, dynamic, opened, leaked, rejected,
  source, string, kind, length, size, buffer, written,
  called, infos, callFrames, argv, refused, envs, activeEnv, scopes, hooks, deferred,
  promise, accepted, passed, released,
  hostFailed, ran, effects, fellBack, microtasks, suspended, awaiting, scheduled,
  printed, shown,
  \* Events and pipelines.
  arrays, current, watched, emits, added, registered, heard, nested,
  chunks, sourceEnded, gone, piped, paused, corked, queue, writing, chunk, ended, finished,
  readEnded, endEmitted, through, sunk, error, told, onFinished, micro,
  ofError, signal, emitted, failed, owed, onceHears, first, iterates, hears, unconsumed,
  waiting, kept, answers, from, to

TwoValues == {v1, v2}
TwoTabs == {t1, t2}
ValueSymmetry == Permutations(TwoValues)

AtRoot == {1}
AtAnyDepth == 1 .. MaxDepth

npmVars == <<deps, files, specs, installed, stack, store, bad, puts, limited, spent,
             disturbed, crowded>>
fsVars == <<inodes, fdTable, replica, ideal, apart, orphaned>>
commandVars == <<tree, did>>
loaderVars == <<file, absent, moduleCache, imported, loads, loadStack, unseen, reentered>>
runnerVars == <<globals, importer, tracked, useJsBridge, runs, imports, begun,
                overlapped, crossed>>
resolverVars == <<where, mode, prev, dirs, load, script, scripts, run, detoured, cut,
                  bundled, found>>
terminalVars == <<autorun, stage, shell, keys, runCounter, lastExitCode, exitCode,
                  resolver, listener, app, byBoot, wait, said, polled>>
bufferVars == <<names, meta, js, region, answer, stale, tainted>>
objectVars == <<prop, frozen, calls, inside, thrownBy, answered>>
scriptVars == <<read, inString, templateDepth, inComment, escaped, keywords, classified,
                within, braces, expected, astray, compiled, scopeDepth, dynamic, opened,
                leaked, rejected>>
valueVars == <<source, string, kind, length, size, buffer, written>>
envVars == <<called, infos, callFrames, argv, refused, envs, activeEnv, scopes, hooks,
             deferred, promise, accepted, passed, released>>
hostVars == <<hostFailed, ran, effects, fellBack, microtasks, suspended, awaiting,
              scheduled, printed, shown>>
eventVars == <<arrays, current, watched, emits, added, registered, heard, nested>>
chainVars == <<chunks, sourceEnded, gone, piped, paused, corked, queue, writing, chunk,
               ended, finished, readEnded, endEmitted, through, sunk, error, told,
               onFinished, micro>>
iteratorVars == <<ofError, signal, emitted, failed, owed, onceHears, first, iterates,
                  hears, unconsumed, waiting, kept, answers, from, to>>

(* A cycle and a shared dependency, with chains longer than the limit; a    *)
(* cache of one, and a tarball that is larger.                              *)
Cycle == [a |-> {"b"}, b |-> {"c"}, c |-> {"a"}]
Diamond == [a |-> {"b", "c"}, b |-> {"c"}, c |-> {}]
Npm == INSTANCE NpmInstall WITH
  Package <- {"a", "b", "c"}, Graphs <- {Cycle, Diamond}, MaxDepth <- 1,
  Cap <- 1, Large <- {"b"}, MaxCommand <- 1, MaxTrouble <- 1

(* A tree of four; a file with two descriptors.                             *)
Fs == INSTANCE MemFs WITH
  Name <- {"x", "y"}, MaxIno <- 4, MaxFd <- 0, MaxLength <- 1, MinCapacity <- 2
Fd == INSTANCE MemFs WITH
  Name <- {"x"}, MaxIno <- 2, MaxFd <- 2, MaxLength <- 3, MinCapacity <- 2

(* Two names at each of two levels.                                         *)
Commands == INSTANCE FileCommands WITH Name <- {"x", "y"}, Content <- {"c"}, last <- did

(* A CommonJS and an ES module, three loads; two runs with two imports.     *)
Loader == INSTANCE ModuleLoader WITH
  Module <- {"x", "y"}, EsModule <- {"y"}, MaxLoad <- 3, MaxVersion <- 2,
  imports <- imported, stack <- loadStack
Runner == INSTANCE ScriptRunner WITH Run <- {"r", "s"}, MaxImport <- 2

(* Packages with exports by condition, with a main, a module or neither.    *)
Dual == [json |-> TRUE, exports |-> {"."}, dual |-> TRUE, fields |-> {},
         files |-> {"require", "import", "sub"}]
Legacy == [json |-> TRUE, exports |-> {}, dual |-> FALSE,
           fields |-> {"main", "module"}, files |-> {"main", "sub"}]
Bare == [json |-> FALSE, exports |-> {}, dual |-> FALSE, fields |-> {},
         files |-> {"index"}]
Closed == [json |-> TRUE, exports |-> {"sub"}, dual |-> FALSE, fields |-> {"main"},
           files |-> {"main"}]
None == [json |-> FALSE, exports |-> {}, dual |-> FALSE, fields |-> {}, files |-> {}]
Depths(p, q, r) == [d \in 0 .. 2 |-> IF d = 0 THEN p ELSE IF d = 1 THEN q ELSE r]
Nested == Depths(Legacy, Dual, Closed)
Sparse == Depths(None, Bare, Legacy)
Resolver == INSTANCE Resolution WITH
  MaxDepth <- 2, Trees <- {Nested, Sparse}, Cwd <- 1, MaxLoad <- 2, MaxScript <- 2,
  tree <- where, crossed <- detoured, last <- found

(* Two runs from the terminal, two that wait for them.                      *)
Term == INSTANCE Terminal WITH
  MaxRun <- 2, Waiter <- {"w1", "w2"}, BootWaiter <- "w1", owner <- keys, crossed <- polled

(* Two values of two buffers; one property and three calls.                 *)
Buffers == INSTANCE NapiBuffers WITH MaxHandle <- 2, MaxBuffer <- 2, MaxPtr <- 2
Objects == INSTANCE NapiObjects WITH
  Value <- {"p", "q"}, MaxCall <- 3, pending <- thrownBy, last <- answered

(* Scripts of eight tokens; strings of three characters into five bytes.     *)
Scripts == INSTANCE NapiScripts WITH
  MaxLength <- 8, MaxDepth <- 4, MaxImport <- 2,
  mode <- classified, depth <- scopeDepth, imports <- dynamic, pending <- rejected
Values == INSTANCE NapiValues WITH MaxLength <- 3, MaxSize <- 5

(* Three calls, two of them in each other; two commands on the native main().*)
Env == INSTANCE NapiEnv WITH
  MaxFrame <- 2, MaxCall <- 3, MaxArgs <- 1, MaxEnv <- 1, MaxDeferred <- 1,
  calls <- called, frames <- callFrames
Host == INSTANCE ScriptHost WITH
  Call <- {"r", "s"}, MaxChunk <- 2,
  useJsBridge <- hostFailed, called <- ran, pending <- awaiting

(* Two listeners added twice, three emits in each other; a pipeline of three*)
(* streams and two chunks.                                                  *)
Events == INSTANCE Emitter WITH
  Fn <- {"f", "g"}, MaxAdd <- 2, MaxDepth <- 3,
  stack <- emits, runs <- heard, reentered <- nested
Chain == INSTANCE StreamChain WITH
  MaxChunk <- 2, next <- chunks, held <- corked, passed <- through, written <- sunk

(* Three events, an error and an abort; three calls of next.                *)
Iterator == INSTANCE EventIterator WITH
  MaxEvent <- 3, MaxError <- 1, MaxNext <- 3, promise <- owed, error <- kept

PageInit ==
  /\ part \in Instances
  /\ Init /\ SessionInit /\ Npm!Init
  /\ part # "npm" => deps = Cycle
  /\ IF part = "fd" THEN Fd!Init ELSE Fs!Init
  /\ Commands!Init /\ Loader!Init /\ Runner!Init /\ Resolver!Init
  /\ part # "runner" => ~useJsBridge
  /\ part # "resolver" => where = Nested
  /\ Term!Init
  /\ part # "terminal" => ~autorun
  /\ Buffers!Init /\ Objects!Init /\ Scripts!Init /\ Env!Init /\ Host!Init
  /\ Values!Init
  /\ part # "values" => source = << >> /\ kind = "utf8"
  /\ Events!Init /\ Chain!Init /\ Iterator!Init
  /\ part # "iterator" => ~ofError /\ signal = "none"

(* A step of one part leaves the state of the others alone.                 *)
Others(p) ==
  /\ p # "napi" => UNCHANGED vars
  /\ p # "page" => UNCHANGED sessionVars
  /\ p # "npm" => UNCHANGED npmVars
  /\ p \notin {"fs", "fd"} => UNCHANGED fsVars
  /\ p # "commands" => UNCHANGED commandVars
  /\ p # "loader" => UNCHANGED loaderVars
  /\ p # "runner" => UNCHANGED runnerVars
  /\ p # "resolver" => UNCHANGED resolverVars
  /\ p # "terminal" => UNCHANGED terminalVars
  /\ p # "buffers" => UNCHANGED bufferVars
  /\ p # "objects" => UNCHANGED objectVars
  /\ p # "scripts" => UNCHANGED scriptVars
  /\ p # "values" => UNCHANGED valueVars
  /\ p # "env" => UNCHANGED envVars
  /\ p # "host" => UNCHANGED hostVars
  /\ p # "events" => UNCHANGED eventVars
  /\ p # "chain" => UNCHANGED chainVars
  /\ p # "iterator" => UNCHANGED iteratorVars

PageNext ==
  /\ UNCHANGED part
  /\ \/ part = "napi" /\ Others("napi") /\ Next
     \/ part = "page" /\ Others("page") /\ SessionNext
     \/ part = "npm" /\ Others("npm") /\ Npm!Next
     \/ part = "fs" /\ Others("fs") /\ Fs!Next
     \/ part = "fd" /\ Others("fd") /\ Fd!Next
     \/ part = "commands" /\ Others("commands") /\ Commands!Next
     \/ part = "loader" /\ Others("loader") /\ Loader!Next
     \/ part = "runner" /\ Others("runner") /\ Runner!Next
     \/ part = "resolver" /\ Others("resolver") /\ Resolver!Next
     \/ part = "terminal" /\ Others("terminal") /\ Term!Next
     \/ part = "buffers" /\ Others("buffers") /\ Buffers!Next
     \/ part = "objects" /\ Others("objects") /\ Objects!Next
     \/ part = "scripts" /\ Others("scripts") /\ Scripts!Next
     \/ part = "values" /\ Others("values") /\ Values!Next
     \/ part = "env" /\ Others("env") /\ Env!Next
     \/ part = "host" /\ Others("host") /\ Host!Next
     \/ part = "events" /\ Others("events") /\ Events!Next
     \/ part = "chain" /\ Others("chain") /\ Chain!Next
     \/ part = "iterator" /\ Others("iterator") /\ Iterator!Next

pageAll == <<part, vars, sessionVars, npmVars, fsVars, commandVars, loaderVars, runnerVars,
             resolverVars, terminalVars, bufferVars, objectVars, scriptVars, valueVars,
             envVars, hostVars, eventVars, chainVars, iteratorVars>>

PageSpec == PageInit /\ [][PageNext]_pageAll

(* What tells two states of the run apart: the part and its own state.      *)
PartView ==
  <<part, CASE part = "napi" -> vars
            [] part = "page" -> sessionVars
            [] part = "npm" -> npmVars
            [] part \in {"fs", "fd"} -> fsVars
            [] part = "commands" -> commandVars
            [] part = "loader" -> loaderVars
            [] part = "runner" -> runnerVars
            [] part = "resolver" -> resolverVars
            [] part = "terminal" -> terminalVars
            [] part = "buffers" -> bufferVars
            [] part = "objects" -> objectVars
            [] part = "scripts" -> scriptVars
            [] part = "values" -> valueVars
            [] part = "env" -> envVars
            [] part = "host" -> hostVars
            [] part = "events" -> eventVars
            [] part = "chain" -> chainVars
            [] part = "iterator" -> iteratorVars>>

(* The state of the part that is taken has its type.                        *)
PageTypeOK ==
  CASE part = "napi" -> TypeOK
    [] part = "page" -> SessionTypeOK
    [] part = "npm" -> Npm!TypeOK
    [] part = "fs" -> Fs!TypeOK
    [] part = "fd" -> Fd!TypeOK
    [] part = "commands" -> Commands!TypeOK
    [] part = "loader" -> Loader!TypeOK
    [] part = "runner" -> Runner!TypeOK
    [] part = "resolver" -> Resolver!TypeOK
    [] part = "terminal" -> Term!TypeOK
    [] part = "buffers" -> Buffers!TypeOK
    [] part = "objects" -> Objects!TypeOK
    [] part = "scripts" -> Scripts!TypeOK
    [] part = "values" -> Values!TypeOK
    [] part = "env" -> Env!TypeOK
    [] part = "host" -> Host!TypeOK
    [] part = "events" -> Events!TypeOK
    [] part = "chain" -> Chain!TypeOK
    [] part = "iterator" -> Iterator!TypeOK

(* The properties of NapiBuffers, NapiObjects, NapiScripts, NapiValues and  *)
(* NapiEnv.                                                                 *)
NapiIsTrue ==
  /\ part = "buffers" => Buffers!BytesStayApart
  /\ part = "objects" => Objects!AnswersAreTrue
  /\ part = "scripts" => Scripts!VerdictIsRight /\ Scripts!ScopesComeBack
  /\ part = "values" => Values!TwoCallsAreEnough
  /\ part = "env" => /\ Env!InfosAreOfTheRunning /\ Env!ArgvIsTheCallers
                     /\ Env!SettledOnce

(* The properties of NpmInstall.                                            *)
NpmIsTrue == part = "npm" => Npm!TreeIsComplete /\ Npm!CacheKeepsItsCap

(* The properties of MemFs, in both instances, and of FileCommands.         *)
FilesAreTrue ==
  /\ part = "fs" => Fs!ReplayAgrees
  /\ part = "fd" => Fd!ContentIsExact
  /\ part = "commands" => Commands!ExitIsTrue /\ Commands!NothingElseChanges

(* The properties of ModuleLoader and of Resolution.                        *)
ModulesAreTrue ==
  /\ part = "loader" => Loader!CacheIsTrue /\ Loader!ImportedOnce
  /\ part = "resolver" =>
       /\ Resolver!DirsComeBack /\ Resolver!ResolvedFromHome
       /\ Resolver!ResolvedAsAsked /\ Resolver!NearestIsFound

(* The properties of ScriptRunner, of ScriptHost and of Terminal.           *)
RunsAreClean ==
  /\ part = "runner" => Runner!GlobalsComeBack /\ Runner!ImportsAreAwaited
  /\ part = "host" => Host!RunsOnce /\ Host!OutputIsWhole
  /\ part = "terminal" => Term!ShellHasKeys /\ Term!ToldOfItsRun

(* The properties of Emitter, of StreamChain and of EventIterator.          *)
EventsAreTrue ==
  /\ part = "events" => Events!ListenersAreKept /\ Events!OnceRunsOnce
  /\ part = "chain" => /\ Chain!PipelineIsTrue /\ Chain!ChainInOrder
                       /\ Chain!FinishedIsTrue
  /\ part = "iterator" => /\ Iterator!OnceIsTheFirst /\ Iterator!EventsInOrder
                          /\ Iterator!NoneWaitsInVain
=============================================================================
