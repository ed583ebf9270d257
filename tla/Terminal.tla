------------------------------- MODULE Terminal -------------------------------
(***************************************************************************)
(* The terminal page: it loads a shell, starts the Wasm runtime in the     *)
(* background and, when the page's address asks for it (autorun), runs a   *)
(* bundled program in place of the shell. Tests and embedders start        *)
(* programs and wait for their exit through the same controller.           *)
(*   A program runs in the page: nothing ends it, so that it may do things *)
(* after it said that it exits. process.exit sets exitCode and throws.     *)
(***************************************************************************)
EXTENDS Naturals

CONSTANTS MaxRun, Waiter, BootWaiter

NoCode == "none"
Failure == "1"
Code == {"0", Failure}
Run == 1 .. MaxRun

VARIABLES
  autorun,       \* config.autorun, with a bundle
  stage,         \* "loading", "booting", "ready" or "failed"
  shell,         \* whether the shell was loaded
  owner,         \* what _stdinPush feeds: some of "shell" and "app", {} for undefined
  runCounter,
  lastExitCode,
  exitCode,      \* processBridge.exitCode
  resolver,      \* the run whose promise resolveCurrentExit resolves, 0 for none
  listener,      \* the run whose 'exit' listener is there, 0 for none
  app,           \* a run's program: "none", "importing", "fetching", "running", "over"
  byBoot,        \* the run that the page started by itself, 0 for none
  wait,          \* a waiter: the run it asked about (0: it did not ask), what it was told
  said,          \* the codes a run gave, and 1 if it failed (history)
  crossed        \* whether a run was started before the one before was over (history)

pageVars == <<autorun, stage, shell>>
exitVars == <<lastExitCode, exitCode, resolver, listener>>
runVars == <<runCounter, app, said, crossed>>
vars == <<pageVars, owner, exitVars, runVars, byBoot, wait>>

Init ==
  /\ autorun \in BOOLEAN
  /\ stage = "loading" /\ shell = FALSE /\ owner = {}
  /\ runCounter = 0 /\ byBoot = 0
  /\ lastExitCode = NoCode /\ exitCode = NoCode
  /\ resolver = 0 /\ listener = 0
  /\ app = [r \in Run |-> "none"]
  /\ said = [r \in Run |-> {}]
  /\ crossed = FALSE
  /\ wait = [w \in Waiter |-> [run |-> 0, told |-> NoCode]]

TypeOK ==
  /\ autorun \in BOOLEAN /\ shell \in BOOLEAN /\ crossed \in BOOLEAN
  /\ stage \in {"loading", "booting", "ready", "failed"}
  /\ owner \subseteq {"shell", "app"}
  /\ runCounter \in 0 .. MaxRun /\ byBoot \in 0 .. MaxRun
  /\ lastExitCode \in Code \cup {NoCode} /\ exitCode \in Code \cup {NoCode}
  /\ resolver \in 0 .. MaxRun /\ listener \in 0 .. MaxRun
  /\ app \in [Run -> {"none", "importing", "fetching", "running", "over"}]
  /\ said \in [Run -> SUBSET Code]
  /\ wait \in [Waiter -> [run : 0 .. MaxRun, told : Code \cup {NoCode, "timeout"}]]

-----------------------------------------------------------------------------
(* Stage A: the shell has the keys at once, unless a program is to run.     *)
LoadShell(ok) ==
  /\ stage = "loading"
  /\ stage' = "booting"
  /\ shell' = ok
  /\ owner' = IF ok /\ ~autorun THEN {"shell"} ELSE {}
  /\ UNCHANGED <<autorun, exitVars, runVars, byBoot, wait>>

(* A run: its program's global state is that of the page, reset here with   *)
(* the listeners of the one before.                                         *)
StartWith(r, last) ==
  /\ runCounter < MaxRun /\ r = runCounter + 1
  /\ runCounter' = r
  /\ crossed' = (crossed \/ \E q \in Run : app[q] \in {"importing", "fetching", "running"})
  /\ lastExitCode' = last /\ exitCode' = NoCode
  /\ resolver' = r /\ listener' = r
  /\ app' = [app EXCEPT ![r] = "importing"]
  /\ UNCHANGED <<autorun, shell, owner, said, wait>>

(* Stage B: the runtime is there, with the controller; with autorun the     *)
(* page starts the bundle.                                                  *)
Ready ==
  /\ stage = "booting"
  /\ stage' = "ready"
  /\ IF autorun THEN StartWith(1, NoCode) /\ byBoot' = 1
     ELSE UNCHANGED <<autorun, shell, owner, exitVars, runVars, byBoot, wait>>

(* Wasm is not available: a line on the terminal, and nothing else.         *)
WasmFails ==
  /\ stage = "booting"
  /\ stage' = "failed"
  /\ UNCHANGED <<autorun, shell, owner, exitVars, runVars, byBoot, wait>>

\* Mutant: the exit code of the run before is left for this one's waiters.
StartUncleared ==
  /\ stage = "ready"
  /\ StartWith(runCounter + 1, lastExitCode)
  /\ UNCHANGED <<stage, byBoot>>

Start ==
  /\ stage = "ready"
  /\ StartWith(runCounter + 1, NoCode)
  /\ UNCHANGED <<stage, byBoot>>

-----------------------------------------------------------------------------
(* finishExit: the code is there to be polled, and the waiters of the run   *)
(* whose promise is the current one are told.                               *)
FinishExit(c) ==
  /\ lastExitCode' = c
  /\ resolver' = 0
  /\ wait' = [w \in Waiter |->
                IF resolver # 0 /\ wait[w].run = resolver /\ wait[w].told = NoCode
                THEN [wait[w] EXCEPT !.told = c] ELSE wait[w]]

(* recordExit: the first code stays.                                        *)
RecordExit(c) ==
  IF lastExitCode # NoCode THEN UNCHANGED <<lastExitCode, resolver, wait>>
  ELSE FinishExit(c)

(* process.exit(c), or process.exit() for NoCode, in the program's code.    *)
Exit(r, c) ==
  /\ exitCode' = IF c = NoCode THEN exitCode ELSE c
  /\ said' = [said EXCEPT ![r] = @ \cup ({c} \cap Code)]

Throws(r, c) == IF c = "error" THEN UNCHANGED <<exitCode, said>> ELSE Exit(r, c)

ExitOrError == Code \cup {NoCode, "error"}

(* The page's own start() resolved: it waits for the exit.                  *)
BootWaits(r) ==
  IF byBoot = r THEN wait' = [wait EXCEPT ![BootWaiter] = [run |-> runCounter, told |-> NoCode]]
  ELSE UNCHANGED wait

(* The bundle is imported and its main called: it goes on, ...              *)
Import(r) ==
  /\ app[r] = "importing"
  /\ app' = [app EXCEPT ![r] = "running"]
  /\ BootWaits(r)
  /\ UNCHANGED <<pageVars, owner, exitVars, runCounter, said, crossed, byBoot>>

(* ... or something throws: the import, the bundle, main, be it             *)
(* process.exit. Then the bundle is fetched to be evaluated again.          *)
ImportThrows(r, c) ==
  /\ app[r] = "importing"
  /\ Throws(r, c)
  /\ app' = [app EXCEPT ![r] = "fetching"]
  /\ UNCHANGED <<pageVars, owner, lastExitCode, resolver, listener, runCounter,
                 crossed, byBoot, wait>>

Require(r) ==
  /\ app[r] = "fetching"
  /\ app' = [app EXCEPT ![r] = "running"]
  /\ BootWaits(r)
  /\ UNCHANGED <<pageVars, owner, exitVars, runCounter, said, crossed, byBoot>>

\* Mutant: the page does not take the keys back from a bundle that failed.
RequireThrowsQuietly(r, c) ==
  /\ app[r] = "fetching"
  /\ app' = [app EXCEPT ![r] = "over"]
  /\ exitCode' = IF c \in Code THEN c ELSE exitCode
  /\ said' = [said EXCEPT ![r] = @ \cup ({c} \cap Code) \cup {Failure}]
  /\ FinishExit(Failure)
  /\ UNCHANGED <<pageVars, owner, listener, runCounter, crossed, byBoot>>

(* The fetch fails, or the second evaluation throws: start() rejects, and   *)
(* the page's own start gives the keys to the shell.                        *)
RequireThrows(r, c) ==
  /\ app[r] = "fetching"
  /\ app' = [app EXCEPT ![r] = "over"]
  /\ exitCode' = IF c \in Code THEN c ELSE exitCode
  /\ said' = [said EXCEPT ![r] = @ \cup ({c} \cap Code) \cup {Failure}]
  /\ FinishExit(Failure)
  /\ owner' = IF byBoot = r /\ shell THEN {"shell"} ELSE owner
  /\ UNCHANGED <<pageVars, listener, runCounter, crossed, byBoot>>

(* The promise of main rejects, with an error or with process.exit.         *)
MainRejects(r, c) ==
  /\ app[r] = "running"
  /\ app' = [app EXCEPT ![r] = "over"]
  /\ exitCode' = IF c \in Code THEN c ELSE exitCode
  /\ said' = [said EXCEPT ![r] = @ \cup ({c} \cap Code) \cup {Failure}]
  /\ FinishExit(Failure)
  /\ UNCHANGED <<pageVars, owner, listener, runCounter, crossed, byBoot>>

(* process.exit, or an assignment to exitCode, in a callback. The program   *)
(* does no more, or it goes on: process.exit only throws, and its code may  *)
(* swallow that.                                                            *)
CallbackExits(r, c) ==
  /\ app[r] = "running"
  /\ Exit(r, c)
  /\ \E next \in {"running", "over"} : app' = [app EXCEPT ![r] = next]
  /\ UNCHANGED <<pageVars, owner, lastExitCode, resolver, listener, runCounter,
                 crossed, byBoot, wait>>

(* The program emits 'exit' on process, for the listener that is there.     *)
EmitExit(r, c) ==
  /\ app[r] = "running"
  /\ said' = [said EXCEPT ![r] = @ \cup {c}]
  /\ app' = [app EXCEPT ![r] = "over"]
  /\ listener' = 0
  /\ IF listener = 0 THEN UNCHANGED <<lastExitCode, resolver, wait>> ELSE RecordExit(c)
  /\ UNCHANGED <<pageVars, owner, exitCode, runCounter, crossed, byBoot>>

(* A program opens a tty.ReadStream, which gets the keys before the owner.  *)
OpenTty(r) ==
  /\ app[r] = "running"
  /\ owner' = owner \cup {"app"}
  /\ UNCHANGED <<pageVars, exitVars, runVars, byBoot, wait>>

-----------------------------------------------------------------------------
Wait(w) ==
  /\ w # BootWaiter /\ wait[w].run = 0 /\ runCounter > 0
  /\ wait' = [wait EXCEPT ![w].run = runCounter]
  /\ UNCHANGED <<pageVars, owner, exitVars, runVars, byBoot>>

(* Every 100 ms a waiter looks for a code, and for exitCode.                *)
Poll(w) ==
  /\ wait[w].run # 0 /\ wait[w].told = NoCode
  /\ IF lastExitCode # NoCode
     THEN wait' = [wait EXCEPT ![w].told = lastExitCode] /\ UNCHANGED <<lastExitCode, resolver>>
     ELSE /\ exitCode # NoCode
          /\ lastExitCode' = exitCode /\ resolver' = 0
          /\ wait' = [v \in Waiter |->
                IF v = w \/ (resolver # 0 /\ wait[v].run = resolver /\ wait[v].told = NoCode)
                THEN [wait[v] EXCEPT !.told = exitCode] ELSE wait[v]]
  /\ UNCHANGED <<pageVars, owner, exitCode, listener, runVars, byBoot>>

Timeout(w) ==
  /\ w # BootWaiter /\ wait[w].run # 0 /\ wait[w].told = NoCode
  /\ wait' = [wait EXCEPT ![w].told = "timeout"]
  /\ UNCHANGED <<pageVars, owner, exitVars, runVars, byBoot>>

(* The bundle of the page is over: the shell prompts again.                 *)
BackToShell ==
  /\ wait[BootWaiter].told # NoCode /\ shell
  /\ byBoot # 0 /\ byBoot' = 0
  /\ owner' = {"shell"}
  /\ UNCHANGED <<pageVars, exitVars, runVars, wait>>

Next ==
  \/ \E ok \in BOOLEAN : LoadShell(ok)
  \/ Ready \/ WasmFails \/ Start \/ BackToShell
  \/ \E r \in Run :
       \/ Import(r) \/ Require(r) \/ OpenTty(r)
       \/ \E c \in ExitOrError :
            ImportThrows(r, c) \/ RequireThrows(r, c) \/ MainRejects(r, c)
       \/ \E c \in Code \cup {NoCode} : CallbackExits(r, c)
       \/ \E c \in Code : EmitExit(r, c)
  \/ \E w \in Waiter : Wait(w) \/ Poll(w) \/ Timeout(w)

Spec == Init /\ [][Next]_vars

-----------------------------------------------------------------------------
(* Once the page is settled the shell gets the keys: with no program to     *)
(* run, or with the page's own program over or failed. Two cases are left   *)
(* out: with autorun and no Wasm nobody ever gets a key (terminal.js, line  *)
(* 530), and a program of which no code is known keeps them for good.       *)
ShellHasKeys ==
  (shell /\ stage = "ready") =>
    "shell" \in owner \/ (autorun /\ byBoot # 0 /\ app[byBoot] # "over")
                      \/ (autorun /\ byBoot # 0 /\ wait[BootWaiter].run # 0)

(* As long as no run is started before the last is over, a waiter is told a *)
(* code that the run it asked about gave, and never that of an earlier one. *)
(* It may be that of a later one: a waiter that was not told yet polls the  *)
(* state that the next start resets (terminal.js, line 239).                *)
ToldOfItsRun ==
  ~crossed => \A w \in Waiter : wait[w].told \in Code =>
    \E r \in Run : r >= wait[w].run /\ wait[w].told \in said[r]
=============================================================================
