---------------------------- MODULE ModuleLoader -----------------------------
(***************************************************************************)
(* require() and import() of files in memory (index.js, _memfsRequire and  *)
(* _memfsDynamicImport) and the cache of each. A require runs to its end,  *)
(* a require inside it too: stack holds the loads that run. An import of   *)
(* an ES module waits for esbuild first; of a CommonJS module it runs at   *)
(* once. What a name resolves to is left out (builtins, node_modules): a   *)
(* module is a file, and a file is a version.                              *)
(***************************************************************************)
EXTENDS Integers, Sequences, SequencesExt

CONSTANTS
  Module,        \* paths of files
  EsModule,      \* those that need esbuild
  MaxLoad,       \* bound: loads
  MaxVersion     \* bound: versions of one file

VARIABLES
  file,         \* each file's version
  absent,       \* the files that are not there
  moduleCache,  \* _moduleCache: the load of each module, or none
  imports,      \* _dynamicImportPromises, likewise
  loads,        \* each load
  stack,        \* the loads that run, the outermost first
  unseen,       \* history: modules whose last change the cache was not told
  reentered     \* history: modules imported while an import ran them

vars == <<file, absent, moduleCache, imports, loads, stack, unseen, reentered>>

NoLoad == 0
Ids == 1 .. MaxLoad

TypeOK ==
  /\ file \in [Module -> 1 .. MaxVersion] /\ absent \subseteq Module
  /\ moduleCache \in [Module -> {NoLoad} \cup Ids]
  /\ imports \in [Module -> {NoLoad} \cup Ids]
  /\ loads \in [Ids -> [at : {"none", "waiting", "running", "done", "failed"},
                        of : Module, version : 0 .. MaxVersion,
                        via : {"require", "import"}]]
  /\ stack \in Seq(Ids)
  /\ unseen \subseteq Module /\ reentered \subseteq Module

Init ==
  /\ file = [m \in Module |-> 1] /\ absent = {}
  /\ moduleCache = [m \in Module |-> NoLoad] /\ imports = moduleCache
  /\ loads \in [Ids -> [at : {"none"}, of : {CHOOSE m \in Module : TRUE},
                        version : {0}, via : {"require"}]]
  /\ stack = << >> /\ unseen = {} /\ reentered = {}

-----------------------------------------------------------------------------
(* The next load; the module that runs; a load that begins.                 *)

Next1 == CHOOSE l \in Ids : loads[l].at = "none" /\ \A k \in 1 .. l - 1 : loads[k].at # "none"
MayLoad == \E l \in Ids : loads[l].at = "none"
Load(m, via, at) == [at |-> at, of |-> m, version |-> file[m], via |-> via]
Top == Last(stack)

(* The loader's own code runs when the page has called it, or a module has. *)
(* Only a module that was imported has its import() translated.             *)
MayImport == stack # << >> => loads[Top].via = "import"

-----------------------------------------------------------------------------
(* _memfsRequire. The load is in the cache before the module's code runs,   *)
(* so that a cycle finds what there is of it.                               *)

\* Mutant: a module is put into the cache when it has run.
CachedWhenRun(m) == moduleCache

Cached(m) == [moduleCache EXCEPT ![m] = Next1]

Require(m) ==
  /\ m \notin absent /\ moduleCache[m] = NoLoad /\ MayLoad
  /\ loads' = [loads EXCEPT ![Next1] = Load(m, "require", "running")]
  /\ moduleCache' = Cached(m)
  /\ stack' = Append(stack, Next1)
  /\ unseen' = unseen \ {m}
  /\ UNCHANGED <<file, absent, imports, reentered>>

Ran(l, at) == [loads EXCEPT ![l].at = at]

(* The module's code has come to its end.                                   *)
Finish ==
  /\ stack # << >> /\ loads' = Ran(Top, "done") /\ stack' = Front(stack)
  /\ imports' = IF loads[Top].via = "import"
                THEN [imports EXCEPT ![loads[Top].of] = Top] ELSE imports
  /\ UNCHANGED <<file, absent, moduleCache, unseen, reentered>>

\* Mutant: a module that has thrown stays in the cache.
EvictedNever(m) == moduleCache

Evicted(m) == [moduleCache EXCEPT ![m] = NoLoad]

(* It throws, and the one that required it may catch that. A promise that   *)
(* has failed is forgotten a turn later.                                    *)
Throw ==
  /\ stack # << >> /\ loads' = Ran(Top, "failed") /\ stack' = Front(stack)
  /\ IF loads[Top].via = "import"
     THEN imports' = [imports EXCEPT ![loads[Top].of] = Top] /\ UNCHANGED moduleCache
     ELSE moduleCache' = Evicted(loads[Top].of) /\ UNCHANGED imports
  /\ UNCHANGED <<file, absent, unseen, reentered>>

-----------------------------------------------------------------------------
(* _memfsDynamicImport. The promise is in the map when the code of the      *)
(* module that runs at once has come to its end: until then, an import of   *)
(* it loads it again.                                                       *)
Import(m) ==
  /\ MayImport /\ m \notin absent /\ imports[m] = NoLoad /\ MayLoad
  /\ IF m \in EsModule
     THEN /\ loads' = [loads EXCEPT ![Next1] = Load(m, "import", "waiting")]
          /\ imports' = [imports EXCEPT ![m] = Next1]
          /\ UNCHANGED stack
     ELSE /\ loads' = [loads EXCEPT ![Next1] = Load(m, "import", "running")]
          /\ stack' = Append(stack, Next1)
          /\ UNCHANGED imports
  /\ reentered' = reentered \cup
       {n \in {m} : \E k \in ToSet(stack) : loads[k].of = n /\ loads[k].via = "import"}
  /\ UNCHANGED <<file, absent, moduleCache, unseen>>

(* esbuild answers: the source that was read before runs, or is refused.    *)
Transpiled(l) ==
  /\ stack = << >> /\ loads[l].at = "waiting"
  /\ \/ loads' = Ran(l, "running") /\ stack' = <<l>>
     \/ loads' = Ran(l, "failed") /\ UNCHANGED stack
  /\ UNCHANGED <<file, absent, moduleCache, imports, unseen, reentered>>

\* Mutant: a promise is forgotten when it has settled, well or not.
ForgottenWhenSettled == {m \in Module : imports[m] # NoLoad /\ loads[imports[m]].at \in {"done", "failed"}}

Forgotten == {m \in Module : imports[m] # NoLoad /\ loads[imports[m]].at = "failed"}

Forget(m) ==
  /\ stack = << >> /\ m \in Forgotten
  /\ imports' = [imports EXCEPT ![m] = NoLoad]
  /\ UNCHANGED <<file, absent, moduleCache, loads, stack, unseen, reentered>>

-----------------------------------------------------------------------------
(* Files change, while modules run too. The journal evicts the old path     *)
(* and, of a rename, the new one. A write through a descriptor is not one   *)
(* of the mutations that evict.                                             *)

Versioned(m) == [file EXCEPT ![m] = @ + 1]

WriteFile(m) ==
  /\ file[m] < MaxVersion /\ file' = Versioned(m) /\ absent' = absent \ {m}
  /\ moduleCache' = Evicted(m) /\ unseen' = unseen \ {m}
  /\ UNCHANGED <<imports, loads, stack, reentered>>

WriteFd(m) ==
  /\ m \notin absent /\ file[m] < MaxVersion /\ file' = Versioned(m)
  /\ unseen' = unseen \cup {m}
  /\ UNCHANGED <<absent, moduleCache, imports, loads, stack, reentered>>

\* Mutant: the new path of a rename keeps what was loaded from it.
RenamedOld(old, new) == Evicted(old)

Renamed(old, new) == [Evicted(old) EXCEPT ![new] = NoLoad]

(* A file comes to the new path, with content that was not there before.    *)
Rename(old, new) ==
  /\ old # new /\ old \notin absent /\ file[new] < MaxVersion
  /\ file' = Versioned(new) /\ absent' = (absent \ {new}) \cup {old}
  /\ moduleCache' = Renamed(old, new) /\ unseen' = unseen \ {old, new}
  /\ UNCHANGED <<imports, loads, stack, reentered>>

Unlink(m) ==
  /\ m \notin absent /\ absent' = absent \cup {m}
  /\ moduleCache' = Evicted(m) /\ unseen' = unseen \ {m}
  /\ UNCHANGED <<file, imports, loads, stack, reentered>>

Next ==
  \/ Finish \/ Throw
  \/ \E m \in Module :
       Require(m) \/ Import(m) \/ Forget(m) \/ WriteFile(m) \/ WriteFd(m) \/ Unlink(m)
  \/ \E l \in Ids : Transpiled(l)
  \/ \E old, new \in Module : Rename(old, new)

Spec == Init /\ [][Next]_vars

-----------------------------------------------------------------------------
(* What require() finds in the cache is the file as it is now, loaded or on *)
(* its way: never a module that has thrown, nor the file of before a change *)
(* or a rename, made by a module that was running too. A cycle, or a        *)
(* require from a module that runs, loads nothing twice.                    *)
CacheIsTrue ==
  /\ \A m \in Module : moduleCache[m] # NoLoad =>
       LET l == loads[moduleCache[m]]
       IN  /\ l.at = "done" \/ moduleCache[m] \in ToSet(stack)
           /\ m \notin unseen => l.version = file[m]
  /\ \A j, k \in DOMAIN stack : j < k =>
       LET a == loads[stack[j]]
           b == loads[stack[k]]
       IN  a.via = "require" /\ b.via = "require" /\ a.of = b.of => a.version # b.version

(* A module is evaluated once for all who import it, failures apart: unless *)
(* it is imported, itself or in a cycle, while an import runs it.           *)
ImportedOnce ==
  \A k, l \in Ids :
    (/\ k < l /\ loads[k].of = loads[l].of
     /\ loads[k].via = "import" /\ loads[l].via = "import"
     /\ loads[k].at \in {"running", "done"} /\ loads[l].at # "none")
    => loads[l].of \in reentered
=============================================================================
