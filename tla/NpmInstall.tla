----------------------------- MODULE NpmInstall -----------------------------
(***************************************************************************)
(* npm install in the tab (npm.js) and the tarball cache it shares with    *)
(* later pages (runtime-cache.js). A package has one version; its tarball  *)
(* has the size 1 or is larger than the whole cache. The registry          *)
(* (external) answers or does not. The cache is a sequence, least recently *)
(* used first. A page that is closed leaves the files it had extracted,    *)
(* which its session brings back.                                          *)
(***************************************************************************)
EXTENDS Integers, Sequences, FiniteSets, SequencesExt

CONSTANTS
  Package,
  Graphs,      \* the dependencies the registry may answer with
  MaxDepth,    \* 10 in the code
  Cap,         \* tarballs of the size 1 that the cache holds
  Large,       \* packages whose tarball is larger than the cache
  MaxCommand,  \* bound: commands given
  MaxTrouble   \* bound: fetches that fail, tarballs that are corrupt, closings

VARIABLES
  deps,       \* dependencies of each package
  files,      \* packages extracted into node_modules
  specs,      \* what the running command has yet to install
  installed,  \* the command's set of packages it has come across
  stack,      \* its calls of installPackage
  store,      \* the cache
  bad,        \* tarballs of the cache that are corrupt
  puts,       \* cachePutPackage calls that run beside the installation
  limited,    \* history: packages extracted at the limit of depth
  spent, disturbed, crowded    \* bounds and history

vars == <<deps, files, specs, installed, stack, store, bad, puts, limited, spent,
          disturbed, crowded>>

Frame == [package : Package, todo : SUBSET Package,
          at : {"metadata", "cache", "fetch", "extract", "extractCached", "deps"}]

TypeOK ==
  /\ deps \in Graphs /\ files \subseteq Package /\ specs \subseteq Package
  /\ installed \subseteq Package /\ stack \in Seq(Frame)
  /\ store \in Seq(Package) /\ IsInjective(store) /\ bad \subseteq Package
  /\ puts \in [Package -> {"no", "evict", "put"}]
  /\ spent \in [command : 0 .. MaxCommand, trouble : 0 .. MaxTrouble]
  /\ limited \subseteq Package
  /\ disturbed \in BOOLEAN /\ crowded \in BOOLEAN

Init ==
  /\ deps \in Graphs /\ files = {} /\ specs = {} /\ installed = {}
  /\ stack = << >> /\ store = << >> /\ bad = {}
  /\ puts = [p \in Package |-> "no"]
  /\ spent = [command |-> 0, trouble |-> 0]
  /\ limited = {} /\ disturbed = FALSE /\ crowded = FALSE

-----------------------------------------------------------------------------
(* The cache.                                                               *)

Without(s, p) == RemoveFirst(s, p)

(* There is room for p when the k oldest are gone.                          *)
Room(s, k, p) ==
  /\ p \notin Large /\ \A i \in k + 1 .. Len(s) : s[i] \notin Large
  /\ Len(s) - k < Cap

\* Mutant: the incoming tarball is not counted.
EvictedShort(s, p) ==
  LET k == Min({m \in 0 .. Len(s) : Room(s, m + 1, p) \/ m = Len(s)})
  IN SubSeq(s, k + 1, Len(s))

(* _evictIfNeeded: the oldest go until there is room for p, or none is left.*)
Evicted(s, p) ==
  LET k == Min({m \in 0 .. Len(s) : Room(s, m, p) \/ m = Len(s)})
  IN SubSeq(s, k + 1, Len(s))

Pending == {p \in Package : puts[p] # "no"}

PutStarts(p) ==
  /\ puts' = [puts EXCEPT ![p] = "evict"]
  /\ crowded' = (crowded \/ Pending # {})

Evict(p) ==
  /\ puts[p] = "evict" /\ puts' = [puts EXCEPT ![p] = "put"]
  /\ store' = Evicted(store, p)
  /\ crowded' = (crowded /\ Pending # {p})
  /\ UNCHANGED <<deps, files, specs, installed, stack, bad, limited, spent, disturbed>>

Put(p) ==
  /\ puts[p] = "put" /\ puts' = [puts EXCEPT ![p] = "no"]
  /\ \/ store' = Append(Without(store, p), p) /\ bad' = bad \ {p}
     \/ UNCHANGED <<store, bad>>          \* out of space
  /\ UNCHANGED <<deps, files, specs, installed, stack, limited, spent, disturbed, crowded>>

(* A stored tarball goes bad.                                               *)
Corrupt(p) ==
  /\ p \in ToSet(store) \ bad /\ spent.trouble < MaxTrouble
  /\ bad' = bad \cup {p} /\ spent' = [spent EXCEPT !.trouble = @ + 1]
  /\ UNCHANGED <<deps, files, specs, installed, stack, store, puts, limited, disturbed,
                 crowded>>

-----------------------------------------------------------------------------
(* installPackage, a call of which is a frame of the stack.                 *)

Call(p) == [package |-> p, todo |-> {}, at |-> "metadata"]
Top == stack[Len(stack)]
Returned == SubSeq(stack, 1, Len(stack) - 1)
Goes(at) == [stack EXCEPT ![Len(stack)].at = at]

(* The call returns at once for a package that this command has come across,*)
(* and for one that is there in a version that will do.                     *)
Called(s, p) ==
  IF p \in installed \/ p \in files THEN s ELSE Append(s, Call(p))

(* npmInstall: one spec after another, with one set of packages.            *)
Command ==
  /\ specs = {} /\ stack = << >> /\ spent.command < MaxCommand
  /\ specs' \in SUBSET Package \ {{}}
  /\ installed' = {} /\ spent' = [spent EXCEPT !.command = @ + 1]
  /\ UNCHANGED <<deps, files, stack, store, bad, puts, limited, disturbed, crowded>>

NextSpec ==
  /\ stack = << >> /\ \E p \in specs :
       /\ specs' = specs \ {p} /\ stack' = Called(stack, p)
       /\ installed' = installed \cup {p}
  /\ UNCHANGED <<deps, files, store, bad, puts, limited, spent, disturbed, crowded>>

Metadata ==
  /\ stack # << >> /\ Top.at = "metadata" /\ stack' = Goes("cache")
  /\ UNCHANGED <<deps, files, specs, installed, store, bad, puts, limited, spent,
                 disturbed, crowded>>

(* cacheGetPackage: a hit becomes the most recently used.                   *)
Lookup ==
  /\ stack # << >> /\ Top.at = "cache"
  /\ IF Top.package \in ToSet(store)
     THEN /\ store' = Append(Without(store, Top.package), Top.package)
          /\ stack' = Goes("extractCached")
     ELSE stack' = Goes("fetch") /\ UNCHANGED store
  /\ UNCHANGED <<deps, files, specs, installed, bad, puts, limited, spent, disturbed,
                 crowded>>

Fetch ==
  /\ stack # << >> /\ Top.at = "fetch" /\ puts[Top.package] = "no"
  /\ stack' = Goes("extract") /\ PutStarts(Top.package)
  /\ UNCHANGED <<deps, files, specs, installed, store, bad, limited, spent, disturbed>>

\* Mutant: a call at the limit of depth is not counted as one.
DependenciesShallow(p) == IF Len(stack) < MaxDepth THEN deps[p] ELSE {}

(* Dependencies are followed to a depth: at the limit they are dropped, and *)
(* nobody comes back for them.                                              *)
Dependencies(p) == IF Len(stack) <= MaxDepth THEN deps[p] ELSE {}

\* The depth of the call, 0 for a package of the command.
Depth == Len(stack) - 1

Extract ==
  /\ stack # << >>
  /\ Top.at = "extract" \/ (Top.at = "extractCached" /\ Top.package \notin bad)
  /\ files' = files \cup {Top.package}
  /\ stack' = [stack EXCEPT ![Len(stack)] =
                [@ EXCEPT !.at = "deps", !.todo = Dependencies(Top.package)]]
  /\ limited' = IF Depth >= MaxDepth THEN limited \cup {Top.package} ELSE limited
  /\ UNCHANGED <<deps, specs, installed, store, bad, puts, spent, disturbed, crowded>>

(* Cached bytes that cannot be extracted are dropped and fetched again.     *)
ExtractCorrupt ==
  /\ stack # << >> /\ Top.at = "extractCached" /\ Top.package \in bad
  /\ store' = Without(store, Top.package) /\ bad' = bad \ {Top.package}
  /\ stack' = Goes("fetch")
  /\ UNCHANGED <<deps, files, specs, installed, puts, limited, spent, disturbed, crowded>>

(* A call that throws: its caller warns and goes on, a command ends.        *)
Throws ==
  /\ stack # << >> /\ Top.at \in {"metadata", "fetch", "extract"}
  /\ spent.trouble < MaxTrouble /\ spent' = [spent EXCEPT !.trouble = @ + 1]
  /\ stack' = Returned /\ disturbed' = TRUE
  /\ specs' = IF Returned = << >> THEN {} ELSE specs
  /\ UNCHANGED <<deps, files, installed, store, bad, puts, limited, crowded>>

Descend ==
  /\ stack # << >> /\ Top.at = "deps"
  /\ \E d \in Top.todo :
       /\ stack' = Called([stack EXCEPT ![Len(stack)].todo = @ \ {d}], d)
       /\ installed' = installed \cup {d}
  /\ UNCHANGED <<deps, files, specs, store, bad, puts, limited, spent, disturbed, crowded>>

Return ==
  /\ stack # << >> /\ Top.at = "deps" /\ Top.todo = {} /\ stack' = Returned
  /\ UNCHANGED <<deps, files, specs, installed, store, bad, puts, limited, spent,
                 disturbed, crowded>>

(* npm uninstall, between commands; its dependents stay.                    *)
Uninstall(p) ==
  /\ specs = {} /\ stack = << >> /\ p \in files
  /\ files' = files \ {p} /\ disturbed' = TRUE
  /\ UNCHANGED <<deps, specs, installed, stack, store, bad, puts, limited, spent, crowded>>

ClosePage ==
  /\ spent.trouble < MaxTrouble /\ spent' = [spent EXCEPT !.trouble = @ + 1]
  /\ specs' = {} /\ stack' = << >> /\ installed' = {}
  /\ puts' = [p \in Package |-> "no"]
  /\ disturbed' = (disturbed \/ specs # {} \/ stack # << >>)
  /\ UNCHANGED <<deps, files, store, bad, limited, crowded>>

Next ==
  \/ Command \/ NextSpec \/ Metadata \/ Lookup \/ Fetch \/ Extract
  \/ ExtractCorrupt \/ Throws \/ Descend \/ Return \/ ClosePage
  \/ \E p \in Package : Evict(p) \/ Put(p) \/ Corrupt(p) \/ Uninstall(p)

Spec == Init /\ [][Next]_vars

-----------------------------------------------------------------------------
(* When a command has ended, every package in node_modules has its          *)
(* dependencies there, in whatever order, cycle or sharing they came: until *)
(* an install fails or is cut short, or something is uninstalled. (A later  *)
(* install does not mend that: a package that is there is not looked into.) *)
(* One exception: a package that was first met at the limit of depth        *)
(* (npm.js, 389), although the command or a package nearer to it asks for it*)
(* too: the set of packages come across keeps it from being followed again. *)
TreeIsComplete ==
  ~disturbed /\ specs = {} /\ stack = << >> =>
    \A p \in files \ limited : deps[p] \subseteq files

(* The cache keeps to its limit (runtime-cache.js, line 19), or holds one   *)
(* tarball alone, which is larger than the cache and is stored all the same *)
(* (194-204). Puts that overlap evict for one each and store all, and may   *)
(* exceed it; the next put that is alone brings the cache back.             *)
CacheKeepsItsCap ==
  ~crowded => /\ Len(store) <= Cap
              /\ ToSet(store) \cap Large # {} => Len(store) = 1
=============================================================================
