---------------------------- MODULE Resolution -----------------------------
(***************************************************************************)
(* What a specifier means to the module loader (napi-bridge/index.js and   *)
(* package-resolve.js): the search for a package up the directories, the   *)
(* exports and the conditions of its package.json, and the two variables   *)
(* that say for whom the search is made: _memfsResolutionMode, which picks *)
(* the conditions, and _esmImportDirStack, whose last entry is the         *)
(* directory that import() starts from. Both are set before an await and   *)
(* put back after it.                                                      *)
(*                                                                         *)
(* Directories are a chain, named by their depth: 0 is the root. Each may  *)
(* have the package in its node_modules. ModuleLoader has the cache and    *)
(* what a module's code does; here a load is its way through the two       *)
(* variables: "plain" code runs as soon as it is imported, "esm" waits for *)
(* esbuild first, "tla" (a top-level await) is bundled.                    *)
(***************************************************************************)
EXTENDS Integers, Sequences, FiniteSets, SequencesExt

CONSTANTS
  MaxDepth,   \* bound: the deepest directory
  Trees,      \* the package in the node_modules of each directory
  Cwd,        \* the working directory
  MaxLoad,    \* bound: loads by import()
  MaxScript   \* bound: scripts that are run

VARIABLES
  tree,       \* MEMFS: the package in each directory's node_modules
  mode,       \* _memfsResolutionMode
  prev,       \* prevBundleMode of each load that is bundled
  dirs,       \* _esmImportDirStack
  load,       \* the loads: where they are, their kind and their directory
  script,     \* the directory of the script that was run last
  scripts,    \* scripts run so far
  run,        \* the modules whose code runs, the innermost last
  crossed,    \* history: a load had to wait while another was in progress
  cut,        \* history: a script was run while a load was in progress
  bundled,    \* history: two bundles were made at once
  last        \* what the latest step resolved, if anything

running == <<dirs, script, scripts, cut>>
vars == <<tree, mode, prev, running, load, run, crossed, bundled, last>>

Dir == 0 .. MaxDepth
Load == 1 .. MaxLoad
Mode == {"require", "import"}
Subpath == {".", "sub"}
NoScript == -1
Script == 0
NoFile == [dir |-> -1, name |-> "none"]
NoPackage == [json |-> FALSE, exports |-> {}, dual |-> FALSE, fields |-> {}, files |-> {}]
Nothing == [by |-> "none", home |-> 0, own |-> TRUE, body |-> 0, base |-> 0,
            mode |-> "require", subpath |-> ".", file |-> NoFile]

(* A package: is there a package.json, the subpaths it exports (by condition *)
(* when it is dual), which of main and module it names, and the files.      *)
PackageType == [json : BOOLEAN, exports : SUBSET Subpath, dual : BOOLEAN,
  fields : SUBSET {"main", "module"},
  files : SUBSET {"index", "main", "module", "sub", "require", "import"}]

Init ==
  /\ tree \in Trees
  /\ mode = "require" /\ prev = [l \in Load |-> "require"]
  /\ dirs = << >> /\ script = NoScript /\ scripts = 0 /\ cut = FALSE
  /\ run = << >>
  /\ load = [l \in Load |-> [at |-> "none", kind |-> "plain", home |-> 0]]
  /\ crossed = FALSE /\ bundled = FALSE
  /\ last = Nothing

TypeOK ==
  /\ tree \in [Dir -> PackageType]
  /\ mode \in Mode /\ prev \in [Load -> Mode]
  /\ dirs \in Seq(Dir) /\ run \in Seq(Load)
  /\ load \in [Load -> [at : {"none", "waiting", "running", "bundling", "done",
                              "refused"},
                        kind : {"plain", "esm", "tla"}, home : Dir]]
  /\ script \in Dir \cup {NoScript} /\ scripts \in 0 .. MaxScript
  /\ crossed \in BOOLEAN /\ cut \in BOOLEAN /\ bundled \in BOOLEAN
  /\ last.mode \in Mode /\ last.base \in Dir

-----------------------------------------------------------------------------
(* resolveExportsObject and pickConditionalTarget: the file that a package *)
(* exports under a subpath; of a dual one, the file of the mode.            *)
Target(p, subpath, m) ==
  IF subpath \notin p.exports THEN "none"
  ELSE IF p.dual THEN m
  ELSE IF subpath = "." THEN "main" ELSE "sub"

(* _tryResolveFile of a directory: index.js, then what package.json names.  *)
Direct(p) ==
  IF "index" \in p.files THEN "index"
  ELSE IF "main" \in p.fields THEN "main"
  ELSE IF "module" \in p.fields THEN "module" ELSE "none"

(* What a package without exports means by its own name: module before main.*)
Entry(p) ==
  IF "module" \in p.fields THEN "module"
  ELSE IF "main" \in p.fields THEN "main" ELSE "index"

FirstOf(p, name, other) ==
  IF name \in p.files THEN name ELSE IF other \in p.files THEN other ELSE "none"

\* Mutant: a subpath that is not exported is looked for among the files.
InPackageAnyway(p, subpath, m) ==
  IF subpath = "." THEN FirstOf(p, Target(p, subpath, m), Direct(p))
  ELSE FirstOf(p, Target(p, subpath, m), "sub")

(* One directory's turn in _resolveNodeModuleBare.                          *)
InPackage(p, subpath, m) ==
  IF p.exports # {}
  THEN IF subpath = "." THEN FirstOf(p, Target(p, subpath, m), Direct(p))
       ELSE FirstOf(p, Target(p, subpath, m), "none")
  ELSE IF subpath = "sub" THEN FirstOf(p, "sub", "none")
  ELSE IF p.json THEN FirstOf(p, Entry(p), Direct(p))
  ELSE FirstOf(p, Direct(p), "none")

(* Up the directories; the root's node_modules is searched from the root    *)
(* only.                                                                    *)
Searched(from) == IF from = 0 THEN {0} ELSE 1 .. from

Resolve(from, subpath, m) ==
  LET hits == {d \in Searched(from) : InPackage(tree[d], subpath, m) # "none"}
      d == CHOOSE d \in hits : \A e \in hits : e <= d
  IN  IF hits = {} THEN NoFile
      ELSE [dir |-> d, name |-> InPackage(tree[d], subpath, m)]

-----------------------------------------------------------------------------
(* The module whose body runs, or the script; its directory; and where      *)
(* import() starts from.                                                    *)
Body == IF run = << >> THEN Script ELSE Last(run)
HomeOf(m) == IF m = Script THEN script ELSE load[m].home
Home == HomeOf(Body)
Base == IF dirs = << >> THEN Cwd ELSE Last(dirs)
InProgress == {l \in Load : load[l].at \in {"waiting", "running", "bundling"}}
At(l, at) == load' = [load EXCEPT ![l].at = at]

(* What is asked for in a directory home, by the body that runs (own) or by *)
(* the code of another module.                                              *)
Resolved(by, home, own, base, m, subpath) ==
  last' = [by |-> by, home |-> home, own |-> own, body |-> IF own THEN home ELSE Home,
           base |-> base, mode |-> m, subpath |-> subpath, file |-> Resolve(base, subpath, m)]

(* executeViaBridgeAsync: the list of directories is made anew, and nobody  *)
(* takes the script's own out of it.                                        *)
RunScript(h) ==
  /\ run = << >> /\ scripts < MaxScript
  /\ scripts' = scripts + 1
  /\ dirs' = <<h>> /\ script' = h
  /\ cut' = (cut \/ InProgress # {})
  /\ last' = Nothing
  /\ UNCHANGED <<tree, mode, prev, load, run, crossed, bundled>>

(* _memfsDynamicImport: the specifier is resolved, the directory pushed,    *)
(* and plain code runs before the caller goes on. What was found lies in    *)
(* some directory h. It is called by the code of any module that ran: its   *)
(* body, or a function of it that goes on or is called after the body.      *)
Import(l, kind, subpath, h, of) ==
  /\ script # NoScript
  /\ of # Script => load[of].at \in {"running", "bundling", "done"}
  /\ load[l].at = "none" /\ \A k \in 1 .. l - 1 : load[k].at # "none"
  /\ Resolved("import", HomeOf(of), of = Body, Base, "import", subpath)
  /\ dirs' = Append(dirs, h)
  /\ load' = [load EXCEPT ![l] =
       [at |-> IF kind = "plain" THEN "running" ELSE "waiting", kind |-> kind, home |-> h]]
  /\ run' = IF kind = "plain" THEN Append(run, l) ELSE run
  /\ crossed' = (\/ crossed
                 \/ kind # "plain" /\ InProgress # {}
                 \/ \E k \in Load : load[k].at \in {"waiting", "bundling"})
  /\ UNCHANGED <<tree, mode, prev, script, scripts, cut, bundled>>

(* esbuild is there: the code is transpiled and runs.                       *)
Transpiled(l) ==
  /\ run = << >> /\ load[l].at = "waiting" /\ load[l].kind = "esm"
  /\ At(l, "running") /\ run' = <<l>>
  /\ last' = Nothing
  /\ UNCHANGED <<tree, mode, prev, running, crossed, bundled>>

(* The bundler is there.                                                    *)
BundleBegins(l) ==
  /\ run = << >> /\ load[l].at = "waiting" /\ load[l].kind = "tla"
  /\ At(l, "bundling")
  /\ prev' = [prev EXCEPT ![l] = mode] /\ mode' = "import"
  /\ bundled' = (bundled \/ \E k \in Load : load[k].at = "bundling")
  /\ last' = Nothing
  /\ UNCHANGED <<tree, running, run, crossed>>

(* It resolves a specifier of the module, as often as it meets one.         *)
BundleResolves(l, subpath) ==
  /\ run = << >> /\ load[l].at = "bundling"
  /\ Resolved("bundle", load[l].home, TRUE, load[l].home, mode, subpath)
  /\ UNCHANGED <<tree, mode, prev, running, load, run, crossed, bundled>>

\* Mutant: what was pushed is popped on the way out without an error only.
PopWhenDone(failed) ==
  dirs' = IF failed \/ dirs = << >> THEN dirs ELSE Front(dirs)

(* finally: the last directory is popped, whoever pushed it.                *)
Pop(failed) == dirs' = IF dirs = << >> THEN dirs ELSE Front(dirs)

BodyEnds(failed) ==
  /\ run # << >>
  /\ At(Last(run), "done") /\ run' = Front(run) /\ Pop(failed)
  /\ last' = Nothing
  /\ UNCHANGED <<tree, mode, prev, script, scripts, cut, crossed, bundled>>

(* esbuild or the bundler cannot be loaded, or the source is refused.       *)
NotTranspiled(l) ==
  /\ run = << >> /\ load[l].at = "waiting"
  /\ At(l, "refused") /\ Pop(TRUE)
  /\ last' = Nothing
  /\ UNCHANGED <<tree, mode, prev, script, scripts, cut, run, crossed, bundled>>

\* Mutant: the mode is left as the bundler had it.
ModeLeft(l) == mode

ModeBack(l) == prev[l]

BundleEnds(l, failed) ==
  /\ run = << >> /\ load[l].at = "bundling"
  /\ mode' = ModeBack(l)
  /\ At(l, "done") /\ Pop(failed)
  /\ last' = Nothing
  /\ UNCHANGED <<tree, prev, script, scripts, cut, run, crossed, bundled>>

(* _memfsRequire sets its mode, and no await is in between. The require of  *)
(* a script starts from the working directory, a module's from its own.     *)
(* require.resolve takes the mode it finds.                                 *)
Require(subpath) ==
  /\ LET from == IF run = << >> THEN Cwd ELSE Home
     IN  Resolved("require", from, TRUE, from, "require", subpath)
  /\ UNCHANGED <<tree, mode, prev, running, load, run, crossed, bundled>>

RequireResolve(subpath) ==
  /\ run = << >>
  /\ Resolved("resolve", Cwd, TRUE, Cwd, mode, subpath)
  /\ UNCHANGED <<tree, mode, prev, running, load, run, crossed, bundled>>

Next ==
  \/ \E h \in Dir : RunScript(h)
  \/ \E l \in Load, kind \in {"plain", "esm", "tla"}, s \in Subpath, h \in Dir,
        of \in Load \cup {Script} : Import(l, kind, s, h, of)
  \/ \E l \in Load : Transpiled(l) \/ BundleBegins(l) \/ NotTranspiled(l)
  \/ \E l \in Load, s \in Subpath : BundleResolves(l, s)
  \/ \E l \in Load, failed \in BOOLEAN : BundleEnds(l, failed)
  \/ \E failed \in BOOLEAN : BodyEnds(failed)
  \/ \E s \in Subpath : Require(s) \/ RequireResolve(s)

Spec == Init /\ [][Next]_vars

-----------------------------------------------------------------------------
(* However loads overlap and fail, each pops once what it pushed once: when *)
(* none is in progress, the script's directory alone is left, unless a new  *)
(* script was run while a load was in progress.                             *)
DirsComeBack ==
  ~cut => Len(dirs) = Cardinality(InProgress) + (IF script = NoScript THEN 0 ELSE 1)

(* Unless a load had to wait while another was in progress, an import() by  *)
(* the body of a module or by the script starts from its own directory,     *)
(* whatever it imported before. One exception: code that runs when its body *)
(* does not, in a function that is called later or goes on after an await,  *)
(* starts from the directory of the body that runs, or of the script.       *)
ResolvedFromHome ==
  ~crossed /\ ~cut => last.base = IF last.own THEN last.home ELSE last.body

(* A require is resolved by the conditions of require, an import() and a    *)
(* bundle by those of import, and a mode that a bundle has set is put back  *)
(* with it; two bundles at once exchange the modes they put back.           *)
ResolvedAsAsked ==
  /\ last.by = "require" => last.mode = "require"
  /\ last.by = "import" => last.mode = "import"
  /\ last.by = "bundle" /\ ~bundled => last.mode = "import"
  /\ ~bundled /\ (\A l \in Load : load[l].at # "bundling") => mode = "require"

(* The package found is the nearest that has what was asked for, and a      *)
(* package with exports is not entered by a subpath it does not export. Of  *)
(* one that has exports and names a main, the module field is not looked at.*)
Has(p, subpath, m) ==
  \/ Target(p, subpath, m) \in p.files
  \/ subpath = "sub" /\ p.exports = {} /\ "sub" \in p.files
  \/ subpath = "." /\ "index" \in p.files
  \/ subpath = "." /\ "main" \in p.fields \cap p.files
  \/ /\ subpath = "." /\ "module" \in p.fields \cap p.files
     /\ p.exports = {} \/ "main" \notin p.fields

NearestIsFound ==
  LET f == last.file
  IN  last.by # "none" =>
        /\ \A d \in 1 .. last.base :
             Has(tree[d], last.subpath, last.mode) => f # NoFile /\ f.dir >= d
        /\ f.name = "sub" /\ tree[f.dir].exports # {} =>
             last.subpath \in tree[f.dir].exports
=============================================================================
