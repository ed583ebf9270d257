---------------------------- MODULE FileCommands -----------------------------
(***************************************************************************)
(* The shell's commands that read and change files, each of them one call  *)
(* (a command runs to its end before anything else). A file system is a    *)
(* function from the paths of at most two names to what is there. Lists of *)
(* operands have one or two members.                                       *)
(*   Left out, because the code's own answer is no file system: cp -r of a *)
(* directory into itself, which copies until the stack is full.            *)
(***************************************************************************)
EXTENDS Naturals, Sequences, FiniteSets

CONSTANTS
  Name,      \* the names in a directory
  Content    \* what a file may contain

VARIABLES
  tree,      \* what is at each path: "none", "dir" or a content
  last       \* the last command: its name, the paths it names, the tree it
             \* found (history), whether its exit code is 0, the paths it lists

vars == <<tree, last>>

Root == << >>
Path == UNION {[1 .. n -> Name] : n \in 0 .. 2}
ParentOf(p) == SubSeq(p, 1, Len(p) - 1)
Under(p) == {q \in Path : Len(q) >= Len(p) /\ SubSeq(q, 1, Len(p)) = p}
Inside(p) == Under(p) \ {p}
Rest(p, q) == SubSeq(q, Len(p) + 1, Len(q))
Fits(p) == Len(p) <= 2

Idle == [cmd |-> "none", args |-> << >>, before |-> tree, ok |-> TRUE, listed |-> {}]
Init ==
  /\ tree = [p \in Path |-> IF p = Root THEN "dir" ELSE "none"]
  /\ last = Idle

TypeOK ==
  /\ tree \in [Path -> Content \cup {"none", "dir"}]
  /\ tree[Root] = "dir"
  /\ \A p \in Path \ {Root} : tree[p] # "none" => tree[ParentOf(p)] = "dir"

IsDir(t, p) == t[p] = "dir"
Exists(t, p) == t[p] # "none"
IsFile(t, p) == Exists(t, p) /\ ~IsDir(t, p)
HasParent(t, p) == p # Root /\ IsDir(t, ParentOf(p))

(* What a command that names the paths of args leaves behind.               *)
Done(cmd, args, ok, after, listed) ==
  /\ tree' = after
  /\ last' = [cmd |-> cmd, args |-> args, before |-> tree, ok |-> ok, listed |-> listed]

(* A command goes through its operands in order: one(t, p) is the tree that *)
(* the operand p leaves of t. The first that stops(t, p) ends the command   *)
(* with a failure; one that skips(t, p) is passed over.                     *)
RunEach(cmd, args, one(_, _), stops(_, _), skips(_, _)) ==
  LET step[i \in 0 .. Len(args)] ==
        IF i = 0 THEN [tree |-> tree, ok |-> TRUE]
        ELSE LET t == step[i - 1].tree
             IN IF ~step[i - 1].ok \/ stops(t, args[i]) THEN [tree |-> t, ok |-> FALSE]
                ELSE [tree |-> IF skips(t, args[i]) THEN t ELSE one(t, args[i]), ok |-> TRUE]
      end == step[Len(args)]
  IN Done(cmd, args, end.ok, end.tree, {})
Never(t, p) == FALSE

-----------------------------------------------------------------------------
(* mkdir; mkdir -p makes the parents as well, and is content with a         *)
(* directory that is there.                                                 *)
WithDirs(t, p) ==
  [q \in Path |-> IF p \in Under(q) /\ t[q] = "none" THEN "dir" ELSE t[q]]
FileAbove(t, p) == \E q \in Path : p \in Under(q) /\ IsFile(t, q)

Mkdir(args) ==
  RunEach("mkdir", args, WithDirs, LAMBDA t, p : Exists(t, p) \/ ~HasParent(t, p), Never)
MkdirParents(args) == RunEach("mkdir", args, WithDirs, FileAbove, Never)

\* Mutant: what is in a directory stays when the directory goes.
RemovedAlone(t, p) == [q \in Path |-> IF q = p /\ q # Root THEN "none" ELSE t[q]]

(* rm: a directory only with -r, even with -f; otherwise -f passes over a   *)
(* failure. Everything below a directory goes with it.                      *)
Removed(t, p) ==
  [q \in Path |-> IF q \in Under(p) /\ q # Root THEN "none" ELSE t[q]]

Rm(args, recursive, force) ==
  RunEach("rm", args, Removed,
          LAMBDA t, p : (IsDir(t, p) /\ ~recursive) \/ (~Exists(t, p) /\ ~force),
          LAMBDA t, p : ~Exists(t, p))

(* mv: memfs renames, whatever is at the new path; a directory is not moved *)
(* into another one but takes its place. Moved into itself, or onto the     *)
(* root, it is lost.                                                        *)
Renamed(t, p, q) ==
  [r \in Path |->
     CASE r \in Under(q) /\ q # Root /\ q \notin Inside(p) /\ Fits(p \o Rest(q, r))
            -> t[p \o Rest(q, r)]
       [] r \in Under(p) \/ (r \in Under(q) /\ q # Root) -> "none"
       [] OTHER -> t[r]]

MayMove(p, q) == \A r \in Inside(p) : Exists(tree, r) => Fits(q \o Rest(p, r))

Mv(p, q) ==
  /\ MayMove(p, q)
  /\ IF p # Root /\ Exists(tree, p) /\ (q = Root \/ HasParent(tree, q))
     THEN Done("mv", <<p, q>>, TRUE, Renamed(tree, p, q), {})
     ELSE Done("mv", <<p, q>>, FALSE, tree, {})

\* Mutant: a directory is copied to the path it was given.
DestinationAsGiven(p, q) == q

(* cp: into a directory that exists, otherwise to the path; the copy of a   *)
(* directory is added to what is there.                                     *)
Destination(p, q) == IF IsDir(tree, q) THEN Append(q, p[Len(p)]) ELSE q

Copied(t, p, to) ==
  [r \in Path |->
     IF r \in Under(to) /\ Fits(p \o Rest(to, r)) /\ Exists(t, p \o Rest(to, r))
     THEN t[p \o Rest(to, r)] ELSE WithDirs(t, to)[r]]

Cp(p, q, recursive) ==
  LET to == Destination(p, q)
      file == IsFile(tree, p)
  IN /\ p # Root /\ Fits(to)
     /\ IsDir(tree, p) => to \notin Inside(p)
     /\ \A r \in Inside(p) : Exists(tree, r) => Fits(to \o Rest(p, r))
     /\ IF \/ ~Exists(tree, p)
           \/ file /\ ~(HasParent(tree, to) /\ ~IsDir(tree, to))
           \/ ~file /\ ~(recursive /\ ~FileAbove(tree, to))
        THEN Done("cp", <<p, q>>, FALSE, tree, {})
        ELSE Done("cp", <<p, q>>, TRUE,
                  IF file THEN [tree EXCEPT ![to] = tree[p]] ELSE Copied(tree, p, to), {})

(* touch: makes the files that are not there. tee writes them all.          *)
Touch(args, c) ==
  RunEach("touch", args, LAMBDA t, p : [t EXCEPT ![p] = c],
          LAMBDA t, p : ~Exists(t, p) /\ ~HasParent(t, p), Exists)
Tee(args, c) ==
  RunEach("tee", args, LAMBDA t, p : [t EXCEPT ![p] = c],
          LAMBDA t, p : IsDir(t, p) \/ ~HasParent(t, p), Never)

(* sed -i: rewrites files in turn and stops at the first that is not there. *)
SedInPlace(args, c) ==
  RunEach("sed", args, LAMBDA t, p : [t EXCEPT ![p] = c],
          LAMBDA t, p : ~IsFile(t, p), Never)

-----------------------------------------------------------------------------
(* walkDir, find, ls -R: level by level, to a depth.                        *)
Children(t, p) == {q \in Path : q # Root /\ ParentOf(q) = p /\ Exists(t, q)}
Walk(t, p, depth) ==
  LET level[d \in 0 .. depth] ==
        IF d = 0 THEN {p}
        ELSE UNION {Children(t, q) : q \in {r \in level[d - 1] : IsDir(t, r)}}
  IN UNION {level[d] : d \in 1 .. depth}

(* find lists where it starts, even if nothing is there; ls does not.       *)
Find(p, depth) == Done("find", <<p>>, TRUE, tree, {p} \cup Walk(tree, p, depth))
Ls(p) ==
  Done("ls", <<p>>, Exists(tree, p), tree,
       IF Exists(tree, p) THEN Walk(tree, p, 2) ELSE {})

(* cat, test, stat, readlink and realpath say whether a path is there.      *)
Test(p) == Done("test", <<p>>, Exists(tree, p), tree, {})

(* The shell takes a command's answer before it runs another.               *)
TakeAnswer ==
  /\ last.cmd # "none"
  /\ last' = [Idle EXCEPT !.before = tree]
  /\ UNCHANGED tree

Operands == {<<p>> : p \in Path} \cup {<<p, q>> : p \in Path, q \in Path}

Command ==
  \/ \E args \in Operands :
       \/ Mkdir(args) \/ MkdirParents(args)
       \/ \E recursive \in BOOLEAN, force \in BOOLEAN : Rm(args, recursive, force)
       \/ \E c \in Content : Touch(args, c) \/ Tee(args, c) \/ SedInPlace(args, c)
  \/ \E p \in Path, q \in Path :
       Mv(p, q) \/ \E recursive \in BOOLEAN : Cp(p, q, recursive)
  \/ \E p \in Path : Ls(p) \/ Test(p) \/ \E depth \in 1 .. 2 : Find(p, depth)

Next == (last.cmd = "none" /\ Command) \/ TakeAnswer

Spec == Init /\ [][Next]_vars

-----------------------------------------------------------------------------
(* What a command that exits with 0 says is so: rm leaves none of what it   *)
(* names (shell-commands.js, lines 438 to 448), mkdir makes each directory, *)
(* cp leaves the whole of its source where it belongs and the source as it  *)
(* was, mv takes what was at the old path to a new one that was free.       *)
Tells(to, from, before) ==
  \A r \in Under(from) : before[r] # "none" => tree[to \o Rest(from, r)] = before[r]
Named(i) == last.args[i]
RmIsTrue ==
  \A i \in 1 .. Len(last.args) : Named(i) # Root => ~Exists(tree, Named(i))
CpIsTrue ==
  LET to == IF last.before[Named(2)] = "dir"
            THEN Append(Named(2), Named(1)[Len(Named(1))]) ELSE Named(2)
  IN Tells(to, Named(1), last.before) /\ Tells(Named(1), Named(1), last.before)
MvIsTrue ==
  \/ last.before[Named(2)] # "none" \/ Named(2) \in Under(Named(1))
  \/ Tells(Named(2), Named(1), last.before) /\ ~Exists(tree, Named(1))

ExitIsTrue ==
  last.ok =>
    CASE last.cmd = "rm"    -> RmIsTrue
      [] last.cmd = "mkdir" -> \A i \in 1 .. Len(last.args) : IsDir(tree, Named(i))
      [] last.cmd = "cp"    -> CpIsTrue
      [] last.cmd = "mv"    -> MvIsTrue
      [] OTHER -> \A q \in last.listed : q = Named(1) \/ Exists(tree, q)

(* No command touches a path it does not name, or one above what it names;  *)
(* one that fails on its only operand changes nothing.                      *)
NothingElseChanges ==
  /\ \A q \in Path :
       tree[q] = last.before[q]
         \/ \E i \in 1 .. Len(last.args) : q \in Under(Named(i)) \/ Named(i) \in Under(q)
  /\ (~last.ok /\ Len(last.args) = 1) => tree = last.before
=============================================================================
