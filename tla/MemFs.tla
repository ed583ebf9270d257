-------------------------------- MODULE MemFs --------------------------------
(***************************************************************************)
(* The file system in memory (memfs.js, MEMFS, under fs.js): inodes, file  *)
(* descriptors whose content grows ahead of what is written, and the       *)
(* journal of mutations that sessions, watchers and the module cache       *)
(* follow. A path is a sequence of names, a byte is 1, and 0 in a place    *)
(* that was never written. An operation that throws changes nothing.       *)
(***************************************************************************)
EXTENDS Integers, Sequences, SequencesExt, FiniteSets

CONSTANTS
  Name,         \* names of files and directories
  MaxIno,       \* bound: inodes made; 1 is the root
  MaxFd,        \* bound: descriptors opened
  MaxLength,    \* bound: bytes of a file
  MinCapacity   \* the first capacity a write allocates: 4096

VARIABLES
  inodes,    \* each inode: type, content, children
  fdTable,   \* each descriptor
  replica,   \* the paths and types that a replay of the journal has
  ideal,     \* history: what each file's bytes are, for POSIX
  apart,     \* history: where the content is not those: in zeros behind, in bytes
  orphaned   \* history: a directory was moved into itself

vars == <<inodes, fdTable, replica, ideal, apart, orphaned>>

Ino == 1 .. MaxIno
Root == 1
None == 0
Paths == UNION {[1 .. n -> Name] : n \in 1 .. MaxIno - 1}
Bytes == BoundedSeq({0, 1}, 2 * MaxLength)

TypeOK ==
  /\ inodes \in [Ino -> [type : {"none", "file", "dir"}, content : Bytes,
                         children : [Name -> Ino \cup {None}]]]
  /\ fdTable \in [1 .. MaxFd -> [at : {"none", "open", "closed"},
                  inode : Ino \cup {None}, position : 0 .. 2 * MaxLength,
                  capacity : 0 .. 2 * MaxLength]]
  /\ replica \in SUBSET (Seq(Name) \X {"file", "dir"})
  /\ ideal \in [Ino -> Bytes] /\ apart \in [Ino -> {"no", "zeros", "bytes"}]
  /\ orphaned \in BOOLEAN

NoInode == [type |-> "none", content |-> << >>, children |-> [n \in Name |-> None]]

Init ==
  /\ inodes = [i \in Ino |-> [NoInode EXCEPT !.type = IF i = Root THEN "dir" ELSE "none"]]
  /\ fdTable = [f \in 1 .. MaxFd |-> [at |-> "none", inode |-> None,
                                      position |-> 0, capacity |-> 0]]
  /\ replica = {} /\ ideal = [i \in Ino |-> << >>]
  /\ apart = [i \in Ino |-> "no"] /\ orphaned = FALSE

-----------------------------------------------------------------------------
(* _resolve: down from the root; through a file there is nothing.           *)

Resolve(p) ==
  LET at[n \in 0 .. Len(p)] ==
        IF n = 0 THEN Root
        ELSE IF at[n - 1] = None \/ inodes[at[n - 1]].type # "dir" THEN None
        ELSE inodes[at[n - 1]].children[p[n]]
  IN  at[Len(p)]

Type(p) == LET i == Resolve(p) IN IF i = None THEN "none" ELSE inodes[i].type
There == {p \in Paths : Type(p) # "none"}
Parent(p) == Resolve(Front(p))
IsDir(i) == i # None /\ inodes[i].type = "dir"
Near == {p \in Paths : IsDir(Parent(p))}   \* where a name can be made
Larger(a, b) == IF a > b THEN a ELSE b
Made == Cardinality({i \in Ino : inodes[i].type # "none"})

(* _makeInode, and its entry in the parent.                                 *)
WithChild(p, type, content) ==
  [inodes EXCEPT
    ![Parent(p)].children[Last(p)] = Made + 1,
    ![Made + 1] = [NoInode EXCEPT !.type = type, !.content = content]]

-----------------------------------------------------------------------------
(* The journal's records, as one that follows it applies them.              *)

Without(r, p) == {e \in r : ~IsPrefix(p, e[1])}

Moved(r, old, new) ==
  LET tail(e) == SubSeq(e[1], Len(old) + 1, Len(e[1]))
  IN  Without(Without(r, old), new)
      \cup {<<new \o tail(e), e[2]>> : e \in {e \in r : IsPrefix(old, e[1])}}

-----------------------------------------------------------------------------
(* writeFile: 'writeFile' of a file that is there, 'create' of another. What*)
(* POSIX has there, and how the content differs from it, is beside it.      *)
Written(p, content, posix, differs) ==
  /\ IsDir(Parent(p)) /\ Type(p) # "dir"
  /\ LET i == IF Type(p) = "none" THEN Made + 1 ELSE Resolve(p)
     IN  /\ i \in Ino
         /\ inodes' = IF Type(p) = "none" THEN WithChild(p, "file", content)
                      ELSE [inodes EXCEPT ![i].content = content]
         /\ ideal' = [ideal EXCEPT ![i] = posix]
         /\ apart' = [apart EXCEPT ![i] = differs]
  /\ replica' = replica \cup {<<p, "file">>}
  /\ UNCHANGED <<fdTable, orphaned>>

(* fs.writeFileSync: what its flag says of the file.                        *)
Replace(p, flag, content) ==
  /\ flag \in {"w", "wx", "ax"} /\ (flag \in {"wx", "ax"} => Type(p) = "none")
  /\ Written(p, content, content, "no")

(* 'r+' writes the file anew, where POSIX keeps what is behind the bytes.   *)
Overwrite(p, content) ==
  /\ Type(p) = "file"
  /\ LET old == ideal[Resolve(p)]
     IN  Written(p, content, content \o SubSeq(old, Len(content) + 1, Len(old)),
                 IF Len(old) > Len(content) THEN "bytes" ELSE "no")

(* appendFileSync and flag 'a': behind all that is there, zeros too.        *)
AppendFile(p, content) ==
  IF Type(p) = "none" THEN Written(p, content, content, "no")
  ELSE LET i == Resolve(p)
       IN  /\ Larger(Len(inodes[i].content), Len(ideal[i])) < MaxLength
           /\ Written(p, inodes[i].content \o content, ideal[i] \o content,
                      IF content # << >> /\ inodes[i].content # ideal[i] THEN "bytes"
                      ELSE apart[i])

CopyFile(src, dest, excl) ==
  /\ Type(src) = "file" /\ (excl => Type(dest) = "none")
  /\ LET i == Resolve(src) IN Written(dest, inodes[i].content, ideal[i], apart[i])

\* Mutant: only the last directory that was made is recorded.
RecordedLast(p) == {<<p, "dir">>}

(* mkdir records every directory it makes.                                  *)
Recorded(p) == {<<SubSeq(p, 1, n), "dir">> : n \in 1 .. Len(p)}

Mkdir(p) ==
  /\ IsDir(Parent(p)) /\ Type(p) = "none" /\ Made < MaxIno
  /\ inodes' = WithChild(p, "dir", << >>)
  /\ replica' = replica \cup {<<p, "dir">>}
  /\ UNCHANGED <<fdTable, ideal, apart, orphaned>>

(* recursive: the directories that are missing, from the top.               *)
MkdirTree(p) ==
  LET missing == {n \in 1 .. Len(p) : Type(SubSeq(p, 1, n)) = "none"}
      first == Len(p) - Cardinality(missing) + 1
      at(n) == Made + 1 + n - first
  IN  /\ missing # {} /\ Made + Cardinality(missing) <= MaxIno
      /\ IsDir(Resolve(SubSeq(p, 1, first - 1)))
      /\ inodes' = [i \in Ino |->
           LET new == i > Made /\ i <= at(Len(p))
               under == IF new THEN first + i - Made ELSE first
               holds == under <= Len(p)
                        /\ (new \/ i = Resolve(SubSeq(p, 1, first - 1)))
               base == IF new THEN [NoInode EXCEPT !.type = "dir"] ELSE inodes[i]
           IN  IF holds THEN [base EXCEPT !.children[p[under]] = at(under)] ELSE base]
      /\ replica' = replica \cup Recorded(p)
      /\ UNCHANGED <<fdTable, ideal, apart, orphaned>>

Removed(p) == [inodes EXCEPT ![Parent(p)].children[Last(p)] = None]

Unlink(p) ==
  /\ Type(p) = "file" /\ inodes' = Removed(p)
  /\ replica' = replica \ {<<p, "file">>}
  /\ UNCHANGED <<fdTable, ideal, apart, orphaned>>

Rmdir(p) ==
  /\ Type(p) = "dir" /\ inodes[Resolve(p)].children = NoInode.children
  /\ inodes' = Removed(p) /\ replica' = replica \ {<<p, "dir">>}
  /\ UNCHANGED <<fdTable, ideal, apart, orphaned>>

(* fs.rmSync, recursive: an unlink or rmdir for everything below.           *)
Rm(p) ==
  /\ Type(p) # "none" /\ inodes' = Removed(p)
  /\ replica' = Without(replica, p)
  /\ UNCHANGED <<fdTable, ideal, apart, orphaned>>

(* Whatever had the new name is gone, a directory with all it held too. A   *)
(* directory that is moved into itself is out of the tree (bound: once).    *)
Rename(old, new) ==
  /\ ~orphaned /\ Type(old) # "none" /\ IsDir(Parent(new))
  /\ LET i == Resolve(old)
         without == Removed(old)
     IN  inodes' = [without EXCEPT ![Parent(new)].children[Last(new)] = i]
  /\ replica' = Moved(replica, old, new)
  /\ orphaned' = (orphaned \/ (IsPrefix(old, new) /\ old # new))
  /\ UNCHANGED <<fdTable, ideal, apart>>

-----------------------------------------------------------------------------
(* Descriptors. The flags of open() are not looked at. A descriptor keeps   *)
(* its inode when the file is renamed or unlinked, and its own idea of the  *)
(* capacity whoever else writes.                                            *)

Open(f, p) ==
  /\ fdTable[f].at = "none" /\ \A g \in 1 .. f - 1 : fdTable[g].at # "none"
  /\ Type(p) = "file"
  /\ fdTable' = [fdTable EXCEPT ![f] =
       [at |-> "open", inode |-> Resolve(p), position |-> 0,
        capacity |-> Len(inodes[Resolve(p)].content)]]
  /\ UNCHANGED <<inodes, replica, ideal, apart, orphaned>>

Padded(s, n) == s \o [k \in 1 .. n - Len(s) |-> 0]

\* Mutant: the new array starts out empty.
GrownEmpty(s, n) == Padded(<< >>, n)

(* The content is copied into an array of the new capacity: an exception    *)
(* when it does not fit.                                                    *)
Grown(s, n) == Padded(s, n)

(* writeFd of one byte, at the position given or at the descriptor's own.   *)
(* It throws when the new capacity is smaller than the content another      *)
(* descriptor or a writeFile left, or the content shorter than the old one. *)
WriteFd(f, given) ==
  LET d == fdTable[f]
      i == d.inode
      pos == IF given < 0 THEN d.position ELSE given
      grows == pos + 1 > d.capacity
      capacity == IF grows THEN Larger(Larger(pos + 1, d.capacity * 2), MinCapacity)
                  ELSE d.capacity
      content == IF grows THEN Grown(inodes[i].content, capacity)
                 ELSE inodes[i].content
  IN  /\ d.at = "open" /\ pos < MaxLength
      /\ grows => Len(inodes[i].content) <= capacity
      /\ pos < Len(content)
      /\ inodes' = [inodes EXCEPT ![i].content = [content EXCEPT ![pos + 1] = 1]]
      /\ fdTable' = [fdTable EXCEPT ![f].capacity = capacity,
                                    ![f].position = IF given < 0 THEN @ + 1 ELSE @]
      /\ ideal' = [ideal EXCEPT ![i] = [Padded(@, Larger(Len(@), pos + 1)) EXCEPT ![pos + 1] = 1]]
      /\ apart' = [apart EXCEPT ![i] =
                    IF grows /\ capacity > pos + 1 /\ @ = "no" THEN "zeros" ELSE @]
      /\ UNCHANGED <<replica, orphaned>>

ReadFd(f) ==
  /\ fdTable[f].at = "open"
  /\ fdTable[f].position < Len(inodes[fdTable[f].inode].content)
  /\ fdTable[f].position < MaxLength
  /\ fdTable' = [fdTable EXCEPT ![f].position = @ + 1]
  /\ UNCHANGED <<inodes, replica, ideal, apart, orphaned>>

(* close() trims nothing, whatever its comment says.                        *)
CloseFd(f) ==
  /\ fdTable[f].at = "open" /\ fdTable' = [fdTable EXCEPT ![f].at = "closed"]
  /\ UNCHANGED <<inodes, replica, ideal, apart, orphaned>>

Next ==
  \/ \E p \in Near, c \in {<< >>, <<1>>} :
       \/ \E flag \in {"w", "wx", "ax"} : Replace(p, flag, c)
       \/ Overwrite(p, c) \/ AppendFile(p, c)
  \/ \E p \in There, q \in Near :
       Rename(p, q) \/ \E excl \in BOOLEAN : CopyFile(p, q, excl)
  \/ \E p \in There : Unlink(p) \/ Rmdir(p) \/ Rm(p)
  \/ \E p \in Near : Mkdir(p)
  \/ \E p \in Paths : MkdirTree(p)
  \/ \E f \in 1 .. MaxFd, p \in There : Open(f, p)
  \/ \E f \in 1 .. MaxFd, given \in -1 .. 1 : WriteFd(f, given)
  \/ \E f \in 1 .. MaxFd : ReadFd(f) \/ CloseFd(f)

Spec == Init /\ [][Next]_vars

-----------------------------------------------------------------------------
(* Whoever has followed the journal has the tree, however files and         *)
(* directories were moved and removed: unless a directory was moved into    *)
(* itself, which takes it out of the tree.                                  *)
Entries == {<<p, Type(p)>> : p \in There}

ReplayAgrees == orphaned \/ replica = Entries

(* A file has the bytes that were written, whichever descriptors and calls  *)
(* wrote them. Two exceptions. A descriptor that made its array grow leaves *)
(* zeros behind the bytes, after close() too, which memfs.js, line 546, says*)
(* trims them. And the bytes differ after an append behind such zeros (they *)
(* are in the middle then) and after an 'r+' write of less than there was.  *)
ContentIsExact ==
  \A i \in Ino : LET c == inodes[i].content
                 IN  /\ apart[i] = "no" => c = ideal[i]
                     /\ apart[i] = "zeros" =>
                          /\ IsPrefix(ideal[i], c)
                          /\ \A k \in Len(ideal[i]) + 1 .. Len(c) : c[k] = 0
=============================================================================
