---------------------------- MODULE PageSession ----------------------------
(***************************************************************************)
(* The tabs of v9 from their boot to their end (terminal.js), and the      *)
(* session they keep in IndexedDB (session-persistence.js), beside the     *)
(* package cache in the same database (runtime-cache.js). The files and the*)
(* shell's cwd, history and environment are generations: an edit makes a   *)
(* new one, and 0 is a fresh start. IndexedDB (external) runs one writing  *)
(* transaction at a time: a request that succeeded may still be lost when  *)
(* its transaction aborts. It refuses a request when it is out of space,   *)
(* and closes a tab's connections with the tab. A database's version only  *)
(* grows, and growing takes the closing of every other connection.         *)
(***************************************************************************)
EXTENDS Integers

CONSTANTS
  Tab,         \* the tabs, which share the database
  MaxEdit,     \* bound: edits ever made
  MaxSave,     \* bound: saves ever started
  MaxPage      \* bound: pages ever opened

ASSUME SessionAssumption ==
  MaxEdit \in Nat /\ MaxSave \in Nat /\ MaxPage \in Nat

SessionVersion == 2
CacheVersion == 1
Nothing == [save |-> 0, gen |-> 0]   \* a key that the store does not have

VARIABLES
  db,        \* the database: version and the session store's three keys
  tx,        \* the put that succeeded and is not committed
  open,      \* per tab, which of the two modules hold a connection
  page,      \* per tab, the boot of the page
  live,      \* per tab, files and shell state in memory, and restored files
  save,      \* per tab, the save in flight: where it is, what it has collected
  alongside, \* history: saves beside which another tab saved or cleared
  lost,      \* history: saves whose files were put and not committed
  clock      \* edits, saves and pages so far

sessionVars == <<db, tx, open, page, live, save, alongside, lost, clock>>

Gen == 0 .. MaxEdit
NoSave == [at |-> "none", n |-> 0, files |-> 0, shell |-> 0]
NoTx == [key |-> "none", kept |-> Nothing]
NoLive == [files |-> 0, shell |-> 0, initial |-> 0]
Kept == [save : 0 .. MaxSave, gen : Gen]

SessionTypeOK ==
  /\ db \in [version : 0 .. 2, schema : BOOLEAN, files : Kept, shell : Kept]
  /\ tx \in [key : {"none", "schema", "files", "shell"}, kept : Kept]
  /\ open \in [Tab -> [session : BOOLEAN, cache : BOOLEAN]]
  /\ page \in [Tab -> [at : {"closed", "schema", "files", "shell", "up"},
                       found : Kept, wasmBoots : BOOLEAN]]
  /\ live \in [Tab -> [files : Gen, shell : Gen, initial : Gen]]
  /\ save \in [Tab -> [at : {"none", "shell", "schema", "files", "last"},
                       n : 0 .. MaxSave, files : Gen, shell : Gen]]
  /\ alongside \subseteq 1 .. MaxSave /\ lost \subseteq 0 .. MaxSave
  /\ clock \in [edit : Gen, save : 0 .. MaxSave, page : 0 .. MaxPage]

SessionInit ==
  /\ db = [version |-> 0, schema |-> FALSE, files |-> Nothing, shell |-> Nothing]
  /\ tx = NoTx
  /\ open = [t \in Tab |-> [session |-> FALSE, cache |-> FALSE]]
  /\ page = [t \in Tab |-> [at |-> "closed", found |-> Nothing, wasmBoots |-> FALSE]]
  /\ live = [t \in Tab |-> NoLive]
  /\ save = [t \in Tab |-> NoSave]
  /\ alongside = {} /\ lost = {}
  /\ clock = [edit |-> 0, save |-> 0, page |-> 0]

-----------------------------------------------------------------------------
(* _openDb of either module. An older version than the database's is        *)
(* refused; a newer one is blocked while a cache is connected in any tab.   *)

CanOpenSession(t) ==
  \/ open[t].session \/ db.version >= SessionVersion
  \/ \A u \in Tab : ~open[u].cache

CanOpenCache == db.version <= CacheVersion

OpenCache(t) ==
  /\ page[t].at # "closed" /\ ~open[t].cache /\ CanOpenCache
  /\ db' = [db EXCEPT !.version = CacheVersion]
  /\ open' = [open EXCEPT ![t].cache = TRUE]
  /\ UNCHANGED <<tx, page, live, save, alongside, lost, clock>>

(* A transaction of the session store may open the database first, and waits*)
(* for the one before it to end.                                            *)
Transact(t) ==
  /\ tx = NoTx /\ CanOpenSession(t)
  /\ db' = [db EXCEPT !.version = IF @ < SessionVersion THEN SessionVersion ELSE @]
  /\ open' = [open EXCEPT ![t].session = TRUE]

(* What was put is kept when its transaction commits, and only then.        *)
Commit ==
  /\ tx.key # "none" /\ tx' = NoTx
  /\ db' = CASE tx.key = "schema" -> [db EXCEPT !.schema = TRUE]
             [] tx.key = "files" -> [db EXCEPT !.files = tx.kept]
             [] tx.key = "shell" -> [db EXCEPT !.shell = tx.kept]
  /\ UNCHANGED <<open, page, live, save, alongside, lost, clock>>

Abort ==
  /\ tx.key # "none" /\ tx' = NoTx
  /\ lost' = IF tx.key = "files" THEN lost \cup {tx.kept.save} ELSE lost
  /\ UNCHANGED <<db, open, page, live, save, alongside, clock>>

-----------------------------------------------------------------------------
(* boot(): the shell, the restore, the prompt and the Wasm runtime.         *)

Boot(t) ==
  /\ page[t].at = "closed" /\ clock.page < MaxPage
  /\ page' = [page EXCEPT ![t] = [at |-> "schema", found |-> Nothing,
                                    wasmBoots |-> FALSE]]
  /\ live' = [live EXCEPT ![t] = NoLive]
  /\ clock' = [clock EXCEPT !.page = @ + 1]
  /\ UNCHANGED <<db, tx, open, save, alongside, lost>>

(* installSessionHooks: restoreSession reads three keys, a transaction each;*)
(* a read that fails is a key that is not there.                            *)
Prompt(p) == [p EXCEPT !.at = "up", !.wasmBoots = TRUE, !.found = Nothing]

ReadSchema(t) ==
  /\ page[t].at = "schema" /\ Transact(t)
  /\ page' = [page EXCEPT ![t] = IF db.schema THEN [@ EXCEPT !.at = "files"]
                                  ELSE Prompt(@)]
  /\ UNCHANGED <<tx, live, save, alongside, lost, clock>>

ReadFiles(t) ==
  /\ page[t].at = "files" /\ Transact(t)
  /\ page' = [page EXCEPT ![t].at = "shell", ![t].found = db.files]
  /\ UNCHANGED <<tx, live, save, alongside, lost, clock>>

(* The files go into the active memfs and wait for the runtime's own.       *)
Restored(l, files, shell) ==
  [l EXCEPT !.files = IF files = Nothing THEN @ ELSE files.gen,
            !.initial = IF files = Nothing THEN @ ELSE files.gen,
            !.shell = IF shell = Nothing THEN @ ELSE shell.gen]

ReadShell(t) ==
  /\ page[t].at = "shell" /\ Transact(t)
  /\ page' = [page EXCEPT ![t] = Prompt(@)]
  /\ live' = [live EXCEPT ![t] = Restored(@, page[t].found, db.shell)]
  /\ UNCHANGED <<tx, save, alongside, lost, clock>>

ReadFails(t) ==
  /\ page[t].at \in {"schema", "files", "shell"}
  /\ page' = [page EXCEPT ![t] = IF @.at = "files" THEN [@ EXCEPT !.at = "shell"]
                                  ELSE Prompt(@)]
  /\ live' = IF page[t].at = "shell" THEN [live EXCEPT ![t] = Restored(@, page[t].found, Nothing)]
             ELSE live
  /\ UNCHANGED <<db, tx, open, save, alongside, lost, clock>>

(* initEdgeJS: the shell is given the runtime's memfs, which holds the      *)
(* files that were restored.                                                *)
WasmReady(t) ==
  /\ page[t].wasmBoots
  /\ page' = [page EXCEPT ![t].wasmBoots = FALSE]
  /\ live' = [live EXCEPT ![t].files = live[t].initial]
  /\ UNCHANGED <<db, tx, open, save, alongside, lost, clock>>

WasmFails(t) ==
  /\ page[t].wasmBoots /\ page' = [page EXCEPT ![t].wasmBoots = FALSE]
  /\ UNCHANGED <<db, tx, open, live, save, alongside, lost, clock>>

(* The user and programs change files, or the shell's state.                *)
Edit(t) ==
  /\ page[t].at = "up" /\ clock.edit < MaxEdit
  /\ clock' = [clock EXCEPT !.edit = @ + 1]
  /\ \/ live' = [live EXCEPT ![t].files = clock.edit + 1]
     \/ live' = [live EXCEPT ![t].shell = clock.edit + 1]
  /\ UNCHANGED <<db, tx, open, page, save, alongside, lost>>

ClosePage(t) ==
  /\ page[t].at # "closed"
  /\ page' = [page EXCEPT ![t] = [at |-> "closed", found |-> Nothing, wasmBoots |-> FALSE]]
  /\ open' = [open EXCEPT ![t].session = FALSE, ![t].cache = FALSE]
  /\ live' = [live EXCEPT ![t] = NoLive]
  /\ save' = [save EXCEPT ![t] = NoSave]
  /\ UNCHANGED <<db, tx, alongside, lost, clock>>

-----------------------------------------------------------------------------
(* saveSession: one at a time in a tab, each tab for itself. It collects the*)
(* files, then the shell's state, and puts three keys, a transaction each:  *)
(* the next put is asked for when the request before it has succeeded.      *)
MayStart(t) == save[t].at = "none"
Saving == {u \in Tab : save[u].at # "none"}

SaveStarts(t) ==
  /\ page[t].at = "up" /\ MayStart(t) /\ clock.save < MaxSave
  /\ clock' = [clock EXCEPT !.save = @ + 1]
  /\ save' = [save EXCEPT ![t] = [at |-> "shell", n |-> clock.save + 1,
                                  files |-> live[t].files, shell |-> 0]]
  /\ alongside' = IF Saving = {} THEN alongside
                  ELSE alongside \cup {clock.save + 1} \cup {save[u].n : u \in Saving}
  /\ UNCHANGED <<db, tx, open, page, live, lost>>

SaveCollectsShell(t) ==
  /\ save[t].at = "shell"
  /\ save' = [save EXCEPT ![t].at = "schema", ![t].shell = live[t].shell]
  /\ UNCHANGED <<db, tx, open, page, live, alongside, lost, clock>>

(* _putSession resolves when its request succeeds.                          *)
Put(t, key, gen, then) ==
  /\ Transact(t)
  /\ tx' = [key |-> key, kept |-> [save |-> save[t].n, gen |-> gen]]
  /\ save' = [save EXCEPT ![t] = then]
  /\ UNCHANGED <<page, live, alongside, lost, clock>>

PutSchema(t) ==
  /\ save[t].at = "schema"
  /\ Put(t, "schema", 0, [save[t] EXCEPT !.at = "files"])

\* Mutant: nobody hears that the files could not be put.
PutFilesUnheard(t) ==
  /\ save[t].at = "files"
  /\ \/ Put(t, "files", save[t].files, [save[t] EXCEPT !.at = "last"])
     \/ /\ save' = [save EXCEPT ![t].at = "last"]
        /\ UNCHANGED <<db, tx, open, page, live, alongside, lost, clock>>

PutFiles(t) ==
  /\ save[t].at = "files"
  /\ Put(t, "files", save[t].files, [save[t] EXCEPT !.at = "last"])

PutShell(t) == save[t].at = "last" /\ Put(t, "shell", save[t].shell, NoSave)

(* Blocked, out of space: the save ends where it is.                        *)
PutFails(t) ==
  /\ save[t].at \in {"schema", "files", "last"}
  /\ save' = [save EXCEPT ![t] = NoSave]
  /\ UNCHANGED <<db, tx, open, page, live, alongside, lost, clock>>

(* clearSession: the three keys in one transaction.                         *)
ClearSession(t) ==
  /\ page[t].at = "up" /\ tx = NoTx /\ CanOpenSession(t)
  /\ db' = [version |-> SessionVersion, schema |-> FALSE,
            files |-> Nothing, shell |-> Nothing]
  /\ open' = [open EXCEPT ![t].session = TRUE]
  /\ alongside' = alongside \cup {save[u].n : u \in Saving}
  /\ UNCHANGED <<tx, page, live, save, lost, clock>>

SessionNext ==
  \/ Commit \/ Abort
  \/ \E t \in Tab :
       \/ Boot(t) \/ ReadSchema(t) \/ ReadFiles(t) \/ ReadShell(t) \/ ReadFails(t)
       \/ WasmReady(t) \/ WasmFails(t) \/ Edit(t) \/ ClosePage(t) \/ OpenCache(t)
       \/ SaveStarts(t) \/ SaveCollectsShell(t)
       \/ PutSchema(t) \/ PutFiles(t) \/ PutShell(t) \/ PutFails(t) \/ ClearSession(t)

SessionSpec == SessionInit /\ [][SessionNext]_sessionVars

-----------------------------------------------------------------------------
(* What a page would restore is of one save, or the files are of a later one*)
(* than the cwd: a tab that is closed, or a put that fails, between two     *)
(* transactions of a save never leaves a cwd newer than the files it is in. *)
(* Two exceptions: a save beside which another tab saved or cleared, since a*)
(* tab waits for its own saves only (session-persistence.js, 178), and one  *)
(* whose files were lost at commit, since _putSession (91-95) waits for the *)
(* request and not for the transaction.                                     *)
ShellNeedsItsFiles ==
  \/ db.shell.save <= db.files.save
  \/ db.shell.save \in alongside \cup lost

(* The two modules agree on the version of the database they share          *)
(* (session-persistence.js, line 33: "Keep in sync with runtime-cache.js"): *)
(* a page's package cache is open or would not be refused.                  *)
CacheIsNotRefused ==
  \A t \in Tab : page[t].at # "closed" => open[t].cache \/ CanOpenCache
=============================================================================
