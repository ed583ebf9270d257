-------------------------------- MODULE Shell --------------------------------
(***************************************************************************)
(* A line in the terminal's shell (shell.js execute, shell-parser.js,      *)
(* shell-commands.js): it runs at once, its commands one after the other,  *)
(* and the prompt comes back when it has run, or when the work that its    *)
(* last command has left behind has ended. Two current directories are     *)
(* about: the shell's, which withCwd gives to the commands, and that of    *)
(* globalThis.process, which cd changes and the redirections follow. What  *)
(* commands print and read is left out, and all that only prints.          *)
(***************************************************************************)
EXTENDS Integers, Sequences, FiniteSets

CONSTANTS
  Dir, Workspace, Root,   \* directories, and two of them
  Name,                   \* names of files
  MaxLine,                \* bound: commands in a line
  MaxWork                 \* bound: works

VARIABLES
  cwd,        \* the shell's directory
  processCwd, \* process.cwd()
  booted,     \* process is the runtime's, no longer the page's polyfill
  files,      \* the files that are there
  works,      \* what npm and node do after the line has run
  awaited,    \* the work whose end brings the prompt back, or none
  busy,       \* keys are ignored
  editing,    \* the file that nano has open: nano has the keys
  asked,      \* history: where cd has last gone
  loose       \* history: works that no prompt waits for, see Begun

vars == <<cwd, processCwd, booted, files, works, awaited, busy, editing, asked, loose>>

NoWork == 0
NoFile == "none"
Work == 1 .. MaxWork

Command ==
  [kind : {"cd"}, dir : Dir] \cup [kind : {"touch", "rm", "test", "read", "node", "nano"}, name : Name]
    \cup [kind : {"npm", "true", "false"}]

(* Command lines: what precedes a command is ";", "&&" or "||", what        *)
(* follows it may be "> name". A pipe is a ";" here, and so is bash -c:     *)
(* both give on the last command's result. Where it has an output file of   *)
(* its own, the line that bash -c is given has none (Plain, a bound).       *)
To == {NoFile} \cup Name
Word == [after : {";", "&&", "||"}, command : Command, to : To]
Line == {line \in UNION {[1 .. n -> Word] : n \in 1 .. MaxLine} : line[1].after = ";"}
Plain == {line \in Line : \A i \in DOMAIN line : line[i].to = NoFile}

TypeOK ==
  /\ cwd \in Dir /\ processCwd \in Dir /\ booted \in BOOLEAN
  /\ files \subseteq Dir \X Name
  /\ works \in [Work -> {"none", "running", "done"}]
  /\ awaited \in {NoWork} \cup Work /\ busy \in BOOLEAN
  /\ editing \in {NoFile} \cup Name
  /\ asked \in Dir /\ loose \subseteq Work

Init ==
  /\ cwd \in Dir /\ processCwd = Root /\ booted = FALSE /\ files = {}
  /\ works = [w \in Work |-> "none"] /\ awaited = NoWork
  /\ busy = FALSE /\ editing = NoFile /\ asked = cwd /\ loose = {}

-----------------------------------------------------------------------------
(* What a command makes of a state s: the files, process.cwd(), the works,  *)
(* and its result, which takes the place of the result before: an exit code *)
(* and, maybe, a work (_async) or the editor (_nano). "due" is history: the *)
(* works that the prompt owes it to wait for.                               *)

Result(s, code) == [s EXCEPT !.code = code, !.async = NoWork, !.nano = NoFile, !.due = {}]
Status(s, ok) == Result(s, IF ok THEN 0 ELSE 1)

Started(s) ==
  LET w == CHOOSE w \in Work : s.works[w] = "none" /\ \A v \in 1 .. w - 1 : s.works[v] # "none"
  IN  [Result(s, 0) EXCEPT !.works[w] = "running", !.async = w]

(* chdir looks at nothing, and that of the polyfill does nothing.           *)
Cd(s, dir) ==
  [Result(s, 0) EXCEPT !.processCwd = IF booted THEN dir ELSE @, !.asked = dir]

Touch(s, name) == [Result(s, 0) EXCEPT !.files = @ \cup {<<cwd, name>>}]

Rm(s, name) ==
  [Status(s, <<cwd, name>> \in s.files) EXCEPT !.files = @ \ {<<cwd, name>>}]

(* "< name", which fails before the command has run.                        *)
ReadRedirect(s, name) == Status(s, <<s.processCwd, name>> \in s.files)

(* The runtime goes to the shell's directory; before it has booted a small  *)
(* sandbox runs the script at once.                                         *)
Node(s, name) ==
  IF <<cwd, name>> \notin s.files THEN Result(s, 1)
  ELSE IF booted THEN [Started(s) EXCEPT !.processCwd = cwd] ELSE Result(s, 0)

Run(s, c) ==
  CASE c.kind = "cd" -> Cd(s, c.dir)
    [] c.kind = "touch" -> Touch(s, c.name)
    [] c.kind = "rm" -> Rm(s, c.name)
    [] c.kind = "test" -> Status(s, <<cwd, c.name>> \in s.files)
    [] c.kind = "read" -> ReadRedirect(s, c.name)
    [] c.kind = "node" -> Node(s, c.name)
    [] c.kind = "npm" -> Started(s)
    [] c.kind = "nano" -> [Result(s, 0) EXCEPT !.nano = c.name]
    [] c.kind = "true" -> Result(s, 0)
    [] c.kind = "false" -> Result(s, 1)

(* "> name", of a command or of bash -c: the output goes to the file, and   *)
(* of the result the exit code is left, not the work and not the editor.    *)
WriteRedirect(s, name) ==
  IF name = NoFile THEN s
  ELSE [s EXCEPT !.files = @ \cup {<<s.processCwd, name>>},
                 !.async = NoWork, !.nano = NoFile, !.due = {}]

Begun(before, now) == {w \in Work : before[w] = "none" /\ now[w] = "running"}

(* executePipeline. The prompt is to wait for what the command begins,      *)
(* unless its output goes to a file.                                        *)
Perform(s, c) ==
  LET r == Run(s, c.command)
  IN  IF c.command.kind = "read" /\ r.code # 0 THEN r
      ELSE WriteRedirect([r EXCEPT !.due = Begun(s.works, r.works)], c.to)

(* executeCommandString.                                                    *)
Step(s, c) ==
  IF (c.after = "&&" /\ s.code # 0) \/ (c.after = "||" /\ s.code = 0)
  THEN s ELSE Perform(s, c)

Executed(line) ==
  LET after[i \in 0 .. Len(line)] ==
        IF i = 0
        THEN [files |-> files, processCwd |-> processCwd, works |-> works,
              asked |-> asked, code |-> 0, async |-> NoWork, nano |-> NoFile, due |-> {}]
        ELSE Step(after[i - 1], line[i])
  IN  after[Len(line)]

Room(line) ==
  Cardinality({i \in DOMAIN line : line[i].command.kind \in {"npm", "node"}})
    <= Cardinality({w \in Work : works[w] = "none"})

-----------------------------------------------------------------------------
(* execute, of a line or of bash -c with a line. A result's cwd would be    *)
(* kept, but no command gives one.                                          *)

\* Mutant: the prompt comes back when the line has run.
AwaitsNothing(s) == NoWork

Awaits(s) == IF s.nano # NoFile THEN NoWork ELSE s.async

Execute(line, to) ==
  LET s == WriteRedirect(Executed(line), to)
  IN  /\ ~busy /\ editing = NoFile /\ Room(line)
      /\ files' = s.files /\ processCwd' = s.processCwd /\ works' = s.works
      /\ asked' = s.asked /\ editing' = s.nano
      /\ awaited' = Awaits(s) /\ busy' = (Awaits(s) # NoWork)
      /\ loose' = loose \cup (Begun(works, s.works) \ s.due)
      /\ UNCHANGED <<cwd, booted>>

WorkEnds(w) ==
  /\ works[w] = "running" /\ works' = [works EXCEPT ![w] = "done"]
  /\ awaited' = IF awaited = w THEN NoWork ELSE awaited
  /\ busy' = (awaited \notin {w, NoWork})
  /\ UNCHANGED <<cwd, processCwd, booted, files, editing, asked, loose>>

(* Nano saves to the path it was opened with, and gives the keys back.      *)
NanoSave ==
  /\ editing # NoFile /\ files' = files \cup {<<cwd, editing>>}
  /\ UNCHANGED <<cwd, processCwd, booted, works, awaited, busy, editing, asked, loose>>

NanoExit ==
  /\ editing # NoFile /\ editing' = NoFile
  /\ UNCHANGED <<cwd, processCwd, booted, files, works, awaited, busy, asked, loose>>

(* terminal.js: the runtime is there, and in the workspace.                 *)
Boot ==
  /\ ~booted /\ booted' = TRUE /\ processCwd' = Workspace
  /\ UNCHANGED <<cwd, files, works, awaited, busy, editing, asked, loose>>

Next ==
  \/ \E line \in Line : Execute(line, NoFile)
  \/ \E line \in Plain, name \in Name : Execute(line, name)
  \/ \E w \in Work : WorkEnds(w)
  \/ NanoSave \/ NanoExit \/ Boot

Spec == Init /\ [][Next]_vars

-----------------------------------------------------------------------------
(* When the keys are taken again, what the last line has begun is over, and *)
(* while they are ignored there is something that will end that. Excepted   *)
(* are the works the shell lets go of: what a line begins before the last   *)
(* of its commands that runs, and what runs with its output sent to a file  *)
(* ("npm install > log"), whose result writeRedirect's callers cut down to  *)
(* its exit code.                                                           *)
PromptMeansDone ==
  /\ ~busy => \A w \in Work : works[w] = "running" => w \in loose
  /\ busy => awaited # NoWork /\ works[awaited] = "running"

(* shell.js: "Track cwd changes", and the test of the shell: "cd changes    *)
(* cwd, pwd confirms it". The directory of the commands that follow a cd is *)
(* the one it has gone to.                                                  *)
CdIsKept == ~busy => cwd = asked
=============================================================================
