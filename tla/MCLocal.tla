------------------------------ MODULE MCLocal -------------------------------
(***************************************************************************)
(* Small instances of the shell with its keys, its parser and its filters, *)
(* of children and of pipes.                                               *)
(* They share no state: the run takes each of them in turn, and its states *)
(* are the sum, not the product, of theirs. The children are those of      *)
(* ChildProcess; the pipe is that of StreamPipe, with three chunks and one *)
(* slow destination that may hold two; lines are of two commands, and keys *)
(* are for lines of two characters.                                        *)
(***************************************************************************)
EXTENDS ChildProcess, StreamPipe, TLC

CONSTANTS
  c1, w1,
  Instances,   \* the parts a run takes
  ChunkBytes,  \* the length of a chunk in bytes; in UTF-16 units it is 1
  Dir, Workspace, Root, Name, MaxCommand, MaxWork,   \* of the shell's lines
  MaxLength, MaxHistory, MaxRows, Words              \* of its keys

VARIABLES part,
  \* The shell and its commands.
  cwd, processCwd, booted, shellFiles, works, awaited, shellBusy, editing, asked, loose,
  line, cursorPos, history, historyIdx, historyTmp, busy, text, row, col, draft, abandoned,
  typed, pos, tokens, parsing, pipelines, separators,
  lines, left, order, distinct, filtered,
  searched, opts, next, matchCount, results

MCChild == {c1}
MCWaiter == {w1}

shellVars == <<cwd, processCwd, booted, shellFiles, works, awaited, shellBusy,
               editing, asked, loose>>
inputVars == <<line, cursorPos, history, historyIdx, historyTmp, busy, text, row,
               col, draft, abandoned>>
parserVars == <<typed, pos, tokens, parsing, pipelines, separators>>
filterVars == <<lines, left, order, distinct, filtered>>
rgVars == <<searched, opts, next, matchCount, results>>
localVars == <<part, vars, pipeVars, shellVars, inputVars, parserVars, filterVars,
               rgVars>>

MCBytes == [c \in 1 .. 3 |-> ChunkBytes]
MCUnits == [c \in 1 .. 3 |-> 1]

MCWords == {<<"a", "a">>}

Sh == INSTANCE Shell WITH MaxLine <- MaxCommand, files <- shellFiles, busy <- shellBusy
Input == INSTANCE ShellInput

(* Lines of four characters; lists of three tokens.                          *)
Lexed == {"a", " ", "'", "\"", "\\", "|", "&", ">", "2", "*"}
Tok(type, value) == [type |-> type, value |-> value, quoted |-> FALSE]
Given == {Tok("WORD", <<"a">>), Tok("WORD", <<"=">>)} \cup
  {Tok(t, << >>) : t \in {"SEMI", "AND", "PIPE", "REDIRECT", "INPUT", "FD_REDIRECT"}}
Parser == INSTANCE ShellParser WITH
  Char <- Lexed, MaxText <- 4, Kind <- Given, MaxToken <- 3,
  text <- typed, stage <- parsing

(* Texts of three lines, three filters; two files of three lines, searched  *)
(* with and without context.                                                *)
Filters == INSTANCE TextFilters WITH
  Word <- {1, 2}, MaxLine <- 3, MaxPipe <- 3, MaxFile <- 2, MaxContext <- 1, MaxCount <- {2, 9},
  text <- lines, last <- filtered, files <- searched

LocalInit ==
  /\ part \in Instances
  /\ Init /\ PipeInit /\ Sh!Init /\ Input!Init
  /\ part # "shell" => cwd = Workspace
  /\ IF part = "parser" THEN Parser!Init
     ELSE /\ typed = << >> /\ pos = 1 /\ tokens = << >> /\ parsing = "done"
          /\ pipelines = << >> /\ separators = << >>
  /\ Filters!Init /\ Filters!RgInit

(* A step of one part leaves the state of the others alone.                 *)
Others(p) ==
  /\ p # "child" => UNCHANGED vars
  /\ p # "pipe" => UNCHANGED pipeVars
  /\ p # "shell" => UNCHANGED shellVars
  /\ p # "input" => UNCHANGED inputVars
  /\ p # "parser" => UNCHANGED parserVars
  /\ p # "filters" => UNCHANGED filterVars
  /\ p # "rg" => UNCHANGED rgVars

LocalNext ==
  /\ UNCHANGED part
  /\ \/ part = "child" /\ Next /\ Others("child")
     \/ part = "pipe" /\ PipeNext /\ Others("pipe")
     \/ part = "shell" /\ Sh!Next /\ Others("shell")
     \/ part = "input" /\ Input!Next /\ Others("input")
     \/ part = "parser" /\ Parser!Next /\ Others("parser")
     \/ part = "filters" /\ Filters!Next /\ Others("filters")
     \/ part = "rg" /\ Filters!RgNext /\ Others("rg")

LocalSpec ==
  LocalInit /\ [][LocalNext]_localVars /\ WF_vars(RunTask) /\ PipeFairness

(* The state of the part that is taken has its type.                        *)
LocalTypeOK ==
  CASE part = "child" -> TypeOK
    [] part = "pipe" -> PipeTypeOK
    [] part = "shell" -> Sh!TypeOK
    [] part = "input" -> Input!TypeOK
    [] part = "parser" -> Parser!TypeOK
    [] part = "filters" -> Filters!TypeOK
    [] part = "rg" -> Filters!RgTypeOK

(* The properties of Shell and of ShellInput.                               *)
ShellIsTrue ==
  /\ part = "shell" => Sh!PromptMeansDone
  /\ part = "input" => Input!InputIsSound
CdIsKept == Sh!CdIsKept

(* The properties of ShellParser and TextFilters, rg among them.            *)
CommandsAreTrue ==
  /\ part = "parser" => /\ Parser!TokensAreRight /\ Parser!TokenizeEnds
                        /\ Parser!CommandsAreRight /\ Parser!QuotesAreKept
  /\ part = "filters" => Filters!FiltersAreRight /\ Filters!OrderIsKept
  /\ part = "rg" => Filters!OutputIsRight
=============================================================================
