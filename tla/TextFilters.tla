----------------------------- MODULE TextFilters -----------------------------
(***************************************************************************)
(* The shell's text commands in a pipe: each takes the whole output of the *)
(* one before it (options._stdin). A text is the sequence that split('\n') *)
(* makes of it: "a\nb\n" is <<a, b, Blank>>, and the empty string is       *)
(* <<Blank>>, which is false to JavaScript, so that a filter takes it for  *)
(* no input at all. A line is a sequence of words, and a word a number.    *)
(*                                                                         *)
(* And rg: the files under a directory one after another, without those    *)
(* that .gitignore or a -g glob leaves out, with lines of context around   *)
(* each match, up to a number of matches. What the regular expressions     *)
(* make of lines and names is given, not computed. It shares nothing with  *)
(* a pipe, and has a state and steps of its own (RgInit, RgNext).          *)
(***************************************************************************)
EXTENDS Naturals, Sequences, FiniteSets, SequencesExt

CONSTANTS
  Word,      \* the words a file may contain
  MaxLine,   \* lines of a file
  MaxPipe,   \* commands of a pipe
  MaxFile,   \* rg: files below the directory
  MaxContext, \* rg: lines of context
  MaxCount   \* rg: the values of -m that are tried; one above all matches is none

VARIABLES
  text,      \* what the next command of the pipe reads
  left,      \* how many commands are still to run, 0 outside a pipe
  order,     \* what sort made of the lines, "none" when none ran (history)
  distinct,  \* whether uniq ran on sorted lines (history)
  last,      \* the last command, its number and the text it read (history)
  files,     \* rg: the files: which lines match, which .gitignore patterns apply
  opts,      \* rg: -v, -B, -A, -m, and -c or -l
  next,      \* rg: the file that walkDir comes to next; 0 when no search runs
  matchCount, \* rg: matches so far, of all files
  results    \* rg: what is to be printed

vars == <<text, left, order, distinct, last>>
rgVars == <<files, opts, next, matchCount, results>>

Blank == << >>
Empty == <<Blank>>
Line == {Blank} \cup {<<w>> : w \in Word}
File == UNION {[1 .. n -> Line] : n \in 1 .. MaxLine}

Init ==
  /\ text = Empty /\ left = 0 /\ order = "none" /\ distinct = FALSE
  /\ last = [cmd |-> "none", n |-> 0, read |-> Empty]

TypeOK ==
  /\ text \in Seq(Seq(Nat)) /\ text # << >>
  /\ left \in 0 .. MaxPipe
  /\ order \in {"none", "up", "down"} /\ distinct \in BOOLEAN

(* join('\n') of lines, and the same with the newline that ends the last.   *)
Join(lines) == IF lines = << >> THEN Empty ELSE lines
Ended(lines) == Append(Join(lines), Blank)
(* The lines without the empty one that split leaves behind the last newline. *)
Popped(t) == IF t[Len(t)] = Blank THEN Front(t) ELSE t
First(n, s) == SubSeq(s, 1, IF n < Len(s) THEN n ELSE Len(s))
\* slice(-n), which is all of the lines when n is 0
Final(n, s) == IF n = 0 \/ n >= Len(s) THEN s ELSE SubSeq(s, Len(s) - n + 1, Len(s))

-----------------------------------------------------------------------------
Run(cmd, n, output) ==
  /\ left > 0
  /\ text' = (IF text = Empty THEN Empty ELSE output)
  /\ left' = left - 1
  /\ last' = [cmd |-> cmd, n |-> n, read |-> text]
KeepsOrder == UNCHANGED <<order, distinct>>
LosesOrder == order' = "none" /\ distinct' = FALSE

(* cat of a file, and seq, begin a pipe.                                    *)
Begin(t) ==
  /\ left = 0
  /\ text' = t /\ left' = MaxPipe
  /\ last' = [cmd |-> "cat", n |-> 0, read |-> t]
  /\ LosesOrder
Cat == \E t \in File : Begin(t)
Numbers(from, to) == [i \in 1 .. (to + 1) - from |-> <<from + i - 1>>]
SeqCmd == \E from, to \in Word : from <= to /\ Begin(Ended(Numbers(from, to)))

Grep(matched, invert) ==
  LET found == SelectSeq(text, LAMBDA l : (l \in matched) # invert)
  IN /\ Run(IF invert THEN "grep -v" ELSE "grep", 0,
            IF found = << >> THEN Empty ELSE Ended(found))
     /\ KeepsOrder

HeadLines(n) ==
  /\ Run("head", n, LET some == Join(First(n, text))
                    IN IF Len(text) > n THEN Append(some, Blank) ELSE some)
  /\ KeepsOrder

\* Mutant: the empty piece behind the last newline counts as a line.
TailUnpopped(n) == Run("tail", n, Ended(Final(n, text))) /\ KeepsOrder

TailLines(n) == Run("tail", n, Ended(Final(n, Popped(text)))) /\ KeepsOrder

Before(l, m) ==
  \/ IsPrefix(l, m) /\ l # m
  \/ \E i \in 1 .. Len(l) :
       /\ i <= Len(m) /\ l[i] < m[i]
       /\ \A j \in 1 .. i - 1 : l[j] = m[j]

Sort(reverse) ==
  LET up == SortSeq(Popped(text), LAMBDA l, m : Before(l, m))
  IN /\ Run("sort", 0, Ended(IF reverse THEN Reverse(up) ELSE up))
     /\ order' = IF reverse THEN "down" ELSE "up"
     /\ distinct' = FALSE

\* Mutant: a line is compared with the last one kept but one.
UniqSkips ==
  /\ Run("uniq", 0,
         LET Kept(i) == i <= 2 \/ text[i] # text[i - 2]
         IN [k \in 1 .. Cardinality({i \in DOMAIN text : Kept(i)}) |->
               text[CHOOSE i \in DOMAIN text :
                      Kept(i) /\ Cardinality({j \in 1 .. i : Kept(j)}) = k]])
  /\ order' = order
  /\ distinct' = (distinct \/ order # "none")

Uniq ==
  /\ Run("uniq", 0,
         LET Kept(i) == i = 1 \/ text[i] # text[i - 1]
         IN [k \in 1 .. Cardinality({i \in DOMAIN text : Kept(i)}) |->
               text[CHOOSE i \in DOMAIN text :
                      Kept(i) /\ Cardinality({j \in 1 .. i : Kept(j)}) = k]])
  /\ order' = order
  /\ distinct' = (distinct \/ order # "none")

(* wc -l counts newlines. tr replaces a word everywhere, sed without g the  *)
(* first one of the text and not of each line.                              *)
Wc == Run("wc", 0, Ended(<< <<Len(text) - 1>> >>)) /\ LosesOrder
Swap(l, v, w) == [i \in DOMAIN l |-> IF l[i] = v THEN w ELSE l[i]]
Tr(v, w) == Run("tr", 0, [i \in DOMAIN text |-> Swap(text[i], v, w)]) /\ LosesOrder

Sed(v, w, global) ==
  LET IsFirst(i, j) ==
        /\ \A h \in 1 .. i - 1 : v \notin Range(text[h])
        /\ \A k \in 1 .. j - 1 : text[i][k] # v
  IN /\ Run("sed", 0, [i \in DOMAIN text |->
              [j \in DOMAIN text[i] |->
                 IF text[i][j] = v /\ (global \/ IsFirst(i, j)) THEN w ELSE text[i][j]]])
     /\ LosesOrder

(* awk '{print $n}' leaves out the lines with nothing on them; n = 0 is the *)
(* line. xargs puts the words of all lines on one.                          *)
Awk(n) ==
  LET full == SelectSeq(text, LAMBDA l : l # Blank)
      field(l) == IF n = 0 THEN l ELSE IF n <= Len(l) THEN <<l[n]>> ELSE Blank
  IN /\ Run("awk", n, IF full = << >> THEN Empty
                      ELSE Ended([i \in DOMAIN full |-> field(full[i])]))
     /\ LosesOrder
Xargs == Run("xargs", 0, Ended(<<FlattenSeq(text)>>)) /\ LosesOrder

PipeEnds ==
  /\ left > 0 /\ last.cmd # "cat"
  /\ left' = 0 /\ text' = Empty
  /\ last' = [cmd |-> "none", n |-> 0, read |-> Empty]
  /\ LosesOrder

Next ==
  \/ Cat \/ SeqCmd \/ PipeEnds \/ Uniq \/ Wc \/ Xargs
  \/ \E matched \in SUBSET Line, invert \in BOOLEAN : Grep(matched, invert)
  \/ \E n \in 0 .. 2 : HeadLines(n) \/ TailLines(n) \/ Awk(n)
  \/ \E reverse \in BOOLEAN : Sort(reverse)
  \/ \E v, w \in Word : Tr(v, w) \/ \E global \in BOOLEAN : Sed(v, w, global)

Spec == Init /\ [][Next]_vars

-----------------------------------------------------------------------------
(* What the shell's filters print, told by lines instead of newlines: grep  *)
(* the lines that match, head and tail the first and the last n, sort all   *)
(* of them, and none prints a line more often than it read it. Left out are *)
(* what the code gets wrong: -v, which takes the piece behind the last      *)
(* newline for a line, a pattern that matches it, and n = 0.                *)
Often(l, s) == Cardinality({i \in DOMAIN s : s[i] = l})
FiltersAreRight ==
  last.read # Empty =>
    LET read == Popped(last.read)
        print == Popped(text)
        some == IF last.n < Len(read) THEN last.n ELSE Len(read)
    IN /\ (last.cmd = "head" /\ last.n > 0) => print = SubSeq(read, 1, some)
       /\ (last.cmd = "tail" /\ last.n > 0) =>
            print = SubSeq(read, Len(read) - some + 1, Len(read))
       /\ last.cmd \in {"grep", "grep -v", "head", "tail", "sort", "uniq"} =>
            \A i \in DOMAIN text : text[i] # Blank =>
              /\ Often(text[i], text) <= Often(text[i], read)
              /\ last.cmd = "sort" => Often(text[i], text) = Often(text[i], read)

(* The lines of a pipe that sort ordered stay in order through grep, head,  *)
(* tail and uniq, and after uniq none is there twice (blank lines aside).   *)
OrderIsKept ==
  \A i, j \in DOMAIN text : (i < j /\ text[i] # Blank /\ text[j] # Blank) =>
    /\ order = "up" => ~Before(text[j], text[i])
    /\ order = "down" => ~Before(text[i], text[j])
    /\ distinct => text[i] # text[j]

-----------------------------------------------------------------------------
(* rg.                                                                      *)

(* A .gitignore pattern that matches a file leaves it out or, with "!",     *)
(* takes it in; the patterns are in the order of the file.                  *)
Pattern == {"out", "in"}
FileOf == [lines : UNION {[1 .. n -> BOOLEAN] : n \in 1 .. MaxLine},
           ignores : {<< >>} \cup {<<a, b>> : a, b \in Pattern}, glob : BOOLEAN]

Shape == {"lines", "count", "names"}
NoOpts == [invert |-> FALSE, before |-> 0, after |-> 0, max |-> 1,
           shape |-> "lines", noIgnore |-> FALSE]

RgInit ==
  /\ files = << >> /\ next = 0 /\ matchCount = 0 /\ results = << >>
  /\ opts = NoOpts

RgTypeOK ==
  /\ \A i \in DOMAIN files : files[i] \in FileOf
  /\ next \in 0 .. MaxFile + 1
  /\ matchCount \in Nat

(* A first match for the code, where git has the last one decide.           *)
Ignored(f) == ~opts.noIgnore /\ f.ignores # << >> /\ f.ignores[1] = "out"
Included(f) == f.glob /\ ~Ignored(f)

\* Mutant: the matches of the files before this one are not counted.
MatchedOfFile(f, sofar) ==
  LET hits == {i \in DOMAIN f.lines : f.lines[i] # opts.invert}
  IN {i \in hits : Cardinality({j \in hits : j < i}) < opts.max}

(* The first pass over a file's lines ends when -m is reached.              *)
Matched(f, sofar) ==
  LET hits == {i \in DOMAIN f.lines : f.lines[i] # opts.invert}
  IN {i \in hits : sofar + Cardinality({j \in hits : j < i}) < opts.max}

Context(f, matched) ==
  {i \in DOMAIN f.lines :
     \E m \in matched : (i < m /\ m <= i + opts.before) \/ (m < i /\ i <= m + opts.after)}

\* Mutant: a separator is put behind every line but the last.
SeparatedEach(shown, i) == \E j \in shown : j < i

(* "--" goes between two lines that are not next to each other.             *)
Separated(shown, i) ==
  /\ \E j \in shown : j < i
  /\ i - 1 \notin shown

Entry(file, line, match) == [file |-> file, line |-> line, match |-> match]
Dashes(file) == Entry(file, 0, FALSE)

(* The second pass prints lines in order, the matches marked.               *)
Printed(k, matched, shown) ==
  LET print[i \in 0 .. Len(files[k].lines)] ==
        IF i = 0 THEN << >>
        ELSE IF i \notin shown THEN print[i - 1]
        ELSE print[i - 1] \o (IF Separated(shown, i) THEN <<Dashes(k)>> ELSE << >>)
                          \o <<Entry(k, i, i \in matched)>>
  IN print[Len(files[k].lines)]

Start(fs, o) ==
  /\ next = 0
  /\ files' = fs /\ opts' = o
  /\ next' = 1 /\ matchCount' = 0 /\ results' = << >>

SearchFile ==
  /\ next \in DOMAIN files
  /\ next' = next + 1
  /\ IF matchCount >= opts.max \/ ~Included(files[next])
     THEN UNCHANGED <<matchCount, results>>
     ELSE LET matched == Matched(files[next], matchCount)
              shown == matched \cup Context(files[next], matched)
          IN /\ matchCount' = matchCount + Cardinality(matched)
             /\ results' = results \o
                  CASE opts.shape = "names" /\ matched # {} -> <<Entry(next, 0, TRUE)>>
                    [] opts.shape = "count" -> <<Entry(next, Cardinality(matched), FALSE)>>
                    [] opts.shape = "lines" -> Printed(next, matched, shown)
                    [] OTHER -> << >>
  /\ UNCHANGED <<files, opts>>

Finish ==
  /\ next = Len(files) + 1 /\ next > 1
  /\ files' = << >> /\ next' = 0 /\ matchCount' = 0 /\ results' = << >>
  /\ opts' = NoOpts

(* The searches that are tried: files that differ in their lines, or a      *)
(* first file that may be left out; context only where lines are printed.   *)
Plain(f) == f.glob /\ f.ignores = << >>
Tried == {fs \in [1 .. MaxFile -> FileOf] :
            /\ Plain(fs[1]) \/ fs[1].lines = <<TRUE>>
            /\ \A i \in 2 .. MaxFile : Plain(fs[i])}
Options == {o \in [invert : BOOLEAN, before : 0 .. MaxContext, after : 0 .. MaxContext,
                   max : MaxCount, shape : Shape, noIgnore : BOOLEAN] :
              /\ o.shape # "lines" => o.before + o.after = 0
              /\ o.noIgnore => o.before + o.after = 0 /\ ~o.invert}

RgNext ==
  \/ next = 0 /\ \E fs \in Tried, o \in Options : Start(fs, o)
  \/ SearchFile \/ Finish

RgSpec == RgInit /\ [][RgNext]_rgVars

-----------------------------------------------------------------------------
(* What rg prints of a file: its lines upwards and each once, a separator   *)
(* exactly where lines are left out, every match within -m (which counts    *)
(* the matches of all files), and beside them only lines that a match has   *)
(* as its context (shell-commands.js, lines 957 to 1055).                   *)
Of(k) == SelectSeq(results, LAMBDA e : e.file = k)
LinesOf(k) == SelectSeq(Of(k), LAMBDA e : e.line # 0)
MatchesOf(k) == {i \in 1 .. MaxLine : \E n \in DOMAIN results :
                   results[n] = Entry(k, i, TRUE)}
OutputIsRight ==
  (next # 0 /\ opts.shape = "lines") =>
    /\ Cardinality({n \in DOMAIN results : results[n].match}) = matchCount
    /\ matchCount <= opts.max
    /\ \A k \in DOMAIN files :
         LET of == Of(k)
             lines == LinesOf(k)
         IN /\ \A i \in 1 .. Len(lines) - 1 : lines[i].line < lines[i + 1].line
            /\ \A n \in DOMAIN of : of[n].line = 0 =>
                 /\ n > 1 /\ n < Len(of)
                 /\ of[n - 1].line # 0 /\ of[n + 1].line > of[n - 1].line + 1
            /\ \A n \in 2 .. Len(of) : (of[n].line # 0 /\ of[n - 1].line # 0) =>
                 of[n].line = of[n - 1].line + 1
            /\ \A n \in DOMAIN lines :
                 \/ lines[n].match /\ files[k].lines[lines[n].line] # opts.invert
                 \/ lines[n].line \in Context(files[k], MatchesOf(k))
            /\ (k < next /\ Included(files[k]) /\ matchCount < opts.max) =>
                 MatchesOf(k) = {i \in DOMAIN files[k].lines : files[k].lines[i] # opts.invert}
=============================================================================
