----------------------------- MODULE ShellParser -----------------------------
(***************************************************************************)
(* The shell's parser: a line is cut into tokens, one for each turn of the *)
(* loop of tokenize; the tokens into pipelines at ; && ||, these at | into *)
(* commands, and a command's words into assignments, redirections and      *)
(* arguments, of which the unquoted ones are expanded against the names in *)
(* the directory. The characters are a few that the parser tells apart.    *)
(***************************************************************************)
EXTENDS Naturals, Sequences, FiniteSets, SequencesExt

CONSTANTS
  Char,       \* characters of the lines
  MaxText,    \* the length of a line
  Kind,       \* tokens of the lines that are given as tokens
  MaxToken    \* and how many

Blank == " "
Single == "'"
Double == "\""
Escape == "\\"

VARIABLES
  text,       \* the line
  pos,        \* i
  tokens,
  stage,      \* "tokenize", "parse" or "done"
  pipelines,  \* the commands of each pipeline
  separators

vars == <<text, pos, tokens, stage, pipelines, separators>>

Token(type, value, quoted) == [type |-> type, value |-> value, quoted |-> quoted]

Init ==
  /\ pos = 1 /\ pipelines = << >> /\ separators = << >>
  /\ \/ /\ stage = "tokenize" /\ tokens = << >>
        /\ text \in UNION {[1 .. n -> Char] : n \in 0 .. MaxText}
     \/ /\ stage = "parse" /\ text = << >>
        /\ tokens \in UNION {[1 .. n -> Kind] : n \in 0 .. MaxToken}

At(i) == IF i \in 1 .. Len(text) THEN text[i] ELSE "end"
Digit == {"1", "2"}

(* The operator at a place, by its length: the long ones are tried first.   *)
OperatorAt(i) ==
  IF At(i) = "|" /\ At(i + 1) = "|" THEN [type |-> "OR", length |-> 2]
  ELSE IF At(i) = "|" THEN [type |-> "PIPE", length |-> 1]
  ELSE IF At(i) = "&" /\ At(i + 1) = "&" THEN [type |-> "AND", length |-> 2]
  ELSE IF At(i) = ";" THEN [type |-> "SEMI", length |-> 1]
  ELSE IF At(i) = ">" /\ At(i + 1) = ">" THEN [type |-> "APPEND", length |-> 2]
  ELSE IF At(i) = ">" THEN [type |-> "REDIRECT", length |-> 1]
  ELSE IF At(i) = "<" THEN [type |-> "INPUT", length |-> 1]
  ELSE IF /\ At(i) \in Digit /\ At(i + 1) = ">" /\ At(i + 2) = "&"
          /\ At(i + 3) \in Digit
       THEN [type |-> "FD_REDIRECT", length |-> 4]
  ELSE [type |-> "none", length |-> 0]

(* isOperatorChar, where a word ends: it asks for no digit behind the '&'.  *)
IsOperatorChar(i) ==
  \/ At(i) \in {"|", ";", ">", "<"}
  \/ At(i) = "&" /\ At(i + 1) = "&"
  \/ At(i) \in Digit /\ At(i + 1) = ">" /\ At(i + 2) = "&"

(* From place i to the end of a word or of quotes: where it ends, and what  *)
(* it says.                                                                 *)
Scan(mode0, start) ==
  LET Said(c, rest) == [rest EXCEPT !.value = <<c>> \o @]
      f[i \in 1 .. Len(text) + 1, mode \in {"word", "escaped", "'", "\"", "in '", "in \""}] ==
        LET c == At(i)
        IN IF c = "end" THEN [end |-> i, value |-> << >>, quotes |-> FALSE]
           ELSE IF mode \in {"'", "\""} /\ c = mode
           THEN [end |-> i + 1, value |-> << >>, quotes |-> FALSE]
           ELSE IF (mode = "in '" /\ c = Single) \/ (mode = "in \"" /\ c = Double)
           THEN f[i + 1, "word"]
           ELSE IF mode \in {"word", "escaped"} /\ (c = Blank \/ IsOperatorChar(i))
           THEN [end |-> i, value |-> << >>, quotes |-> FALSE]
           ELSE IF c = Escape /\ mode \notin {"'", "in '"} /\ i < Len(text)
           THEN Said(At(i + 1), f[i + 2, mode])
           ELSE IF mode = "word" /\ c \in {Single, Double}
           THEN [f[i + 1, IF c = Single THEN "in '" ELSE "in \""] EXCEPT !.quotes = TRUE]
           ELSE Said(c, f[i + 1, mode])
  IN f[start, mode0]

Reading == stage = "tokenize" /\ pos <= Len(text)

Skip ==
  /\ Reading /\ At(pos) = Blank
  /\ pos' = pos + 1
  /\ UNCHANGED <<text, tokens, stage, pipelines, separators>>

Operator ==
  /\ Reading /\ OperatorAt(pos).type # "none"
  /\ tokens' = Append(tokens, Token(OperatorAt(pos).type, << >>, FALSE))
  /\ pos' = pos + OperatorAt(pos).length
  /\ UNCHANGED <<text, stage, pipelines, separators>>

Word(scan, quoted) ==
  /\ tokens' = Append(tokens, Token("WORD", scan.value, quoted))
  /\ pos' = scan.end
  /\ UNCHANGED <<text, stage, pipelines, separators>>

(* A token that starts with a quote ends with it.                           *)
Quoted ==
  /\ Reading /\ At(pos) \in {Single, Double}
  /\ Word(Scan(At(pos), pos + 1), TRUE)

(* One that starts with a backslash knows no quotes.                        *)
Escaped ==
  /\ Reading /\ At(pos) = Escape /\ pos < Len(text)
  /\ Word(Scan("escaped", pos), FALSE)

\* Mutant: quotes within a word are not remembered.
QuotesInWord(scan) == FALSE

WasQuoted(scan) == scan.quotes

Plain == At(pos) \notin {Blank, Single, Double} /\ ~(At(pos) = Escape /\ pos < Len(text))

Regular ==
  /\ Reading /\ Plain /\ OperatorAt(pos).type = "none"
  /\ LET scan == Scan("word", pos)
     IN scan.value # << >> /\ Word(scan, WasQuoted(scan))

(* A digit and '>&' without a digit behind is no operator and no word: the  *)
(* loop goes round for ever.                                                *)
Stuck == Reading /\ Plain /\ OperatorAt(pos).type = "none" /\ IsOperatorChar(pos)

Goes ==
  /\ stage = "tokenize" /\ pos > Len(text)
  /\ stage' = "parse"
  /\ UNCHANGED <<text, pos, tokens, pipelines, separators>>

-----------------------------------------------------------------------------
Sep == {"SEMI", "AND", "OR"}
Redirect == {"REDIRECT", "APPEND", "INPUT"}

(* A sequence cut at the tokens of some types; an empty rest is no part.    *)
Cut(s, types) ==
  LET marks == {i \in DOMAIN s : s[i].type \in types}
      before(i) == {j \in marks : j < i}
      from(i) == IF before(i) = {} THEN 1 ELSE 1 + CHOOSE j \in before(i) : \A k \in before(i) : k <= j
      ends == SetToSortSeq(marks, <)
      parts == [n \in DOMAIN ends |-> SubSeq(s, from(ends[n]), ends[n] - 1)]
      rest == SubSeq(s, from(Len(s) + 1), Len(s))
  IN IF rest = << >> THEN parts ELSE Append(parts, rest)

IsAssignment(tok) == tok.type = "WORD" /\ tok.value # << >> /\ tok.value[1] = "="

(* parseSimpleCommand: the assignments that lead (a word of the model whose *)
(* first character is '=' stands for one), then redirections, which take    *)
(* whatever token follows, and arguments.                                   *)
ParseSimpleCommand(s) ==
  LET lead == CHOOSE n \in 0 .. Len(s) :
                (\A i \in 1 .. n : IsAssignment(s[i])) /\ (n < Len(s) => ~IsAssignment(s[n + 1]))
      rest == SubSeq(s, lead + 1, Len(s))
      f[i \in 1 .. Len(rest) + 2] ==
        IF i > Len(rest) THEN [args |-> << >>, out |-> << >>, in |-> << >>, merge |-> FALSE]
        ELSE LET t == rest[i]
                 taken == IF i < Len(rest) THEN <<[how |-> t.type, to |-> rest[i + 1]]>> ELSE << >>
             IN CASE t.type \in {"REDIRECT", "APPEND"} ->
                       [f[i + 2] EXCEPT !.out = taken \o @]
                  [] t.type = "INPUT" -> [f[i + 2] EXCEPT !.in = taken \o @]
                  [] t.type = "FD_REDIRECT" -> [f[i + 1] EXCEPT !.merge = TRUE]
                  [] OTHER -> [f[i + 1] EXCEPT !.args = <<t>> \o @]
      r == f[1]
  IN [env |-> SubSeq(s, 1, lead), args |-> r.args, merge |-> r.merge,
      out |-> IF r.out = << >> THEN << >> ELSE <<r.out[Len(r.out)]>>,
      in |-> IF r.in = << >> THEN << >> ELSE <<r.in[Len(r.in)]>>]

\* Mutant: a pipeline is not cut at |.
ParsePipelineWhole(s) == <<ParseSimpleCommand(s)>>

ParsePipeline(s) ==
  LET parts == Cut(s, {"PIPE"}) IN [i \in DOMAIN parts |-> ParseSimpleCommand(parts[i])]

Parse ==
  /\ stage = "parse"
  /\ stage' = "done"
  /\ LET parts == Cut(tokens, Sep)
     IN pipelines' = [i \in DOMAIN parts |-> ParsePipeline(parts[i])]
  /\ separators' = [i \in DOMAIN SelectSeq(tokens, LAMBDA t : t.type \in Sep) |->
                      SelectSeq(tokens, LAMBDA t : t.type \in Sep)[i].type]
  /\ UNCHANGED <<text, pos, tokens>>

(* expandGlobs expands a word that has a star, and no quotes anywhere.      *)
Expands(tok) == ~tok.quoted /\ \E i \in DOMAIN tok.value : tok.value[i] = "*"

Next == Skip \/ Operator \/ Quoted \/ Escaped \/ Regular \/ Goes \/ Parse

Spec == Init /\ [][Next]_vars

TypeOK ==
  /\ pos \in 1 .. MaxText + 1
  /\ stage \in {"tokenize", "parse", "done"}
  /\ \A i \in DOMAIN tokens :
       tokens[i].quoted \in BOOLEAN /\ \A j \in DOMAIN tokens[i].value : tokens[i].value[j] \in Char \cup {"="}
  /\ Len(separators) <= Len(tokens) /\ Len(pipelines) <= Len(separators) + 1

-----------------------------------------------------------------------------
(* What a line means: whether each of its places is quoted or escaped, read *)
(* from left to right ...                                                   *)
Mode ==
  LET f[i \in 1 .. Len(text) + 1] ==
        IF i = 1 THEN "plain"
        ELSE LET m == f[i - 1]
                 c == At(i - 1)
             IN IF m = "after plain" THEN "plain"
                ELSE IF m = "after double" THEN "double"
                ELSE IF m = "plain" /\ c = Single THEN "single"
                ELSE IF m = "plain" /\ c = Double THEN "double"
                ELSE IF (m = "single" /\ c = Single) \/ (m = "double" /\ c = Double) THEN "plain"
                ELSE IF m # "single" /\ c = Escape /\ i <= Len(text)
                     THEN (IF m = "plain" THEN "after plain" ELSE "after double")
                ELSE m
  IN f

(* ... and the runs of places that make a word, between blanks, operators   *)
(* and the ends.                                                            *)
Parts ==
  LET op[i \in 1 .. Len(text)] ==
        IF /\ Mode[i] = "plain" /\ OperatorAt(i).type # "none"
           /\ \A j \in 1 .. i - 1 : j + op[j] <= i
        THEN OperatorAt(i).length ELSE 0
      inOp(i) == \E j \in 1 .. i : i < j + op[j]
      inWord(i) == ~inOp(i) /\ ~(Mode[i] = "plain" /\ At(i) = Blank)
      runs == {r \in (1 .. Len(text)) \X (1 .. Len(text)) :
                 /\ r[1] <= r[2] /\ \A i \in r[1] .. r[2] : inWord(i)
                 /\ r[1] > 1 => ~inWord(r[1] - 1)
                 /\ r[2] < Len(text) => ~inWord(r[2] + 1)}
  IN [words |-> runs, operators |-> {i \in 1 .. Len(text) : op[i] > 0}]

IsMark(i) ==
  \/ Mode[i] \in {"plain", "double"} /\ At(i) = Escape /\ i < Len(text)
  \/ Mode[i] = "plain" /\ At(i) \in {Single, Double}
  \/ Mode[i] = "single" /\ At(i) = Single
  \/ Mode[i] = "double" /\ At(i) = Double

QuotesIn(r) == {i \in r[1] .. r[2] : Mode[i] = "plain" /\ At(i) \in {Single, Double}}

(* The two forms that the parser reads differently: a word that goes on     *)
(* behind the quote that it starts with, and one that starts with a         *)
(* backslash and has quotes.                                                *)
Glued(r) ==
  \/ At(r[1]) \in {Single, Double} /\ (Cardinality(QuotesIn(r)) > 1
       \/ \E i \in r[1] + 1 .. r[2] : Mode[i] \in {"plain", "after plain"})
  \/ At(r[1]) = Escape /\ QuotesIn(r) # {}

Meaning ==
  LET starts == SetToSortSeq(Parts.operators \cup {r[1] : r \in Parts.words}, <)
      word(r) == LET said == SetToSortSeq({i \in r[1] .. r[2] : ~IsMark(i)}, <)
                 IN Token("WORD", [n \in DOMAIN said |-> At(said[n])], QuotesIn(r) # {})
  IN [n \in DOMAIN starts |->
        IF starts[n] \in Parts.operators
        THEN Token(OperatorAt(starts[n]).type, << >>, FALSE)
        ELSE word(CHOOSE r \in Parts.words : r[1] = starts[n])]

NoFd(i) == At(i) \in Digit /\ At(i + 1) = ">" /\ At(i + 2) = "&" /\ At(i + 3) \notin Digit

(* The tokens are what the line means, but for glued words and for a digit  *)
(* and '>&' without a digit (shell-parser.js, lines 73, 91 and 131).        *)
TokensAreRight ==
  (/\ stage # "tokenize" /\ text # << >>
   /\ \A r \in Parts.words : ~Glued(r)
   /\ \A i \in DOMAIN text : ~NoFd(i)) => tokens = Meaning

(* The loop of tokenize ends, but for a digit and '>&' without a digit      *)
(* (line 102: the word is empty and the place stays), where it never does.  *)
TokenizeEnds ==
  Reading => \/ ENABLED Skip \/ ENABLED Operator \/ ENABLED Quoted \/ ENABLED Escaped
             \/ ENABLED Regular \/ (Stuck /\ NoFd(pos))

(* Each word of a line is in one place: an argument of the command that its *)
(* separators say, an assignment before it, or the target of a redirection, *)
(* of which the last counts. A redirection that is followed by an operator  *)
(* takes that for its target (line 200), and one at the end of a command    *)
(* has none.                                                                *)
CommandsAreRight ==
  stage = "done" =>
    LET flat == FlattenSeq([i \in DOMAIN pipelines |-> FlattenSeq(
                  [j \in DOMAIN pipelines[i] |-> pipelines[i][j].env \o pipelines[i][j].args])])
        target(i) == i > 1 /\ tokens[i - 1].type \in Redirect
        plain == \A i \in DOMAIN tokens : target(i) => tokens[i].type = "WORD"
        words == SelectSeq([i \in DOMAIN tokens |-> IF target(i) THEN Token("target", << >>, FALSE)
                                                    ELSE tokens[i]],
                           LAMBDA t : t.type = "WORD")
    IN /\ plain => flat = words
       /\ Len(pipelines) \in {Len(separators), Len(separators) + 1}

(* No name is put in the place of a word with quotes. A star behind a       *)
(* backslash is expanded all the same (line 95).                            *)
QuotesAreKept ==
  (/\ stage # "tokenize" /\ text # << >>
   /\ \A r \in Parts.words : ~Glued(r)
   /\ \A i \in DOMAIN text : ~NoFd(i)) =>
  \A i \in DOMAIN tokens : (tokens[i].type = "WORD" /\ Expands(tokens[i])) =>
    \E j \in DOMAIN text : At(j) = "*" /\ Mode[j] \in {"plain", "after plain"}
=============================================================================
