----------------------------- MODULE ShellInput ------------------------------
(***************************************************************************)
(* The keys of the terminal's shell (shell.js, feed): the line, its cursor,*)
(* the history, and the text of nano, which takes the keys when it is      *)
(* open. Whether a line is running is left to the environment (busy). The  *)
(* screen is left out: what matters of a character is whether it is a      *)
(* space.                                                                  *)
(***************************************************************************)
EXTENDS Integers, Sequences, SequencesExt

CONSTANTS
  MaxLength,    \* bound: characters of a line
  MaxHistory,   \* history is cut to so many entries (200)
  MaxRows,      \* bound: rows of nano's text
  Words         \* what Tab completes a word to, when there is one way

VARIABLES
  line, cursorPos,                   \* the line, and the characters before the cursor
  history, historyIdx, historyTmp,   \* lines run, the one shown, the line kept for Down
  busy,                              \* keys are ignored
  text, row, col,                    \* nano: its lines (none when closed) and its cursor
  draft,                             \* history: the line as it was when browsing began
  abandoned                          \* history: a line was given up while browsing

lineVars == <<line, cursorPos>>
historyVars == <<history, historyIdx, historyTmp, draft, abandoned>>
nanoVars == <<text, row, col>>
vars == <<lineVars, historyVars, busy, nanoVars>>

Character == {"a", " "}
Text(n) == SeqOf(Character, n)
NotBrowsing == -1
Before == SubSeq(line, 1, cursorPos)
After == SubSeq(line, cursorPos + 1, Len(line))

TypeOK ==
  /\ line \in Seq(Character) /\ cursorPos \in Nat
  /\ history \in Seq(Seq(Character)) /\ historyIdx \in {NotBrowsing} \cup Nat
  /\ historyTmp \in Seq(Character) /\ busy \in BOOLEAN
  /\ text \in Seq(Seq(Character)) /\ row \in Nat /\ col \in Nat
  /\ draft \in Seq(Character) /\ abandoned \in BOOLEAN

Init ==
  /\ line = << >> /\ cursorPos = 0
  /\ history = << >> /\ historyIdx = NotBrowsing /\ historyTmp = << >>
  /\ busy = FALSE /\ text = << >> /\ row = 0 /\ col = 0
  /\ draft = << >> /\ abandoned = FALSE

-----------------------------------------------------------------------------
(* feed: keys of the line. Each gives the line and the cursor.              *)

Listening == ~busy /\ text = << >>

Edit(newLine, newCursor) ==
  /\ Listening /\ Len(newLine) <= MaxLength
  /\ line' = newLine /\ cursorPos' = newCursor
  /\ UNCHANGED <<historyVars, busy, nanoVars>>

Type(c) == Edit(Before \o <<c>> \o After, cursorPos + 1)

\* Mutant: Ctrl+U leaves the cursor where it was.
KillLineOnly == Edit(<< >>, cursorPos)

KillLine == Edit(<< >>, 0)
KillToEnd == Edit(Before, cursorPos)
Backspace == cursorPos > 0 /\ Edit(Front(Before) \o After, cursorPos - 1)
Delete == cursorPos < Len(line) /\ Edit(Before \o Tail(After), cursorPos)

(* Ctrl+W: the spaces before the cursor, all but the first character passed *)
(* over, and the word before them.                                          *)
WordStart ==
  LET space(i) == line[i] = " "
      i == CHOOSE k \in 0 .. cursorPos - 1 :
             /\ k = 0 \/ ~space(k)
             /\ \A j \in k + 1 .. cursorPos - 1 : space(j)
  IN  CHOOSE k \in 0 .. i :
        /\ k = 0 \/ space(k)
        /\ \A j \in k + 1 .. i : ~space(j)

KillWord ==
  cursorPos > 0 /\ Edit(SubSeq(line, 1, WordStart) \o After, WordStart)

Move(newCursor) == newCursor \in 0 .. Len(line) /\ Edit(line, newCursor)

(* Tab, when the word before the cursor can be completed in one way. The    *)
(* screen is redrawn by a function that is not there: what was fed with the *)
(* Tab and after it is lost, and the line is as it should be.               *)
Tab(word) ==
  LET start == CHOOSE k \in 0 .. cursorPos :
                 /\ k = 0 \/ line[k] = " "
                 /\ \A j \in k + 1 .. cursorPos : line[j] # " "
      typed == SubSeq(line, start + 1, cursorPos)
      space == IF start = 0 THEN <<" ">> ELSE << >>
  IN  /\ IsPrefix(typed, word)
      /\ Edit(SubSeq(line, 1, start) \o word \o space \o After,
              start + Len(word) + Len(space))

-----------------------------------------------------------------------------
(* The history.                                                             *)

Show(entry) == line' = entry /\ cursorPos' = Len(entry)

Up ==
  /\ Listening /\ history # << >>
  /\ historyIdx' = (CASE historyIdx = NotBrowsing -> Len(history) - 1
                      [] historyIdx > 0 -> historyIdx - 1
                      [] historyIdx = 0 -> 0)
  /\ IF historyIdx = NotBrowsing
     THEN historyTmp' = line /\ draft' = line /\ abandoned' = FALSE
     ELSE UNCHANGED <<historyTmp, draft, abandoned>>
  /\ Show(history[historyIdx' + 1])
  /\ UNCHANGED <<history, busy, nanoVars>>

Down ==
  /\ Listening /\ historyIdx # NotBrowsing
  /\ historyIdx' = IF historyIdx + 1 >= Len(history) THEN NotBrowsing ELSE historyIdx + 1
  /\ Show(IF historyIdx' = NotBrowsing THEN historyTmp ELSE history[historyIdx' + 1])
  /\ UNCHANGED <<history, historyTmp, draft, abandoned, busy, nanoVars>>

Blank(s) == \A i \in DOMAIN s : s[i] = " "

(* trim(): what is between the first and the last character of a line that  *)
(* are not spaces.                                                          *)
Trimmed(s) ==
  LET ink == {i \in DOMAIN s : s[i] # " "}
      first == CHOOSE i \in ink : \A j \in ink : i <= j
      last == CHOOSE i \in ink : \A j \in ink : j <= i
  IN  IF ink = {} THEN << >> ELSE SubSeq(s, first, last)

(* execute, as far as the history goes: the same line twice is one entry,   *)
(* the oldest goes when there are too many. An empty line leaves all.       *)
Remembered(entry) ==
  LET longer == IF history # << >> /\ Last(history) = entry
                THEN history ELSE Append(history, entry)
  IN  IF Len(longer) > MaxHistory THEN Tail(longer) ELSE longer

Cleared == line' = << >> /\ cursorPos' = 0

Enter ==
  /\ Listening /\ Cleared
  /\ IF Blank(line)
     THEN /\ abandoned' = (abandoned \/ historyIdx # NotBrowsing)
          /\ UNCHANGED <<history, historyIdx, historyTmp, draft, busy, nanoVars>>
     ELSE /\ history' = Remembered(Trimmed(line)) /\ historyIdx' = NotBrowsing
          /\ \/ busy' = TRUE /\ UNCHANGED nanoVars      \* waits for its work
             \/ UNCHANGED <<busy, nanoVars>>            \* has run
             \/ /\ text' = <<<< >>>> /\ row' = 0 /\ col' = 0   \* nano
                /\ UNCHANGED busy
          /\ UNCHANGED <<historyTmp, draft, abandoned>>

Ready == busy /\ busy' = FALSE /\ UNCHANGED <<lineVars, historyVars, nanoVars>>

(* Ctrl+C does not leave the history.                                       *)
Interrupt ==
  /\ Listening /\ Cleared /\ abandoned' = (abandoned \/ historyIdx # NotBrowsing)
  /\ UNCHANGED <<history, historyIdx, historyTmp, draft, busy, nanoVars>>

(* The saved session's history.                                             *)
SetHistory(entries) ==
  /\ history' = entries /\ historyIdx' = NotBrowsing
  /\ UNCHANGED <<lineVars, historyTmp, draft, abandoned, busy, nanoVars>>

-----------------------------------------------------------------------------
(* handleNanoInput. Rows count from 0 as in the code, text[row + 1] is one. *)

Current == text[row + 1]
Left == SubSeq(Current, 1, col)
Right == SubSeq(Current, col + 1, Len(Current))
Above == SubSeq(text, 1, row)
Below == SubSeq(text, row + 2, Len(text))

Nano(newText, newRow, newCol) ==
  /\ text # << >> /\ Len(newText) <= MaxRows
  /\ \A i \in DOMAIN newText : Len(newText[i]) <= MaxLength
  /\ text' = newText /\ row' = newRow /\ col' = newCol
  /\ UNCHANGED <<lineVars, historyVars, busy>>

NanoType(c) == Nano(Above \o <<Left \o <<c>> \o Right>> \o Below, row, col + 1)
NanoEnter == Nano(Above \o <<Left, Right>> \o Below, row + 1, 0)

NanoBackspace ==
  \/ col > 0 /\ Nano(Above \o <<Front(Left) \o Right>> \o Below, row, col - 1)
  \/ /\ col = 0 /\ row > 0
     /\ Nano(Front(Above) \o <<Last(Above) \o Current>> \o Below, row - 1, Len(Last(Above)))

\* Mutant: the row of a cut last line stays the cursor's.
NanoCutStays ==
  IF Len(text) > 1 THEN Nano(Above \o Below, row, 0) ELSE Nano(<<<< >>>>, row, 0)

NanoCut ==
  IF Len(text) > 1
  THEN Nano(Above \o Below, IF row >= Len(text) - 1 THEN Len(text) - 2 ELSE row, 0)
  ELSE Nano(<<<< >>>>, row, 0)

Lesser(a, b) == IF a < b THEN a ELSE b

NanoUp == row > 0 /\ Nano(text, row - 1, Lesser(col, Len(text[row])))
NanoDown == row < Len(text) - 1 /\ Nano(text, row + 1, Lesser(col, Len(text[row + 2])))
NanoRight == col < Len(Current) /\ Nano(text, row, col + 1)
NanoLeft == col > 0 /\ Nano(text, row, col - 1)

NanoExit ==
  /\ text # << >> /\ text' = << >> /\ row' = 0 /\ col' = 0
  /\ UNCHANGED <<lineVars, historyVars, busy>>

NanoKey ==
  \/ \E c \in Character : NanoType(c)
  \/ NanoEnter \/ NanoBackspace \/ NanoCut
  \/ NanoUp \/ NanoDown \/ NanoRight \/ NanoLeft \/ NanoExit

LineKey ==
  \/ \E c \in Character : Type(c)
  \/ KillLine \/ KillToEnd \/ Backspace \/ Delete \/ KillWord
  \/ \E k \in {cursorPos - 1, cursorPos + 1, 0, Len(line)} : Move(k)
  \/ \E word \in Words : Tab(word)
  \/ Up \/ Down \/ Enter \/ Interrupt

Next ==
  \/ LineKey \/ (text # << >> /\ NanoKey) \/ Ready
  \/ \E entry \in {<<"a">>} : SetHistory(<<entry>>)

Spec == Init /\ [][Next]_vars

-----------------------------------------------------------------------------
(* However keys are mixed, the cursor is within the line and nano's within  *)
(* its text, the history shows an entry there is, and the line that was     *)
(* being typed when Up was first pressed is the one Down comes back to:     *)
(* unless a line was given up while the history was shown, by Ctrl+C or an  *)
(* empty Enter, which leave the old line to come back.                      *)
InputIsSound ==
  /\ cursorPos <= Len(line)
  /\ historyIdx # NotBrowsing =>
       historyIdx < Len(history) /\ (historyTmp = draft \/ abandoned)
  /\ text # << >> => row < Len(text) /\ col <= Len(Current)
=============================================================================
