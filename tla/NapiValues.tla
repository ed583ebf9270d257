---------------------------- MODULE NapiValues ------------------------------
(***************************************************************************)
(* Strings between JavaScript and native code. Native code asks for the    *)
(* length of a string, takes a buffer of that length and one more, and     *)
(* asks for the characters (the two calls of napi_get_value_string).       *)
(*   A character is "a" (one byte in every encoding), "e" (two bytes in    *)
(* UTF-8, one in Latin-1), "?" (three bytes: what a decoder puts where     *)
(* the bytes are wrong) or "0", the NUL. A character's bytes are the pairs *)
(* of the character and their number in it.                                *)
(*   Latin-1 strings are read and written as UTF-8: the length that the    *)
(* first call answers is not the length of what the second one writes.     *)
(***************************************************************************)
EXTENDS Naturals, Sequences, FiniteSets

CONSTANTS
  MaxLength,   \* bound: characters of a string
  MaxSize      \* bound: bytes, or UTF-16 units, of a buffer

VARIABLES
  source,      \* what native code has in memory to make a string of
  string,      \* the string JavaScript has
  kind,        \* the encoding of the calls
  length,      \* what the first call answered, or Unasked
  size,        \* the size of the buffer of the second call
  buffer,      \* what was written there, with its NUL
  written      \* what the second call answered

vars == <<source, string, kind, length, size, buffer, written>>

Kind == {"utf8", "utf16", "latin1"}
Char == {"a", "e", "0"}
Unasked == MaxSize + 1
NUL == <<"0", 1>>

Width(c) == IF c = "e" THEN 2 ELSE IF c = "?" THEN 3 ELSE 1
Encoded(s) ==
  LET f[i \in 0 .. Len(s)] ==
        IF i = 0 THEN << >>
        ELSE f[i - 1] \o [j \in 1 .. Width(s[i]) |-> <<s[i], j>>]
  IN f[Len(s)]

(* decodeUtf8: a byte that is not part of a whole character reads as "?".   *)
Decoded(bytes) ==
  LET n == Len(bytes)
      whole(i) == bytes[i][2] = 1 /\ i + Width(bytes[i][1]) - 1 <= n
      f[i \in 0 .. n] ==
        IF i = 0 THEN << >>
        ELSE IF bytes[i][2] > 1 THEN f[i - 1]
        ELSE Append(f[i - 1], IF whole(i) THEN bytes[i][1] ELSE "?")
  IN f[n]

UpTo(s, n) == SubSeq(s, 1, n)

(* readCString: the bytes before the first NUL.                             *)
Terminated(bytes) ==
  UpTo(bytes, CHOOSE n \in 0 .. Len(bytes) :
                /\ n = Len(bytes) \/ bytes[n + 1] = NUL
                /\ \A i \in 1 .. n : bytes[i] # NUL)

Sources == UNION {[1 .. n -> Char] : n \in 0 .. MaxLength}

Init ==
  /\ source \in Sources /\ kind \in Kind
  /\ string = << >> /\ length = Unasked /\ size = 0
  /\ buffer = << >> /\ written = 0

TypeOK ==
  /\ source \in Sources /\ kind \in Kind
  /\ \A i \in 1 .. Len(string) : string[i] \in Char \cup {"?"}
  /\ length \in Nat /\ size \in 0 .. MaxSize /\ written \in Nat

-----------------------------------------------------------------------------
(* napi_create_string_*: of n bytes or units, or up to the NUL. Latin-1     *)
(* bytes are read as UTF-8: "e" is one byte there, and no character.        *)
SourceBytes ==
  IF kind = "latin1"
  THEN [i \in 1 .. Len(source) |->
          IF source[i] = "e" THEN <<"e", 1>> ELSE <<source[i], 1>>]
  ELSE Encoded(source)

Lone(bytes) == [i \in 1 .. Len(bytes) |-> IF bytes[i][1] = "e" THEN "?" ELSE bytes[i][1]]

Read(bytes) == IF kind = "latin1" THEN Lone(bytes) ELSE Decoded(bytes)

CreateString(n) ==
  /\ string = << >> /\ length = Unasked /\ size = 0
  /\ IF kind = "utf16"
     THEN n <= Len(source) /\ string' = UpTo(source, n)
     ELSE n <= Len(SourceBytes) /\ string' = Read(UpTo(SourceBytes, n))
  /\ UNCHANGED <<source, kind, length, size, buffer, written>>

CreateTerminated ==
  /\ string = << >> /\ length = Unasked /\ size = 0
  /\ string' = IF kind = "utf16"
               THEN UpTo(source, Len(Terminated([i \in 1 .. Len(source) |-> <<source[i], 1>>])))
               ELSE Read(Terminated(SourceBytes))
  /\ UNCHANGED <<source, kind, length, size, buffer, written>>

(* A string that JavaScript made.                                           *)
JavaScriptString ==
  /\ string = << >> /\ length = Unasked /\ size = 0
  /\ string' = source
  /\ UNCHANGED <<source, kind, length, size, buffer, written>>

(* The first call: without a buffer, the length.                            *)
\* Mutant: the length of the string is taken for that of its bytes.
GetLengthUnits ==
  /\ length = Unasked
  /\ length' = Len(string)
  /\ UNCHANGED <<source, string, kind, size, buffer, written>>

GetLength ==
  /\ length = Unasked
  /\ length' = IF kind = "utf8" THEN Len(Encoded(string)) ELSE Len(string)
  /\ UNCHANGED <<source, string, kind, size, buffer, written>>

(* What the second call has to write: Latin-1 characters have their lowest  *)
(* eight bits, and the bytes of UTF-8.                                      *)
Units ==
  CASE kind = "utf16" -> [i \in 1 .. Len(string) |-> <<string[i], 1>>]
    [] kind = "utf8" -> Encoded(string)
    [] kind = "latin1" ->
         Encoded([i \in 1 .. Len(string) |-> IF string[i] = "?" THEN "e" ELSE string[i]])

AtMost(m, n) == IF m < n THEN m ELSE n

(* writeString, and its twin for UTF-16: what fits, and a NUL.              *)
\* Mutant: fills the buffer and puts the NUL behind it.
WriteStringFull(room) == UpTo(Units, AtMost(Len(Units), room))
WriteString(room) == UpTo(Units, AtMost(Len(Units), room - 1))

GetString(room) ==
  /\ room > 0 /\ size = 0
  /\ size' = room
  /\ buffer' = Append(WriteString(room), NUL)
  /\ written' = Len(WriteString(room))
  /\ UNCHANGED <<source, string, kind, length>>

(* Native code takes a buffer of the length it was told, or any other.      *)
TakeBuffer == length # Unasked /\ length < MaxSize /\ GetString(length + 1)
AnyBuffer == \E room \in 1 .. MaxSize : GetString(room)

Next ==
  \/ \E n \in 0 .. MaxSize : CreateString(n)
  \/ CreateTerminated \/ JavaScriptString \/ GetLength \/ TakeBuffer \/ AnyBuffer

Spec == Init /\ [][Next]_vars

-----------------------------------------------------------------------------
(* No write passes the end of the buffer, what is written is a prefix of    *)
(* the string and ends with a NUL, and a buffer of the length that the      *)
(* first call answered takes the whole string (index.js, lines 1023 to      *)
(* 1067) - of a Latin-1 string, if it is ASCII.                             *)
TwoCallsAreEnough ==
  size > 0 =>
    /\ Len(buffer) <= size /\ written = Len(buffer) - 1
    /\ buffer = Append(UpTo(Units, written), NUL)
    /\ size = length + 1
         /\ (kind = "latin1" => \A i \in 1 .. Len(string) : string[i] \in {"a", "0"})
         => written = Len(Units)
=============================================================================
