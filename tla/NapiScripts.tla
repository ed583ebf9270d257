---------------------------- MODULE NapiScripts -----------------------------
(***************************************************************************)
(* The sources native code compiles: the lexer that tells an ES module     *)
(* from CommonJS, the functions that are compiled, and the import() of a   *)
(* compiled function, which calls native code back in a handle scope of    *)
(* its own.                                                                *)
(*   detectESMSource reads a source token by token; the model reads any    *)
(* source of at most MaxLength tokens, and a lexer of one mode reads it    *)
(* beside it. The loader calls bridge.detectESMSource, which the bridge    *)
(* does not have (the function is among the imports, line 2810): asked to  *)
(* detect a module it always fails with a TypeError.                       *)
(***************************************************************************)
EXTENDS Naturals, Sequences

CONSTANTS
  MaxLength,   \* bound: tokens of a source
  MaxDepth,    \* bound: handle scopes
  MaxImport    \* bound: imports that wait for native code

VARIABLES
  read,        \* tokens read so far
  inString,    \* "none" or the quote that opened the string (stringChar)
  templateDepth,  \* 0 outside a template (inTemplate)
  inComment,   \* "none", "line" or "block" (commentType)
  escaped,     \* the last token was a backslash
  keywords,    \* the kinds of keywords that were found
  mode,        \* reference: what the next token is part of
  within,      \* reference: the code that a string, comment or regex is in
  braces,      \* reference: the braces that are open in an expression
  expected,    \* reference: the kinds of keywords in code
  astray,      \* history: the lexer came to something that it takes wrongly
  compiled,    \* what the last compile call made: "none", "script", "module"
  depth,       \* handleScopes.length
  imports,     \* imports that wait: what opened was when each began
  opened,      \* the scopes that native code has opened in them
  leaked,      \* history: those it had not closed when it threw
  pending      \* pendingExceptionHandle: "none" or what it names

lexer == <<read, inString, templateDepth, inComment, escaped, keywords, mode, within,
           braces, expected, astray>>
scopes == <<depth, imports, opened, leaked>>
vars == <<lexer, compiled, scopes, pending>>

Keyword == {"import", "import()", "export"}
Quote == {"'", "\""}
Comment == {"line", "block"}
Code == {"code", "expression"}

(* "slash" begins or ends a regular expression. "lookalike" is a property   *)
(* called import or export, or an import() with a space in it.              *)
Token == Keyword \cup Quote \cup Comment \cup
  {"tick", "${", "{", "}", "*/", "slash", "newline", "backslash", "lookalike", "other"}
Mode == Quote \cup Comment \cup Code \cup {"template", "regex"}

Init ==
  /\ read = 0 /\ inString = "none" /\ templateDepth = 0 /\ inComment = "none"
  /\ escaped = FALSE /\ keywords = {}
  /\ mode = "code" /\ within = "code" /\ braces = 0 /\ expected = {} /\ astray = FALSE
  /\ compiled = "none" /\ pending = "none"
  /\ depth = 1 /\ imports = << >> /\ opened = 0 /\ leaked = 0

TypeOK ==
  /\ read \in 0 .. MaxLength
  /\ inString \in Quote \cup {"none"} /\ templateDepth \in Nat
  /\ inComment \in Comment \cup {"none"} /\ escaped \in BOOLEAN
  /\ keywords \subseteq Keyword /\ expected \subseteq Keyword
  /\ mode \in Mode /\ within \in Code /\ braces \in 0 .. MaxLength /\ astray \in BOOLEAN
  /\ compiled \in {"none", "script", "module"}
  /\ depth \in 1 .. MaxDepth /\ imports \in Seq(0 .. MaxDepth)
  /\ opened \in 0 .. MaxDepth /\ leaked \in 0 .. MaxDepth
  /\ pending \in {"none", "SyntaxError", "TypeError", "thrown"}

-----------------------------------------------------------------------------
(* A source that compiles: what may stand where, escapes read as one token. *)
Plausible(t) ==
  /\ t = "backslash" => mode \notin Code
  /\ t = "newline" => mode # "regex" /\ (mode \in Quote => escaped)
  /\ t = "*/" => mode \notin Code \cup {"regex"}
  /\ t \in Comment => ~escaped
  /\ mode = "expression" => t \notin {"export", "${"}

(* What ends a string, a comment or a regular expression.                   *)
Ends(t) ==
  \/ mode \in Quote /\ t = mode /\ ~escaped
  \/ mode = "regex" /\ t = "slash" /\ ~escaped
  \/ mode = "line" /\ t = "newline"
  \/ mode = "block" /\ t = "*/"

(* The mode of the next token, by the grammar of JavaScript.                *)
Follows(t) ==
  CASE mode \in Code /\ t \in Quote \cup Comment -> t
    [] mode \in Code /\ t = "slash" -> "regex"
    [] mode = "code" /\ t = "tick" -> "template"
    [] mode = "template" /\ t = "tick" /\ ~escaped -> "code"
    [] mode = "template" /\ t = "${" /\ ~escaped -> "expression"
    [] mode = "expression" /\ t = "}" /\ braces = 0 -> "template"
    [] Ends(t) -> within
    [] OTHER -> mode

(* What the lexer takes wrongly: in the expression of a template, a template*)
(* or import.meta, and what looks like the start of one in a string, a      *)
(* comment or a regular expression there; elsewhere, what looks like the    *)
(* start of a string, a template or a comment, or like a keyword, in a      *)
(* regular expression; a lookalike; a comment that ends behind a backslash. *)
(* Braces in an expression do no harm: they bring it to the template early. *)
Misread(t) ==
  \/ mode = "expression" /\ t \in {"tick", "import"}
  \/ /\ mode \notin Code \cup {"template"} /\ within = "expression"
     /\ t \in {"tick", "${"} /\ ~escaped
  \/ /\ mode = "regex" /\ within = "code" /\ ~escaped
     /\ t \in Keyword \cup Quote \cup Comment \cup {"tick", "lookalike"}
  \/ mode = "code" /\ t = "lookalike"
  \/ mode \in Comment /\ within = "code" /\ Ends(t) /\ escaped

(* Nothing more is read once the lexer has gone astray.                     *)
Reference(t) ==
  /\ read < MaxLength /\ compiled = "none" /\ ~astray
  /\ read' = read + 1
  /\ mode' = Follows(t)
  /\ within' = IF mode \in Code THEN mode ELSE within
  /\ braces' = CASE mode = "expression" /\ t = "{" -> braces + 1
                 [] mode = "expression" /\ t = "}" /\ braces > 0 -> braces - 1
                 [] OTHER -> braces
  /\ expected' = IF mode \in Code /\ t \in Keyword THEN expected \cup {t} ELSE expected
  /\ astray' = Misread(t)

(* The comments, which a string or a template hides.                        *)
InText == inString # "none" \/ templateDepth > 0
\* Mutant: comments are looked for inside strings as well.
CommentAfterAnywhere(t) ==
  IF t \in Comment /\ inComment = "none" THEN t
  ELSE IF <<inComment, t>> \in {<<"line", "newline">>, <<"block", "*/">>} THEN "none"
  ELSE inComment

CommentAfter(t) ==
  IF InText THEN inComment
  ELSE IF t \in Comment /\ inComment = "none" THEN t
  ELSE IF <<inComment, t>> \in {<<"line", "newline">>, <<"block", "*/">>} THEN "none"
  ELSE inComment

(* The template's depth, which a string or a comment leaves alone.          *)
DepthAfter(t) ==
  IF inString # "none" \/ inComment # "none" THEN templateDepth
  ELSE CASE t = "tick" -> IF templateDepth = 0 THEN 1 ELSE templateDepth - 1
         [] t = "${" /\ templateDepth > 0 -> templateDepth + 1
         [] t = "}" /\ templateDepth > 1 -> templateDepth - 1
         [] OTHER -> templateDepth

StringAfter(t) ==
  IF templateDepth > 0 \/ inComment # "none" THEN inString
  ELSE IF inString = "none" /\ t \in Quote THEN t
  ELSE IF inString = t THEN "none" ELSE inString

Word(t) == IF t = "lookalike" THEN "import" ELSE t

(* One turn of the loop of detectESMSource.                                 *)
ReadToken(t) ==
  /\ Plausible(t) /\ Reference(t)
  /\ IF escaped
     THEN escaped' = FALSE /\ UNCHANGED <<inString, templateDepth, inComment, keywords>>
     ELSE /\ escaped' = (t = "backslash")
          /\ inComment' = CommentAfter(t)
          /\ templateDepth' = DepthAfter(t)
          /\ inString' = StringAfter(t)
          /\ keywords' = IF Word(t) \in Keyword /\ ~InText /\ inComment = "none"
                         THEN keywords \cup {Word(t)} ELSE keywords
  /\ UNCHANGED <<compiled, scopes, pending>>

(* Its verdict: import() alone does not make a module.                      *)
IsESM == keywords \cap {"import", "export"} # {}

-----------------------------------------------------------------------------
(* contextify_compile_function: new Function throws, or it does not.        *)
Compile ==
  /\ compiled = "none" /\ mode = "code"
  /\ \/ compiled' = "script" /\ UNCHANGED pending
     \/ pending' = "SyntaxError" /\ UNCHANGED compiled
  /\ UNCHANGED <<lexer, scopes>>

(* ..._for_cjs_loader, asked to detect a module or not.                     *)
CompileForLoader(shouldDetectModule) ==
  /\ compiled = "none" /\ mode = "code"
  /\ IF shouldDetectModule
     THEN pending' = "TypeError" /\ UNCHANGED compiled
     ELSE \/ compiled' = "script" /\ UNCHANGED pending
          \/ pending' = "SyntaxError" /\ UNCHANGED compiled
  /\ UNCHANGED <<lexer, scopes>>

(* invokeImportModuleDynamically, invokeInitializeImportMeta: a scope, and  *)
(* native code, which may open scopes and run JavaScript that imports.      *)
Import ==
  /\ compiled = "script" /\ Len(imports) < MaxImport /\ depth < MaxDepth
  /\ depth' = depth + 1
  /\ imports' = Append(imports, opened)
  /\ UNCHANGED <<lexer, compiled, opened, leaked, pending>>

(* No callback was registered: the import is refused.                       *)
ImportRefused == compiled = "script" /\ UNCHANGED vars

Base == imports[Len(imports)]

NativeOpens ==
  /\ imports # << >> /\ depth < MaxDepth
  /\ depth' = depth + 1 /\ opened' = opened + 1
  /\ UNCHANGED <<lexer, compiled, imports, leaked, pending>>

NativeCloses ==
  /\ imports # << >> /\ opened > Base
  /\ depth' = depth - 1 /\ opened' = opened - 1
  /\ UNCHANGED <<lexer, compiled, imports, leaked, pending>>

ImportEnds == imports' = SubSeq(imports, 1, Len(imports) - 1) /\ opened' = Base

(* Native code returns, its own scopes closed.                              *)
ImportReturns ==
  /\ imports # << >> /\ opened = Base
  /\ ImportEnds /\ depth' = depth - 1
  /\ UNCHANGED <<lexer, compiled, leaked, pending>>

\* Mutant: only a call that returns closes the scope.
ImportThrowsOpen ==
  /\ imports # << >>
  /\ ImportEnds /\ leaked' = leaked + opened - Base
  /\ pending' = "thrown"
  /\ UNCHANGED <<lexer, compiled, depth>>

(* It throws, its own scopes open or not: one scope is closed, the promise  *)
(* is rejected, and the exception stays pending too.                        *)
ImportThrows ==
  /\ imports # << >>
  /\ ImportEnds /\ leaked' = leaked + opened - Base
  /\ depth' = depth - 1 /\ pending' = "thrown"
  /\ UNCHANGED <<lexer, compiled>>

Next ==
  \/ \E t \in Token : ReadToken(t)
  \/ Compile \/ \E detect \in BOOLEAN : CompileForLoader(detect)
  \/ Import \/ ImportRefused \/ NativeOpens \/ NativeCloses
  \/ ImportReturns \/ ImportThrows

Spec == Init /\ [][Next]_vars

-----------------------------------------------------------------------------
(* A source is judged by the keywords in its code, never by a word in a     *)
(* string, a template or a comment (index.js, lines 2805 to 2809), unless it*)
(* has something that the lexer takes wrongly: Misread names those.         *)
VerdictIsRight == ~astray => (IsESM <=> expected \cap {"import", "export"} # {})

(* However imports nest and end, each closes one scope (index.js, lines 369 *)
(* to 374 and 377): a script leaves the root open, and the scopes that      *)
(* native code had open when it threw, no more.                             *)
ScopesComeBack == imports = << >> => depth = 1 + leaked
=============================================================================
