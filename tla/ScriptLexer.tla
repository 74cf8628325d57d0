---------------------------- MODULE ScriptLexer -----------------------------
(* How the parser of .sinq files finds the end of a script, $name{lua}:       *)
(* parseScript and what it calls (internal/scenario/scenario-parser.go).      *)
(* It has to know which braces are Lua's and which are part of a string or a  *)
(* comment, so it contains a lexer for both.  The reader is modelled one      *)
(* character at a time; a function that looks at a character and leaves it to *)
(* its caller (ReadCode below) is the caller's step.                          *)
EXTENDS Integers, Sequences, FiniteSetsExt

CONSTANT Inputs   \* bound: set of [chars, length], what may be read and how much

VARIABLES
  input,     \* the member of Inputs
  src,       \* the characters read of what follows the opening brace
  lexer,     \* where the parser is, see Places
  depth,     \* nested calls of parseLuaScript
  level,     \* level of the long bracket that is open
  layer,     \* the = counted so far in a bracket
  quote      \* the quote that ends the string

lexVars == <<input, src, lexer, depth, level, layer, quote>>

OpenBrace   == "{"
CloseBrace  == "}"
DoubleQuote == "\""
Quotes      == {DoubleQuote, "'"}

(* "name" is parseScriptName, between the $ and the brace that opens the      *)
(* script; "comment?" is parseLuaComment after two dashes; the brackets are   *)
(* parseLongBracketOpen, called for a comment or for a string.                *)
Places == {"name", "code", "dash", "comment?", "commentBracket", "comment", "bracket",
           "long", "closer", "string", "escape", "closed", "failed"}

LexInit ==
  /\ input \in Inputs
  /\ src = <<>>
  /\ lexer = "name"
  /\ depth = 0 /\ level = 0 /\ layer = 0 /\ quote = "none"

Goto(place) == lexer' = place /\ UNCHANGED <<depth, level, layer, quote>>

Open(place) == /\ lexer' = place /\ layer' = 0
               /\ UNCHANGED <<depth, level, quote>>

(* parseScriptName: a name is anything up to the brace, but for a newline.    *)
ReadName(c) == Goto(CASE c = OpenBrace -> "code"
                      [] c = "\n"      -> "failed"
                      [] OTHER         -> "name")

(* parseLuaScript *)
ReadCode(c) ==
  CASE c = "-"        -> Goto("dash")
    [] c \in Quotes   -> /\ lexer' = "string" /\ quote' = c
                         /\ UNCHANGED <<depth, level, layer>>
    [] c = "["        -> Open("bracket")
    [] c = OpenBrace  -> /\ lexer' = "code" /\ depth' = depth + 1
                         /\ UNCHANGED <<level, layer, quote>>
    [] c = CloseBrace -> /\ lexer' = IF depth = 0 THEN "closed" ELSE "code"
                         /\ depth' = IF depth = 0 THEN 0 ELSE depth - 1
                         /\ UNCHANGED <<level, layer, quote>>
    [] OTHER          -> Goto("code")

(* parseLuaComment, second dash: without it the character is the script's. *)
ReadDash(c) == IF c = "-" THEN Goto("comment?") ELSE ReadCode(c)

(* parseLuaSimpleComment *)
ReadComment(c) == Goto(IF c = "\n" THEN "code" ELSE "comment")

ReadCommentStart(c) == IF c = "[" THEN Open("commentBracket") ELSE ReadComment(c)

(* parseLongBracketOpen: without a second bracket its caller goes on.         *)
ReadBracket(c) ==
  CASE c = "[" -> /\ lexer' = "long" /\ level' = layer
                  /\ UNCHANGED <<depth, layer, quote>>
    [] c = "=" -> layer' = layer + 1 /\ UNCHANGED <<lexer, depth, level, quote>>
    [] OTHER   -> IF lexer = "bracket" THEN ReadCode(c) ELSE ReadComment(c)

(* parseLuaMultilineString *)
ReadLong(c) == IF c = "]" THEN Open("closer") ELSE Goto("long")

(* Mutant: a closer of any level closes. *)
ReadCloserAnyLevel(c) ==
  CASE c = "]" -> Goto("code")
    [] c = "=" -> layer' = layer + 1 /\ UNCHANGED <<lexer, depth, level, quote>>
    [] OTHER   -> Goto("long")

(* parseLongBracketClose, after the first bracket.  The second one is         *)
(* consumed even if it ends a closer of another level.                        *)
ReadCloser(c) ==
  CASE c = "]" -> Goto(IF layer = level THEN "code" ELSE "long")
    [] c = "=" -> layer' = layer + 1 /\ UNCHANGED <<lexer, depth, level, quote>>
    [] OTHER   -> ReadLong(c)

(* parseLuaSimpleString *)
ReadString(c) ==
  Goto(CASE c = "\n"  -> "failed"
         [] c = quote -> "code"
         [] c = "\\"  -> "escape"
         [] OTHER     -> "string")

Read(c) ==
  /\ src' = IF lexer = "name" THEN src ELSE Append(src, c)
  /\ CASE lexer = "name"           -> ReadName(c)
       [] lexer = "code"           -> ReadCode(c)
       [] lexer = "dash"           -> ReadDash(c)
       [] lexer = "comment?"       -> ReadCommentStart(c)
       [] lexer = "commentBracket" -> ReadBracket(c)
       [] lexer = "comment"        -> ReadComment(c)
       [] lexer = "bracket"        -> ReadBracket(c)
       [] lexer = "long"           -> ReadLong(c)
       [] lexer = "closer"         -> ReadCloser(c)
       [] lexer = "string"         -> ReadString(c)
       [] lexer = "escape"         -> Goto("string")
  /\ UNCHANGED input

LexDone == lexer \in {"closed", "failed"} \/ Len(src) = input.length

(* A name has to end before anything else is read of a script. *)
LexNext ==
  ~LexDone /\ \E c \in input.chars \cup IF lexer = "name" THEN {OpenBrace} ELSE {} : Read(c)

LexSpec == LexInit /\ [][LexNext]_lexVars

-----------------------------------------------------------------------------
(* What Lua makes of the characters of s, told token by token: AfterToken(s, i) *)
(* is the place after the token at i, beyond the end if that does not end.    *)

First(s, Ends) == IF Ends = {} THEN Len(s) + 1 ELSE Min(Ends)

CharAt(s, i, c) == i \in DOMAIN s /\ s[i] = c

(* A bracket of level n at i: c, n times =, c. *)
BracketAt(s, i, c, n) ==
  CharAt(s, i, c) /\ CharAt(s, i + n + 1, c) /\ \A j \in i + 1 .. i + n : CharAt(s, j, "=")

OpensLong(s, i) == \E n \in 0 .. Len(s) : BracketAt(s, i, "[", n)
LevelAt(s, i) == CHOOSE n \in 0 .. Len(s) : BracketAt(s, i, "[", n)

Closers(s, i) ==
  {j \in i + LevelAt(s, i) + 2 .. Len(s) : BracketAt(s, j, "]", LevelAt(s, i))}

AfterLong(s, i) ==
  IF Closers(s, i) = {} THEN Len(s) + 1 ELSE Min(Closers(s, i)) + LevelAt(s, i) + 2

AfterLine(s, i) == 1 + First(s, {j \in i .. Len(s) : CharAt(s, j, "\n")})

(* A quote is escaped if the backslashes before it are odd in number. *)
Escaped(s, i, start) ==
  LET slashes == {j \in start + 1 .. i - 1 : \A m \in j .. i - 1 : CharAt(s, m, "\\")}
  IN  Cardinality(slashes) % 2 = 1

AfterString(s, i) ==
  1 + First(s, {j \in i + 1 .. Len(s) : s[j] \in {s[i], "\n"} /\ ~Escaped(s, j, i)})

Commented(s, i) == CharAt(s, i, "-") /\ CharAt(s, i + 1, "-")

AfterToken(s, i) ==
  IF Commented(s, i) THEN
    IF OpensLong(s, i + 2) THEN AfterLong(s, i + 2) ELSE AfterLine(s, i + 2)
  ELSE IF OpensLong(s, i) THEN AfterLong(s, i)
  ELSE IF s[i] \in Quotes THEN AfterString(s, i)
  ELSE i + 1

(* The places where Lua's tokens start, and where the last one ends.          *)
Boundaries(s) ==
  LET upTo[i \in 0 .. Len(s)] ==
        IF i = 0 THEN {1}
        ELSE LET before == upTo[i - 1]
             IN  IF i \in before THEN before \cup {AfterToken(s, i)} ELSE before
  IN  upTo[Len(s)]

TokenStarts(s) == Boundaries(s) \cap DOMAIN s

(* The script is over when a brace closes that was not opened.                *)
EndsInLua(s, starts) ==
  LET braces(c, i) == Cardinality({j \in starts : j <= i /\ s[j] = c})
  IN  \E i \in starts : s[i] = CloseBrace /\ braces(CloseBrace, i) > braces(OpenBrace, i)

(* The string at i does not end in the line it starts in. *)
BrokenString(s, i) == s[i] \in Quotes /\ CharAt(s, AfterString(s, i) - 1, "\n")

(* The long bracket at i is closed by a bracket that a closer of another      *)
(* level ends with: [[...]=]].                                                *)
SharedCloser(s, i) ==
  LET start == IF Commented(s, i) THEN i + 2 ELSE i
  IN  /\ OpensLong(s, start) /\ Closers(s, start) # {}
      /\ \E m \in (0 .. Len(s)) \ {LevelAt(s, start)} :
           LET other == Min(Closers(s, start)) - m - 1
           IN  other >= start + LevelAt(s, start) + 2 /\ BracketAt(s, other, "]", m)

(* A script ends at the brace that ends it for Lua, never at one that is part *)
(* of a string, a long string of whatever level or a comment, and never       *)
(* later: parseLuaScript and Lua agree on all braces, but for a long string   *)
(* whose closer begins with the end of a closer of another level, and after   *)
(* a string that does not end in its line.                                    *)
ScriptEndsWhereLuaSays ==
  LET starts == TokenStarts(src) IN
  (\A i \in starts : ~SharedCloser(src, i) /\ ~BrokenString(src, i)) =>
    (lexer = "closed" <=> EndsInLua(src, starts))
=============================================================================
