---------------------------- MODULE RequestFile -----------------------------
(* How a .sinq file becomes a chain of requests: the text level of the parser *)
(* (lexToken, parseText, parseDelimiter, consumeWhitespace,                   *)
(* internal/scenario/scenario-parser.go) and ParseRequestBlueprints with its  *)
(* payloads (internal/scenario/scenario.go).                                  *)
(*                                                                            *)
(* A file is a sequence of characters and of whole scripts, whose end         *)
(* ScriptLexer is about: Named stands for a script with one of the special    *)
(* names, here PRE, Inline for any other.  After each character the file may  *)
(* end: Outcome is what ParseRequestBlueprints then returns.  Tokens are      *)
(* given by their places in the file.  A script being one symbol hides the    *)
(* newlines in it, and one of them ends a ### line: parseDelimiter looks for  *)
(* the next newline byte, be it within a script.  So it is assumed that a     *)
(* script in a ### line has none.                                             *)
EXTENDS Integers, Sequences, SequencesExt

CONSTANT Files   \* bound: set of [chars, length], the files that are read

VARIABLES
  bound,      \* the member of Files
  file,       \* the characters read so far
  reader,     \* the function that reads the next character
  start,      \* Start of the text token being read
  escaped,    \* isEscaped
  hasEscapes, \* hasEscapes
  hash,       \* place of the # that parseDelimiter was called for
  requests,   \* res: the blueprints [name, pre, content]
  err         \* ParseRequestBlueprints has returned an error

fileVars == <<bound, file, reader, start, escaped, hasEscapes, hash, requests, err>>

Named == "$PRE{}"
Inline == "${}"
Whitespace == {" ", "\n"}

Blueprint(name) == [name |-> name, pre |-> {}, content |-> <<>>]

FileInit ==
  /\ bound \in Files
  /\ file = <<>>
  /\ reader = "consumeWhitespace"
  /\ start = 0 /\ escaped = FALSE /\ hasEscapes = FALSE /\ hash = 0
  /\ requests = <<Blueprint(0)>>
  /\ err = FALSE

At(source, i, c) == i \in DOMAIN source /\ source[i] = c

Text(from, to) == [from |-> from, to |-> to, escapes |-> hasEscapes]

(* escapePayload and ExtractPayload: the places of the bytes of a token.      *)
EscapePayload(source, t) ==
  LET rest[i \in t.from .. t.to + 1] ==
        IF i >= t.to THEN <<>>
        ELSE IF At(source, i, "\\") THEN <<i + 1>> \o rest[i + 2] ELSE <<i>> \o rest[i + 1]
  IN  rest[t.from]

ExtractPayload(source, t) ==
  IF t.escapes THEN EscapePayload(source, t) ELSE [i \in 1 .. t.to - t.from |-> t.from + i - 1]

(* The last blueprint gets one more token of content; an empty text is none   *)
(* the parser would return.                                                   *)
WithContent(bps, t) == [bps EXCEPT ![Len(bps)].content = Append(@, t)]

(* Mutant: any delimiter starts a new request. *)
WithDelimiterAlways(bps, name) == Append(bps, Blueprint(name))

(* The Delimiter case of ParseRequestBlueprints: a request without content is *)
(* not finished, but goes on under the new name, with the scripts it has.     *)
WithDelimiter(bps, name) ==
  IF Last(bps).content # <<>> THEN Append(bps, Blueprint(name))
                              ELSE [bps EXCEPT ![Len(bps)].name = name]

(* The Script case, with setScript: a second script of one name is an error.  *)
ReadScript(c, p, bps) ==
  /\ IF c = Named
     THEN /\ err' = (Last(bps).pre # {})
          /\ requests' = [bps EXCEPT ![Len(bps)].pre = @ \cup {p}]
          /\ reader' = "consumeWhitespace"
     ELSE /\ requests' = WithContent(bps, [from |-> p, to |-> p + 1, escapes |-> FALSE])
          /\ reader' = "lexToken"
          /\ UNCHANGED err
  /\ UNCHANGED <<start, escaped, hasEscapes, hash>>

(* The loop of parseText, about to read c at place p. *)
ReadText(c, p) ==
  IF escaped
  THEN /\ escaped' = FALSE
       /\ UNCHANGED <<reader, start, hasEscapes, hash, requests, err>>
  ELSE CASE c = "\\" ->
              /\ escaped' = TRUE /\ hasEscapes' = TRUE
              /\ reader' = "parseText"
              /\ UNCHANGED <<start, hash, requests, err>>
         [] c \in {Named, Inline} ->
              ReadScript(c, p, WithContent(requests, Text(start, p)))
         [] c = "#" ->
              /\ hash' = p /\ reader' = "parseDelimiter"
              /\ UNCHANGED <<start, escaped, hasEscapes, requests, err>>
         [] OTHER ->
              /\ reader' = "parseText"
              /\ UNCHANGED <<start, escaped, hasEscapes, hash, requests, err>>

(* lexToken *)
ReadToken(c, p) ==
  IF c \in {Named, Inline} THEN ReadScript(c, p, requests)
  ELSE /\ start' = p /\ UNCHANGED <<requests, err>>
       /\ escaped' = (c = "\\") /\ hasEscapes' = (c = "\\")
       /\ IF c = "#" THEN hash' = p /\ reader' = "parseDelimiter"
                     ELSE UNCHANGED hash /\ reader' = "parseText"

ConsumeWhitespace(c, p) ==
  IF c \in Whitespace
  THEN /\ reader' = "consumeWhitespace"
       /\ UNCHANGED <<start, escaped, hasEscapes, hash, requests, err>>
  ELSE ReadToken(c, p)

(* parseDelimiter: prev, the byte before the first #. *)
AtLineStart(source, p) == p = 1 \/ At(source, p - 1, "\n")

(* parseDelimiter, before the third #.  Without it the text goes on. *)
ReadHash(c, p) ==
  IF c # "#" THEN ReadText(c, p)
  ELSE /\ reader' = IF p < hash + 2 THEN "parseDelimiter"
                    ELSE IF AtLineStart(file, hash) THEN "header" ELSE "parseText"
       /\ UNCHANGED <<start, escaped, hasEscapes, hash, requests, err>>

(* parseDelimiter, behind it: the newline makes a delimiter of it all.  The   *)
(* text before it ends where its line began.                                  *)
ReadHeader(c, p) ==
  /\ IF c = "\n"
     THEN LET bps == IF start >= hash - 1 THEN requests
                     ELSE WithContent(requests, Text(start, hash - 1))
          IN  /\ requests' = WithDelimiter(bps, hash)
              /\ reader' = "consumeWhitespace"
     ELSE UNCHANGED <<requests, reader>>
  /\ UNCHANGED <<start, escaped, hasEscapes, hash, err>>

ReadByte(c) ==
  LET p == Len(file) + 1 IN
  /\ file' = Append(file, c)
  /\ CASE reader = "consumeWhitespace" -> ConsumeWhitespace(c, p)
       [] reader = "lexToken"          -> ReadToken(c, p)
       [] reader = "parseText"         -> ReadText(c, p)
       [] reader = "parseDelimiter"    -> ReadHash(c, p)
       [] reader = "header"            -> ReadHeader(c, p)
  /\ UNCHANGED bound

FileNext == ~err /\ Len(file) < bound.length /\ \E c \in bound.chars : ReadByte(c)

FileSpec == FileInit /\ [][FileNext]_fileVars

(* parseText at the end of the file: nothing may follow an escape.            *)
Dangling == IF reader \in {"parseDelimiter", "header"} THEN At(file, Len(file), "\\") ELSE escaped

InText == reader \in {"parseText", "parseDelimiter", "header"}

(* ParseRequestBlueprints if the file ends here: <<>> for an error. *)
Outcome ==
  LET bps == IF InText THEN WithContent(requests, Text(start, Len(file) + 1)) ELSE requests
  IN  IF err \/ (InText /\ Dangling) \/ Last(bps).content = <<>> THEN <<>> ELSE bps

Payload(source, bp) ==
  FlattenSeq([i \in DOMAIN bp.content |-> ExtractPayload(source, bp.content[i])])

-----------------------------------------------------------------------------
(* The same file, seen as lines: ### at the start of a line that ends begins  *)
(* a section, and what is in the line is its name.                            *)
HeaderMark(source, i) ==
  At(source, i, "#") /\ At(source, i + 1, "#") /\ At(source, i + 2, "#") /\ AtLineStart(source, i)

Header(source, i) == HeaderMark(source, i) /\ \E j \in i .. Len(source) : At(source, j, "\n")

EndOfLine(source, i) ==
  CHOOSE j \in i .. Len(source) :
    At(source, j, "\n") /\ \A m \in i .. j - 1 : ~At(source, m, "\n")

(* Where the sections start: what is before all headers is section 0.         *)
Headers(source) == {0} \cup {i \in DOMAIN source : Header(source, i)}

(* The places of a section. *)
Section(source, h) ==
  LET from  == IF h = 0 THEN 1 ELSE EndOfLine(source, h) + 1
      later == {g \in Headers(source) : g > h}
  IN  from .. IF later = {} THEN Len(source) ELSE Min(later) - 1

(* A backslash takes the place behind it, whatever it is.                     *)
Escapes(source, section) ==
  LET isEscape[i \in section] ==
        At(source, i, "\\") /\ ~(i - 1 \in section /\ isEscape[i - 1])
  IN  {i \in section : isEscape[i]}

Scripts(source, section, c) ==
  LET escapes == Escapes(source, section)
  IN  {i \in section : At(source, i, c) /\ i - 1 \notin escapes}

(* The space after special scripts and at the start of a section.             *)
Blanks(source, section) ==
  LET escapes == Escapes(source, section)
  IN  {i \in section : source[i] \in Whitespace /\ i - 1 \notin escapes}

Leading(source, section) ==
  LET before == section \ Scripts(source, section, Named)
      blanks == Blanks(source, section)
  IN  {i \in section : \E j \in section : j <= i /\ j .. i \subseteq blanks /\ j - 1 \notin before}

(* What is left of a section without that, escapes and special scripts, and   *)
(* the newline before the next header.                                        *)
Content(source, section) ==
  section \ (Leading(source, section) \cup Escapes(source, section)
             \cup Scripts(source, section, Named)
             \cup {i \in Blanks(source, section) : Header(source, i + 1)})

(* The last line would be a header, but has no end: it is read as text, with  *)
(* the scripts and escapes in it as they are.                                 *)
OpenHeader ==
  \E i \in DOMAIN file :
    /\ HeaderMark(file, i) /\ ~Header(file, i)
    /\ \E j \in i .. Len(file) : file[j] \in {"\\", Named, Inline}

(* These places, in the order they have in the file. *)
InOrder(places, set) ==
  /\ ToSet(places) = set
  /\ \A i, j \in DOMAIN places : i < j => places[i] < places[j]

(* A file that is accepted is one request for every section with content, in  *)
(* order, with the text of that section and of no other, unescaped; its       *)
(* script is one of that section or of the empty ones just before it, and its *)
(* name is that of its section.  No section is lost, none appears from        *)
(* nowhere (ParseRequestBlueprints; docs/scenario.md:7).  Unescaping a text   *)
(* that the parser let through never reads behind the end of the file         *)
(* (escapePayload looks one byte ahead without a check).                      *)
RequestsAreSections ==
  LET section(h) == Section(file, h)
      filled     == {h \in Headers(file) : Content(file, section(h)) # {}}
      bps        == Outcome
      since(n)   == IF n = 1 THEN -1 ELSE bps[n - 1].name
  IN  /\ \A n \in DOMAIN bps : ToSet(Payload(file, bps[n])) \subseteq DOMAIN file
      /\ bps # <<>> /\ ~OpenHeader =>
           /\ InOrder([n \in DOMAIN bps |-> bps[n].name], filled)
           /\ \A n \in DOMAIN bps :
                /\ InOrder(Payload(file, bps[n]), Content(file, section(bps[n].name)))
                /\ bps[n].pre = UNION {Scripts(file, section(h), Named) :
                                  h \in {g \in Headers(file) : since(n) < g /\ g <= bps[n].name}}
=============================================================================
