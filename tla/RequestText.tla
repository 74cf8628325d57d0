----------------------------- MODULE RequestText -----------------------------
(* What is sent for the text of a request: requestParser                      *)
(* (internal/runner/parser.go), given what materializeRequest has put         *)
(* together.  The functions of the parser are operators that take the place   *)
(* where they start and return the one where they leave off.                  *)
(*                                                                            *)
(* A character is one of these: u is an absolute URL up to its path, as       *)
(* https://u/ is, h is the header name host, a is user-agent, a blank is a    *)
(* space or a tab; anything else that is no space and no colon is a letter.   *)
(* A word or a value is the set of its places in the text.                    *)
EXTENDS Integers, Sequences, FiniteSets, SequencesExt, FiniteSetsExt

CONSTANT Texts   \* bound: set of [prefix, chars, length], the texts that are parsed

ASSUME TextAssumption == \A t \in Texts : t.prefix \in Seq(ToSet(t.prefix))

VARIABLES
  kind,   \* the member of Texts
  text    \* what has been written of the request

textVars == <<kind, text>>

TextInit == kind \in Texts /\ text = kind.prefix

(* materializeRequest writes on; the text may end after each character.       *)
Write(c) == text' = Append(text, c) /\ UNCHANGED kind

TextNext == Len(text) < Len(kind.prefix) + kind.length /\ \E c \in kind.chars : Write(c)

TextSpec == TextInit /\ [][TextNext]_textVars

-----------------------------------------------------------------------------
AtEnd(i) == i > Len(text)

Among(i, chars) == i \in DOMAIN text /\ text[i] \in chars

(* The first place from i on with one of these characters, or the end. *)
Find(i, chars) == Min({j \in i .. Len(text) + 1 : AtEnd(j) \/ Among(j, chars)})

skipWhitespace(i) == Min({j \in i .. Len(text) + 1 : ~Among(j, {" "})})

scanWord(i) ==
  LET start == skipWhitespace(i)
      end   == Find(start, {" ", "\n", "\r"})
  IN  [word |-> start .. end - 1, next |-> end]

(* What is left of a line; if the text ends there, so does the value.         *)
scanLine(i) ==
  LET start == skipWhitespace(i)
      end   == Find(start, {"\n"})
      solid == {j \in start .. end - 1 : ~Among(j, {" ", "\r"})}
  IN  IF AtEnd(end) THEN [value |-> start .. end - 1, next |-> end]
      ELSE [value |-> start .. Max(solid \cup {start - 1}), next |-> end + 1]

nextLine(i) ==
  LET first == skipWhitespace(i)
      at    == IF Among(first, {"\r"}) THEN first + 1 ELSE first
  IN  [found |-> IF Among(at, {"\n"}) THEN "line" ELSE IF AtEnd(at) THEN "EOF" ELSE "error",
       next  |-> at + 1]

Rejected == [err |-> TRUE]

(* What a request has without a header for it: the host of its URL and the    *)
(* user agent that scanHeaders starts with, sinq's.                           *)
Default == {0}

(* The request has no Header at all: net/http sends its own user agent.       *)
NilHeader == {-1}

(* url.Parse and validateURL: absolute, with a host. *)
ValidURL(word) == Among(Min(word), {"u"})

(* Three words; after an empty one the others are empty, too.                 *)
RequestLine ==
  LET first  == scanWord(1)
      second == scanWord(first.next)
  IN  <<first, second, scanWord(second.next)>>

(* Without a method it is GET. *)
scanRequestLine ==
  LET line   == RequestLine
      hasTwo == line[2].word # {}
      url    == line[IF hasTwo THEN 2 ELSE 1].word
  IN  IF (\E n \in 1 .. 3 : AtEnd(line[n].next)) \/ line[1].word = {} \/ ~ValidURL(url)
      THEN Rejected
      ELSE [err |-> FALSE, method |-> IF hasTwo THEN line[1].word ELSE {}, url |-> url]

EndsWithColon(word) == Among(Max(word), {":"})

(* Mutant: a name without a colon ends the headers. *)
EndsHeadersUnnamed(word) == word = {} \/ ~EndsWithColon(word)

EndsHeaders(word) == word = {}

IsNamed(word, name) == \E i \in word : word = {i, i + 1} /\ Among(i, {name})

(* The headers from each place on, and where they end: a later Host or        *)
(* User-Agent replaces an earlier one, of other headers all are sent.         *)
scanHeaders ==
  LET headers[i \in 1 .. Len(text) + 1] ==
        LET scanned == scanWord(i)
            word    == scanned.word
            line    == scanLine(scanned.next)
            later   == headers[line.next]
            set(name, value) == IF IsNamed(word, name) /\ value = Default THEN line.value ELSE value
            field   == [line |-> i, name |-> word, value |-> line.value]
        IN  IF EndsHeaders(word)
            THEN [err |-> FALSE, host |-> Default, agent |-> Default, others |-> <<>>,
                  next |-> scanned.next]
            ELSE IF AtEnd(scanned.next) \/ ~EndsWithColon(word) \/ later.err THEN Rejected
            ELSE [err |-> FALSE, host |-> set("h", later.host), agent |-> set("a", later.agent),
                  others |-> IF IsNamed(word, "h") \/ IsNamed(word, "a") THEN later.others
                             ELSE <<field>> \o later.others,
                  next |-> later.next]
  IN  headers

Sent(line, headers, body) ==
  [err |-> FALSE, method |-> line.method, url |-> line.url, body |-> body,
   host |-> headers.host, agent |-> headers.agent, others |-> headers.others]

parse ==
  LET line         == scanRequestLine
      afterLine    == nextLine(RequestLine[3].next)
      headers      == scanHeaders[afterLine.next]
      afterHeaders == nextLine(headers.next)
      none         == [host |-> Default, agent |-> NilHeader, others |-> <<>>]
  IN  IF line.err \/ afterLine.found = "error" THEN Rejected
      ELSE IF afterLine.found = "EOF" THEN Sent(line, none, {})
      ELSE IF headers.err \/ afterHeaders.found = "error" THEN Rejected
      ELSE Sent(line, headers,
                IF afterHeaders.found = "EOF" THEN {} ELSE afterHeaders.next .. Len(text))

-----------------------------------------------------------------------------
(* The same text, seen as lines, which are given by where they start.         *)
LineStarts == {1} \cup {i + 1 : i \in {j \in DOMAIN text : text[j] = "\n"}}

(* A line without what ends it. *)
Line(b) == {i \in DOMAIN text : b <= i /\ \A j \in b .. i : ~Among(j, {"\n", "\r"})}

Solid(i) == ~Among(i, {" "})

Trim(places) == {i \in places : \E j, k \in places : j <= i /\ i <= k /\ Solid(j) /\ Solid(k)}

WordStarts(b) == {i \in Line(b) : Solid(i) /\ ~(i - 1 \in Line(b) /\ Solid(i - 1))}

WordFrom(i) == {j \in DOMAIN text : i <= j /\ \A k \in i .. j : ~Among(k, {" ", "\n", "\r"})}

FirstWord(b) == WordFrom(Min(WordStarts(b)))

SecondWord(b) == WordFrom(Min(WordStarts(b) \ {Min(WordStarts(b))}))

Method == IF Cardinality(WordStarts(1)) = 1 THEN {} ELSE FirstWord(1)

URL == IF Cardinality(WordStarts(1)) = 1 THEN FirstWord(1) ELSE SecondWord(1)

(* The first line without a word ends the headers. *)
Separator == Min({b \in LineStarts \ {1} : WordStarts(b) = {}} \cup {Len(text) + 2})

HeaderStarts == {b \in LineStarts \ {1} : b < Separator}

Value(b) == Trim(Line(b) \ FirstWord(b))

(* A text ends with a line, but not with the name of a header, or behind the  *)
(* third word of a request line.                                              *)
EndsWell ==
  /\ LineStarts = {1} => Cardinality(WordStarts(1)) = 3 /\ ~Solid(Len(text))
  /\ \A b \in HeaderStarts : Len(text) \notin FirstWord(b)

WellFormed ==
  /\ Cardinality(WordStarts(1)) \in 1 .. 3 /\ ValidURL(URL)
  /\ \A b \in HeaderStarts : EndsWithColon(FirstWord(b))
  /\ EndsWell

HeadersNamed(name) == {b \in HeaderStarts : IsNamed(FirstWord(b), name)}

LastValue(name) ==
  IF HeadersNamed(name) = {} THEN Default ELSE Value(Max(HeadersNamed(name)))

(* Without a second line there are no headers to put sinq's user agent in.    *)
Agent == IF LineStarts = {1} THEN NilHeader ELSE LastValue("a")

Others == HeaderStarts \ (HeadersNamed("h") \cup HeadersNamed("a"))

Body == {i \in DOMAIN text : \E j \in Separator .. i - 1 : Among(j, {"\n"})}

(* A text is sent as what it looks like, or not at all: method and URL of its *)
(* first line, a header for each of the lines up to the first empty one, in   *)
(* order, with the last Host and the last User-Agent winning, and every byte  *)
(* after that as the body, whether lines end with newlines or with carriage   *)
(* returns, too (requestParser.parse).  The user agent is sinq's unless the   *)
(* text says otherwise, but a text of a single line has no headers to put it  *)
(* in and is sent with the one of net/http.  A text that ends within its      *)
(* first line is rejected: this is what is left of a request of one line if   *)
(* ### is in the next.  Blanks at the end of a text stay with the last        *)
(* header: net/http drops them (Trim).  The example of docs/scenario.md:9-16  *)
(* disagrees: its URLs are not absolute, which is rejected, and its body      *)
(* comes right after the first line, where the parser reads headers.          *)
TextIsSent ==
  (\A i \in DOMAIN text : text[i] = "\r" => Among(i + 1, {"\n"})) =>
    \A request \in {parse} :
      LET others == request.others IN
        /\ ~request.err <=> WellFormed
        /\ ~request.err =>
             /\ request.method = Method /\ request.url = URL /\ request.body = Body
             /\ Trim(request.host) = LastValue("h") /\ Trim(request.agent) = Agent
             /\ {others[n].line : n \in DOMAIN others} = Others
             /\ \A m, n \in DOMAIN others : m < n => others[m].line < others[n].line
             /\ \A n \in DOMAIN others :
                  /\ others[n].name = FirstWord(others[n].line)
                  /\ Trim(others[n].value) = Value(others[n].line)
=============================================================================
