--------------------------- MODULE RequestsProof ---------------------------
(* The parser of request files, for files of every length and of all          *)
(* characters: the requests it finds are the sections of the file.  And that  *)
(* of the text of a request: what is sent is what the text looks like.        *)
(*                                                                            *)
(* The state of the first is related to what has been read of the last        *)
(* section: what a place of it is (blank, escape, script, text) is settled    *)
(* when it is read, so only the newest place is new in a step.  The second    *)
(* is followed along its words and lines: scanWord takes one from those that  *)
(* are left (Rest), and what scanHeaders finds from a line on is that line    *)
(* and what it finds from the next one on (HeadersOK).                        *)
EXTENDS AlgorithmsProof, RequestFile, RequestText

(* The tokens of the parser differ. *)
LEMMA Symbols ==
  /\ Named # Inline /\ Named # "#" /\ Named # "\\" /\ Named \notin Whitespace
  /\ Inline # "#" /\ Inline # "\\" /\ Inline \notin Whitespace
  /\ "#" \notin Whitespace /\ "\\" \notin Whitespace /\ "\n" \in Whitespace
<1>1. Named # Inline /\ Named # "#" /\ Named # "\\" /\ Named # " " /\ Named # "\n"
  BY DEF Named, Inline
<1>2. Inline # "#" /\ Inline # "\\" /\ Inline # " " /\ Inline # "\n"
  BY DEF Inline
<1> QED BY <1>1, <1>2 DEF Whitespace

(* isEscape: after an escape comes none. *)
LEMMA EscapesDef ==
  ASSUME NEW f, NEW a \in Nat \ {0}, NEW b \in Nat
  PROVE  /\ Escapes(f, a .. b) \subseteq a .. b
         /\ \A i \in a .. b : i \in Escapes(f, a .. b) <=> At(f, i, "\\") /\ i - 1 \notin Escapes(f, a .. b)
<1> DEFINE S == a .. b
           N == IF b < a THEN 0 ELSE b - a + 1
           g == [n \in 1 .. N |-> [v \in BOOLEAN |-> At(f, a + n - 1, "\\") /\ ~v]]
           Is(e) == e = [i \in S |-> At(f, i, "\\") /\ ~(i - 1 \in S /\ e[i - 1])]
<1>1. PICK h : Follows(h, BOOLEAN, FALSE, N, g)
  <2>1. N \in Nat /\ g \in [1 .. N -> [BOOLEAN -> BOOLEAN]]
    BY DEF At
  <2> HIDE DEF N, g
  <2> QED BY <2>1, RecursionExists
<1> DEFINE e == [i \in S |-> h[i - a + 1]]
<1>2. \A i \in S : e[i] = (At(f, i, "\\") /\ ~(i - 1 \in S /\ e[i - 1]))
  <2> TAKE i \in S
  <2>1. i - a + 1 \in 1 .. N /\ i - a \in 0 .. N /\ a + (i - a + 1) - 1 = i
    OBVIOUS
  <2>2. h[i - a + 1] = (At(f, i, "\\") /\ ~h[i - a])
    <3>1. h[i - a] \in BOOLEAN /\ h[i - a + 1] = g[i - a + 1][h[i - a]]
      <4>1. (i - a + 1) - 1 = i - a
        OBVIOUS
      <4> HIDE DEF g, N
      <4> QED BY <1>1, <2>1, <4>1 DEF Follows
    <3>2. g[i - a + 1] = [v \in BOOLEAN |-> At(f, i, "\\") /\ ~v]
      <4> HIDE DEF N
      <4> QED BY <2>1
    <3> HIDE DEF g
    <3> QED BY <3>1, <3>2, Zenon
  <2>3. CASE i = a
    BY <1>1, <2>2, <2>3 DEF Follows
  <2>4. CASE i # a
    <3>1. i - 1 \in S /\ e[i - 1] = h[i - a]
      BY <2>4
    <3> QED BY <2>2, <3>1
  <2> QED BY <2>3, <2>4
<1>3. Is(e)
  <2> HIDE DEF S
  <2> QED BY <1>2
<1>4. PICK d : Is(d) /\ Escapes(f, S) = {i \in S : d[i]}
  <2> HIDE DEF S, e
  <2> QED BY <1>3 DEF Escapes
<1>5. \A i \in S : d[i] = (At(f, i, "\\") /\ ~(i - 1 \in S /\ d[i - 1]))
  <2> HIDE DEF S
  <2> QED BY <1>4
<1> QED BY <1>4, <1>5

SameText(f, g, a, b) == \A i \in a .. b : i \in DOMAIN f /\ i \in DOMAIN g /\ f[i] = g[i]

Skipped(f, S) == Leading(f, S) \cup Scripts(f, S, Named)
Kept(f, S) == S \ (Skipped(f, S) \cup Escapes(f, S))

(* What the places of S are in f is what they are in g, where T begins with S. *)
CutFrom(f, S, g, T) ==
  /\ S \subseteq T
  /\ Escapes(f, S) = Escapes(g, T) \cap S
  /\ \A x : Scripts(f, S, x) = Scripts(g, T, x) \cap S
  /\ Blanks(f, S) = Blanks(g, T) \cap S
  /\ Leading(f, S) = Leading(g, T) \cap S
  /\ Skipped(f, S) = Skipped(g, T) \cap S
  /\ Kept(f, S) = Kept(g, T) \cap S

(* What a place of a section is does not depend on what follows it. *)
LEMMA SectionCut ==
  ASSUME NEW f, NEW g, NEW a \in Nat \ {0}, NEW b \in Nat, NEW c \in Nat, b <= c, SameText(f, g, a, b)
  PROVE  CutFrom(f, a .. b, g, a .. c)
<1> DEFINE S == a .. b
           T == a .. c
           D == Escapes(f, S)
           E == Escapes(g, T)
<1>0. S \subseteq T /\ D \subseteq S /\ E \subseteq T
  <2>1. S \subseteq T
    OBVIOUS
  <2>2. D \subseteq S /\ E \subseteq T
    BY EscapesDef, Zenon
  <2> QED BY <2>1, <2>2
<1>1. \A i \in S : i \in D <=> i \in E
  <2> DEFINE Q == {n \in Nat : a + n <= b => (a + n \in D <=> a + n \in E)}
  <2>1. \A i \in S : /\ i \in D <=> At(f, i, "\\") /\ i - 1 \notin D
                     /\ i \in E <=> At(f, i, "\\") /\ i - 1 \notin E
    BY <1>0, EscapesDef DEF SameText, At
  <2> HIDE DEF D, E
  <2>2. 0 \in Q
    <3>1. a - 1 \notin D /\ a - 1 \notin E
      BY <1>0
    <3>2. a + 0 = a /\ (a <= b => a \in S)
      OBVIOUS
    <3> QED BY <2>1, <3>1, <3>2
  <2>3. \A n \in Nat : n \in Q => n + 1 \in Q
    <3> SUFFICES ASSUME NEW n \in Nat, n \in Q, a + (n + 1) <= b
                 PROVE  a + (n + 1) \in D <=> a + (n + 1) \in E
      OBVIOUS
    <3>1. a + (n + 1) \in S /\ (a + (n + 1)) - 1 = a + n
      OBVIOUS
    <3> QED BY <2>1, <3>1
  <2> HIDE DEF Q
  <2>4. Nat \subseteq Q
    BY <2>2, <2>3, NatSetInduction
  <2> TAKE i \in S
  <2>5. i - a \in Nat /\ a + (i - a) = i
    OBVIOUS
  <2>6. i - a \in Q
    BY <2>4, <2>5
  <2> QED BY <2>5, <2>6 DEF Q
<1>2. D = E \cap S
  BY <1>0, <1>1
<1>3. \A i \in S : i - 1 \in D <=> i - 1 \in E
  <2> HIDE DEF D, E
  <2> TAKE i \in S
  <2>1. CASE i = a
    <3>1. a - 1 \notin T /\ a - 1 \notin S
      OBVIOUS
    <3> QED BY <1>0, <2>1, <3>1
  <2>2. CASE i # a
    <3>1. i - 1 \in S
      BY <2>2
    <3> QED BY <1>1, <3>1
  <2> QED BY <2>1, <2>2
<1>4. \A x : Scripts(f, S, x) = Scripts(g, T, x) \cap S
  <2> TAKE x
  <2>1. \A i \in S : At(f, i, x) <=> At(g, i, x)
    BY DEF SameText, At
  <2> HIDE DEF S, T
  <2> QED BY <1>0, <1>3, <2>1 DEF Scripts, D, E
<1>5. Blanks(f, S) = Blanks(g, T) \cap S
  <2>1. \A i \in S : f[i] = g[i]
    BY DEF SameText
  <2> HIDE DEF S, T
  <2> QED BY <1>0, <1>3, <2>1 DEF Blanks, D, E
<1>6. Leading(f, S) = Leading(g, T) \cap S
  <2> DEFINE A == S \ Scripts(f, S, Named)
             B == T \ Scripts(g, T, Named)
  <2>1. \A j \in S : j - 1 \notin A <=> j - 1 \notin B
    <3> TAKE j \in S
    <3>1. CASE j = a
      <4>1. a - 1 \notin S /\ a - 1 \notin T
        OBVIOUS
      <4> QED BY <3>1, <4>1
    <3>2. CASE j # a
      <4>1. j - 1 \in S
        BY <3>2
      <4> QED BY <1>0, <1>4, <4>1
    <3> QED BY <3>1, <3>2
  <2>2. \A i \in S : \A j \in T : j <= i => j \in S /\ j .. i \subseteq S
    OBVIOUS
  <2>3. \A i \in S : \A j \in S : j .. i \subseteq Blanks(f, S) <=> j .. i \subseteq Blanks(g, T)
    <3>1. \A i \in S : \A j \in S : j .. i \subseteq S
      OBVIOUS
    <3> HIDE DEF S, T
    <3> QED BY <1>5, <3>1
  <2>4. Leading(f, S) = {i \in S : \E j \in S : j <= i /\ j .. i \subseteq Blanks(f, S) /\ j - 1 \notin A}
    BY DEF Leading
  <2>5. Leading(g, T) = {i \in T : \E j \in T : j <= i /\ j .. i \subseteq Blanks(g, T) /\ j - 1 \notin B}
    BY DEF Leading
  <2> HIDE DEF S, T, A, B
  <2> QED BY <1>0, <2>1, <2>2, <2>3, <2>4, <2>5
<1>7. Skipped(f, S) = Skipped(g, T) \cap S
  <2> HIDE DEF S, T
  <2> QED BY <1>4, <1>6 DEF Skipped
<1>8. Kept(f, S) = Kept(g, T) \cap S
  <2> HIDE DEF S, T
  <2> QED BY <1>0, <1>2, <1>7 DEF Kept, D, E
<1> QED BY <1>0, <1>2, <1>4, <1>5, <1>6, <1>7, <1>8 DEF CutFrom

(* c is read behind S, which ends in b. *)
ReadAfter(f, S, b, g, T, c) ==
  LET p == b + 1 IN
  /\ p \in Escapes(g, T) <=> c = "\\" /\ b \notin Escapes(f, S)
  /\ \A x : p \in Scripts(g, T, x) <=> c = x /\ b \notin Escapes(f, S)
  /\ p \in Leading(g, T) <=> /\ c \in Whitespace /\ b \notin Escapes(f, S)
                             /\ b \notin S \ Skipped(f, S)

(* One more character: what it is depends on what the place before it is. *)
LEMMA SectionGrown ==
  ASSUME NEW f, NEW g, NEW a \in Nat \ {0}, NEW b \in Nat, a <= b + 1,
         SameText(f, g, a, b), b + 1 \in DOMAIN g
  PROVE  ReadAfter(f, a .. b, b, g, a .. b + 1, g[b + 1])
<1> DEFINE S == a .. b
           T == a .. b + 1
           p == b + 1
           c == g[b + 1]
<1>0. /\ p \in T /\ S \subseteq T /\ T = S \cup {p} /\ p \notin S /\ p - 1 = b /\ b <= p /\ p \in Nat
      /\ Escapes(f, S) \subseteq S /\ Escapes(g, T) \subseteq T
  <2>1. /\ p \in T /\ S \subseteq T /\ T = S \cup {p} /\ p \notin S /\ p - 1 = b /\ b <= p /\ p \in Nat
    OBVIOUS
  <2>2. Escapes(f, S) \subseteq S
    BY EscapesDef, Zenon
  <2>3. Escapes(g, T) \subseteq T
    <3> HIDE DEF p
    <3> QED BY <2>1, EscapesDef DEF p
  <2> QED BY <2>1, <2>2, <2>3
<1>1. /\ Escapes(f, S) = Escapes(g, T) \cap S
      /\ \A x : Scripts(f, S, x) = Scripts(g, T, x) \cap S
      /\ Blanks(f, S) = Blanks(g, T) \cap S
      /\ Leading(f, S) = Leading(g, T) \cap S
  <2>1. p \in Nat /\ b <= p /\ T = a .. p
    OBVIOUS
  <2>2. CutFrom(f, S, g, T)
    <3> HIDE DEF p
    <3> QED BY <2>1, SectionCut
  <2> HIDE DEF S, T
  <2> QED BY <2>2 DEF CutFrom
<1>2. b \in Escapes(g, T) <=> b \in Escapes(f, S)
  <2>1. b \in T => b \in S
    OBVIOUS
  <2> HIDE DEF S, T
  <2> QED BY <1>0, <1>1, <2>1
<1>3. p \in Escapes(g, T) <=> c = "\\" /\ b \notin Escapes(f, S)
  <2>1. p \in Escapes(g, T) <=> At(g, p, "\\") /\ p - 1 \notin Escapes(g, T)
    BY <1>0, EscapesDef
  <2> HIDE DEF S, T
  <2> QED BY <1>0, <1>2, <2>1 DEF At
<1>4. \A x : p \in Scripts(g, T, x) <=> c = x /\ b \notin Escapes(f, S)
  <2> HIDE DEF S, T
  <2> QED BY <1>0, <1>2 DEF Scripts, At
<1>5. p \in Blanks(g, T) <=> c \in Whitespace /\ b \notin Escapes(f, S)
  <2> HIDE DEF S, T
  <2> QED BY <1>0, <1>2 DEF Blanks
<1> DEFINE B == T \ Scripts(g, T, Named)
<1>6. b \notin B <=> b \notin S \/ b \in Scripts(f, S, Named)
  <2>1. b \in T => b \in S
    OBVIOUS
  <2> HIDE DEF S, T
  <2> QED BY <1>0, <1>1, <2>1
<1>7. Leading(g, T) = {i \in T : \E j \in T : j <= i /\ j .. i \subseteq Blanks(g, T) /\ j - 1 \notin B}
  BY DEF Leading
<1>8. p \in Leading(g, T) => p \in Blanks(g, T) /\ b \notin S \ Skipped(f, S)
  <2> SUFFICES ASSUME p \in Leading(g, T) PROVE p \in Blanks(g, T) /\ b \notin S \ Skipped(f, S)
    OBVIOUS
  <2>1. PICK j \in T : j <= p /\ j .. p \subseteq Blanks(g, T) /\ j - 1 \notin B
    <3> HIDE DEF T, B
    <3> QED BY <1>7
  <2>2. p \in j .. p
    BY <1>0, <2>1
  <2>3. CASE j = p
    <3> HIDE DEF S, T, B
    <3> QED BY <1>0, <1>6, <2>1, <2>2, <2>3 DEF Skipped
  <2>4. CASE j # p
    <3>1. j \in S /\ b \in S /\ j <= b /\ j .. b \subseteq j .. p
      BY <2>1, <2>4
    <3> HIDE DEF S, T, B
    <3>2. b \in T /\ j .. b \subseteq Blanks(g, T)
      BY <1>0, <2>1, <3>1
    <3>3. b \in Leading(g, T)
      BY <1>7, <2>1, <3>1, <3>2
    <3> QED BY <1>1, <2>1, <2>2, <3>1, <3>3 DEF Skipped
  <2> QED BY <2>3, <2>4
<1>9. p \in Blanks(g, T) /\ b \notin S \ Skipped(f, S) => p \in Leading(g, T)
  <2> SUFFICES ASSUME p \in Blanks(g, T), b \notin S \ Skipped(f, S) PROVE p \in Leading(g, T)
    OBVIOUS
  <2>1. CASE b \notin B
    <3>1. p .. p = {p}
      BY <1>0
    <3> HIDE DEF S, T, B
    <3>2. p <= p /\ p .. p \subseteq Blanks(g, T) /\ p - 1 \notin B
      BY <1>0, <2>1, <3>1
    <3> QED BY <1>0, <1>7, <3>2
  <2>2. CASE b \in B
    <3>1. b \in Leading(g, T)
      <4> HIDE DEF S, T, B
      <4> QED BY <1>1, <1>6, <2>2 DEF Skipped
    <3>2. PICK j \in T : j <= b /\ j .. b \subseteq Blanks(g, T) /\ j - 1 \notin B
      <4> HIDE DEF T, B
      <4> QED BY <1>7, <3>1
    <3>3. j <= p /\ j .. p \subseteq (j .. b) \cup {p}
      BY <3>2
    <3> HIDE DEF S, T, B, p
    <3>4. j .. p \subseteq Blanks(g, T) /\ j - 1 \notin B /\ j <= p
      BY <3>2, <3>3
    <3> QED BY <1>0, <1>7, <3>4
  <2> QED BY <2>1, <2>2
<1>10. p \in Leading(g, T) <=> /\ c \in Whitespace /\ b \notin Escapes(f, S)
                               /\ b \notin S \ Skipped(f, S)
  <2> HIDE DEF S, T, p, c
  <2> QED BY <1>5, <1>8, <1>9
<1> QED BY <1>3, <1>4, <1>10 DEF ReadAfter

-----------------------------------------------------------------------------
Lists(s, S) == s \in Seq(Nat) /\ InOrder(s, S)

AllBelow(S, T) == \A x \in S : \A y \in T : x < y

(* Listings of sets that follow each other make one. *)
LEMMA ListsEmpty == Lists(<<>>, {})
<1>1. <<>> \in Seq(Nat) /\ DOMAIN <<>> = {}
  OBVIOUS
<1> QED BY <1>1 DEF Lists, InOrder, ToSet

(* One place. *)
LEMMA ListsOne ==
  ASSUME NEW x \in Nat
  PROVE  Lists(<<x>>, {x})
BY DEF Lists, InOrder, ToSet

(* The places of a token without escapes. *)
LEMMA ListsInterval ==
  ASSUME NEW a \in Nat, NEW b \in Nat, a <= b
  PROVE  Lists([i \in 1 .. b - a |-> a + i - 1], a .. b - 1)
<1> DEFINE s == [i \in 1 .. b - a |-> a + i - 1]
<1>1. s \in Seq(Nat) /\ DOMAIN s = 1 .. b - a
  <2>1. b - a \in Nat /\ \A i \in 1 .. b - a : a + i - 1 \in Nat
    OBVIOUS
  <2> QED BY <2>1
<1>2. \A i, j \in DOMAIN s : i < j => s[i] < s[j]
  OBVIOUS
<1>3. ToSet(s) = a .. b - 1
  <2>1. \A x \in a .. b - 1 : x - a + 1 \in 1 .. b - a /\ s[x - a + 1] = x
    OBVIOUS
  <2>2. \A i \in 1 .. b - a : s[i] \in a .. b - 1
    OBVIOUS
  <2> HIDE DEF s
  <2> QED BY <1>1, <2>1, <2>2 DEF ToSet
<1> HIDE DEF s
<1> QED BY <1>1, <1>2, <1>3 DEF Lists, InOrder, s

(* Two listings, one behind the other. *)
LEMMA ListsJoin ==
  ASSUME NEW s, NEW t, NEW S, NEW T, Lists(s, S), Lists(t, T), AllBelow(S, T)
  PROVE  Lists(s \o t, S \cup T)
<1> DEFINE r == s \o t
<1>1. s \in Seq(Nat) /\ t \in Seq(Nat) /\ ToSet(s) = S /\ ToSet(t) = T
  BY DEF Lists, InOrder
<1>2. /\ r \in Seq(Nat) /\ DOMAIN s = 1 .. Len(s) /\ DOMAIN t = 1 .. Len(t)
      /\ DOMAIN r = 1 .. Len(s) + Len(t) /\ Len(s) \in Nat /\ Len(t) \in Nat
      /\ \A i \in 1 .. Len(s) : r[i] = s[i] /\ \A j \in 1 .. Len(t) : r[Len(s) + j] = t[j]
  BY <1>1
<1>3. \A j \in 1 .. Len(t) : r[Len(s) + j] = t[j]
  BY <1>1
<1>4. \A i \in DOMAIN r : i \in DOMAIN s \/ (i - Len(s) \in DOMAIN t /\ i = Len(s) + (i - Len(s)))
  <2> HIDE DEF r
  <2> QED BY <1>2
<1>5. ToSet(r) = S \cup T
  <2>1. \A i \in DOMAIN s : i \in DOMAIN r /\ r[i] = s[i]
    <3> HIDE DEF r
    <3> QED BY <1>2
  <2>2. \A j \in DOMAIN t : Len(s) + j \in DOMAIN r /\ r[Len(s) + j] = t[j]
    <3> HIDE DEF r
    <3> QED BY <1>2, <1>3
  <2> HIDE DEF r
  <2>3. ToSet(r) \subseteq S \cup T
    BY <1>1, <1>4, <2>1, <2>2 DEF ToSet
  <2>4. S \subseteq ToSet(r)
    BY <1>1, <2>1 DEF ToSet
  <2>5. T \subseteq ToSet(r)
    BY <1>1, <2>2 DEF ToSet
  <2> QED BY <2>3, <2>4, <2>5
<1>6. ASSUME NEW i \in DOMAIN r, NEW j \in DOMAIN r, i < j PROVE r[i] < r[j]
  <2> HIDE DEF r
  <2>0. i \in Nat /\ j \in Nat
    BY <1>2
  <2>1. CASE j \in DOMAIN s
    <3>1. i \in DOMAIN s /\ r[i] = s[i] /\ r[j] = s[j]
      BY <1>2, <1>6, <2>0, <2>1
    <3> QED BY <1>6, <2>1, <3>1 DEF Lists, InOrder
  <2>2. CASE i \in DOMAIN s /\ j \notin DOMAIN s
    <3>1. j - Len(s) \in DOMAIN t /\ r[j] = t[j - Len(s)] /\ r[i] = s[i]
      BY <1>2, <1>3, <1>4, <2>2
    <3>2. s[i] \in S /\ t[j - Len(s)] \in T
      BY <1>1, <2>2, <3>1 DEF ToSet
    <3> QED BY <3>1, <3>2 DEF AllBelow
  <2>3. CASE i \notin DOMAIN s
    <3>1. j \notin DOMAIN s
      BY <1>2, <1>6, <2>0, <2>3
    <3>2. /\ i - Len(s) \in DOMAIN t /\ r[i] = t[i - Len(s)]
          /\ j - Len(s) \in DOMAIN t /\ r[j] = t[j - Len(s)]
      BY <1>2, <1>3, <1>4, <2>3, <3>1
    <3>3. i - Len(s) < j - Len(s)
      BY <1>2, <1>6, <2>0
    <3> QED BY <3>2, <3>3 DEF Lists, InOrder
  <2> QED BY <2>1, <2>2, <2>3
<1> HIDE DEF r
<1> QED BY <1>2, <1>5, <1>6 DEF Lists, InOrder, r

-----------------------------------------------------------------------------
(* The recursion of EscapePayload. *)
Rests(e, f, from, to) ==
  \A i \in from .. to + 1 :
    e[i] = IF i >= to THEN <<>>
           ELSE IF At(f, i, "\\") THEN <<i + 1>> \o e[i + 2] ELSE <<i>> \o e[i + 1]

(* EscapePayload is what its definition says. *)
LEMMA EscapePayloadDef ==
  ASSUME NEW f, NEW t, t.from \in Nat, t.to \in Nat, t.from < t.to
  PROVE  \E e : Rests(e, f, t.from, t.to) /\ EscapePayload(f, t) = e[t.from]
<1> DEFINE from == t.from
           to == t.to
           B(e, i) == IF i >= to THEN <<>>
                      ELSE IF At(f, i, "\\") THEN <<i + 1>> \o e[i + 2] ELSE <<i>> \o e[i + 1]
           Is(e) == e = [i \in from .. to + 1 |-> B(e, i)]
           Good(e, m) == \A i \in (to + 1) - m .. to + 1 : e[i] = B(e, i)
           S == {m \in Nat : m <= (to + 1) - from => \E e : Good(e, m)}
<1>0. from \in Nat /\ to \in Nat /\ from < to
  OBVIOUS
<1>1. 0 \in S
  <2> DEFINE e == [i \in {to + 1} |-> <<>>]
  <2>1. Good(e, 0)
    BY <1>0
  <2> HIDE DEF Good
  <2> QED BY <2>1
<1>2. \A m \in Nat : m \in S => m + 1 \in S
  <2> SUFFICES ASSUME NEW m \in Nat, m \in S, m + 1 <= (to + 1) - from
               PROVE  \E e : Good(e, m + 1)
    <3> HIDE DEF Good
    <3> QED OBVIOUS
  <2>1. PICK d : Good(d, m)
    <3> HIDE DEF Good
    <3> QED OBVIOUS
  <2> DEFINE k == to - m
             D == k .. to + 1
             e == [i \in D |-> IF i > k THEN d[i] ELSE B(d, k)]
  <2>2. k \in Nat /\ (to + 1) - (m + 1) = k /\ (to + 1) - m = k + 1
    BY <1>0
  <2> HIDE DEF B
  <2>3. /\ \A i \in k + 1 .. to + 1 : i \in D /\ e[i] = d[i]
        /\ e[k] = B(d, k) /\ k \in D
    BY <1>0, <2>2
  <2> HIDE DEF e, k
  <2>4. \A i \in k .. to + 1 : B(e, i) = B(d, i)
    <3> TAKE i \in k .. to + 1
    <3>1. CASE i >= to
      BY <3>1 DEF B
    <3>2. CASE i < to
      <4>1. i + 1 \in k + 1 .. to + 1 /\ i + 2 \in k + 1 .. to + 1
        BY <1>0, <2>2, <3>2
      <4>2. e[i + 1] = d[i + 1] /\ e[i + 2] = d[i + 2]
        BY <2>3, <4>1
      <4> QED BY <4>2 DEF B
    <3> QED BY <1>0, <2>2, <3>1, <3>2
  <2>5. \A i \in k .. to + 1 : i = k \/ i \in k + 1 .. to + 1
    BY <2>2
  <2>6. \A i \in k .. to + 1 : e[i] = B(e, i)
    BY <2>1, <2>2, <2>3, <2>4, <2>5
  <2>7. Good(e, m + 1)
    BY <2>2, <2>6
  <2> HIDE DEF Good
  <2> QED BY <2>7
<1>3. PICK e : Good(e, (to + 1) - from)
  <2>1. (to + 1) - from \in Nat /\ (to + 1) - from <= (to + 1) - from
    BY <1>0
  <2>2. (to + 1) - from \in S
    <3> HIDE DEF S
    <3> QED BY <1>1, <1>2, <2>1, NatSetInduction
  <2> HIDE DEF Good
  <2> QED BY <2>1, <2>2
<1> DEFINE d == [i \in from .. to + 1 |-> e[i]]
<1>4. \A i \in from .. to + 1 : d[i] = e[i]
  OBVIOUS
<1>5. \A i \in from .. to + 1 : e[i] = B(e, i)
  <2>1. (to + 1) - ((to + 1) - from) = from
    BY <1>0
  <2> HIDE DEF B
  <2> QED BY <1>3, <2>1
<1>6. \A i \in from .. to + 1 : B(e, i) = B(d, i)
  <2> TAKE i \in from .. to + 1
  <2>1. CASE i >= to
    BY <2>1
  <2>2. CASE i < to
    <3>1. i + 1 \in from .. to + 1 /\ i + 2 \in from .. to + 1
      BY <1>0, <2>2
    <3> HIDE DEF d
    <3> QED BY <1>4, <3>1
  <2> QED BY <1>0, <2>1, <2>2
<1>7. Is(d)
  <2>1. d = [i \in from .. to + 1 |-> d[i]]
    OBVIOUS
  <2> HIDE DEF d, B
  <2> QED BY <1>4, <1>5, <1>6, <2>1
<1>8. PICK h : Is(h) /\ EscapePayload(f, t) = h[from]
  <2> HIDE DEF d
  <2> QED BY <1>7 DEF EscapePayload
<1>9. \A i \in from .. to + 1 : h[i] = B(h, i)
  <2> HIDE DEF B
  <2> QED BY <1>8
<1> QED BY <1>8, <1>9 DEF Rests

(* E is where the escapes of a text are, whose first character is none that   *)
(* an escape takes.                                                           *)
EscapesIn(f, from, to, E) ==
  from - 1 \notin E /\ \A i \in from .. to - 1 : i \in E <=> At(f, i, "\\") /\ i - 1 \notin E

Unescaped(from, to, E) ==
  ((from .. to - 1) \ E) \cup (IF to - 1 \in E /\ from < to THEN {to} ELSE {})

(* Unescaping leaves out the escapes, and reads one place more if the last    *)
(* character of the token is one.                                             *)
LEMMA EscapePayloadLists ==
  ASSUME NEW f, NEW t, t.from \in Nat, t.to \in Nat, t.from < t.to,
         NEW E, EscapesIn(f, t.from, t.to, E)
  PROVE  Lists(EscapePayload(f, t), Unescaped(t.from, t.to, E))
<1> DEFINE from == t.from
           to == t.to
           P(i, e) == i - 1 \notin E => Lists(e[i], Unescaped(i, to, E))
<1>0. from \in Nat /\ to \in Nat /\ from < to
  OBVIOUS
<1>1. PICK e : Rests(e, f, from, to) /\ EscapePayload(f, t) = e[from]
  BY EscapePayloadDef
<1> DEFINE S == {m \in Nat : \A i \in from .. to + 1 : i >= (to + 1) - m => P(i, e)}
<1> HIDE DEF P
<1>2. ASSUME NEW i \in from .. to + 1, i >= to PROVE P(i, e)
  <2>1. e[i] = <<>>
    BY <1>0, <1>1, <1>2 DEF Rests
  <2>2. Unescaped(i, to, E) = {}
    BY <1>0, <1>2 DEF Unescaped
  <2> QED BY <2>1, <2>2, ListsEmpty DEF P
<1>3. ASSUME NEW i \in from .. to + 1, i < to, P(i + 1, e), P(i + 2, e) PROVE P(i, e)
  <2> SUFFICES ASSUME i - 1 \notin E PROVE Lists(e[i], Unescaped(i, to, E))
    BY DEF P
  <2>0. i \in Nat /\ i + 1 \in Nat /\ i \in from .. to - 1 /\ (i + 1) - 1 = i /\ (i + 2) - 1 = i + 1
    BY <1>0, <1>3
  <2>1. i \in E <=> At(f, i, "\\")
    BY <2>0 DEF EscapesIn
  <2>4. e[i] = IF At(f, i, "\\") THEN <<i + 1>> \o e[i + 2] ELSE <<i>> \o e[i + 1]
    <3>1. ~(i >= to)
      BY <1>0, <1>3, <2>0
    <3> QED BY <1>1, <1>3, <3>1 DEF Rests
  <2>2. CASE i \notin E
    <3>1. e[i] = <<i>> \o e[i + 1]
      BY <1>3, <2>4, <2>1, <2>2
    <3>2. Lists(e[i + 1], Unescaped(i + 1, to, E))
      BY <1>3, <2>0, <2>2 DEF P
    <3>3. AllBelow({i}, Unescaped(i + 1, to, E))
      BY <1>0, <2>0 DEF AllBelow, Unescaped
    <3>4. Unescaped(i, to, E) = {i} \cup Unescaped(i + 1, to, E)
      BY <1>0, <1>3, <2>0, <2>2 DEF Unescaped
    <3> QED BY <2>0, <3>1, <3>2, <3>3, <3>4, ListsOne, ListsJoin
  <2>3. CASE i \in E
    <3>1. e[i] = <<i + 1>> \o e[i + 2]
      BY <1>3, <2>4, <2>1, <2>3
    <3>2. i + 1 \in from .. to - 1 => i + 1 \notin E
      BY <2>0, <2>3 DEF EscapesIn
    <3>3. CASE i + 1 < to
      <4>1. i + 1 \notin E
        BY <1>0, <2>0, <3>2, <3>3
      <4>2. Lists(e[i + 2], Unescaped(i + 2, to, E))
        BY <1>3, <2>0, <4>1 DEF P
      <4>3. AllBelow({i + 1}, Unescaped(i + 2, to, E))
        BY <1>0, <2>0 DEF AllBelow, Unescaped
      <4>4. Unescaped(i, to, E) = {i + 1} \cup Unescaped(i + 2, to, E)
        BY <1>0, <2>0, <2>3, <3>3, <4>1 DEF Unescaped
      <4> QED BY <2>0, <3>1, <4>2, <4>3, <4>4, ListsOne, ListsJoin
    <3>4. CASE i + 1 = to
      <4>1. e[i + 2] = <<>>
        <5>1. i + 2 \in from .. to + 1 /\ i + 2 >= to
          BY <1>0, <2>0, <3>4
        <5> QED BY <1>1, <5>1 DEF Rests
      <4>2. Unescaped(i, to, E) = {i + 1}
        BY <1>0, <2>0, <2>3, <3>4 DEF Unescaped
      <4>3. AllBelow({i + 1}, {}) /\ {i + 1} \cup {} = {i + 1}
        BY DEF AllBelow
      <4> QED BY <2>0, <3>1, <4>1, <4>2, <4>3, ListsOne, ListsEmpty, ListsJoin
    <3> QED BY <1>0, <1>3, <2>0, <3>3, <3>4
  <2> QED BY <2>2, <2>3
<1>4. 0 \in S
  BY <1>0, <1>2
<1>5. \A m \in Nat : m \in S => m + 1 \in S
  <2> SUFFICES ASSUME NEW m \in Nat, m \in S, NEW i \in from .. to + 1, i >= (to + 1) - (m + 1)
               PROVE  P(i, e)
    OBVIOUS
  <2>1. CASE i >= to
    BY <1>2, <2>1
  <2>2. CASE i < to
    <3>1. /\ i + 1 \in from .. to + 1 /\ i + 1 >= (to + 1) - m
          /\ i + 2 \in from .. to + 1 /\ i + 2 >= (to + 1) - m
      BY <1>0, <2>2
    <3>2. P(i + 1, e) /\ P(i + 2, e)
      BY <3>1
    <3> HIDE DEF S
    <3> QED BY <1>3, <2>2, <3>2
  <2> QED BY <1>0, <2>1, <2>2
<1>6. to + 1 \in S
  <2> HIDE DEF S
  <2> QED BY <1>0, <1>4, <1>5, NatSetInduction
<1>7. P(from, e)
  <2>1. from \in from .. to + 1 /\ from >= (to + 1) - (to + 1)
    BY <1>0
  <2> QED BY <1>6, <2>1
<1> QED BY <1>1, <1>7 DEF P, EscapesIn

(* Unescaping a token looks at nothing else. *)
LEMMA EscapePayloadSame ==
  ASSUME NEW f, NEW g, NEW t, t.from \in Nat, t.to \in Nat, t.from < t.to,
         SameText(f, g, t.from, t.to - 1)
  PROVE  EscapePayload(f, t) = EscapePayload(g, t)
<1> DEFINE from == t.from
           to == t.to
<1>0. from \in Nat /\ to \in Nat /\ from < to
  OBVIOUS
<1>1. PICK d : Rests(d, f, from, to) /\ EscapePayload(f, t) = d[from]
  BY EscapePayloadDef
<1>2. PICK e : Rests(e, g, from, to) /\ EscapePayload(g, t) = e[from]
  BY EscapePayloadDef
<1> DEFINE S == {m \in Nat : \A i \in from .. to + 1 : i >= (to + 1) - m => d[i] = e[i]}
<1>3. \A i \in from .. to + 1 : i >= to => d[i] = e[i]
  BY <1>0, <1>1, <1>2 DEF Rests
<1>4. ASSUME NEW i \in from .. to + 1, i < to, d[i + 1] = e[i + 1], d[i + 2] = e[i + 2]
      PROVE  d[i] = e[i]
  <2>1. At(f, i, "\\") <=> At(g, i, "\\")
    <3>1. i \in from .. to - 1
      BY <1>0, <1>4
    <3> QED BY <3>1 DEF SameText, At
  <2>2. ~(i >= to)
    BY <1>0, <1>4
  <2> QED BY <1>1, <1>2, <1>4, <2>1, <2>2 DEF Rests
<1>5. 0 \in S
  BY <1>0, <1>3
<1>6. \A m \in Nat : m \in S => m + 1 \in S
  <2> SUFFICES ASSUME NEW m \in Nat, m \in S, NEW i \in from .. to + 1, i >= (to + 1) - (m + 1)
               PROVE  d[i] = e[i]
    OBVIOUS
  <2>1. CASE i >= to
    BY <1>3, <2>1
  <2>2. CASE i < to
    <3>1. /\ i + 1 \in from .. to + 1 /\ i + 1 >= (to + 1) - m
          /\ i + 2 \in from .. to + 1 /\ i + 2 >= (to + 1) - m
      BY <1>0, <2>2
    <3>2. d[i + 1] = e[i + 1] /\ d[i + 2] = e[i + 2]
      BY <3>1
    <3> HIDE DEF S
    <3> QED BY <1>4, <2>2, <3>2
  <2> QED BY <1>0, <2>1, <2>2
<1>7. to + 1 \in S
  <2> HIDE DEF S
  <2> QED BY <1>0, <1>5, <1>6, NatSetInduction
<1>8. from \in from .. to + 1 /\ from >= (to + 1) - (to + 1)
  BY <1>0
<1> QED BY <1>1, <1>2, <1>7, <1>8

-----------------------------------------------------------------------------
(* The tokens of a text of n characters. *)
Tokens(n) == {t \in [from : Nat \ {0}, to : Nat, escapes : BOOLEAN] : t.from < t.to /\ t.to <= n + 1}

(* The escapes of a token as they are without what is before it.              *)
LEMMA EscapesAlone ==
  ASSUME NEW f, NEW from \in Nat \ {0}, NEW to \in Nat
  PROVE  EscapesIn(f, from, to, Escapes(f, from .. to))
<1> DEFINE E == Escapes(f, from .. to)
<1>1. E \subseteq from .. to /\ \A i \in from .. to : i \in E <=> At(f, i, "\\") /\ i - 1 \notin E
  BY EscapesDef, Zenon
<1> HIDE DEF E
<1>2. from - 1 \notin E /\ \A i \in from .. to - 1 : i \in from .. to
  BY <1>1
<1> QED BY <1>1, <1>2 DEF EscapesIn, E

(* The payload of a token is the places of its text but for the escapes.      *)
LEMMA ExtractPayloadLists ==
  ASSUME NEW f, NEW n, NEW t \in Tokens(n), NEW E, EscapesIn(f, t.from, t.to, E),
         t.escapes \/ \A i \in t.from .. t.to - 1 : i \notin E
  PROVE  Lists(ExtractPayload(f, t), Unescaped(t.from, t.to, E))
<1>0. t.from \in Nat /\ t.to \in Nat /\ t.from < t.to
  BY DEF Tokens
<1>1. CASE t.escapes
  BY <1>0, <1>1, EscapePayloadLists DEF ExtractPayload
<1>2. CASE ~t.escapes
  <2>1. Unescaped(t.from, t.to, E) = t.from .. t.to - 1
    <3>1. t.to - 1 \notin E
      BY <1>0, <1>2
    <3> QED BY <1>2, <3>1 DEF Unescaped
  <2>2. ExtractPayload(f, t) = [i \in 1 .. t.to - t.from |-> t.from + i - 1]
    BY <1>2 DEF ExtractPayload
  <2>3. t.from <= t.to
    BY <1>0
  <2> QED BY <1>0, <2>1, <2>2, <2>3, ListsInterval
<1> QED BY <1>1, <1>2

(* It is a sequence of places. *)
LEMMA ExtractPayloadType ==
  ASSUME NEW f, NEW n, NEW t \in Tokens(n)
  PROVE  ExtractPayload(f, t) \in Seq(Nat)
<1>0. t.from \in Nat \ {0} /\ t.to \in Nat /\ t.from < t.to
  BY DEF Tokens
<1>1. CASE t.escapes
  <2>1. EscapesIn(f, t.from, t.to, Escapes(f, t.from .. t.to))
    BY <1>0, EscapesAlone
  <2> QED BY <1>1, <2>1, ExtractPayloadLists DEF Lists
<1>2. CASE ~t.escapes
  <2>1. t.from \in Nat /\ t.from <= t.to
    BY <1>0
  <2> QED BY <1>0, <1>2, <2>1, ListsInterval DEF ExtractPayload, Lists
<1> QED BY <1>1, <1>2

(* It depends on the text of the token only.                                  *)
LEMMA ExtractPayloadSame ==
  ASSUME NEW f, NEW g, NEW n \in Nat, NEW t \in Tokens(n), SameText(f, g, 1, n)
  PROVE  ExtractPayload(f, t) = ExtractPayload(g, t)
<1>0. t.from \in Nat \ {0} /\ t.to \in Nat /\ t.from < t.to /\ t.to <= n + 1
  BY DEF Tokens
<1>1. SameText(f, g, t.from, t.to - 1)
  <2>1. \A i \in t.from .. t.to - 1 : i \in 1 .. n
    BY <1>0
  <2> QED BY <2>1 DEF SameText
<1>2. EscapePayload(f, t) = EscapePayload(g, t)
  BY <1>0, <1>1, EscapePayloadSame
<1> QED BY <1>2 DEF ExtractPayload

Joins(e, s) == e[0] = <<>> /\ \A i \in 1 .. Len(s) : e[i] \in Seq(Nat) /\ e[i] = e[i - 1] \o s[i]

(* FlattenSeq joins the sequences one by one. *)
LEMMA FlattenSeqDef ==
  ASSUME NEW s \in Seq(Seq(Nat))
  PROVE  \E e : Joins(e, s) /\ FlattenSeq(s) = e[Len(s)]
<1> DEFINE N == Len(s)
           V == Seq(Nat)
           g == [n \in 1 .. N |-> [v \in V |-> v \o s[n]]]
           Is(e) == e = [i \in 1 .. N |-> IF i = 1 THEN s[i] ELSE e[i - 1] \o s[i]]
<1>0. N \in Nat /\ <<>> \in V /\ \A i \in 1 .. N : s[i] \in V
  OBVIOUS
<1>1. g \in [1 .. N -> [V -> V]]
  <2>1. \A v \in V : \A w \in V : v \o w \in V
    OBVIOUS
  <2> HIDE DEF N, V
  <2> QED BY <1>0, <2>1
<1>2. PICK e : Follows(e, V, <<>>, N, g)
  <2> HIDE DEF N, V, g
  <2> QED BY <1>0, <1>1, RecursionExists
<1>3. e[0] = <<>> /\ \A n \in 0 .. N : e[n] \in V
  <2> HIDE DEF N, V, g
  <2> QED BY <1>2 DEF Follows
<1>4. \A n \in 1 .. N : e[n] = e[n - 1] \o s[n]
  <2> TAKE n \in 1 .. N
  <2>1. n - 1 \in 0 .. N
    BY <1>0
  <2>2. e[n] = g[n][e[n - 1]]
    <3> HIDE DEF N, V, g
    <3> QED BY <1>2 DEF Follows
  <2>3. g[n] = [v \in V |-> v \o s[n]]
    OBVIOUS
  <2>4. e[n - 1] \in V
    <3> HIDE DEF N, V
    <3> QED BY <1>3, <2>1
  <2> HIDE DEF g, V, N
  <2> QED BY <2>2, <2>3, <2>4
<1>5. CASE N = 0
  BY <1>3, <1>4, <1>5 DEF Joins, FlattenSeq
<1>6. CASE N # 0
  <2>1. \A w \in V : <<>> \o w = w
    OBVIOUS
  <2> HIDE DEF V
  <2>0. e[1] = s[1]
    <3>1. 1 \in 1 .. N /\ 1 - 1 = 0
      BY <1>0, <1>6
    <3>2. s[1] \in V
      <4> HIDE DEF N
      <4> QED BY <1>0, <3>1
    <3> HIDE DEF N
    <3>3. e[1] = e[0] \o s[1]
      BY <1>4, <3>1
    <3> QED BY <1>3, <2>1, <3>2, <3>3
  <2> DEFINE d == [i \in 1 .. N |-> e[i]]
  <2>2. \A i \in 1 .. N : d[i] = IF i = 1 THEN s[i] ELSE d[i - 1] \o s[i]
    <3> TAKE i \in 1 .. N
    <3>1. CASE i = 1
      <4> HIDE DEF N
      <4> QED BY <2>0, <3>1
    <3>2. CASE i # 1
      <4>1. i - 1 \in 1 .. N
        BY <1>0, <3>2
      <4> HIDE DEF N
      <4> QED BY <1>4, <3>2, <4>1
    <3> QED BY <3>1, <3>2
  <2>3. Is(d)
    <3>1. d = [i \in 1 .. N |-> d[i]]
      OBVIOUS
    <3> HIDE DEF d, N
    <3> QED BY <2>2, <3>1
  <2>4. PICK h : Is(h) /\ FlattenSeq(s) = h[N]
    <3> HIDE DEF d
    <3> QED BY <1>6, <2>3 DEF FlattenSeq
  <2>5. \A i \in 1 .. N : h[i] = IF i = 1 THEN s[i] ELSE h[i - 1] \o s[i]
    <3> HIDE DEF N
    <3> QED BY <2>4
  <2> DEFINE a == [i \in 0 .. N - 1 |-> h[i + 1]]
             b == [i \in 0 .. N - 1 |-> e[i + 1]]
  <2>6. \A n \in 0 .. N - 1 : a[n] = h[n + 1] /\ b[n] = e[n + 1]
    OBVIOUS
  <2>7. a[0] = b[0]
    <3>1. 0 \in 0 .. N - 1 /\ 0 + 1 = 1 /\ 1 \in 1 .. N /\ 1 - 1 = 0
      BY <1>0, <1>6
    <3>2. h[1] = s[1]
      <4> HIDE DEF N
      <4> QED BY <2>5, <3>1
    <3> HIDE DEF N, a, b
    <3> QED BY <2>0, <2>6, <3>1, <3>2
  <2>8. \A n \in 1 .. N - 1 : a[n - 1] = b[n - 1] => a[n] = b[n]
    <3> TAKE n \in 1 .. N - 1
    <3>1. /\ n - 1 \in 0 .. N - 1 /\ n \in 0 .. N - 1 /\ (n - 1) + 1 = n /\ (n + 1) - 1 = n
          /\ n + 1 \in 1 .. N /\ n + 1 # 1
      BY <1>0
    <3> HIDE DEF N, a, b
    <3>2. h[n + 1] = h[n] \o s[n + 1] /\ e[n + 1] = e[n] \o s[n + 1]
      BY <1>4, <2>5, <3>1
    <3>3. a[n] = h[n + 1] /\ b[n] = e[n + 1] /\ a[n - 1] = h[n] /\ b[n - 1] = e[n]
      BY <2>6, <3>1
    <3> QED BY <3>2, <3>3
  <2>9. h[N] = e[N]
    <3>1. N - 1 \in Nat /\ N - 1 \in 0 .. N - 1 /\ (N - 1) + 1 = N
      BY <1>0, <1>6
    <3> HIDE DEF N, a, b
    <3>2. SameSteps(N - 1, b, a)
      BY <2>7, <2>8 DEF SameSteps
    <3>3. \A n \in 0 .. N - 1 : a[n] = b[n]
      BY <3>1, <3>2, SameComputation
    <3> QED BY <2>6, <3>1, <3>3
  <2>10. Joins(e, s)
    <3> HIDE DEF N
    <3>1. \A n \in 1 .. N : n \in 0 .. N
      BY <1>0
    <3> QED BY <1>3, <1>4, <3>1 DEF Joins, N, V
  <2> QED BY <2>4, <2>9, <2>10
<1> QED BY <1>5, <1>6

(* One sequence more. *)
LEMMA FlattenSeqAppend ==
  ASSUME NEW s \in Seq(Seq(Nat)), NEW x \in Seq(Nat)
  PROVE  FlattenSeq(Append(s, x)) = FlattenSeq(s) \o x /\ FlattenSeq(s) \in Seq(Nat)
<1> DEFINE N == Len(s)
           r == Append(s, x)
<1>0. /\ N \in Nat /\ r \in Seq(Seq(Nat)) /\ Len(r) = N + 1 /\ r[N + 1] = x
      /\ \A i \in 1 .. N : r[i] = s[i]
  OBVIOUS
<1> HIDE DEF r
<1>1. PICK d : Joins(d, s) /\ FlattenSeq(s) = d[N]
  BY FlattenSeqDef
<1>2. PICK e : Joins(e, r) /\ FlattenSeq(r) = e[N + 1]
  BY <1>0, FlattenSeqDef
<1> HIDE DEF N
<1>3. \A n \in 0 .. N : d[n] = e[n]
  <2>1. \A n \in 1 .. N : n \in 1 .. N + 1
    BY <1>0
  <2>2. SameSteps(N, e, d)
    BY <1>0, <1>1, <1>2, <2>1 DEF Joins, SameSteps, N
  <2> QED BY <1>0, <2>2, SameComputation
<1>4. e[N + 1] = d[N] \o x
  <2>1. N + 1 \in 1 .. N + 1 /\ (N + 1) - 1 = N /\ N \in 0 .. N
    BY <1>0
  <2> QED BY <1>0, <1>2, <1>3, <2>1 DEF Joins
<1>5. d[N] \in Seq(Nat)
  <2>1. (N = 0 \/ N \in 1 .. N) /\ <<>> \in Seq(Nat)
    BY <1>0
  <2> QED BY <1>1, <2>1 DEF Joins, N
<1> QED BY <1>1, <1>2, <1>4, <1>5 DEF r

Payloads(f, c) == [i \in DOMAIN c |-> ExtractPayload(f, c[i])]

(* The payloads of tokens are sequences of places. *)
LEMMA PayloadsType ==
  ASSUME NEW f, NEW n, NEW c \in Seq(Tokens(n))
  PROVE  Payloads(f, c) \in Seq(Seq(Nat)) /\ Len(Payloads(f, c)) = Len(c)
<1>1. DOMAIN c = 1 .. Len(c) /\ Len(c) \in Nat /\ \A i \in 1 .. Len(c) : c[i] \in Tokens(n)
  OBVIOUS
<1>2. \A i \in 1 .. Len(c) : ExtractPayload(f, c[i]) \in Seq(Nat)
  BY <1>1, ExtractPayloadType
<1>3. Payloads(f, c) = [i \in 1 .. Len(c) |-> ExtractPayload(f, c[i])]
  BY <1>1 DEF Payloads
<1> QED BY <1>1, <1>2, <1>3

(* A blueprint without content has no payload. *)
LEMMA PayloadEmpty ==
  ASSUME NEW f, NEW bp, bp.content = <<>>
  PROVE  Payload(f, bp) = <<>>
<1>1. [i \in DOMAIN bp.content |-> ExtractPayload(f, bp.content[i])] = <<>>
  OBVIOUS
<1> QED BY <1>1 DEF Payload, FlattenSeq

(* One more token adds its own. *)
LEMMA PayloadAppend ==
  ASSUME NEW f, NEW n, NEW bp, NEW d, NEW t \in Tokens(n), bp.content \in Seq(Tokens(n)),
         d.content = Append(bp.content, t), NEW S, NEW T,
         Lists(Payload(f, bp), S), Lists(ExtractPayload(f, t), T), AllBelow(S, T)
  PROVE  Lists(Payload(f, d), S \cup T)
<1> DEFINE c == bp.content
           x == ExtractPayload(f, t)
<1>1. x \in Seq(Nat) /\ Payloads(f, c) \in Seq(Seq(Nat)) /\ Len(Payloads(f, c)) = Len(c)
  BY ExtractPayloadType, PayloadsType
<1>2. Payloads(f, Append(c, t)) = Append(Payloads(f, c), x)
  <2>1. /\ DOMAIN c = 1 .. Len(c) /\ Len(c) \in Nat
        /\ DOMAIN Append(c, t) = 1 .. Len(c) + 1
        /\ \A i \in 1 .. Len(c) : Append(c, t)[i] = c[i]
        /\ Append(c, t)[Len(c) + 1] = t
    OBVIOUS
  <2> HIDE DEF c
  <2>2. Append(Payloads(f, c), x) = [i \in 1 .. Len(c) + 1 |-> IF i = Len(c) + 1 THEN x ELSE Payloads(f, c)[i]]
    <3> DEFINE r == Payloads(f, c)
    <3>1. Append(r, x) = [i \in 1 .. Len(r) + 1 |-> IF i = Len(r) + 1 THEN x ELSE r[i]]
      <4>1. r \in Seq(Seq(Nat)) /\ x \in Seq(Nat)
        BY <1>1
      <4> HIDE DEF r, x
      <4>2. /\ Append(r, x) \in Seq(Seq(Nat)) /\ Len(Append(r, x)) = Len(r) + 1 /\ Len(r) \in Nat
            /\ \A i \in 1 .. Len(r) : Append(r, x)[i] = r[i]
            /\ Append(r, x)[Len(r) + 1] = x
        BY <4>1
      <4>3. \A y \in Seq(Seq(Nat)) : y = [i \in 1 .. Len(y) |-> y[i]]
        OBVIOUS
      <4>4. Append(r, x) = [i \in 1 .. Len(r) + 1 |-> Append(r, x)[i]]
        BY <4>2, <4>3
      <4> QED BY <4>2, <4>4
    <3> HIDE DEF x
    <3> QED BY <1>1, <3>1
  <2>3. \A i \in 1 .. Len(c) : Payloads(f, c)[i] = ExtractPayload(f, c[i])
    BY <2>1 DEF Payloads
  <2>4. Payloads(f, Append(c, t)) = [i \in 1 .. Len(c) + 1 |-> ExtractPayload(f, Append(c, t)[i])]
    BY <2>1 DEF Payloads
  <2> QED BY <2>1, <2>2, <2>3, <2>4
<1>3. Payload(f, bp) = FlattenSeq(Payloads(f, c)) /\ Payload(f, d) = FlattenSeq(Append(Payloads(f, c), x))
  <2>1. Payload(f, bp) = FlattenSeq(Payloads(f, c))
    BY DEF Payload, Payloads
  <2>2. Payload(f, d) = FlattenSeq(Payloads(f, Append(c, t)))
    BY DEF Payload, Payloads
  <2> QED BY <1>2, <2>1, <2>2
<1> HIDE DEF c, x
<1>4. Payload(f, d) = Payload(f, bp) \o x
  BY <1>1, <1>3, FlattenSeqAppend
<1> QED BY <1>4, ListsJoin DEF x

(* A payload depends on the text of its tokens only. *)
LEMMA PayloadSame ==
  ASSUME NEW f, NEW g, NEW n \in Nat, NEW bp, bp.content \in Seq(Tokens(n)), SameText(f, g, 1, n)
  PROVE  Payload(f, bp) = Payload(g, bp)
<1>1. \A i \in DOMAIN bp.content : ExtractPayload(f, bp.content[i]) = ExtractPayload(g, bp.content[i])
  <2> TAKE i \in DOMAIN bp.content
  <2>1. bp.content[i] \in Tokens(n)
    OBVIOUS
  <2> QED BY <2>1, ExtractPayloadSame
<1> QED BY <1>1 DEF Payload

-----------------------------------------------------------------------------
(* What is known while a file is read: Current is what has been read of the last *)
(* section, but for a line that may be the next header, and Pending the first *)
(* place of the text token that is not finished.                              *)
Limit == IF reader = "header" THEN hash - 1 ELSE Len(file)
Newest == Last(requests).name
Begin(f, h) == IF h = 0 THEN 1 ELSE EndOfLine(f, h) + 1
Current == Begin(file, Newest) .. Limit
Pending == IF InText THEN start ELSE Limit + 1

FileType ==
  /\ bound \in Files
  /\ file \in Seq(UNION {b.chars : b \in Files})
  /\ reader \in {"consumeWhitespace", "lexToken", "parseText", "parseDelimiter", "header"}
  /\ start \in Nat /\ escaped \in BOOLEAN /\ hasEscapes \in BOOLEAN /\ hash \in Nat
  /\ requests \in Seq([name : Nat, pre : SUBSET Nat, content : Seq(Tokens(Len(file)))])
  /\ requests # <<>> /\ err \in BOOLEAN

(* A line begins with one or two #. *)
MayBeHeader(f, i) == AtLineStart(f, i) /\ i >= Len(f) - 1 /\ \A j \in i .. Len(f) : f[j] = "#"

HeadersRead ==
  /\ Newest \in Headers(file) /\ \A h \in Headers(file) : h <= Newest
  /\ \A i \in DOMAIN file : HeaderMark(file, i) => Header(file, i) \/ (reader = "header" /\ hash = i)
  /\ \A i \in DOMAIN file : MayBeHeader(file, i) => reader = "parseDelimiter" /\ hash = i
  /\ reader = "parseDelimiter" =>
       /\ hash \in Len(file) - 1 .. Len(file) /\ start <= hash
       /\ \A j \in hash .. Len(file) : At(file, j, "#")
  /\ reader = "header" =>
       HeaderMark(file, hash) /\ start <= hash /\ \A j \in hash .. Len(file) : ~At(file, j, "\n")

TextRead ==
  /\ Begin(file, Newest) <= Pending /\ Pending <= Limit + 1 /\ (InText => start <= Len(file))
  /\ \A i \in Pending .. Limit : i \notin Skipped(file, Current) \cup Scripts(file, Current, Inline)
  /\ Pending - 1 \notin Escapes(file, Current)
  /\ Pending - 1 \in Kept(file, Current) => At(file, Pending - 1, Inline)
  /\ InText => (hasEscapes <=> \E i \in Pending .. Limit : i \in Escapes(file, Current))
  /\ escaped <=> Limit \in Escapes(file, Current)
  /\ reader = "consumeWhitespace" => Limit \notin Current \ Skipped(file, Current)
  /\ reader = "lexToken" => Limit \in Current \ Skipped(file, Current)

(* The special scripts of the sections between two headers. *)
Between(f, low, high) ==
  UNION {Scripts(f, Section(f, h), Named) : h \in {g \in Headers(f) : low < g /\ g < high}}

Since(bps, n) == IF n = 1 THEN -1 ELSE bps[n - 1].name

Unfinished(f, S, pending) == {i \in Kept(f, S) : i < pending}

LastRead ==
  LET last == Last(requests) IN
  /\ Lists(Payload(file, last), Unfinished(file, Current, Pending))
  /\ last.content # <<>> => Unfinished(file, Current, Pending) # {}
  /\ last.pre = Between(file, Since(requests, Len(requests)), Newest) \cup Scripts(file, Current, Named)

(* A request and its section. *)
IsSection(f, bp, since) ==
  LET S == Section(f, bp.name) IN
  /\ bp.name \in Headers(f) /\ bp.content # <<>> /\ Content(f, S) # {}
  /\ Lists(Payload(f, bp), Content(f, S))
  /\ bp.pre = Between(f, since, bp.name) \cup Scripts(f, S, Named)

Finished ==
  /\ \A m, n \in DOMAIN requests : m < n => requests[m].name < requests[n].name
  /\ \A n \in 1 .. Len(requests) - 1 : IsSection(file, requests[n], Since(requests, n))
  /\ \A h \in Headers(file) : h < Newest /\ Content(file, Section(file, h)) # {} =>
       \E n \in 1 .. Len(requests) - 1 : requests[n].name = h

FileInv == FileType /\ (~err => HeadersRead /\ TextRead /\ LastRead /\ Finished)

(* The end of a line is its first newline. *)
LEMMA EndOfLineDef ==
  ASSUME NEW f, Len(f) \in Nat, NEW i \in Nat, NEW k \in i .. Len(f), At(f, k, "\n")
  PROVE  /\ EndOfLine(f, i) \in i .. Len(f) /\ At(f, EndOfLine(f, i), "\n")
         /\ \A m \in i .. EndOfLine(f, i) - 1 : ~At(f, m, "\n")
<1> DEFINE S == {j \in i .. Len(f) : At(f, j, "\n")}
           P(j) == At(f, j, "\n") /\ \A m \in i .. j - 1 : ~At(f, m, "\n")
<1>1. S \in SUBSET Nat /\ S # {}
  OBVIOUS
<1>2. Min(S) \in S /\ \A y \in S : Min(S) <= y
  <2> HIDE DEF S
  <2> QED BY <1>1, MinOf
<1> DEFINE j == Min(S)
<1> HIDE DEF j
<1>3. j \in i .. Len(f) /\ At(f, j, "\n") /\ \A y \in i .. Len(f) : At(f, y, "\n") => j <= y
  BY <1>2 DEF j
<1>4. \A m \in i .. j - 1 : ~At(f, m, "\n")
  BY <1>3
<1>5. \E x \in i .. Len(f) : P(x)
  BY <1>3, <1>4
<1>6. EndOfLine(f, i) = CHOOSE x \in i .. Len(f) : P(x)
  BY DEF EndOfLine
<1>7. EndOfLine(f, i) \in i .. Len(f) /\ P(EndOfLine(f, i))
  <2> HIDE DEF P
  <2> QED BY <1>5, <1>6
<1> QED BY <1>7

(* It is no other. *)
LEMMA EndOfLineIs ==
  ASSUME NEW f, Len(f) \in Nat, NEW i \in Nat, NEW k \in i .. Len(f), At(f, k, "\n"),
         \A m \in i .. k - 1 : ~At(f, m, "\n")
  PROVE  EndOfLine(f, i) = k
<1> DEFINE e == EndOfLine(f, i)
<1>1. e \in i .. Len(f) /\ At(f, e, "\n") /\ \A m \in i .. e - 1 : ~At(f, m, "\n")
  BY EndOfLineDef
<1> HIDE DEF e
<1>2. ~(e < k) /\ ~(k < e)
  BY <1>1
<1> QED BY <1>1, <1>2 DEF e

(* g is f and one character more. *)
Reads(f, g, c) ==
  /\ Len(f) \in Nat /\ DOMAIN f = 1 .. Len(f)
  /\ Len(g) = Len(f) + 1 /\ DOMAIN g = 1 .. Len(f) + 1
  /\ g[Len(f) + 1] = c /\ \A i \in 1 .. Len(f) : g[i] = f[i]

(* What is already there stays. *)
LEMMA ReadsAt ==
  ASSUME NEW f, NEW g, NEW c, Reads(f, g, c)
  PROVE  /\ \A i, x : At(g, i, x) <=> At(f, i, x) \/ (i = Len(f) + 1 /\ c = x)
         /\ \A i \in Nat : i <= Len(f) + 1 => (AtLineStart(g, i) <=> AtLineStart(f, i))
         /\ \A i, x : At(f, i, x) => i \in 1 .. Len(f)
<1>1. \A i : i \in DOMAIN g <=> i \in DOMAIN f \/ i = Len(f) + 1
  BY DEF Reads
<1>2. Len(f) + 1 \notin DOMAIN f
  BY DEF Reads
<1>3. \A i, x : At(g, i, x) <=> At(f, i, x) \/ (i = Len(f) + 1 /\ c = x)
  BY <1>1, <1>2 DEF Reads, At
<1>4. \A i \in Nat : i <= Len(f) + 1 => i - 1 # Len(f) + 1
  BY DEF Reads
<1> QED BY <1>3, <1>4 DEF AtLineStart, Reads, At

(* A mark is complete with its third #. *)
LEMMA MarkGrown ==
  ASSUME NEW f, NEW g, NEW c, Reads(f, g, c), NEW i
  PROVE  HeaderMark(g, i) <=>
           \/ HeaderMark(f, i)
           \/ i = Len(f) - 1 /\ c = "#" /\ AtLineStart(f, i) /\ At(f, i, "#") /\ At(f, i + 1, "#")
<1>1. Len(f) \in Nat
  BY DEF Reads
<1>2. CASE i \notin 1 .. Len(f) + 1
  <2>1. i \notin DOMAIN f /\ i \notin DOMAIN g
    BY <1>2 DEF Reads
  <2> QED BY <2>1 DEF HeaderMark, At
<1>3. CASE i \in 1 .. Len(f) + 1
  <2>0. i \in Nat /\ i <= Len(f) + 1
    BY <1>1, <1>3
  <2>1. AtLineStart(g, i) <=> AtLineStart(f, i)
    BY <2>0, ReadsAt
  <2>2. CASE i + 2 <= Len(f)
    <3>1. i # Len(f) + 1 /\ i + 1 # Len(f) + 1 /\ i + 2 # Len(f) + 1 /\ i # Len(f) - 1
      BY <1>1, <2>0, <2>2
    <3> QED BY <2>1, <3>1, ReadsAt DEF HeaderMark
  <2>3. CASE i = Len(f) - 1
    <3>1. i # Len(f) + 1 /\ i + 1 # Len(f) + 1 /\ i + 2 = Len(f) + 1 /\ i + 2 \notin 1 .. Len(f)
      BY <1>1, <2>0, <2>3
    <3> QED BY <2>1, <2>3, <3>1, ReadsAt DEF HeaderMark
  <2>4. CASE i >= Len(f)
    <3>1. i + 2 # Len(f) + 1 /\ i + 2 \notin 1 .. Len(f) /\ i # Len(f) - 1
      BY <1>1, <2>0, <2>4
    <3> QED BY <3>1, ReadsAt DEF HeaderMark
  <2> QED BY <1>1, <2>0, <2>2, <2>3, <2>4
<1> QED BY <1>2, <1>3

(* A newline makes headers of the marks in its line. *)
LEMMA HeaderGrown ==
  ASSUME NEW f, NEW g, NEW c, Reads(f, g, c), NEW i
  PROVE  Header(g, i) <=> Header(f, i) \/ (c = "\n" /\ HeaderMark(f, i))
<1>1. Len(f) \in Nat /\ Len(g) = Len(f) + 1
  BY DEF Reads
<1>2. CASE HeaderMark(f, i)
  <2>1. HeaderMark(g, i) /\ i \in 1 .. Len(f)
    BY <1>2, MarkGrown, ReadsAt DEF HeaderMark
  <2>2. \A j \in i .. Len(g) : j \in i .. Len(f) \/ j = Len(f) + 1
    BY <1>1, <2>1
  <2>3. Len(f) + 1 \in i .. Len(g) /\ \A j \in i .. Len(f) : j \in i .. Len(g)
    BY <1>1, <2>1
  <2>4. (\E j \in i .. Len(g) : At(g, j, "\n")) <=> c = "\n" \/ \E j \in i .. Len(f) : At(f, j, "\n")
    <3>1. Len(f) + 1 \notin 1 .. Len(f)
      BY <1>1
    <3> QED BY <2>2, <2>3, <3>1, ReadsAt
  <2> QED BY <1>2, <2>1, <2>4 DEF Header
<1>3. CASE ~HeaderMark(f, i) /\ HeaderMark(g, i)
  <2>1. i = Len(f) - 1 /\ c = "#" /\ At(f, i, "#") /\ At(f, i + 1, "#")
    BY <1>3, MarkGrown
  <2>2. \A j \in i .. Len(g) : At(g, j, "#")
    <3>1. \A j \in i .. Len(g) : j = i \/ j = i + 1 \/ j = Len(f) + 1
      BY <1>1, <2>1
    <3> QED BY <2>1, <3>1, ReadsAt
  <2>3. \A j \in i .. Len(g) : ~At(g, j, "\n")
    BY <2>2 DEF At
  <2> QED BY <1>3, <2>3 DEF Header
<1>4. CASE ~HeaderMark(f, i) /\ ~HeaderMark(g, i)
  BY <1>4 DEF Header
<1> QED BY <1>2, <1>3, <1>4

(* Headers stay headers, where they are. *)
LEMMA BeginSame ==
  ASSUME NEW f, NEW g, NEW c, Reads(f, g, c), NEW h \in Headers(f)
  PROVE  /\ h \in Headers(g) /\ Begin(g, h) = Begin(f, h) /\ h \in 0 .. Len(f)
         /\ Begin(f, h) \in Nat \ {0} /\ h < Begin(f, h) /\ Begin(f, h) <= Len(f) + 1
<1>0. Len(f) \in Nat /\ Len(g) = Len(f) + 1 /\ DOMAIN f = 1 .. Len(f) /\ DOMAIN g = 1 .. Len(f) + 1
  BY DEF Reads
<1>1. CASE h = 0
  BY <1>0, <1>1 DEF Headers, Begin
<1>2. CASE h # 0
  <2>1. h \in 1 .. Len(f) /\ Header(f, h)
    BY <1>0, <1>2 DEF Headers
  <2>2. PICK k \in h .. Len(f) : At(f, k, "\n")
    BY <2>1 DEF Header
  <2>3. /\ EndOfLine(f, h) \in h .. Len(f) /\ At(f, EndOfLine(f, h), "\n")
        /\ \A m \in h .. EndOfLine(f, h) - 1 : ~At(f, m, "\n")
    BY <1>0, <2>1, <2>2, EndOfLineDef
  <2> DEFINE e == EndOfLine(f, h)
  <2> HIDE DEF e
  <2>4. e \in h .. Len(g) /\ At(g, e, "\n") /\ \A m \in h .. e - 1 : ~At(g, m, "\n")
    <3>1. e \in h .. Len(f) /\ At(f, e, "\n") /\ \A m \in h .. e - 1 : ~At(f, m, "\n")
      BY <2>3 DEF e
    <3>2. \A m \in h .. e - 1 : m # Len(f) + 1
      BY <1>0, <2>1, <3>1
    <3> QED BY <1>0, <2>1, <3>1, <3>2, ReadsAt
  <2>5. EndOfLine(g, h) = e
    <3>1. Len(g) \in Nat /\ h \in Nat
      BY <1>0, <2>1
    <3> QED BY <2>4, <3>1, EndOfLineIs
  <2>6. Header(g, h) /\ h \in DOMAIN g
    BY <1>0, <2>1, HeaderGrown
  <2>7. Begin(f, h) = e + 1 /\ Begin(g, h) = e + 1 /\ e \in h .. Len(f)
    BY <1>2, <2>3, <2>5 DEF Begin, e
  <2>8. h \in Headers(g)
    BY <2>6 DEF Headers
  <2> QED BY <1>0, <2>1, <2>7, <2>8
<1> QED BY <1>1, <1>2

(* Without a complete mark in a line that ends, there is no new header.       *)
LEMMA HeadersSame ==
  ASSUME NEW f, NEW g, NEW c, Reads(f, g, c),
         c = "\n" => \A i \in DOMAIN f : HeaderMark(f, i) => Header(f, i)
  PROVE  Headers(g) = Headers(f) /\ \A i : Header(g, i) <=> Header(f, i)
<1>1. \A i : HeaderMark(f, i) => i \in DOMAIN f
  BY DEF HeaderMark, At
<1>2. \A i : Header(g, i) <=> Header(f, i)
  BY <1>1, HeaderGrown
<1>3. \A i : Header(f, i) => i \in DOMAIN f /\ i \in DOMAIN g
  BY <1>1, <1>2 DEF Header, HeaderMark, At
<1> QED BY <1>2, <1>3 DEF Headers

(* The end of the last line that begins with ### makes it a header, without   *)
(* anything behind it.                                                        *)
LEMMA HeadersNew ==
  ASSUME NEW f, NEW g, Reads(f, g, "\n"), NEW q \in Nat, HeaderMark(f, q),
         \A j \in q .. Len(f) : ~At(f, j, "\n"),
         \A i \in DOMAIN f : HeaderMark(f, i) => Header(f, i) \/ i = q
  PROVE  /\ Headers(g) = Headers(f) \cup {q} /\ \A i : Header(g, i) <=> Header(f, i) \/ i = q
         /\ Begin(g, q) = Len(f) + 2 /\ q \notin Headers(f)
<1>0. Len(f) \in Nat /\ Len(g) = Len(f) + 1 /\ DOMAIN f = 1 .. Len(f) /\ DOMAIN g = 1 .. Len(f) + 1
  BY DEF Reads
<1>1. \A i : HeaderMark(f, i) => i \in DOMAIN f
  BY DEF HeaderMark, At
<1>2. \A i : Header(g, i) <=> Header(f, i) \/ i = q
  BY <1>1, HeaderGrown
<1>3. \A i : Header(g, i) => i \in DOMAIN g
  BY DEF Header, HeaderMark, At
<1>4. \A i : Header(f, i) => i \in DOMAIN f
  BY <1>1 DEF Header
<1>5. q \in 1 .. Len(f) /\ ~Header(f, q)
  BY <1>0, <1>1 DEF Header
<1>6. Headers(g) = Headers(f) \cup {q}
  BY <1>2, <1>3, <1>4, <1>5 DEF Headers
<1>7. EndOfLine(g, q) = Len(f) + 1
  <2>1. Len(g) \in Nat /\ Len(f) + 1 \in q .. Len(g) /\ At(g, Len(f) + 1, "\n")
    BY <1>0, <1>5, ReadsAt
  <2>2. \A m \in q .. (Len(f) + 1) - 1 : ~At(g, m, "\n")
    <3>1. \A m \in q .. (Len(f) + 1) - 1 : m \in q .. Len(f) /\ m # Len(f) + 1
      BY <1>0, <1>5
    <3> QED BY <3>1, ReadsAt
  <2> QED BY <2>1, <2>2, EndOfLineIs
<1>8. Begin(g, q) = Len(f) + 2 /\ q # 0
  BY <1>0, <1>5, <1>7 DEF Begin
<1> QED BY <1>2, <1>5, <1>6, <1>8 DEF Headers

(* A section ends where the next one starts, or with the file. *)
LEMMA SectionLast ==
  ASSUME NEW f, NEW h \in Headers(f), \A g \in Headers(f) : ~(g > h)
  PROVE  Section(f, h) = Begin(f, h) .. Len(f)
<1>1. {g \in Headers(f) : g > h} = {}
  OBVIOUS
<1> QED BY <1>1 DEF Section, Begin

(* The one before it. *)
LEMMA SectionBefore ==
  ASSUME NEW f, Headers(f) \subseteq Nat, NEW h \in Headers(f), NEW q \in Headers(f), q > h,
         \A g \in Headers(f) : g > h => g >= q
  PROVE  Section(f, h) = Begin(f, h) .. q - 1
<1> DEFINE S == {g \in Headers(f) : g > h}
<1>1. S \in SUBSET Nat /\ S # {} /\ q \in S /\ \A g \in S : g >= q
  OBVIOUS
<1>2. Min(S) = q
  <2> HIDE DEF S
  <2>1. Min(S) \in S /\ \A y \in S : Min(S) <= y
    BY <1>1, MinOf
  <2> DEFINE m == Min(S)
  <2> HIDE DEF m
  <2>2. m \in S /\ m <= q
    BY <1>1, <2>1 DEF m
  <2>3. m = q
    BY <1>1, <2>2
  <2> QED BY <2>3 DEF m
<1>3. S # {}
  BY <1>1
<1>4. Section(f, h) = Begin(f, h) .. (IF S = {} THEN Len(f) ELSE Min(S) - 1)
  BY DEF Section, Begin
<1> HIDE DEF S
<1> QED BY <1>2, <1>3, <1>4

(* There is a next one, unless it is the last. *)
LEMMA NextHeader ==
  ASSUME NEW f, Headers(f) \subseteq Nat, NEW h, NEW w \in Headers(f), w > h
  PROVE  \E q \in Headers(f) : q > h /\ q <= w /\ \A g \in Headers(f) : g > h => g >= q
<1> DEFINE S == {g \in Headers(f) : g > h}
<1>1. S \in SUBSET Nat /\ S # {} /\ w \in S
  OBVIOUS
<1>2. Min(S) \in S /\ \A y \in S : Min(S) <= y
  <2> HIDE DEF S
  <2> QED BY <1>1, MinOf
<1> DEFINE q == Min(S)
<1> HIDE DEF q
<1>3. q \in S /\ \A y \in S : q <= y
  BY <1>2 DEF q
<1> QED BY <1>1, <1>3

SettledSection(f, g, h) ==
  /\ Section(g, h) = Section(f, h) /\ Content(g, Section(g, h)) = Content(f, Section(f, h))
  /\ Scripts(g, Section(g, h), Named) = Scripts(f, Section(f, h), Named)

(* A section before the last header w does not change any more. *)
LEMMA SectionsSettled ==
  ASSUME NEW f, NEW g, NEW c, Reads(f, g, c), NEW w \in Headers(f),
         \A i \in DOMAIN f : HeaderMark(f, i) => Header(f, i) \/ i > w,
         NEW h \in Headers(f), h < w
  PROVE  SettledSection(f, g, h)
<1>0. /\ Len(f) \in Nat /\ Len(g) = Len(f) + 1 /\ DOMAIN f = 1 .. Len(f)
      /\ h \in Nat /\ w \in Nat /\ w <= Len(f)
  BY BeginSame DEF Reads
<1>1. \A i : i \notin Headers(f) /\ i \in Headers(g) => i > w
  <2> SUFFICES ASSUME NEW i, i \notin Headers(f), i \in Headers(g) PROVE i > w
    OBVIOUS
  <2>1. Header(g, i) /\ i # 0
    BY DEF Headers
  <2>2. HeaderMark(f, i) \/ Header(f, i)
    BY <2>1, HeaderGrown
  <2>3. i \in DOMAIN f
    BY <2>2 DEF Header, HeaderMark, At
  <2>4. ~Header(f, i)
    BY <2>3 DEF Headers
  <2> QED BY <2>2, <2>3, <2>4
<1>2. Headers(f) \subseteq Nat /\ Headers(f) \subseteq Headers(g) /\ Headers(g) \subseteq Nat
  BY BeginSame DEF Headers, Reads
<1>3. PICK q \in Headers(f) : q > h /\ q <= w /\ \A x \in Headers(f) : x > h => x >= q
  BY <1>0, <1>2, NextHeader
<1> DEFINE a == Begin(f, h)
           b == q - 1
<1>4. q \in Nat /\ a \in Nat \ {0} /\ b \in Nat /\ b < Len(f) /\ Begin(g, h) = a
  BY <1>0, <1>2, <1>3, BeginSame
<1>5. Section(f, h) = a .. b
  BY <1>2, <1>3, SectionBefore
<1>6. Section(g, h) = a .. b
  <2>1. \A x \in Headers(g) : x > h => x >= q
    BY <1>0, <1>1, <1>2, <1>3
  <2> QED BY <1>2, <1>3, <1>4, <2>1, SectionBefore
<1> HIDE DEF a, b
<1>7. CutFrom(f, a .. b, g, a .. b)
  <2>1. SameText(f, g, a, b)
    BY <1>0, <1>4 DEF SameText, Reads
  <2> QED BY <1>4, <2>1, SectionCut
<1>8. \A i \in a .. b : Header(f, i + 1) <=> Header(g, i + 1)
  <2> TAKE i \in a .. b
  <2>1. i + 1 \in DOMAIN f /\ ~(i + 1 > w)
    BY <1>0, <1>3, <1>4 DEF b
  <2> QED BY <2>1, HeaderGrown
<1>9. Content(g, a .. b) = Content(f, a .. b)
  <2>1. Blanks(f, a .. b) = Blanks(g, a .. b) /\ Blanks(f, a .. b) \subseteq a .. b
    BY <1>7 DEF CutFrom, Blanks
  <2>2. /\ Leading(f, a .. b) \cap (a .. b) = Leading(g, a .. b) \cap (a .. b)
        /\ Escapes(f, a .. b) \cap (a .. b) = Escapes(g, a .. b) \cap (a .. b)
        /\ Scripts(f, a .. b, Named) \cap (a .. b) = Scripts(g, a .. b, Named) \cap (a .. b)
    BY <1>7 DEF CutFrom
  <2> QED BY <1>8, <2>1, <2>2 DEF Content
<1>10. Scripts(g, a .. b, Named) = Scripts(f, a .. b, Named)
  BY <1>7 DEF CutFrom, Scripts
<1> QED BY <1>5, <1>6, <1>9, <1>10 DEF SettledSection

(* What the places of T, which is S and p, are. *)
ReadMore(f, S, g, T, p, c) ==
  LET free == p - 1 \notin Escapes(f, S) IN
  /\ T = S \cup {p} /\ p \notin S
  /\ Escapes(f, S) \subseteq S /\ Skipped(f, S) \subseteq S /\ Kept(f, S) \subseteq S
  /\ \A x : Scripts(f, S, x) \subseteq S
  /\ Escapes(g, T) = Escapes(f, S) \cup (IF c = "\\" /\ free THEN {p} ELSE {})
  /\ \A x : Scripts(g, T, x) = Scripts(f, S, x) \cup (IF c = x /\ free THEN {p} ELSE {})
  /\ Skipped(g, T) = Skipped(f, S) \cup
       (IF free /\ (c = Named \/ (c \in Whitespace /\ p - 1 \notin S \ Skipped(f, S))) THEN {p} ELSE {})
  /\ Kept(g, T) = Kept(f, S) \cup
       (IF p \notin Skipped(g, T) /\ p \notin Escapes(g, T) THEN {p} ELSE {})

(* Reading on, what has been read stays what it is. *)
LEMMA SectionReadMore ==
  ASSUME NEW f, NEW g, NEW c, Reads(f, g, c), NEW a \in Nat \ {0}, a <= Len(f) + 1
  PROVE  ReadMore(f, a .. Len(f), g, a .. Len(f) + 1, Len(f) + 1, c)
<1> DEFINE n == Len(f)
           p == n + 1
           S == a .. n
           T == a .. p
<1>0. n \in Nat /\ p \in Nat /\ n <= p /\ p - 1 = n /\ T = S \cup {p} /\ p \notin S /\ S \subseteq T
  BY DEF Reads
<1>1. SameText(f, g, a, n) /\ p \in DOMAIN g /\ g[p] = c
  <2>1. \A i \in a .. n : i \in 1 .. Len(f) /\ i \in 1 .. Len(f) + 1
    BY <1>0
  <2> QED BY <2>1 DEF Reads, SameText
<1>2. CutFrom(f, a .. n, g, a .. p)
  <2> HIDE DEF n, p
  <2> QED BY <1>0, <1>1, SectionCut
<1>3. ReadAfter(f, a .. n, n, g, a .. p, c)
  <2>1. a <= n + 1
    OBVIOUS
  <2> HIDE DEF n
  <2> QED BY <1>0, <1>1, <2>1, SectionGrown
<1>4. Escapes(f, S) \subseteq S /\ Escapes(g, T) \subseteq T
  <2> HIDE DEF n, p
  <2> QED BY <1>0, EscapesDef
<1>5. /\ \A x : Scripts(f, S, x) \subseteq S /\ Scripts(g, T, x) \subseteq T
      /\ Leading(f, S) \subseteq S /\ Leading(g, T) \subseteq T
  <2> HIDE DEF S, T
  <2> QED BY DEF Scripts, Leading
<1>6. Skipped(f, S) \subseteq S /\ Skipped(g, T) \subseteq T /\ Kept(f, S) \subseteq S /\ Kept(g, T) \subseteq T
  <2> HIDE DEF S, T
  <2> QED BY <1>5 DEF Skipped, Kept
<1> HIDE DEF n, p, S, T
<1>7. /\ Escapes(f, S) = Escapes(g, T) \cap S
      /\ \A x : Scripts(f, S, x) = Scripts(g, T, x) \cap S
      /\ Leading(f, S) = Leading(g, T) \cap S
      /\ Skipped(f, S) = Skipped(g, T) \cap S
      /\ Kept(f, S) = Kept(g, T) \cap S
  BY <1>2 DEF CutFrom, S, T
<1> DEFINE free == n \notin Escapes(f, S)
<1>8. /\ p \in Escapes(g, T) <=> c = "\\" /\ free
      /\ \A x : p \in Scripts(g, T, x) <=> c = x /\ free
      /\ p \in Leading(g, T) <=> c \in Whitespace /\ free /\ n \notin S \ Skipped(f, S)
  BY <1>3 DEF ReadAfter, S, T, p
<1> HIDE DEF free
<1>9. Escapes(g, T) = Escapes(f, S) \cup (IF c = "\\" /\ free THEN {p} ELSE {})
  BY <1>0, <1>4, <1>7, <1>8
<1>10. \A x : Scripts(g, T, x) = Scripts(f, S, x) \cup (IF c = x /\ free THEN {p} ELSE {})
  <2> TAKE x
  <2>1. /\ Scripts(f, S, x) = Scripts(g, T, x) \cap S /\ Scripts(g, T, x) \subseteq T
        /\ p \in Scripts(g, T, x) <=> c = x /\ free
    BY <1>5, <1>7, <1>8
  <2> QED BY <1>0, <2>1
<1>11. p \in Skipped(g, T) <=> free /\ (c = Named \/ (c \in Whitespace /\ n \notin S \ Skipped(f, S)))
  BY <1>8 DEF Skipped
<1>12. Skipped(g, T) = Skipped(f, S) \cup
         (IF free /\ (c = Named \/ (c \in Whitespace /\ n \notin S \ Skipped(f, S))) THEN {p} ELSE {})
  BY <1>0, <1>6, <1>7, <1>11
<1>13. p \in Kept(g, T) <=> p \notin Skipped(g, T) /\ p \notin Escapes(g, T)
  BY <1>0 DEF Kept
<1>14. Kept(g, T) = Kept(f, S) \cup (IF p \notin Skipped(g, T) /\ p \notin Escapes(g, T) THEN {p} ELSE {})
  BY <1>0, <1>6, <1>7, <1>13
<1>15. p - 1 = n /\ (free <=> p - 1 \notin Escapes(f, S))
  BY <1>0 DEF free
<1>16. ReadMore(f, S, g, T, p, c)
  BY <1>0, <1>4, <1>5, <1>6, <1>9, <1>10, <1>12, <1>14, <1>15 DEF ReadMore
<1> QED BY <1>16 DEF S, T, p, n

-----------------------------------------------------------------------------
(* The special scripts of finished sections stay. *)
LEMMA BetweenSettled ==
  ASSUME NEW f, NEW g, NEW c, Reads(f, g, c), NEW w \in Headers(f),
         \A i \in DOMAIN f : HeaderMark(f, i) => Header(f, i) \/ i > w,
         \A h \in Headers(g) : h \in Headers(f) \/ h > w,
         NEW low, NEW high \in Int, high <= w
  PROVE  Between(g, low, high) = Between(f, low, high)
<1>0. Headers(f) \subseteq Nat /\ Headers(f) \subseteq Headers(g) /\ w \in Nat
  BY BeginSame DEF Headers, Reads
<1>1. Headers(g) \subseteq Nat
  BY DEF Headers, Header, HeaderMark, At, Reads
<1>2. {h \in Headers(g) : low < h /\ h < high} = {h \in Headers(f) : low < h /\ h < high}
  <2>1. \A h \in Headers(g) : h < high => h \in Headers(f)
    BY <1>0, <1>1
  <2> QED BY <1>0, <2>1
<1>3. \A h \in Headers(f) : h < high => Scripts(g, Section(g, h), Named) = Scripts(f, Section(f, h), Named)
  <2> SUFFICES ASSUME NEW h \in Headers(f), h < high
               PROVE  Scripts(g, Section(g, h), Named) = Scripts(f, Section(f, h), Named)
    OBVIOUS
  <2>1. h < w
    BY <1>0
  <2>2. SettledSection(f, g, h)
    BY <2>1, SectionsSettled
  <2> QED BY <2>2 DEF SettledSection
<1> QED BY <1>2, <1>3 DEF Between

(* A finished request stays that of its section. *)
LEMMA IsSectionSettled ==
  ASSUME NEW f, NEW g, NEW c, Reads(f, g, c), NEW w \in Headers(f),
         \A i \in DOMAIN f : HeaderMark(f, i) => Header(f, i) \/ i > w,
         \A h \in Headers(g) : h \in Headers(f) \/ h > w,
         NEW bp, bp.name < w, bp.content \in Seq(Tokens(Len(f))), NEW since, IsSection(f, bp, since)
  PROVE  IsSection(g, bp, since)
<1>1. bp.name \in Headers(f)
  BY DEF IsSection
<1>2. SettledSection(f, g, bp.name)
  BY <1>1, SectionsSettled
<1>3. bp.name \in Headers(g) /\ bp.name \in Int
  <2>1. bp.name \in 0 .. Len(f) /\ bp.name \in Headers(g)
    BY <1>1, BeginSame
  <2> QED BY <2>1
<1>4. bp.name <= w
  BY <1>1, BeginSame DEF Reads
<1>5. Between(g, since, bp.name) = Between(f, since, bp.name)
  BY <1>3, <1>4, BetweenSettled
<1>6. Payload(g, bp) = Payload(f, bp)
  <2>1. SameText(f, g, 1, Len(f)) /\ Len(f) \in Nat
    BY DEF SameText, Reads
  <2> QED BY <2>1, PayloadSame
<1> QED BY <1>2, <1>3, <1>5, <1>6 DEF IsSection, SettledSection

(* What the invariant says before an error. *)
Known == FileType /\ ~err /\ HeadersRead /\ TextRead /\ LastRead /\ Finished

(* Append is one more character. *)
LEMMA ReadsAppend ==
  ASSUME NEW X, NEW f \in Seq(X), NEW c
  PROVE  Reads(f, Append(f, c), c)
<1>1. f \in Seq(X \cup {c}) /\ c \in X \cup {c}
  OBVIOUS
<1> QED BY <1>1 DEF Reads

SectionStart == Begin(file, Newest)

(* What the invariant says of sections. *)
LEMMA KnownSections ==
  ASSUME Known
  PROVE  /\ Len(file) \in Nat /\ DOMAIN file = 1 .. Len(file) /\ Newest \in Headers(file) /\ Newest \in Nat
         /\ SectionStart \in Nat \ {0} /\ Newest < SectionStart /\ SectionStart <= Len(file) + 1
         /\ \A h \in Headers(file) : h \in Nat /\ h <= Newest
         /\ \A i \in DOMAIN file : HeaderMark(file, i) => Header(file, i) \/ i > Newest
         /\ \A i : Header(file, i) => i \in DOMAIN file /\ i <= Newest
         /\ hash \in Nat /\ start \in Nat
<1>1. HeadersRead /\ TextRead /\ FileType
  BY DEF Known
<1> DEFINE g == Append(file, "x")
<1>0. Reads(file, g, "x")
  BY <1>1, ReadsAppend DEF FileType
<1> HIDE DEF g
<1>2. Newest \in Headers(file) /\ \A h \in Headers(file) : h <= Newest
  BY <1>1 DEF HeadersRead
<1>3. /\ Len(file) \in Nat /\ DOMAIN file = 1 .. Len(file)
      /\ \A h \in Headers(file) : h \in 0 .. Len(file)
      /\ SectionStart \in Nat \ {0} /\ Newest < SectionStart /\ SectionStart <= Len(file) + 1
  BY <1>0, <1>2, BeginSame DEF Reads, SectionStart
<1>4. hash \in Nat /\ start \in Nat
  BY <1>1 DEF FileType
<1>5. \A i \in DOMAIN file : HeaderMark(file, i) => Header(file, i) \/ i > Newest
  <2> SUFFICES ASSUME NEW i \in DOMAIN file, HeaderMark(file, i), ~Header(file, i) PROVE i > Newest
    OBVIOUS
  <2>1. reader = "header" /\ hash = i
    BY <1>1 DEF HeadersRead
  <2>2. start <= hash /\ SectionStart <= start
    BY <1>1, <2>1 DEF HeadersRead, TextRead, Pending, InText, SectionStart
  <2> QED BY <1>2, <1>3, <1>4, <2>1, <2>2
<1>6. \A i : Header(file, i) => i \in DOMAIN file /\ i <= Newest
  BY <1>2 DEF Header, HeaderMark, At, Headers
<1> QED BY <1>2, <1>3, <1>4, <1>5, <1>6

(* Unless a header ends, the sections stay. *)
LEMMA StepHeaders ==
  ASSUME NEW c, Known, Reads(file, file', c), reader # "header" \/ c # "\n"
  PROVE  /\ Headers(file') = Headers(file) /\ \A i : Header(file', i) <=> Header(file, i)
         /\ \A h \in Headers(file) : Begin(file', h) = Begin(file, h)
<1>1. Reads(file, file', c)
  BY DEF Known
<1>2. c = "\n" => \A i \in DOMAIN file : HeaderMark(file, i) => Header(file, i)
  BY DEF Known, HeadersRead
<1> QED BY <1>1, <1>2, HeadersSame, BeginSame

(* The requests have their types. *)
LEMMA RequestsTyped ==
  ASSUME FileType
  PROVE  /\ Len(requests) \in Nat \ {0} /\ DOMAIN requests = 1 .. Len(requests)
         /\ \A n \in 1 .. Len(requests) :
              /\ requests[n] \in [name : Nat, pre : SUBSET Nat, content : Seq(Tokens(Len(file)))]
              /\ requests[n].name \in Nat /\ requests[n].pre \in SUBSET Nat
              /\ requests[n].content \in Seq(Tokens(Len(file)))
         /\ Last(requests) = requests[Len(requests)]
<1> DEFINE C == Seq(Tokens(Len(file)))
           B == [name : Nat, pre : SUBSET Nat, content : C]
<1>1. requests \in Seq(B) /\ requests # <<>>
  BY DEF FileType
<1>2. \A b \in B : b.name \in Nat /\ b.pre \in SUBSET Nat /\ b.content \in C
  <2> HIDE DEF C
  <2> QED OBVIOUS
<1> HIDE DEF B
<1>3. Len(requests) \in Nat \ {0} /\ DOMAIN requests = 1 .. Len(requests)
      /\ \A n \in 1 .. Len(requests) : requests[n] \in B
  BY <1>1
<1>4. \A n \in 1 .. Len(requests) : requests[n] \in [name : Nat, pre : SUBSET Nat, content : Seq(Tokens(Len(file)))]
  BY <1>3 DEF B
<1> QED BY <1>2, <1>3, <1>4 DEF Last

(* No request but the last has changed, nor its name. *)
RequestsStay ==
  /\ Len(requests') = Len(requests) /\ DOMAIN requests' = DOMAIN requests
  /\ \A m \in 1 .. Len(requests) - 1 : requests'[m] = requests[m]
  /\ requests'[Len(requests)].name = requests[Len(requests)].name

(* Then the finished ones are still those of their sections. *)
LEMMA FinishedStays ==
  ASSUME NEW c, Known, Reads(file, file', c), reader # "header" \/ c # "\n", RequestsStay
  PROVE  Finished' /\ Newest' = Newest /\ SectionStart' = SectionStart
         /\ Between(file', Since(requests', Len(requests')), Newest') = Between(file, Since(requests, Len(requests)), Newest)
<1>0. /\ Reads(file, file', c) /\ Finished /\ FileType
  BY DEF Known
<1>1. /\ Len(file) \in Nat /\ Newest \in Headers(file) /\ Newest \in Nat
      /\ \A h \in Headers(file) : h \in Nat /\ h <= Newest
      /\ \A i \in DOMAIN file : HeaderMark(file, i) => Header(file, i) \/ i > Newest
  BY KnownSections
<1>2. /\ Headers(file') = Headers(file) /\ \A i : Header(file', i) <=> Header(file, i)
      /\ \A h \in Headers(file) : Begin(file', h) = Begin(file, h)
  BY StepHeaders
<1>3. Len(requests) \in Nat \ {0} /\ DOMAIN requests = 1 .. Len(requests)
      /\ \A n \in 1 .. Len(requests) : requests[n].name \in Nat /\ requests[n].content \in Seq(Tokens(Len(file)))
  BY <1>0, RequestsTyped
<1>4. Newest' = Newest /\ Newest = requests[Len(requests)].name
  BY <1>3 DEF RequestsStay, Newest, Last
<1>5. \A n \in 1 .. Len(requests) : requests'[n].name = requests[n].name
  <2> TAKE n \in 1 .. Len(requests)
  <2> DEFINE L == Len(requests)
  <2>1. L \in Nat /\ n \in 1 .. L
    BY <1>3
  <2> HIDE DEF L
  <2>2. n = L \/ n \in 1 .. L - 1
    BY <2>1
  <2> QED BY <2>2 DEF RequestsStay, L
<1>6. \A n \in 1 .. Len(requests) : Since(requests', n) = Since(requests, n)
  <2>1. \A n \in 1 .. Len(requests) : n # 1 => n - 1 \in 1 .. Len(requests)
    BY <1>3
  <2> QED BY <1>5, <2>1 DEF Since
<1>7. \A n \in 1 .. Len(requests) - 1 : n \in 1 .. Len(requests) /\ requests[n].name < Newest
  <2>1. \A n \in 1 .. Len(requests) - 1 : n \in 1 .. Len(requests) /\ n < Len(requests) /\ Len(requests) \in 1 .. Len(requests)
    BY <1>3
  <2> QED BY <1>0, <1>3, <1>4, <2>1 DEF Finished
<1>8. \A n \in 1 .. Len(requests) - 1 : IsSection(file', requests'[n], Since(requests', n))
  <2> TAKE n \in 1 .. Len(requests) - 1
  <2>1. IsSection(file, requests[n], Since(requests, n))
    BY <1>0 DEF Finished
  <2>2. \A h \in Headers(file') : h \in Headers(file) \/ h > Newest
    BY <1>2
  <2>3. IsSection(file', requests[n], Since(requests, n))
    BY <1>0, <1>1, <1>3, <1>7, <2>1, <2>2, IsSectionSettled
  <2> QED BY <1>6, <1>7, <2>3 DEF RequestsStay
<1>9. \A h \in Headers(file') : h < Newest /\ Content(file', Section(file', h)) # {} =>
        \E n \in 1 .. Len(requests) - 1 : requests'[n].name = h
  <2> SUFFICES ASSUME NEW h \in Headers(file), h < Newest, Content(file', Section(file', h)) # {}
               PROVE  \E n \in 1 .. Len(requests) - 1 : requests'[n].name = h
    BY <1>2
  <2>1. SettledSection(file, file', h)
    BY <1>0, <1>1, SectionsSettled
  <2>2. \E n \in 1 .. Len(requests) - 1 : requests[n].name = h
    BY <1>0, <2>1 DEF Finished, SettledSection
  <2> QED BY <1>5, <1>7, <2>2
<1>10. \A m, n \in DOMAIN requests' : m < n => requests'[m].name < requests'[n].name
  BY <1>0, <1>3, <1>5 DEF Finished, RequestsStay
<1>11. Finished'
  BY <1>3, <1>4, <1>8, <1>9, <1>10 DEF Finished, RequestsStay
<1>12. SectionStart' = SectionStart
  BY <1>1, <1>2, <1>4 DEF SectionStart
<1>13. Between(file', Since(requests', Len(requests')), Newest') = Between(file, Since(requests, Len(requests)), Newest)
  <2>1. \A h \in Headers(file') : h \in Headers(file) \/ h > Newest
    BY <1>2
  <2>2. Newest \in Int /\ Newest <= Newest
    BY <1>1
  <2>3. \A low : Between(file', low, Newest) = Between(file, low, Newest)
    BY <1>0, <1>1, <2>1, <2>2, BetweenSettled
  <2>4. Since(requests', Len(requests')) = Since(requests, Len(requests))
    BY <1>3, <1>6 DEF RequestsStay
  <2> QED BY <1>4, <2>3, <2>4
<1> QED BY <1>4, <1>11, <1>12, <1>13

(* Where # are read, as parseDelimiter does it. *)
HashRead(c) ==
  LET p == Len(file) + 1 IN
  /\ reader' = "parseDelimiter" =>
       \/ hash' = p /\ c = "#" /\ start' <= p
       \/ reader = "parseDelimiter" /\ hash' = hash /\ p < hash + 2 /\ c = "#" /\ start' = start
  /\ reader' = "header" =>
       \/ reader = "header" /\ hash' = hash /\ c # "\n" /\ start' = start
       \/ /\ reader = "parseDelimiter" /\ hash' = hash /\ ~(p < hash + 2) /\ c = "#" /\ start' = start
          /\ AtLineStart(file, hash)
  /\ c = "#" /\ reader \notin {"parseDelimiter", "header"} /\ ~escaped =>
       reader' = "parseDelimiter" /\ hash' = p
  /\ c = "#" /\ reader = "parseDelimiter" =>
       /\ hash' = hash
       /\ reader' = IF p < hash + 2 THEN "parseDelimiter"
                    ELSE IF AtLineStart(file, hash) THEN "header" ELSE "parseText"
  /\ reader = "header" => reader' = "header" /\ hash' = hash

(* No script is one of the characters that the parser looks for.              *)
LEMMA NotScript == Named # "#" /\ Inline # "#" /\ Named # "\\" /\ Inline # "\\" /\ Named # Inline
                   /\ Named # "\n" /\ Inline # "\n" /\ Named # " " /\ Inline # " "
BY Symbols DEF Whitespace

(* The text that is read ends with the file, or where a header begins.        *)
LEMMA KnownLimit ==
  ASSUME Known
  PROVE  /\ Limit \in Nat /\ Limit <= Len(file)
         /\ reader # "header" => Limit = Len(file)
         /\ reader = "header" => Limit = hash - 1 /\ hash \in 1 .. Len(file)
<1>1. reader = "header" => hash \in DOMAIN file
  BY DEF Known, HeadersRead, HeaderMark, At
<1> QED BY <1>1, KnownSections DEF Limit

(* In parseDelimiter, and between tokens, nothing is escaped. *)
LEMMA KnownEscaped ==
  ASSUME Known
  PROVE  /\ reader \notin {"parseText", "header"} => ~escaped
         /\ escaped => Limit \in DOMAIN file /\ At(file, Limit, "\\")
<1>1. HeadersRead /\ TextRead /\ FileType /\ Len(file) \in Nat
  BY KnownSections DEF Known
<1>2. escaped => Limit \in Current /\ At(file, Limit, "\\")
  <2>1. SectionStart \in Nat \ {0} /\ Limit \in Nat /\ Current = SectionStart .. Limit
    BY KnownSections, KnownLimit DEF SectionStart, Current
  <2>2. Escapes(file, Current) \subseteq Current /\ \A i \in Current : i \in Escapes(file, Current) => At(file, i, "\\")
    BY <2>1, EscapesDef, Zenon
  <2> QED BY <1>1, <2>2 DEF TextRead
<1>3. reader = "parseDelimiter" => ~escaped
  <2>1. reader = "parseDelimiter" => At(file, Len(file), "#") /\ Limit = Len(file)
    BY <1>1 DEF HeadersRead, Limit, Reads
  <2> QED BY <1>2, <2>1 DEF At
<1>4. reader \in {"consumeWhitespace", "lexToken"} => ~escaped
  <2>1. reader \in {"consumeWhitespace", "lexToken"} => Pending = Limit + 1 /\ Limit = Len(file) /\ Len(file) \in Nat
    BY <1>1 DEF Pending, InText, Limit, Reads
  <2>2. Pending = Limit + 1 => Pending - 1 = Limit
    BY KnownLimit
  <2> QED BY <1>1, <2>1, <2>2 DEF TextRead
<1> QED BY <1>1, <1>2, <1>3, <1>4 DEF FileType, At

(* Reading a character that ends no header goes on with the # as HashRead says. *)
LEMMA StepHashes ==
  ASSUME NEW c, Known, Reads(file, file', c), ReadByte(c), reader # "header" \/ c # "\n"
  PROVE  HashRead(c)
<1> DEFINE p == Len(file) + 1
<1>0. reader \in {"consumeWhitespace", "lexToken", "parseText", "parseDelimiter", "header"}
      /\ Len(file) \in Nat /\ start \in Nat /\ hash \in Nat
  BY KnownSections DEF Known, FileType
<1>1. reader \notin {"parseText", "header"} => ~escaped
  BY KnownEscaped
<1>2. p < hash + 2 \/ ~(p < hash + 2)
  OBVIOUS
<1>3. ASSUME NEW bps, ReadScript(c, p, bps) PROVE reader' \in {"consumeWhitespace", "lexToken"}
  BY <1>3 DEF ReadScript
<1>4. ASSUME ReadToken(c, p), reader \in {"consumeWhitespace", "lexToken"} PROVE HashRead(c)
  <2>1. CASE c \in {Named, Inline}
    BY <1>3, <1>4, <2>1, NotScript DEF ReadToken, HashRead
  <2>2. CASE c \notin {Named, Inline}
    <3>1. p <= p
      BY <1>0
    <3> HIDE DEF p
    <3> QED BY <1>4, <2>2, <3>1 DEF ReadToken, HashRead, p
  <2> QED BY <2>1, <2>2
<1>5. CASE reader = "consumeWhitespace"
  <2>1. CASE c \in Whitespace
    BY <1>0, <1>5, <2>1 DEF ReadByte, ConsumeWhitespace, HashRead, Whitespace
  <2>2. CASE c \notin Whitespace
    BY <1>4, <1>5, <2>2 DEF ReadByte, ConsumeWhitespace
  <2> QED BY <2>1, <2>2
<1>6. CASE reader = "lexToken"
  BY <1>4, <1>6 DEF ReadByte
<1>7. CASE reader = "parseText"
  <2>1. ReadText(c, p)
    BY <1>7 DEF ReadByte
  <2>2. CASE escaped
    BY <1>7, <2>1, <2>2 DEF ReadText, HashRead
  <2>3. CASE ~escaped /\ c \in {Named, Inline}
    <3>1. \E bps : ReadScript(c, p, bps)
      BY <2>1, <2>3, NotScript DEF ReadText
    <3> QED BY <1>3, <1>7, <2>3, <3>1, NotScript DEF HashRead
  <2>4. CASE ~escaped /\ c \notin {Named, Inline}
    <3>1. c = "#" => hash' = p /\ reader' = "parseDelimiter" /\ start' = start
      BY <2>1, <2>4 DEF ReadText
    <3>2. c # "#" => reader' = "parseText"
      BY <2>1, <2>4 DEF ReadText
    <3>3. start <= p
      BY <1>0, <1>7 DEF Known, TextRead, InText
    <3> HIDE DEF p
    <3> QED BY <1>7, <2>4, <3>1, <3>2, <3>3 DEF HashRead, p
  <2> QED BY <2>2, <2>3, <2>4
<1>8. CASE reader = "parseDelimiter"
  <2>1. ReadHash(c, p)
    BY <1>8 DEF ReadByte
  <2>2. CASE c = "#"
    BY <1>0, <1>8, <2>1, <2>2 DEF ReadHash, HashRead
  <2>3. CASE c # "#" /\ c \in {Named, Inline}
    <3>1. \E bps : ReadScript(c, p, bps)
      BY <1>1, <1>8, <2>1, <2>3, NotScript DEF ReadHash, ReadText
    <3> QED BY <1>3, <1>8, <2>3, <3>1, NotScript DEF HashRead
  <2>4. CASE c # "#" /\ c \notin {Named, Inline}
    <3>1. reader' = "parseText"
      BY <1>1, <1>8, <2>1, <2>4 DEF ReadHash, ReadText
    <3> QED BY <1>8, <2>4, <3>1 DEF HashRead
  <2> QED BY <2>2, <2>3, <2>4
<1>9. CASE reader = "header"
  <2>1. ReadHeader(c, p)
    BY <1>9 DEF ReadByte
  <2> QED BY <1>9, <2>1 DEF ReadHeader, HashRead
<1> QED BY <1>0, <1>5, <1>6, <1>7, <1>8, <1>9

(* Then it is known where the last line may become a header. *)
LEMMA StepHeadersRead ==
  ASSUME NEW c, Known, Reads(file, file', c), HashRead(c), reader # "header" \/ c # "\n", RequestsStay
  PROVE  HeadersRead'
<1> DEFINE n == Len(file)
           p == n + 1
<1>0. /\ Reads(file, file', c) /\ HeadersRead /\ n \in Nat /\ hash \in Nat /\ start \in Nat
      /\ DOMAIN file = 1 .. n /\ DOMAIN file' = 1 .. p /\ Len(file') = p /\ p - 1 = n
      /\ file'[p] = c /\ p \in 1 .. p /\ \A i \in DOMAIN file : i \in DOMAIN file'
  <2>1. Reads(file, file', c) /\ HeadersRead
    BY DEF Known
  <2>2. n \in Nat /\ hash \in Nat /\ start \in Nat
    BY KnownSections
  <2> QED BY <2>1, <2>2 DEF Reads
<1>1. /\ Headers(file') = Headers(file) /\ \A i : Header(file', i) <=> Header(file, i)
      /\ Newest' = Newest
  BY StepHeaders, FinishedStays
<1>2. /\ \A i, x : At(file', i, x) <=> At(file, i, x) \/ (i = p /\ c = x)
      /\ \A i \in Nat : i <= p => (AtLineStart(file', i) <=> AtLineStart(file, i))
      /\ \A i, x : At(file, i, x) => i \in 1 .. n
  BY <1>0, ReadsAt
<1>3. \A i : HeaderMark(file', i) <=>
           \/ HeaderMark(file, i)
           \/ i = n - 1 /\ c = "#" /\ AtLineStart(file, i) /\ At(file, i, "#") /\ At(file, i + 1, "#")
  BY <1>0, MarkGrown
<1>4. escaped => Limit \in DOMAIN file /\ At(file, Limit, "\\")
  BY KnownEscaped
<1>5. (reader # "header" => Limit = n) /\ (reader = "header" => hash \in 1 .. n)
  BY KnownLimit
<1>6. ASSUME NEW i \in 1 .. n, i >= n - 1, AtLineStart(file, i), \A j \in i .. n : At(file, j, "#")
      PROVE  reader = "parseDelimiter" /\ hash = i
  <2>1. MayBeHeader(file, i)
    BY <1>0, <1>6 DEF MayBeHeader, At
  <2> QED BY <1>0, <1>6, <2>1 DEF HeadersRead
<1>7. reader = "parseDelimiter" =>
       /\ hash \in n - 1 .. n /\ start <= hash /\ \A j \in hash .. n : At(file, j, "#")
  BY <1>0 DEF HeadersRead
<1>8. reader = "header" =>
       HeaderMark(file, hash) /\ start <= hash /\ \A j \in hash .. n : ~At(file, j, "\n")
  BY <1>0 DEF HeadersRead
<1> HIDE DEF n, p
<1>9. ASSUME NEW i \in DOMAIN file', HeaderMark(file', i)
      PROVE  Header(file', i) \/ (reader' = "header" /\ hash' = i)
  <2>1. CASE HeaderMark(file, i)
    <3>1. i \in DOMAIN file
      BY <2>1 DEF HeaderMark, At
    <3>2. Header(file, i) \/ (reader = "header" /\ hash = i)
      BY <1>0, <2>1, <3>1 DEF HeadersRead
    <3> QED BY <1>1, <3>2 DEF HashRead
  <2>2. CASE i = n - 1 /\ c = "#" /\ AtLineStart(file, i) /\ At(file, i, "#") /\ At(file, i + 1, "#")
    <3>1. i \in 1 .. n /\ i >= n - 1 /\ \A j \in i .. n : j = i \/ j = i + 1
      BY <1>0, <1>2, <2>2
    <3>2. reader = "parseDelimiter" /\ hash = i
      BY <1>6, <2>2, <3>1
    <3>3. ~(p < hash + 2)
      BY <1>0, <2>2, <3>2 DEF p
    <3> QED BY <2>2, <3>2, <3>3 DEF HashRead, p, n
  <2> QED BY <1>3, <1>9, <2>1, <2>2
<1>10. ASSUME NEW i \in DOMAIN file', MayBeHeader(file', i)
       PROVE  reader' = "parseDelimiter" /\ hash' = i
  <2>0. /\ i \in 1 .. p /\ i >= n /\ AtLineStart(file', i) /\ \A j \in i .. p : file'[j] = "#"
    BY <1>0, <1>10 DEF MayBeHeader
  <2>1. c = "#" /\ AtLineStart(file, i) /\ (i = p \/ i = n) /\ i \in Nat
    <3>1. p \in i .. p /\ (i = p \/ i = n) /\ i \in Nat /\ i <= p
      BY <1>0, <2>0
    <3> QED BY <1>0, <1>2, <2>0, <3>1
  <2>2. CASE i = p
    <3>1. p = 1 \/ At(file, n, "\n")
      BY <1>0, <2>1, <2>2 DEF AtLineStart
    <3>2. reader # "header"
      <4>1. reader = "header" => n \in hash .. n /\ p # 1
        BY <1>0, <1>5
      <4> QED BY <1>8, <3>1, <4>1
    <3>3. reader # "parseDelimiter"
      <4>1. reader = "parseDelimiter" => At(file, n, "#")
        BY <1>0, <1>7
      <4>2. ~(At(file, n, "#") /\ At(file, n, "\n"))
        BY DEF At
      <4>3. At(file, n, "#") => p # 1
        BY <1>0, <1>2
      <4> QED BY <3>1, <4>1, <4>2, <4>3
    <3>4. ~escaped
      <4>1. escaped => n \in 1 .. n /\ At(file, n, "\\")
        BY <1>0, <1>4, <1>5, <3>2
      <4>2. ~(At(file, n, "\\") /\ At(file, n, "\n"))
        BY DEF At
      <4>3. n \in 1 .. n => p # 1
        BY <1>0
      <4> QED BY <3>1, <4>1, <4>2, <4>3
    <3> QED BY <2>1, <2>2, <3>2, <3>3, <3>4 DEF HashRead, p, n
  <2>3. CASE i = n
    <3>1. i \in 1 .. n /\ i >= n - 1 /\ (\A j \in i .. n : j = i) /\ n \in i .. p
      BY <1>0, <2>0, <2>3
    <3>2. At(file, n, "#")
      BY <1>0, <2>0, <3>1 DEF At, Reads, n
    <3>3. reader = "parseDelimiter" /\ hash = i
      BY <1>6, <2>1, <2>3, <3>1, <3>2
    <3>4. p < hash + 2
      BY <1>0, <2>3, <3>3 DEF p
    <3> QED BY <2>1, <3>3, <3>4 DEF HashRead, p, n
  <2> QED BY <2>1, <2>2, <2>3
<1>11. ASSUME reader' = "parseDelimiter"
       PROVE  /\ hash' \in Len(file') - 1 .. Len(file') /\ start' <= hash'
              /\ \A j \in hash' .. Len(file') : At(file', j, "#")
  <2>1. CASE hash' = p /\ c = "#" /\ start' <= p
    BY <1>0, <1>2, <2>1
  <2>2. CASE reader = "parseDelimiter" /\ hash' = hash /\ p < hash + 2 /\ c = "#" /\ start' = start
    <3>1. hash \in n .. p /\ start <= hash /\ \A j \in hash .. p : j \in hash .. n \/ j = p
      BY <1>0, <1>7, <2>2
    <3> QED BY <1>0, <1>2, <1>7, <2>2, <3>1
  <2> QED BY <1>11, <2>1, <2>2 DEF HashRead, p, n
<1>12. ASSUME reader' = "header"
       PROVE  HeaderMark(file', hash') /\ start' <= hash' /\ \A j \in hash' .. Len(file') : ~At(file', j, "\n")
  <2>1. CASE reader = "header" /\ hash' = hash /\ c # "\n" /\ start' = start
    <3>1. \A j \in hash .. p : j \in hash .. n \/ j = p
      BY <1>0
    <3>2. ~At(file, p, "\n")
      BY <1>0, <1>2
    <3> QED BY <1>0, <1>2, <1>3, <1>8, <2>1, <3>1, <3>2
  <2>2. CASE /\ reader = "parseDelimiter" /\ hash' = hash /\ ~(p < hash + 2) /\ c = "#" /\ start' = start
             /\ AtLineStart(file, hash)
    <3>1. /\ hash = n - 1 /\ hash \in hash .. n /\ hash + 1 \in hash .. n
          /\ \A j \in hash .. p : j \in hash .. n \/ j = p
      BY <1>0, <1>7, <2>2
    <3>2. At(file, hash, "#") /\ At(file, hash + 1, "#")
      BY <1>7, <2>2, <3>1
    <3>3. HeaderMark(file', hash)
      BY <1>3, <2>2, <3>1, <3>2
    <3>4. \A j \in hash .. p : At(file', j, "#")
      BY <1>2, <1>7, <2>2, <3>1
    <3>5. \A j : At(file', j, "#") => ~At(file', j, "\n")
      BY DEF At
    <3> QED BY <1>0, <1>7, <2>2, <3>3, <3>4, <3>5
  <2> QED BY <1>12, <2>1, <2>2 DEF HashRead, p, n
<1>13. Newest' \in Headers(file') /\ \A h \in Headers(file') : h <= Newest'
  BY <1>0, <1>1 DEF HeadersRead
<1> QED BY <1>9, <1>10, <1>11, <1>12, <1>13 DEF HeadersRead

(* Requests that are the same stay as RequestsStay says. *)
LEMMA SameRequests ==
  ASSUME NEW c, Known, Reads(file, file', c), requests' = requests
  PROVE  RequestsStay
BY DEF RequestsStay

(* The payload of the last request depends on what has been read. *)
LEMMA StepPayloads ==
  ASSUME NEW c, Known, Reads(file, file', c)
  PROVE  /\ Payload(file', Last(requests)) = Payload(file, Last(requests))
         /\ Last(requests).content \in Seq(Tokens(Len(file)))
         /\ \A i \in 1 .. Len(requests) : Payload(file', requests[i]) = Payload(file, requests[i])
<1>1. Reads(file, file', c) /\ FileType
  BY DEF Known
<1>2. SameText(file, file', 1, Len(file)) /\ Len(file) \in Nat
  BY <1>1 DEF SameText, Reads
<1>3. \A i \in 1 .. Len(requests) : requests[i].content \in Seq(Tokens(Len(file)))
  BY <1>1, RequestsTyped
<1>4. Len(requests) \in 1 .. Len(requests) /\ Last(requests) = requests[Len(requests)]
  BY <1>1, RequestsTyped
<1>5. \A i \in 1 .. Len(requests) : Payload(file', requests[i]) = Payload(file, requests[i])
  <2> TAKE i \in 1 .. Len(requests)
  <2> DEFINE bp == requests[i]
  <2>1. bp.content \in Seq(Tokens(Len(file)))
    BY <1>3
  <2> HIDE DEF bp
  <2>2. Payload(file', bp) = Payload(file, bp)
    BY <1>2, <2>1, PayloadSame
  <2> QED BY <2>2 DEF bp
<1> QED BY <1>3, <1>4, <1>5

(* If the requests stay and nothing they need is read, so does what is known  *)
(* of the last one.                                                           *)
LEMMA LastStays ==
  ASSUME NEW c, Known, Reads(file, file', c), reader # "header" \/ c # "\n", requests' = requests,
         Unfinished(file', Current', Pending') = Unfinished(file, Current, Pending),
         Scripts(file', Current', Named) = Scripts(file, Current, Named)
  PROVE  LastRead'
<1>1. Between(file', Since(requests', Len(requests')), Newest') = Between(file, Since(requests, Len(requests)), Newest)
  BY SameRequests, FinishedStays
<1>2. Payload(file', Last(requests)) = Payload(file, Last(requests))
  BY StepPayloads
<1>3. LastRead
  BY DEF Known
<1> QED BY <1>1, <1>2, <1>3 DEF LastRead

(* Current gets the character that is read. *)
LEMMA CurrentOn ==
  ASSUME NEW c, Known, Reads(file, file', c), reader # "header", reader' # "header", RequestsStay
  PROVE  /\ ReadMore(file, Current, file', Current', Len(file) + 1, c)
         /\ Limit = Len(file) /\ Limit' = Len(file) + 1 /\ Begin(file', Newest') = SectionStart
         /\ Current = SectionStart .. Len(file) /\ Current' = SectionStart .. Len(file) + 1
         /\ SectionStart \in Nat \ {0} /\ SectionStart <= Len(file) + 1 /\ Len(file) \in Nat
<1>1. Reads(file, file', c) /\ Len(file') = Len(file) + 1
  BY DEF Known, Reads
<1>2. Newest' = Newest /\ SectionStart' = SectionStart
  BY FinishedStays
<1>3. /\ Limit = Len(file) /\ Limit' = Len(file) + 1 /\ Begin(file', Newest') = SectionStart
      /\ Current = SectionStart .. Len(file) /\ Current' = SectionStart .. Len(file) + 1
  BY <1>1, <1>2 DEF Limit, Current, SectionStart
<1>4. SectionStart \in Nat \ {0} /\ SectionStart <= Len(file) + 1 /\ Len(file) \in Nat
  BY KnownSections
<1>5. ReadMore(file, Current, file', Current', Len(file) + 1, c)
  <2> DEFINE a == SectionStart
             S == Current
             T == Current'
  <2>1. a \in Nat \ {0} /\ a <= Len(file) + 1 /\ S = a .. Len(file) /\ T = a .. Len(file) + 1
    BY <1>3, <1>4
  <2> HIDE DEF a, S, T
  <2>2. ReadMore(file, a .. Len(file), file', a .. Len(file) + 1, Len(file) + 1, c)
    BY <1>1, <2>1, SectionReadMore
  <2>3. ReadMore(file, S, file', T, Len(file) + 1, c)
    BY <2>1, <2>2
  <2> QED BY <2>3 DEF S, T
<1> QED BY <1>3, <1>4, <1>5

(* The scripts of a kind. *)
LEMMA ScriptsMore ==
  ASSUME NEW f, NEW S, NEW g, NEW T, NEW p, NEW c, ReadMore(f, S, g, T, p, c), NEW x
  PROVE  /\ c # x \/ p - 1 \in Escapes(f, S) => Scripts(g, T, x) = Scripts(f, S, x)
         /\ c = x /\ p - 1 \notin Escapes(f, S) => Scripts(g, T, x) = Scripts(f, S, x) \cup {p}
         /\ Scripts(f, S, x) \subseteq S
<1>1. /\ Scripts(g, T, x) = Scripts(f, S, x) \cup (IF c = x /\ p - 1 \notin Escapes(f, S) THEN {p} ELSE {})
      /\ Scripts(f, S, x) \subseteq S
  BY DEF ReadMore
<1> QED BY <1>1

(* Blanks go on. *)
LEMMA BlankRead ==
  ASSUME NEW c, Known, Reads(file, file', c), reader = "consumeWhitespace", c \in Whitespace, reader' = "consumeWhitespace",
         UNCHANGED <<start, escaped, hasEscapes, hash, requests, err>>
  PROVE  TextRead' /\ LastRead'
<1> DEFINE n == Len(file)
           p == n + 1
           E == Escapes(file, Current)
           E2 == Escapes(file', Current')
           K == Kept(file, Current)
           K2 == Kept(file', Current')
           Z == Skipped(file, Current)
           Z2 == Skipped(file', Current')
<1>0. RequestsStay /\ reader # "header" /\ reader' # "header"
  BY SameRequests
<1>1. /\ ReadMore(file, Current, file', Current', p, c)
      /\ Limit = n /\ Limit' = p /\ Begin(file', Newest') = SectionStart
      /\ Current = SectionStart .. n /\ Current' = SectionStart .. p
      /\ SectionStart \in Nat \ {0} /\ SectionStart <= p /\ n \in Nat
  BY <1>0, CurrentOn
<1>2. p - 1 = n /\ p \in Nat /\ (p + 1) - 1 = p /\ p <= p /\ n < p
  BY <1>1
<1>3. Pending = p /\ Pending' = p + 1
  BY <1>1 DEF Pending, InText
<1>4. n \notin E /\ ~escaped /\ n \notin Current \ Z /\ escaped' = FALSE
  BY <1>1, <1>2, <1>3, KnownEscaped DEF Known, TextRead, FileType
<1> HIDE DEF n, p
<1>5. c # "\\" /\ c # Named
  BY Symbols
<1>6. /\ E \subseteq Current /\ E2 = E /\ p \notin Current /\ Current' = Current \cup {p}
      /\ Z2 = Z \cup {p} /\ K2 = K /\ K \subseteq Current /\ Scripts(file', Current', Named) = Scripts(file, Current, Named)
  <2>1. /\ E \subseteq Current /\ E2 = E /\ p \notin Current /\ Current' = Current \cup {p}
        /\ Z2 = Z \cup {p} /\ K \subseteq Current
    BY <1>1, <1>2, <1>4, <1>5 DEF ReadMore
  <2>2. K2 = K
    BY <1>1, <2>1 DEF ReadMore
  <2>3. Scripts(file', Current', Named) = Scripts(file, Current, Named)
    BY <1>1, <1>5, ScriptsMore
  <2> QED BY <2>1, <2>2, <2>3
<1> HIDE DEF E, E2, K, K2, Z, Z2
<1>7. Unfinished(file', Current', Pending') = Unfinished(file, Current, Pending)
  <2>1. \A i \in K : i < p /\ i < p + 1
    BY <1>1, <1>2, <1>6
  <2> QED BY <1>3, <1>6, <2>1 DEF Unfinished, K, K2
<1>8. LastRead'
  BY <1>6, <1>7, LastStays
<1>9. TextRead'
  <2>1. Begin(file', Newest') <= Pending' /\ Pending' <= Limit' + 1 /\ ~(InText')
    BY <1>1, <1>2, <1>3 DEF InText
  <2>2. \A i \in Pending' .. Limit' : FALSE
    BY <1>1, <1>2, <1>3
  <2>3. p \notin E2 /\ p \notin K2 /\ p \notin Current' \ Z2
    BY <1>6
  <2>4. Pending' - 1 = p
    BY <1>2, <1>3
  <2>5. escaped' <=> (p \in E2)
    BY <1>4, <2>3
  <2> QED BY <1>1, <2>1, <2>2, <2>3, <2>4, <2>5 DEF TextRead, E2, K2, Z2
<1> QED BY <1>8, <1>9

(* A text begins. *)
LEMMA TokenRead ==
  ASSUME NEW c, Known, Reads(file, file', c), reader \in {"consumeWhitespace", "lexToken"}, c \notin {Named, Inline},
         reader = "consumeWhitespace" => c \notin Whitespace,
         reader' \in {"parseText", "parseDelimiter"}, start' = Len(file) + 1, requests' = requests,
         escaped' <=> c = "\\", hasEscapes' <=> c = "\\"
  PROVE  TextRead' /\ LastRead'
<1> DEFINE n == Len(file)
           p == n + 1
           E == Escapes(file, Current)
           E2 == Escapes(file', Current')
           K == Kept(file, Current)
           K2 == Kept(file', Current')
           Z == Skipped(file, Current)
           Z2 == Skipped(file', Current')
           I == Scripts(file, Current, Inline)
           I2 == Scripts(file', Current', Inline)
<1>0. RequestsStay /\ reader # "header" /\ reader' # "header"
  BY SameRequests
<1>1. /\ ReadMore(file, Current, file', Current', p, c)
      /\ Limit = n /\ Limit' = p /\ Begin(file', Newest') = SectionStart
      /\ Current = SectionStart .. n /\ Current' = SectionStart .. p
      /\ SectionStart \in Nat \ {0} /\ SectionStart <= p /\ n \in Nat
  BY <1>0, CurrentOn
<1>2. p - 1 = n /\ p \in Nat /\ p <= p /\ p <= p + 1 /\ n < p /\ p .. p = {p} /\ Len(file') = p
  BY <1>1 DEF Known, Reads
<1>3. Pending = p /\ Pending' = p /\ InText'
  BY <1>1 DEF Pending, InText
<1>4. /\ n \notin E
      /\ reader = "lexToken" => n \in Current \ Z
      /\ n \in K => At(file, n, Inline)
  BY <1>1, <1>2, <1>3 DEF Known, TextRead
<1>5. \A i, x : At(file, i, x) => At(file', i, x)
  BY ReadsAt DEF Known
<1> HIDE DEF n, p
<1>6. /\ E \subseteq Current /\ p \notin Current /\ Current' = Current \cup {p}
      /\ Z2 = Z /\ K \subseteq Current /\ Z \subseteq Current
      /\ p \in E2 <=> c = "\\"
      /\ \A i : i # p => (i \in E2 <=> i \in E)
      /\ \A i : i # p => (i \in K2 <=> i \in K)
  <2>1. /\ E \subseteq Current /\ p \notin Current /\ Current' = Current \cup {p} /\ Z \subseteq Current
        /\ K \subseteq Current
        /\ E2 = E \cup (IF c = "\\" /\ p - 1 \notin E THEN {p} ELSE {})
        /\ Z2 = Z \cup (IF p - 1 \notin E /\ (c = Named \/ (c \in Whitespace /\ p - 1 \notin Current \ Z)) THEN {p} ELSE {})
        /\ K2 = K \cup (IF p \notin Z2 /\ p \notin E2 THEN {p} ELSE {})
    BY <1>1 DEF ReadMore
  <2>2. Z2 = Z
    BY <1>2, <1>4, <2>1
  <2>3. p \in E2 <=> c = "\\"
    BY <1>2, <1>4, <2>1
  <2> QED BY <2>1, <2>2, <2>3
<1>7. I2 = I /\ Scripts(file', Current', Named) = Scripts(file, Current, Named) /\ I \subseteq Current
  BY <1>1, ScriptsMore
<1> HIDE DEF E, E2, K, K2, Z, Z2, I, I2
<1>8. K2 \subseteq Current'
  BY DEF K2, Kept
<1>9. Unfinished(file', Current', Pending') = Unfinished(file, Current, Pending)
  <2>1. ~(p < p)
    BY <1>2
  <2>2. \A i : i \in K2 /\ i < p <=> i \in K /\ i < p
    BY <1>6, <2>1
  <2> QED BY <1>3, <2>2 DEF Unfinished, K, K2
<1>10. LastRead'
  BY <1>7, <1>9, LastStays
<1>11. TextRead'
  <2>1. Begin(file', Newest') <= Pending' /\ Pending' <= Limit' + 1 /\ start' <= Len(file')
    BY <1>1, <1>2, <1>3 DEF p, n
  <2>2. \A i \in Pending' .. Limit' : i \notin Z2 \cup I2
    BY <1>1, <1>2, <1>3, <1>6, <1>7
  <2>3. n # p
    BY <1>2
  <2>4. Pending' - 1 = n /\ n \notin E2 /\ (n \in K2 => At(file', n, Inline))
    BY <1>2, <1>3, <1>4, <1>5, <1>6, <2>3
  <2>5. hasEscapes' <=> \E i \in Pending' .. Limit' : i \in E2
    BY <1>1, <1>2, <1>3, <1>6
  <2>6. escaped' <=> Limit' \in E2
    BY <1>1, <1>6
  <2> QED BY <1>3, <2>1, <2>2, <2>4, <2>5, <2>6 DEF TextRead, E2, K2, Z2, I2
<1> QED BY <1>10, <1>11

(* A text goes on. *)
LEMMA TextGoesOn ==
  ASSUME NEW c, Known, Reads(file, file', c), reader \in {"parseText", "parseDelimiter"}, escaped \/ c \notin {Named, Inline},
         reader' \in {"parseText", "parseDelimiter"}, start' = start, requests' = requests,
         escaped' <=> c = "\\" /\ ~escaped, hasEscapes' <=> hasEscapes \/ (c = "\\" /\ ~escaped)
  PROVE  TextRead' /\ LastRead'
<1> DEFINE n == Len(file)
           p == n + 1
           E == Escapes(file, Current)
           E2 == Escapes(file', Current')
           K == Kept(file, Current)
           K2 == Kept(file', Current')
           Z == Skipped(file, Current)
           Z2 == Skipped(file', Current')
           I == Scripts(file, Current, Inline)
           I2 == Scripts(file', Current', Inline)
<1>0. RequestsStay /\ reader # "header" /\ reader' # "header"
  BY SameRequests
<1>1. /\ ReadMore(file, Current, file', Current', p, c)
      /\ Limit = n /\ Limit' = p /\ Begin(file', Newest') = SectionStart
      /\ Current = SectionStart .. n /\ Current' = SectionStart .. p
      /\ SectionStart \in Nat \ {0} /\ SectionStart <= p /\ n \in Nat
  BY <1>0, CurrentOn
<1>2. p - 1 = n /\ p \in Nat /\ n < p /\ n <= p /\ Len(file') = p /\ p <= p + 1 /\ start \in Nat
  BY <1>1, KnownSections DEF Known, Reads
<1>3. Pending = start /\ Pending' = start /\ InText' /\ InText
  BY DEF Pending, InText
<1>4. /\ SectionStart <= start /\ start <= n
      /\ \A i \in start .. n : i \notin Z \cup I
      /\ start - 1 \notin E
      /\ start - 1 \in K => At(file, start - 1, Inline)
      /\ hasEscapes <=> \E i \in start .. n : i \in E
      /\ escaped <=> n \in E
  BY <1>1, <1>3 DEF Known, TextRead, SectionStart
<1>5. \A i, x : At(file, i, x) => At(file', i, x)
  BY ReadsAt DEF Known
<1> HIDE DEF n, p
<1>50. n \in Current \ Z /\ start .. p = (start .. n) \cup {p} /\ start \in start .. p /\ start <= p
       /\ start - 1 # p
  BY <1>1, <1>2, <1>4 DEF p
<1>6. /\ E \subseteq Current /\ p \notin Current /\ Current' = Current \cup {p}
      /\ Z2 = Z /\ K \subseteq Current /\ Z \subseteq Current
      /\ p \in E2 <=> c = "\\" /\ ~escaped
      /\ \A i : i # p => (i \in E2 <=> i \in E)
      /\ \A i : i # p => (i \in K2 <=> i \in K)
  <2>1. /\ E \subseteq Current /\ p \notin Current /\ Current' = Current \cup {p} /\ Z \subseteq Current
        /\ K \subseteq Current
        /\ E2 = E \cup (IF c = "\\" /\ p - 1 \notin E THEN {p} ELSE {})
        /\ Z2 = Z \cup (IF p - 1 \notin E /\ (c = Named \/ (c \in Whitespace /\ p - 1 \notin Current \ Z)) THEN {p} ELSE {})
        /\ K2 = K \cup (IF p \notin Z2 /\ p \notin E2 THEN {p} ELSE {})
    BY <1>1 DEF ReadMore
  <2>2. Z2 = Z
    BY <1>2, <1>4, <1>50, <2>1
  <2>3. p \in E2 <=> c = "\\" /\ ~escaped
    BY <1>2, <1>4, <2>1
  <2> QED BY <2>1, <2>2, <2>3
<1>7. I2 = I /\ Scripts(file', Current', Named) = Scripts(file, Current, Named) /\ I \subseteq Current
  BY <1>1, <1>2, <1>4, ScriptsMore DEF E
<1> HIDE DEF E, E2, K, K2, Z, Z2, I, I2
<1>9. Unfinished(file', Current', Pending') = Unfinished(file, Current, Pending)
  <2>1. ~(p < start)
    BY <1>2, <1>50
  <2>2. \A i : i \in K2 /\ i < start <=> i \in K /\ i < start
    BY <1>6, <2>1
  <2> QED BY <1>3, <2>2 DEF Unfinished, K, K2
<1>10. LastRead'
  BY <1>7, <1>9, LastStays
<1>11. TextRead'
  <2>1. Begin(file', Newest') <= Pending' /\ Pending' <= Limit' + 1 /\ start' <= Len(file')
    BY <1>1, <1>2, <1>3, <1>4
  <2>2. \A i \in Pending' .. Limit' : i \notin Z2 \cup I2
    BY <1>1, <1>3, <1>4, <1>50, <1>6, <1>7
  <2>4. Pending' - 1 = start - 1 /\ start - 1 \notin E2 /\ (start - 1 \in K2 => At(file', start - 1, Inline))
    BY <1>3, <1>4, <1>5, <1>50, <1>6
  <2>5. hasEscapes' <=> \E i \in Pending' .. Limit' : i \in E2
    <3>1. \A i \in start .. n : i # p
      BY <1>1, <1>2
    <3> QED BY <1>1, <1>3, <1>4, <1>50, <1>6, <3>1
  <2>6. escaped' <=> Limit' \in E2
    BY <1>1, <1>6
  <2> QED BY <1>3, <2>1, <2>2, <2>4, <2>5, <2>6 DEF TextRead, E2, K2, Z2, I2
<1> QED BY <1>10, <1>11

(* The line behind ### is not part of the text, for now. *)
LEMMA HeaderGoesOn ==
  ASSUME NEW c, Known, Reads(file, file', c), HashRead(c), reader \in {"parseDelimiter", "header"}, reader' = "header",
         reader # "header" \/ c # "\n", start' = start, hash' = hash, requests' = requests,
         escaped' = escaped, hasEscapes' = hasEscapes
  PROVE  TextRead' /\ LastRead'
<1> DEFINE n == Len(file)
           p == n + 1
           S == Current
           S2 == Current'
           E == Escapes(file, Current)
           E2 == Escapes(file', Current')
           K == Kept(file, Current)
           K2 == Kept(file', Current')
           Z == Skipped(file, Current)
           Z2 == Skipped(file', Current')
           I == Scripts(file, Current, Inline)
           I2 == Scripts(file', Current', Inline)
           a == SectionStart
<1>0. /\ RequestsStay /\ Newest' = Newest /\ SectionStart' = SectionStart /\ Begin(file', Newest') = SectionStart
      /\ Reads(file, file', c) /\ HeadersRead /\ TextRead
  <2>1. RequestsStay
    BY SameRequests
  <2>2. Newest' = Newest /\ SectionStart' = SectionStart
    BY <2>1, FinishedStays
  <2> QED BY <2>1, <2>2 DEF SectionStart, Known
<1>1. /\ a \in Nat \ {0} /\ n \in Nat /\ Limit \in Nat /\ Limit <= n /\ hash \in 1 .. n /\ hash - 1 <= Limit
      /\ Len(file') = p /\ start <= hash /\ start \in Nat
      /\ \A i \in hash .. Limit : At(file, i, "#")
      /\ AtLineStart(file, hash)
  <2>1. a \in Nat \ {0} /\ n \in Nat /\ Limit \in Nat /\ Limit <= n /\ start \in Nat /\ hash \in Nat /\ Len(file') = p
    BY <1>0, KnownSections, KnownLimit DEF Reads
  <2>2. CASE reader = "parseDelimiter"
    <3>1. /\ hash \in n - 1 .. n /\ start <= hash /\ \A j \in hash .. n : At(file, j, "#")
          /\ AtLineStart(file, hash) /\ Limit = n
      BY <1>0, <2>2, KnownLimit DEF HeadersRead, HashRead
    <3>2. hash # 0
      <4>1. hash = 0 => 0 \in hash .. n /\ ~(0 \in 1 .. n)
        BY <2>1
      <4>2. At(file, 0, "#") => 0 \in 1 .. n
        BY <1>0 DEF At, Reads
      <4> QED BY <3>1, <4>1, <4>2
    <3> QED BY <2>1, <3>1, <3>2
  <2>3. CASE reader = "header"
    <3>1. HeaderMark(file, hash) /\ start <= hash /\ Limit = hash - 1 /\ hash \in 1 .. n
      BY <1>0, <2>3, KnownLimit DEF HeadersRead
    <3>2. \A i \in hash .. Limit : FALSE
      BY <2>1, <3>1
    <3> QED BY <2>1, <3>1, <3>2 DEF HeaderMark
  <2> QED BY <2>2, <2>3
<1>2. S = a .. Limit /\ S2 = a .. hash - 1 /\ Limit' = hash - 1
  BY <1>0 DEF Current, Limit, SectionStart
<1>3. Pending = start /\ Pending' = start /\ InText' /\ InText
  BY DEF Pending, InText
<1>4. /\ a <= start /\ start <= n
      /\ \A i \in start .. Limit : i \notin Z \cup I
      /\ start - 1 \notin E
      /\ start - 1 \in K => At(file, start - 1, Inline)
      /\ hasEscapes <=> \E i \in start .. Limit : i \in E
      /\ escaped <=> Limit \in E
  BY <1>0, <1>3 DEF TextRead, SectionStart
<1>5. CutFrom(file', S2, file, S)
  <2> DEFINE b == hash - 1
  <2>1. b \in Nat /\ b <= Limit /\ \A i \in a .. b : i \in 1 .. n
    BY <1>1
  <2>2. SameText(file', file, a, b)
    BY <1>0, <2>1 DEF SameText, Reads
  <2> HIDE DEF b, a, S, S2
  <2>3. CutFrom(file', a .. b, file, a .. Limit)
    BY <1>1, <2>1, <2>2, SectionCut
  <2> QED BY <1>2, <2>3 DEF b
<1>6. \A i, x : At(file, i, x) => At(file', i, x)
  BY <1>0, ReadsAt
<1>7. /\ E \subseteq S /\ \A i \in E : At(file, i, "\\")
  <2> HIDE DEF a, S, E
  <2>1. /\ Escapes(file, a .. Limit) \subseteq a .. Limit
        /\ \A i \in a .. Limit : i \in Escapes(file, a .. Limit) => At(file, i, "\\")
    BY <1>1, EscapesDef
  <2> QED BY <1>2, <2>1 DEF E, S
<1>8. \A i \in hash .. Limit : i \notin E /\ i \notin Scripts(file, S, Named)
  <2>1. \A i : At(file, i, "#") => ~At(file, i, "\\") /\ ~At(file, i, Named)
    BY NotScript DEF At
  <2>2. \A i \in Scripts(file, S, Named) : At(file, i, Named)
    BY DEF Scripts
  <2> HIDE DEF S, E
  <2> QED BY <1>1, <1>7, <2>1, <2>2
<1>10. Scripts(file, S, Named) \subseteq S /\ K \subseteq S
  <2>1. \A X : Scripts(file, X, Named) \subseteq X /\ Kept(file, X) \subseteq X
    BY DEF Scripts, Kept
  <2> QED BY <2>1
<1>11. /\ S2 \subseteq S /\ E2 = E \cap S2 /\ I2 = I \cap S2 /\ Z2 = Z \cap S2 /\ K2 = K \cap S2
       /\ Scripts(file', S2, Named) = Scripts(file, S, Named) \cap S2
  BY <1>5 DEF CutFrom
<1> HIDE DEF n, p, S, S2, E, E2, K, K2, Z, Z2, I, I2, a
<1>12. \A i \in S : i \in S2 \/ i \in hash .. Limit
  BY <1>1, <1>2
<1>13. Scripts(file', S2, Named) = Scripts(file, S, Named)
  BY <1>8, <1>10, <1>11, <1>12
<1>14. Unfinished(file', Current', Pending') = Unfinished(file, Current, Pending)
  <2>1. \A i \in S : i < start => i \in S2
    BY <1>1, <1>2
  <2>2. {i \in K2 : i < start} = {i \in K : i < start}
    BY <1>10, <1>11, <2>1
  <2> QED BY <1>3, <2>2 DEF Unfinished, K, K2
<1>15. LastRead'
  BY <1>13, <1>14, LastStays DEF S, S2
<1>16. hash - 1 \notin E
  <2>1. hash = 1 => hash - 1 \notin E
    BY <1>1, <1>2, <1>7
  <2>2. At(file, hash - 1, "\n") => ~At(file, hash - 1, "\\")
    BY DEF At
  <2> QED BY <1>1, <1>7, <2>1, <2>2 DEF AtLineStart
<1>17. TextRead'
  <2>1. Begin(file', Newest') <= Pending' /\ Pending' <= Limit' + 1 /\ start' <= Len(file')
    BY <1>0, <1>1, <1>2, <1>3, <1>4 DEF p, a
  <2>2. \A i \in Pending' .. Limit' : i \notin Z2 \cup I2
    BY <1>1, <1>2, <1>3, <1>4, <1>11
  <2>4. Pending' - 1 = start - 1 /\ start - 1 \notin E2 /\ (start - 1 \in K2 => At(file', start - 1, Inline))
    BY <1>3, <1>4, <1>6, <1>11
  <2>5. hasEscapes' <=> \E i \in Pending' .. Limit' : i \in E2
    <3>1. \A i \in start .. Limit : i \in start .. hash - 1 \/ i \in hash .. Limit
      BY <1>1
    <3>2. \A i \in start .. hash - 1 : i \in S2 /\ i \in start .. Limit
      BY <1>1, <1>2, <1>4
    <3>3. hasEscapes <=> \E i \in start .. hash - 1 : i \in E2
      BY <1>4, <1>8, <1>11, <3>1, <3>2
    <3> QED BY <1>2, <1>3, <3>3
  <2>6. escaped' <=> Limit' \in E2
    <3>1. ~escaped
      <4>1. Limit = hash - 1 \/ Limit \in hash .. Limit
        BY <1>1
      <4> QED BY <1>4, <1>8, <1>16, <4>1
    <3> QED BY <1>2, <1>11, <1>16, <3>1
  <2> QED BY <1>3, <2>1, <2>2, <2>4, <2>5, <2>6 DEF TextRead, E2, K2, Z2, I2
<1> QED BY <1>15, <1>17

Blueprints(n) == [name : Nat, pre : SUBSET Nat, content : Seq(Tokens(n))]

OnlyLast(r, bps) ==
  /\ Len(r) = Len(bps) /\ DOMAIN r = DOMAIN bps
  /\ \A m \in 1 .. Len(bps) - 1 : r[m] = bps[m]
  /\ r[Len(bps)].name = bps[Len(bps)].name /\ Last(r) = r[Len(bps)]

(* What is known of sequences of blueprints. *)
LEMMA BlueprintsAre ==
  ASSUME NEW n, NEW bps \in Seq(Blueprints(n)), bps # <<>>
  PROVE  /\ Len(bps) \in Nat \ {0} /\ DOMAIN bps = 1 .. Len(bps)
         /\ \A i \in 1 .. Len(bps) :
              bps[i] \in Blueprints(n) /\ bps[i].name \in Nat /\ bps[i].pre \in SUBSET Nat
              /\ bps[i].content \in Seq(Tokens(n))
         /\ Last(bps) = bps[Len(bps)] /\ Len(bps) \in 1 .. Len(bps)
<1> DEFINE C == Seq(Tokens(n))
           B == Blueprints(n)
<1>1. \A b \in B : b.name \in Nat /\ b.pre \in SUBSET Nat /\ b.content \in C
  <2> HIDE DEF C
  <2> QED BY DEF Blueprints, C
<1> HIDE DEF B
<1>2. bps \in Seq(B)
  BY DEF B
<1>3. Len(bps) \in Nat \ {0} /\ DOMAIN bps = 1 .. Len(bps) /\ \A i \in 1 .. Len(bps) : bps[i] \in B
  BY <1>2
<1> QED BY <1>1, <1>3 DEF B, Last

(* Longer texts have more tokens. *)
LEMMA TokensMore ==
  ASSUME NEW n \in Nat
  PROVE  Seq(Blueprints(n)) \subseteq Seq(Blueprints(n + 1)) /\ Tokens(n) \subseteq Tokens(n + 1)
<1>1. Tokens(n) \subseteq Tokens(n + 1)
  <2> SUFFICES ASSUME NEW t \in Tokens(n) PROVE t \in Tokens(n + 1)
    OBVIOUS
  <2> QED BY DEF Tokens
<1>2. Seq(Tokens(n)) \subseteq Seq(Tokens(n + 1))
  <2> HIDE DEF Tokens
  <2> QED BY <1>1
<1>3. Blueprints(n) \subseteq Blueprints(n + 1)
  <2> DEFINE C == Seq(Tokens(n))
             D == Seq(Tokens(n + 1))
  <2> HIDE DEF C, D
  <2>1. [name : Nat, pre : SUBSET Nat, content : C] \subseteq [name : Nat, pre : SUBSET Nat, content : D]
    BY <1>2 DEF C, D
  <2> QED BY <2>1 DEF Blueprints, C, D
<1> QED BY <1>1, <1>3

(* The last blueprint gets a token. *)
LEMMA WithContentIs ==
  ASSUME NEW n, NEW bps \in Seq(Blueprints(n)), bps # <<>>, NEW t \in Tokens(n)
  PROVE  /\ WithContent(bps, t) \in Seq(Blueprints(n)) /\ WithContent(bps, t) # <<>>
         /\ OnlyLast(WithContent(bps, t), bps)
         /\ Last(WithContent(bps, t)).pre = Last(bps).pre
         /\ Last(WithContent(bps, t)).content = Append(Last(bps).content, t)
         /\ Append(Last(bps).content, t) # <<>>
<1> DEFINE L == Len(bps)
           C == Seq(Tokens(n))
           b == bps[L]
           d == Append(b.content, t)
           e == [b EXCEPT !.content = d]
           r == WithContent(bps, t)
<1>1. /\ L \in Nat \ {0} /\ DOMAIN bps = 1 .. L /\ L \in 1 .. L
      /\ \A i \in 1 .. L : bps[i] \in Blueprints(n)
      /\ Last(bps) = b /\ b \in Blueprints(n) /\ b.content \in C
  BY BlueprintsAre
<1>2. d \in C /\ d # <<>>
  <2> HIDE DEF b
  <2> QED BY <1>1
<1>3. r = [bps EXCEPT ![L] = e]
  BY DEF WithContent
<1>4. b \in [name : Nat, pre : SUBSET Nat, content : C]
  BY <1>1 DEF Blueprints
<1> HIDE DEF b, d, C
<1>5. e \in [name : Nat, pre : SUBSET Nat, content : C] /\ e.name = b.name /\ e.pre = b.pre /\ e.content = d
  BY <1>2, <1>4
<1>6. e \in Blueprints(n)
  BY <1>5 DEF Blueprints, C
<1> HIDE DEF e, r, L
<1>7. DOMAIN r = 1 .. L /\ r[L] = e /\ \A i \in 1 .. L - 1 : r[i] = bps[i]
  <2>1. \A i \in 1 .. L - 1 : i \in 1 .. L /\ i # L
    BY <1>1
  <2> QED BY <1>1, <1>3, <2>1
<1>8. r \in [1 .. L -> Blueprints(n)]
  <2>1. bps \in [1 .. L -> Blueprints(n)]
    BY <1>1 DEF L
  <2> QED BY <1>3, <1>6, <2>1
<1>9. r \in Seq(Blueprints(n)) /\ Len(r) = L /\ r # <<>>
  <2> HIDE DEF Blueprints
  <2>1. r \in Seq(Blueprints(n))
    BY <1>1, <1>8
  <2>2. Len(r) = L
    BY <1>1, <1>7, <2>1
  <2> QED BY <1>1, <2>1, <2>2
<1>10. Last(r) = e
  BY <1>7, <1>9 DEF Last
<1> QED BY <1>1, <1>2, <1>5, <1>7, <1>9, <1>10 DEF OnlyLast, r, L, b, d

(* The text of the last request, before a token that ends at to. *)
LEMMA TextEnds ==
  ASSUME NEW c, Known, Reads(file, file', c), InText, NEW to \in Nat, start < to, to <= Limit + 1
  PROVE  /\ Text(start, to) \in Tokens(Len(file))
         /\ Lists(Payload(file', Last(WithContent(requests, Text(start, to)))),
                  Unfinished(file, Current, start) \cup Unescaped(start, to, Escapes(file, Current)))
<1> DEFINE t == Text(start, to)
           E == Escapes(file, Current)
           U == Unfinished(file, Current, start)
           last == Last(requests)
           a == SectionStart
<1>0. /\ a \in Nat \ {0} /\ start \in Nat /\ Limit \in Nat /\ Limit <= Len(file) /\ Len(file) \in Nat
      /\ FileType /\ Reads(file, file', c) /\ hasEscapes \in BOOLEAN
  BY KnownSections, KnownLimit DEF Known, FileType
<1>1. /\ a <= start /\ start - 1 \notin E /\ (hasEscapes <=> \E i \in start .. Limit : i \in E)
      /\ Lists(Payload(file, last), U)
  BY DEF Known, TextRead, LastRead, Pending, SectionStart
<1>2. t.from = start /\ t.to = to /\ t.escapes = hasEscapes
  BY DEF Text
<1>3. t \in Tokens(Len(file))
  BY <1>0, <1>1 DEF Text, Tokens
<1>4. EscapesIn(file', start, to, E)
  <2>1. \A i \in Current : i \in E <=> At(file, i, "\\") /\ i - 1 \notin E
    <3> HIDE DEF a, E
    <3>1. \A i \in a .. Limit : i \in Escapes(file, a .. Limit) <=>
                                  At(file, i, "\\") /\ i - 1 \notin Escapes(file, a .. Limit)
      BY <1>0, EscapesDef
    <3> QED BY <3>1 DEF E, Current, a, SectionStart
  <2>2. \A i \in start .. to - 1 : i \in a .. Limit /\ i # Len(file) + 1
    BY <1>0, <1>1
  <2>3. Current = a .. Limit
    BY DEF Current, SectionStart
  <2>4. \A i \in start .. to - 1 : At(file', i, "\\") <=> At(file, i, "\\")
    BY <1>0, <2>2, ReadsAt
  <2> HIDE DEF E, a
  <2> QED BY <1>1, <2>1, <2>2, <2>3, <2>4 DEF EscapesIn
<1>5. t.escapes \/ \A i \in t.from .. t.to - 1 : i \notin E
  <2>1. \A i \in start .. to - 1 : i \in start .. Limit
    BY <1>0
  <2> QED BY <1>1, <1>2, <2>1
<1>6. Payload(file', last) = Payload(file, last) /\ last.content \in Seq(Tokens(Len(file)))
  BY StepPayloads
<1>7. Last(WithContent(requests, t)).content = Append(last.content, t)
  <2>1. requests \in Seq(Blueprints(Len(file))) /\ requests # <<>>
    BY <1>0 DEF FileType, Blueprints
  <2> HIDE DEF t
  <2> QED BY <1>3, <2>1, WithContentIs
<1>8. AllBelow(U, Unescaped(start, to, E))
  <2>1. \A y \in Unescaped(start, to, E) : y \in Nat /\ y >= start
    BY <1>0 DEF Unescaped
  <2>2. \A x \in U : x \in Nat /\ x < start
    <3>1. \A x \in Current : x \in Nat
      BY <1>0 DEF Current, SectionStart
    <3> QED BY <3>1 DEF Unfinished, Kept
  <2> HIDE DEF U, E
  <2> QED BY <1>0, <2>1, <2>2 DEF AllBelow
<1> HIDE DEF t, E, U, last
<1>9. Lists(ExtractPayload(file', t), Unescaped(start, to, E))
  BY <1>2, <1>3, <1>4, <1>5, ExtractPayloadLists
<1>10. Lists(Payload(file', Last(WithContent(requests, t))), U \cup Unescaped(start, to, E))
  BY <1>1, <1>3, <1>6, <1>7, <1>8, <1>9, PayloadAppend
<1> QED BY <1>3, <1>10 DEF t, U, E

WithPre(bps, p) == [bps EXCEPT ![Len(bps)].pre = @ \cup {p}]

(* The last blueprint gets a special script. *)
LEMMA WithPreIs ==
  ASSUME NEW n, NEW bps \in Seq(Blueprints(n)), bps # <<>>, NEW p \in Nat
  PROVE  /\ WithPre(bps, p) \in Seq(Blueprints(n)) /\ WithPre(bps, p) # <<>>
         /\ OnlyLast(WithPre(bps, p), bps)
         /\ Last(WithPre(bps, p)).pre = Last(bps).pre \cup {p}
         /\ Last(WithPre(bps, p)).content = Last(bps).content
<1> DEFINE L == Len(bps)
           C == Seq(Tokens(n))
           b == bps[L]
           d == b.pre \cup {p}
           e == [b EXCEPT !.pre = d]
           r == WithPre(bps, p)
<1>1. /\ L \in Nat \ {0} /\ DOMAIN bps = 1 .. L /\ L \in 1 .. L
      /\ \A i \in 1 .. L : bps[i] \in Blueprints(n)
      /\ Last(bps) = b /\ b \in Blueprints(n) /\ b.pre \in SUBSET Nat
  BY BlueprintsAre
<1>2. d \in SUBSET Nat
  <2> HIDE DEF b
  <2> QED BY <1>1
<1>3. r = [bps EXCEPT ![L] = e]
  BY DEF WithPre
<1>4. b \in [name : Nat, pre : SUBSET Nat, content : C]
  BY <1>1 DEF Blueprints
<1> HIDE DEF b, d, C
<1>5. e \in [name : Nat, pre : SUBSET Nat, content : C] /\ e.name = b.name /\ e.pre = d /\ e.content = b.content
  BY <1>2, <1>4
<1>6. e \in Blueprints(n)
  BY <1>5 DEF Blueprints, C
<1> HIDE DEF e, r, L
<1>7. DOMAIN r = 1 .. L /\ r[L] = e /\ \A i \in 1 .. L - 1 : r[i] = bps[i]
  <2>1. \A i \in 1 .. L - 1 : i \in 1 .. L /\ i # L
    BY <1>1
  <2> QED BY <1>1, <1>3, <2>1
<1>8. r \in [1 .. L -> Blueprints(n)]
  <2>1. bps \in [1 .. L -> Blueprints(n)]
    BY <1>1 DEF L
  <2> QED BY <1>3, <1>6, <2>1
<1>9. r \in Seq(Blueprints(n)) /\ Len(r) = L /\ r # <<>>
  <2> HIDE DEF Blueprints
  <2>1. r \in Seq(Blueprints(n))
    BY <1>1, <1>8
  <2>2. Len(r) = L
    BY <1>1, <1>7, <2>1
  <2> QED BY <1>1, <2>1, <2>2
<1>10. Last(r) = e
  BY <1>7, <1>9 DEF Last
<1> QED BY <1>1, <1>2, <1>5, <1>7, <1>9, <1>10 DEF OnlyLast, r, L, b, d

(* The requests after a script, which is the token at p. *)
LEMMA ScriptTokens ==
  ASSUME NEW c \in {Named, Inline}, NEW p \in Nat \ {0}, NEW bps \in Seq(Blueprints(p)), bps # <<>>,
         ReadScript(c, p, bps)
  PROVE  /\ requests' \in Seq(Blueprints(p)) /\ requests' # <<>> /\ OnlyLast(requests', bps)
         /\ c = Named => /\ Last(requests').content = Last(bps).content
                         /\ Last(requests').pre = Last(bps).pre \cup {p}
         /\ c = Inline => /\ [from |-> p, to |-> p + 1, escapes |-> FALSE] \in Tokens(p)
                          /\ Last(requests').content = Append(Last(bps).content, [from |-> p, to |-> p + 1, escapes |-> FALSE])
                          /\ Last(requests').content # <<>>
                          /\ Last(requests').pre = Last(bps).pre
<1> DEFINE t == [from |-> p, to |-> p + 1, escapes |-> FALSE]
<1>1. t \in Tokens(p)
  BY DEF Tokens
<1>2. c = Named => requests' = WithPre(bps, p)
  BY DEF ReadScript, WithPre
<1>3. c = Inline => requests' = WithContent(bps, t)
  BY NotScript DEF ReadScript
<1> HIDE DEF t
<1>4. c = Inline \/ c = Named
  OBVIOUS
<1>5. CASE c = Named
  <2>1. /\ requests' \in Seq(Blueprints(p)) /\ requests' # <<>> /\ OnlyLast(requests', bps)
        /\ Last(requests').content = Last(bps).content /\ Last(requests').pre = Last(bps).pre \cup {p}
    BY <1>2, <1>5, WithPreIs
  <2>2. c # Inline
    BY <1>5, NotScript
  <2> QED BY <2>1, <2>2
<1>6. CASE c = Inline
  <2>1. /\ requests' \in Seq(Blueprints(p)) /\ requests' # <<>> /\ OnlyLast(requests', bps)
        /\ Last(requests').content = Append(Last(bps).content, t) /\ Last(requests').content # <<>>
        /\ Last(requests').pre = Last(bps).pre
    BY <1>1, <1>3, <1>6, WithContentIs
  <2> QED BY <1>1, <1>6, <2>1, NotScript DEF t
<1> QED BY <1>4, <1>5, <1>6

(* A script behind all that is unfinished. *)
LEMMA ScriptIsRead ==
  ASSUME NEW c \in {Named, Inline}, Known, Reads(file, file', c), reader # "header", ~escaped,
         NEW bps, bps \in Seq(Blueprints(Len(file))), bps # <<>>, OnlyLast(bps, requests),
         Last(bps).pre = Last(requests).pre,
         Lists(Payload(file', Last(bps)), Kept(file, Current)),
         Last(bps).content # <<>> => Kept(file, Current) # {},
         ReadScript(c, Len(file) + 1, bps)
  PROVE  TextRead' /\ LastRead' /\ RequestsStay
<1> DEFINE n == Len(file)
           p == n + 1
           E == Escapes(file, Current)
           E2 == Escapes(file', Current')
           K == Kept(file, Current)
           K2 == Kept(file', Current')
           Z == Skipped(file, Current)
           Z2 == Skipped(file', Current')
           N == Scripts(file, Current, Named)
           N2 == Scripts(file', Current', Named)
           t == [from |-> p, to |-> p + 1, escapes |-> FALSE]
<1>0. /\ n \in Nat /\ p \in Nat \ {0} /\ p - 1 = n /\ Reads(file, file', c) /\ LastRead /\ TextRead /\ FileType
      /\ file'[p] = c /\ p \in DOMAIN file'
  BY KnownSections DEF Known, Reads
<1>1. bps \in Seq(Blueprints(p))
  BY <1>0, TokensMore
<1>2. /\ requests' \in Seq(Blueprints(p)) /\ requests' # <<>> /\ OnlyLast(requests', bps)
      /\ c = Named => /\ Last(requests').content = Last(bps).content
                      /\ Last(requests').pre = Last(bps).pre \cup {p}
      /\ c = Inline => /\ t \in Tokens(p)
                       /\ Last(requests').content = Append(Last(bps).content, t)
                       /\ Last(requests').content # <<>>
                       /\ Last(requests').pre = Last(bps).pre
  BY <1>0, <1>1, ScriptTokens
<1>3. RequestsStay
  BY <1>0, <1>2, RequestsTyped DEF OnlyLast, RequestsStay
<1>4. /\ reader' = IF c = Named THEN "consumeWhitespace" ELSE "lexToken"
      /\ reader' # "header" /\ escaped' = escaped /\ ~(InText')
  <2>1. reader' = IF c = Named THEN "consumeWhitespace" ELSE "lexToken"
    BY DEF ReadScript
  <2> QED BY <2>1 DEF ReadScript, InText
<1>5. /\ ReadMore(file, Current, file', Current', p, c)
      /\ Limit = n /\ Limit' = p /\ Begin(file', Newest') = SectionStart
      /\ Current = SectionStart .. n /\ Current' = SectionStart .. p
      /\ SectionStart \in Nat \ {0} /\ SectionStart <= p
  BY <1>3, <1>4, CurrentOn
<1>6. n \notin E
  BY <1>0, <1>5 DEF TextRead
<1>7. Pending' = p + 1 /\ (p + 1) - 1 = p /\ p <= p /\ p <= p + 1 /\ SectionStart <= p + 1
  BY <1>0, <1>4, <1>5 DEF Pending
<1> HIDE DEF n, p, t
<1>8. c # "\\" /\ c \notin Whitespace /\ (c = Named \/ c = Inline) /\ Named # Inline
  BY Symbols
<1>9. /\ p \notin Current /\ Current' = Current \cup {p} /\ Z \subseteq Current /\ E2 = E /\ E \subseteq Current
      /\ p \in Z2 <=> c = Named
      /\ K2 = IF c = Named THEN K ELSE K \cup {p}
      /\ K \subseteq Current
  <2>1. /\ p \notin Current /\ Current' = Current \cup {p} /\ Z \subseteq Current /\ E \subseteq Current
        /\ E2 = E \cup (IF c = "\\" /\ p - 1 \notin E THEN {p} ELSE {})
        /\ Z2 = Z \cup (IF p - 1 \notin E /\ (c = Named \/ (c \in Whitespace /\ p - 1 \notin Current \ Z)) THEN {p} ELSE {})
        /\ K2 = K \cup (IF p \notin Z2 /\ p \notin E2 THEN {p} ELSE {})
        /\ K \subseteq Current
    BY <1>5 DEF ReadMore
  <2>2. E2 = E
    BY <1>8, <2>1
  <2>3. p \in Z2 <=> c = Named
    BY <1>0, <1>6, <1>8, <2>1
  <2> QED BY <2>1, <2>2, <2>3
<1>10. N2 = IF c = Named THEN N \cup {p} ELSE N
  <2>1. p - 1 \notin Escapes(file, Current)
    BY <1>0, <1>6
  <2>2. CASE c = Named
    <3>1. Scripts(file', Current', Named) = Scripts(file, Current, Named) \cup {p}
      BY <1>5, <2>1, <2>2, ScriptsMore
    <3> QED BY <2>2, <3>1
  <2>3. CASE c # Named
    <3>1. Scripts(file', Current', Named) = Scripts(file, Current, Named)
      BY <1>5, <2>3, ScriptsMore
    <3> QED BY <2>3, <3>1
  <2> QED BY <2>2, <2>3
<1> HIDE DEF E, E2, K, K2, Z, Z2, N, N2
<1>11. TextRead'
  <2>1. Begin(file', Newest') <= Pending' /\ Pending' <= Limit' + 1
    BY <1>0, <1>5, <1>7
  <2>2. \A i \in Pending' .. Limit' : FALSE
    BY <1>0, <1>5, <1>7
  <2>3. p \notin E2 /\ (p \in K2 => At(file', p, Inline)) /\ Pending' - 1 = p
    <3>1. c = Inline => At(file', p, Inline)
      BY <1>0 DEF At
    <3>2. p \in K2 => c = Inline
      BY <1>8, <1>9
    <3> QED BY <1>7, <1>9, <3>1, <3>2
  <2>4. escaped' <=> Limit' \in E2
    BY <1>4, <1>5, <1>9
  <2>5. reader' = "consumeWhitespace" => Limit' \notin Current' \ Z2
    BY <1>4, <1>5, <1>9
  <2>6. reader' = "lexToken" => Limit' \in Current' \ Z2
    BY <1>4, <1>5, <1>9
  <2> QED BY <1>4, <2>1, <2>2, <2>3, <2>4, <2>5, <2>6 DEF TextRead, E2, K2, Z2
<1>12. Unfinished(file', Current', Pending') = K2
  <2>1. \A i \in K2 : i < p + 1
    <3>1. \A i \in Current' : i < p + 1
      BY <1>0, <1>5
    <3> QED BY <3>1 DEF K2, Kept
  <2> QED BY <1>7, <2>1 DEF Unfinished, K2
<1>13. Lists(Payload(file', Last(requests')), K2)
  <2>1. CASE c = Named
    <3>1. Payload(file', Last(requests')) = Payload(file', Last(bps))
      BY <1>2, <2>1 DEF Payload
    <3> QED BY <1>9, <2>1, <3>1 DEF K
  <2>2. CASE c = Inline
    <3>1. EscapesIn(file', p, p + 1, {})
      <4>1. \A i \in p .. (p + 1) - 1 : ~At(file', i, "\\")
        <5>1. \A i \in p .. (p + 1) - 1 : i = p
          BY <1>0
        <5> QED BY <1>0, <1>8, <5>1 DEF At
      <4> QED BY <4>1 DEF EscapesIn
    <3>2. Unescaped(p, p + 1, {}) = {p}
      BY <1>0 DEF Unescaped
    <3>3. t.from = p /\ t.to = p + 1 /\ t \in Tokens(p)
      BY <1>2, <2>2 DEF t
    <3>4. Lists(ExtractPayload(file', t), {p})
      <4> DEFINE e == {}
      <4>1. EscapesIn(file', t.from, t.to, e) /\ Unescaped(t.from, t.to, e) = {p}
        BY <3>1, <3>2, <3>3
      <4>2. \A i \in t.from .. t.to - 1 : i \notin e
        OBVIOUS
      <4> HIDE DEF e
      <4>3. Lists(ExtractPayload(file', t), Unescaped(t.from, t.to, e))
        BY <3>3, <4>1, <4>2, ExtractPayloadLists
      <4> QED BY <4>1, <4>3
    <3>5. AllBelow(K, {p})
      <4>1. \A x \in Current : x < p
        BY <1>0, <1>5 DEF p
      <4> QED BY <1>9, <4>1 DEF AllBelow
    <3>6. Last(bps).content \in Seq(Tokens(p))
      BY <1>1, BlueprintsAre
    <3>7. Lists(Payload(file', Last(requests')), K \cup {p})
      <4> DEFINE bp == Last(bps)
                 d == Last(requests')
      <4>1. bp.content \in Seq(Tokens(p)) /\ d.content = Append(bp.content, t) /\ Lists(Payload(file', bp), K)
        BY <1>2, <2>2, <3>6 DEF K
      <4> HIDE DEF bp, d
      <4>2. Lists(Payload(file', d), K \cup {p})
        BY <3>3, <3>4, <3>5, <4>1, PayloadAppend
      <4> QED BY <4>2 DEF d
    <3> QED BY <1>8, <1>9, <2>2, <3>7
  <2> QED BY <1>8, <2>1, <2>2
<1>14. Last(requests').content # <<>> => K2 # {}
  BY <1>2, <1>8, <1>9 DEF K
<1>15. Last(requests').pre = Between(file', Since(requests', Len(requests')), Newest') \cup N2
  <2>1. Last(requests).pre = Between(file, Since(requests, Len(requests)), Newest) \cup N
    BY <1>0 DEF LastRead, N
  <2>2. Between(file', Since(requests', Len(requests')), Newest') = Between(file, Since(requests, Len(requests)), Newest)
    BY <1>3, FinishedStays
  <2> QED BY <1>2, <1>8, <1>10, <2>1, <2>2
<1>16. LastRead'
  BY <1>12, <1>13, <1>14, <1>15 DEF LastRead, N2
<1> QED BY <1>3, <1>11, <1>16

(* The requests are blueprints of the text that has been read.                *)
LEMMA KnownBlueprints ==
  ASSUME Known
  PROVE  requests \in Seq(Blueprints(Len(file))) /\ requests # <<>> /\ OnlyLast(requests, requests)
<1>1. requests \in Seq(Blueprints(Len(file))) /\ requests # <<>>
  BY DEF Known, FileType, Blueprints
<1>2. Last(requests) = requests[Len(requests)]
  BY RequestsTyped DEF Known
<1> QED BY <1>1, <1>2 DEF OnlyLast

(* A script is the first token behind another one, or behind blanks. *)
LEMMA ScriptFirst ==
  ASSUME NEW c \in {Named, Inline}, Known, Reads(file, file', c), reader \in {"consumeWhitespace", "lexToken"},
         ReadScript(c, Len(file) + 1, requests)
  PROVE  TextRead' /\ LastRead' /\ RequestsStay
<1>1. Len(file) \in Nat /\ SectionStart \in Nat \ {0} /\ Limit = Len(file) /\ ~escaped
  BY KnownSections, KnownLimit, KnownEscaped
<1>2. Pending = Len(file) + 1
  BY <1>1 DEF Pending, InText
<1>3. Unfinished(file, Current, Pending) = Kept(file, Current)
  <2>1. \A i \in Current : i < Len(file) + 1
    BY <1>1 DEF Current, SectionStart
  <2> QED BY <1>2, <2>1 DEF Unfinished, Kept
<1>4. /\ Lists(Payload(file', Last(requests)), Kept(file, Current))
      /\ Last(requests).content # <<>> => Kept(file, Current) # {}
  BY <1>3, StepPayloads DEF Known, LastRead
<1>5. requests \in Seq(Blueprints(Len(file))) /\ requests # <<>> /\ OnlyLast(requests, requests)
  BY KnownBlueprints
<1> QED BY <1>1, <1>4, <1>5, ScriptIsRead

(* A script ends a text. *)
LEMMA ScriptBehindText ==
  ASSUME NEW c \in {Named, Inline}, Known, Reads(file, file', c), reader \in {"parseText", "parseDelimiter"}, ~escaped,
         ReadScript(c, Len(file) + 1, WithContent(requests, Text(start, Len(file) + 1)))
  PROVE  TextRead' /\ LastRead' /\ RequestsStay
<1> DEFINE n == Len(file)
           p == n + 1
           t == Text(start, p)
           bps == WithContent(requests, t)
           E == Escapes(file, Current)
           K == Kept(file, Current)
<1>1. n \in Nat /\ p \in Nat /\ SectionStart \in Nat \ {0} /\ Limit = n /\ InText /\ start \in Nat
  BY KnownSections, KnownLimit DEF InText
<1>2. /\ SectionStart <= start /\ start <= n /\ n \notin E
      /\ \A i \in start .. n : i \notin Skipped(file, Current)
  BY <1>1 DEF Known, TextRead, Pending, SectionStart
<1>3. start < p /\ p <= Limit + 1
  BY <1>1, <1>2
<1>4. t \in Tokens(n) /\ Lists(Payload(file', Last(bps)), Unfinished(file, Current, start) \cup Unescaped(start, p, E))
  BY <1>1, <1>3, TextEnds
<1>5. requests \in Seq(Blueprints(n)) /\ requests # <<>>
  BY KnownBlueprints
<1> HIDE DEF t
<1>6. /\ bps \in Seq(Blueprints(n)) /\ bps # <<>> /\ OnlyLast(bps, requests) /\ Last(bps).pre = Last(requests).pre
  BY <1>4, <1>5, WithContentIs
<1> HIDE DEF bps, E, K
<1>7. Unfinished(file, Current, start) \cup Unescaped(start, p, E) = K
  <2>1. \A i \in Current : i \in Nat /\ (i < start \/ i \in start .. n)
    BY <1>1, <1>2 DEF Current, SectionStart
  <2>2. start .. p - 1 = start .. n /\ p - 1 = n /\ \A i \in start .. n : i \in Current
    BY <1>1, <1>2 DEF Current, SectionStart
  <2>3. Unescaped(start, p, E) = (start .. n) \ E
    BY <1>2, <2>2 DEF Unescaped
  <2>4. \A i \in start .. n : i \in K <=> i \notin E
    BY <1>2, <2>2 DEF K, Kept, E
  <2>5. K \subseteq Current
    BY DEF K, Kept
  <2> HIDE DEF p, n
  <2> QED BY <2>1, <2>3, <2>4, <2>5 DEF Unfinished, K
<1>8. K # {}
  <2>1. n \in Unescaped(start, p, E)
    BY <1>1, <1>2 DEF Unescaped
  <2> QED BY <1>7, <2>1
<1>9. ReadScript(c, n + 1, bps)
  BY DEF bps, t
<1> HIDE DEF n
<1>10. Lists(Payload(file', Last(bps)), Kept(file, Current)) /\ Kept(file, Current) # {}
  BY <1>4, <1>7, <1>8 DEF K
<1> QED BY <1>6, <1>9, <1>10, ScriptIsRead DEF n

(* Reading a character that ends no header keeps what is known of the file.   *)
LEMMA StepInside ==
  ASSUME NEW c, Known, Reads(file, file', c), ReadByte(c), reader # "header" \/ c # "\n"
  PROVE  HeadersRead' /\ TextRead' /\ LastRead' /\ Finished'
<1> DEFINE p == Len(file) + 1
<1>0. reader \in {"consumeWhitespace", "lexToken", "parseText", "parseDelimiter", "header"}
  BY DEF Known, FileType
<1>1. reader \notin {"parseText", "header"} => ~escaped
  BY KnownEscaped
<1>2. HashRead(c)
  BY StepHashes
<1>3. c \in {Named, Inline} => c # "#" /\ c # "\\"
  BY NotScript
<1>4. ASSUME ReadToken(c, p), reader \in {"consumeWhitespace", "lexToken"},
             reader = "consumeWhitespace" => c \notin Whitespace
      PROVE  TextRead' /\ LastRead' /\ RequestsStay
  <2>1. CASE c \in {Named, Inline}
    <3>1. ReadScript(c, p, requests)
      BY <1>4, <2>1 DEF ReadToken
    <3> QED BY <1>4, <2>1, <3>1, ScriptFirst
  <2>2. CASE c \notin {Named, Inline}
    <3>1. /\ start' = p /\ requests' = requests /\ (escaped' <=> c = "\\") /\ (hasEscapes' <=> c = "\\")
          /\ reader' \in {"parseText", "parseDelimiter"}
      BY <1>4, <2>2 DEF ReadToken
    <3>2. TextRead' /\ LastRead'
      BY <1>4, <2>2, <3>1, TokenRead
    <3> QED BY <3>1, <3>2, SameRequests
  <2> QED BY <2>1, <2>2
<1>5. ASSUME ReadText(c, p), reader = "parseText" \/ (reader = "parseDelimiter" /\ ~escaped)
      PROVE  TextRead' /\ LastRead' /\ RequestsStay
  <2>1. CASE ~escaped /\ c \in {Named, Inline}
    <3>1. ReadScript(c, p, WithContent(requests, Text(start, p)))
      BY <1>3, <1>5, <2>1 DEF ReadText
    <3> QED BY <1>5, <2>1, <3>1, ScriptBehindText
  <2>2. CASE escaped \/ c \notin {Named, Inline}
    <3>1. /\ start' = start /\ requests' = requests /\ (escaped' <=> c = "\\" /\ ~escaped)
          /\ hasEscapes' <=> hasEscapes \/ (c = "\\" /\ ~escaped)
          /\ reader' \in {"parseText", "parseDelimiter"}
      BY <1>5, <2>2 DEF ReadText
    <3>2. TextRead' /\ LastRead'
      BY <1>5, <2>2, <3>1, TextGoesOn
    <3> QED BY <3>1, <3>2, SameRequests
  <2> QED BY <2>1, <2>2
<1>6. TextRead' /\ LastRead' /\ RequestsStay
  <2>1. CASE reader = "consumeWhitespace"
    <3>1. CASE c \in Whitespace
      BY <2>1, <3>1, BlankRead, SameRequests DEF ReadByte, ConsumeWhitespace
    <3>2. CASE c \notin Whitespace
      BY <1>4, <2>1, <3>2 DEF ReadByte, ConsumeWhitespace
    <3> QED BY <3>1, <3>2
  <2>2. CASE reader = "lexToken"
    BY <1>4, <2>2 DEF ReadByte
  <2>3. CASE reader = "parseText"
    BY <1>5, <2>3 DEF ReadByte
  <2>4. CASE reader = "parseDelimiter"
    <3>0. ReadHash(c, p) /\ ~escaped
      BY <1>1, <2>4 DEF ReadByte
    <3>1. CASE c # "#"
      BY <1>5, <2>4, <3>0, <3>1 DEF ReadHash
    <3>2. CASE c = "#"
      <4>1. /\ reader' \in {"parseText", "parseDelimiter", "header"}
            /\ UNCHANGED <<start, escaped, hasEscapes, hash, requests>>
        BY <3>0, <3>2 DEF ReadHash
      <4>2. CASE reader' = "header"
        BY <1>2, <2>4, <4>1, <4>2, HeaderGoesOn, SameRequests
      <4>3. CASE reader' \in {"parseText", "parseDelimiter"}
        <5>1. c # "\\" /\ c \notin {Named, Inline}
          BY <1>3, <3>2
        <5>2. (escaped' <=> c = "\\" /\ ~escaped) /\ (hasEscapes' <=> hasEscapes \/ (c = "\\" /\ ~escaped))
          BY <3>0, <4>1, <5>1
        <5> QED BY <2>4, <4>1, <4>3, <5>1, <5>2, TextGoesOn, SameRequests
      <4> QED BY <4>1, <4>2, <4>3
    <3> QED BY <3>1, <3>2
  <2>5. CASE reader = "header"
    <3>1. reader' = "header" /\ UNCHANGED <<start, escaped, hasEscapes, hash, requests>>
      BY <2>5 DEF ReadByte, ReadHeader
    <3> QED BY <1>2, <2>5, <3>1, HeaderGoesOn, SameRequests
  <2> QED BY <1>0, <2>1, <2>2, <2>3, <2>4, <2>5
<1> QED BY <1>2, <1>6, StepHeadersRead, FinishedStays

(* The empty listing is one of nothing. *)
LEMMA ListsNothing ==
  ASSUME NEW U, Lists(<<>>, U)
  PROVE  U = {}
<1>1. DOMAIN <<>> = {}
  OBVIOUS
<1> QED BY <1>1 DEF Lists, InOrder, ToSet

(* The end of the line that hash is in. *)
LEMMA HeaderEnds ==
  ASSUME Known, Reads(file, file', "\n"), reader = "header"
  PROVE  /\ Headers(file') = Headers(file) \cup {hash}
         /\ \A i : Header(file', i) <=> Header(file, i) \/ i = hash
         /\ Begin(file', hash) = Len(file) + 2 /\ hash \in 1 .. Len(file)
         /\ Newest < hash /\ Limit = hash - 1 /\ start <= hash /\ SectionStart <= start
         /\ AtLineStart(file, hash) /\ Headers(file') \subseteq Nat
         /\ Begin(file', Newest) = SectionStart
<1>1. /\ Reads(file, file', "\n") /\ HeadersRead /\ TextRead
  BY DEF Known
<1>2. /\ hash \in 1 .. Len(file) /\ Limit = hash - 1 /\ start \in Nat /\ hash \in Nat
  BY KnownSections, KnownLimit
<1>3. /\ HeaderMark(file, hash) /\ start <= hash /\ \A j \in hash .. Len(file) : ~At(file, j, "\n")
      /\ \A i \in DOMAIN file : HeaderMark(file, i) => Header(file, i) \/ i = hash
  BY <1>1 DEF HeadersRead
<1>4. /\ Headers(file') = Headers(file) \cup {hash} /\ \A i : Header(file', i) <=> Header(file, i) \/ i = hash
      /\ Begin(file', hash) = Len(file) + 2
  BY <1>1, <1>2, <1>3, HeadersNew
<1>5. SectionStart <= start /\ Newest < SectionStart /\ SectionStart \in Nat /\ Newest \in Nat
  BY <1>1, KnownSections DEF TextRead, Pending, InText, SectionStart
<1>6. AtLineStart(file, hash)
  BY <1>3 DEF HeaderMark
<1>7. Headers(file') \subseteq Nat
  BY <1>2, <1>4, KnownSections
<1>8. Begin(file', Newest) = SectionStart
  BY <1>1, BeginSame, KnownSections DEF SectionStart
<1> QED BY <1>2, <1>3, <1>4, <1>5, <1>6, <1>7, <1>8

(* The section before it then ends. *)
LEMMA SectionEnds ==
  ASSUME Known, Reads(file, file', "\n"), reader = "header"
  PROVE  /\ Section(file', Newest) = Current /\ Current = SectionStart .. hash - 1
         /\ Scripts(file', Current, Named) = Scripts(file, Current, Named)
         /\ hash - 1 \notin Escapes(file, Current)
         /\ hash - 1 \in Current => At(file, hash - 1, "\n")
         /\ Content(file', Current) =
              {i \in Kept(file, Current) : i = hash - 1 => hash - 2 \in Escapes(file, Current)}
<1> DEFINE q == hash
           a == SectionStart
           S == Current
           E == Escapes(file, S)
           n == Len(file)
<1>0. /\ Reads(file, file', "\n") /\ n \in Nat /\ q \in 1 .. n /\ a \in Nat \ {0} /\ Newest < a /\ Newest \in Nat
      /\ \A h \in Headers(file) : h <= Newest
  BY KnownSections, HeaderEnds DEF Known
<1>1. /\ Headers(file') = Headers(file) \cup {q} /\ Newest < q /\ Limit = q - 1
      /\ \A i : Header(file', i) <=> Header(file, i) \/ i = q
      /\ AtLineStart(file, q) /\ Headers(file') \subseteq Nat /\ Begin(file', Newest) = a
  BY HeaderEnds
<1>2. S = a .. q - 1
  BY <1>1 DEF Current, SectionStart
<1>3. Section(file', Newest) = S
  <2>1. q \in Headers(file') /\ Newest \in Headers(file') /\ q > Newest
    BY <1>0, <1>1, KnownSections
  <2>2. \A g \in Headers(file') : g > Newest => g >= q
    BY <1>0, <1>1
  <2> HIDE DEF q, a, S
  <2>3. Section(file', Newest) = Begin(file', Newest) .. q - 1
    BY <1>1, <2>1, <2>2, SectionBefore
  <2> QED BY <1>1, <1>2, <2>3
<1>4. CutFrom(file', S, file, S)
  <2> DEFINE b == q - 1
  <2>1. b \in Nat /\ b <= b /\ \A i \in a .. b : i \in 1 .. n
    BY <1>0
  <2>2. SameText(file', file, a, b)
    BY <1>0, <2>1 DEF SameText, Reads
  <2> HIDE DEF b, a, S
  <2>3. CutFrom(file', a .. b, file, a .. b)
    BY <1>0, <2>1, <2>2, SectionCut
  <2> QED BY <1>2, <2>3 DEF b
<1>5. \A X : Scripts(file, X, Named) \subseteq X /\ Kept(file, X) \subseteq X
  BY DEF Scripts, Kept
<1>6. Kept(file', S) = Kept(file, S) /\ Scripts(file', S, Named) = Scripts(file, S, Named)
  <2> HIDE DEF S
  <2>1. Kept(file', S) = Kept(file, S) \cap S /\ Scripts(file', S, Named) = Scripts(file, S, Named) \cap S
        /\ Kept(file, S) \subseteq S /\ Scripts(file, S, Named) \subseteq S
    BY <1>4, <1>5 DEF CutFrom
  <2> QED BY <2>1
<1>7. E \subseteq S /\ \A i \in E : At(file, i, "\\")
  <2> DEFINE b == q - 1
  <2>1. b \in Nat
    BY <1>0
  <2> HIDE DEF b, a, S
  <2>2. Escapes(file, a .. b) \subseteq a .. b /\ \A i \in a .. b : i \in Escapes(file, a .. b) => At(file, i, "\\")
    BY <1>0, <2>1, EscapesDef
  <2> QED BY <1>2, <2>2 DEF b
<1>8. q - 1 \in S => At(file, q - 1, "\n")
  <2>1. q - 1 \in S => q # 1
    BY <1>0, <1>2
  <2> QED BY <1>1, <2>1 DEF AtLineStart
<1>9. q - 1 \notin E
  <2>1. ~(At(file, q - 1, "\n") /\ At(file, q - 1, "\\"))
    BY DEF At
  <2> QED BY <1>7, <1>8, <2>1
<1>10. Escapes(file', S) = E
  <2>1. Escapes(file', S) = E \cap S
    BY <1>4 DEF CutFrom
  <2> QED BY <1>7, <2>1
<1>11. \A i \in S : i \in Blanks(file', S) /\ Header(file', i + 1) <=> i = q - 1 /\ q - 2 \notin E
  <2> TAKE i \in S
  <2>1. Header(file', i + 1) <=> i = q - 1
    <3>1. Header(file, i + 1) => i + 1 \in Headers(file)
      BY DEF Headers, Header, HeaderMark, At
    <3>2. i \in Nat /\ i >= a /\ ~(i + 1 <= Newest) /\ (i + 1 = q <=> i = q - 1)
      BY <1>0, <1>2
    <3> QED BY <1>0, <1>1, <3>1, <3>2
  <2>2. i = q - 1 => (i \in Blanks(file', S) <=> q - 2 \notin E)
    <3>1. (q - 1) - 1 = q - 2 /\ (q - 1 \in 1 .. n \/ q - 1 = 0)
      BY <1>0
    <3>2. i = q - 1 => file'[i] \in Whitespace
      <4>1. i = q - 1 => At(file', i, "\n")
        BY <1>0, <1>8, ReadsAt
      <4> QED BY <4>1 DEF At, Whitespace
    <3>3. i \in Blanks(file', S) <=> file'[i] \in Whitespace /\ i - 1 \notin E
      <4> HIDE DEF S, E, q
      <4> QED BY <1>10 DEF Blanks
    <3> QED BY <3>1, <3>2, <3>3
  <2> QED BY <2>1, <2>2
<1> HIDE DEF q, a, E, n, S
<1>12. Content(file', S) = {i \in Kept(file', S) : ~(i \in Blanks(file', S) /\ Header(file', i + 1))}
  <2>1. Content(file', S) = S \ (Leading(file', S) \cup Escapes(file', S) \cup Scripts(file', S, Named)
                                 \cup {i \in Blanks(file', S) : Header(file', i + 1)})
    BY DEF Content
  <2>2. Kept(file', S) = S \ ((Leading(file', S) \cup Scripts(file', S, Named)) \cup Escapes(file', S))
    BY DEF Kept, Skipped
  <2> DEFINE X == Leading(file', S)
             Y == Escapes(file', S)
             W == Scripts(file', S, Named)
             B == Blanks(file', S)
             K == Kept(file', S)
             C == Content(file', S)
  <2> HIDE DEF X, Y, W, B, K, C
  <2>3. C = S \ (X \cup Y \cup W \cup {i \in B : Header(file', i + 1)}) /\ K = S \ ((X \cup W) \cup Y)
    BY <2>1, <2>2 DEF X, Y, W, B, K, C
  <2>4. C = {i \in K : ~(i \in B /\ Header(file', i + 1))}
    BY <2>3
  <2> QED BY <2>4 DEF B, K, C
<1>13. Content(file', S) = {i \in Kept(file, S) : i = q - 1 => q - 2 \in E}
  <2>1. \A i \in Kept(file, S) : i \in S
    BY <1>5
  <2> QED BY <1>6, <1>11, <1>12, <2>1
<1> QED BY <1>2, <1>3, <1>6, <1>8, <1>9, <1>13 DEF S, E, q, a

TextBefore == IF start >= hash - 1 THEN requests ELSE WithContent(requests, Text(start, hash - 1))

(* What of it is not read yet is the last text of its request. *)
LEMMA SectionRead ==
  ASSUME Known, Reads(file, file', "\n"), reader = "header"
  PROVE  /\ TextBefore \in Seq(Blueprints(Len(file))) /\ TextBefore # <<>> /\ OnlyLast(TextBefore, requests)
         /\ Last(TextBefore).pre = Last(requests).pre
         /\ Lists(Payload(file', Last(TextBefore)), Content(file', Current))
         /\ Last(TextBefore).content # <<>> <=> Content(file', Current) # {}
<1> DEFINE q == hash
           S == Current
           E == Escapes(file, S)
           K == Kept(file, S)
           U == Unfinished(file, Current, start)
           C == Content(file', Current)
           n == Len(file)
           a == SectionStart
<1>0. /\ n \in Nat /\ q \in 1 .. n /\ start \in Nat /\ a \in Nat \ {0} /\ a <= start /\ start <= q /\ Limit = q - 1
      /\ S = a .. q - 1
  BY KnownSections, HeaderEnds, SectionEnds
<1>1. InText /\ Pending = start
  BY DEF Pending, InText
<1>2. /\ q - 1 \notin E
      /\ q - 1 \in S => At(file, q - 1, "\n")
      /\ C = {i \in K : i = q - 1 => q - 2 \in E}
  BY SectionEnds
<1>3. /\ \A i \in start .. q - 1 : i \notin Skipped(file, S)
      /\ start - 1 \notin E
      /\ start - 1 \in K => At(file, start - 1, Inline)
      /\ Lists(Payload(file, Last(requests)), U)
      /\ Last(requests).content # <<>> => U # {}
  BY <1>0, <1>1 DEF Known, TextRead, LastRead
<1>4. requests \in Seq(Blueprints(n)) /\ requests # <<>> /\ OnlyLast(requests, requests)
  BY KnownBlueprints
<1>5. K \subseteq S /\ U = {i \in K : i < start}
      /\ \A i \in start .. q - 1 : i \in S /\ (i \in K <=> i \notin E)
  <2>1. K \subseteq S /\ U = {i \in K : i < start}
    BY DEF Kept, Unfinished
  <2>2. \A i \in start .. q - 1 : i \in S
    BY <1>0
  <2>3. \A i \in start .. q - 1 : i \in K <=> i \notin E
    BY <1>3, <2>2 DEF Kept
  <2> QED BY <2>1, <2>2, <2>3
<1>6. \A i \in S : i \in E => i + 1 \notin E
  <2> DEFINE b == q - 1
  <2>1. b \in Nat
    BY <1>0
  <2> HIDE DEF b, a, S
  <2>2. /\ Escapes(file, a .. b) \subseteq a .. b
        /\ \A i \in a .. b : i \in Escapes(file, a .. b) <=> At(file, i, "\\") /\ i - 1 \notin Escapes(file, a .. b)
    BY <1>0, <2>1, EscapesDef
  <2>3. \A i \in a .. b : (i + 1) - 1 = i
    BY <1>0, <2>1
  <2> HIDE DEF E
  <2>4. E \subseteq S /\ \A i \in S : i \in E <=> At(file, i, "\\") /\ i - 1 \notin E
    BY <1>0, <2>2 DEF b, E
  <2>5. S = a .. b
    BY <1>0 DEF b
  <2> QED BY <2>3, <2>4, <2>5
<1> HIDE DEF q, S, E, K, U, C, n, a
<1>7. CASE start >= q - 1
  <2>1. TextBefore = requests
    BY <1>7 DEF TextBefore, q
  <2>2. C = U
    <3>1. start = q - 1 \/ start = q
      BY <1>0, <1>7
    <3>2. CASE start = q - 1
      <4>1. start - 1 = q - 2
        BY <1>0, <3>2
      <4>2. \A i \in S : i < q - 1 \/ i = q - 1
        BY <1>0
      <4>3. ~(q - 1 < q - 1) /\ \A i \in S : i < q - 1 => i # q - 1
        BY <1>0
      <4> QED BY <1>2, <1>3, <1>5, <3>2, <4>1, <4>2, <4>3
    <3>3. CASE start = q
      <4>1. q - 1 \notin K
        <5>1. ~(At(file, q - 1, "\n") /\ At(file, q - 1, Inline))
          BY NotScript DEF At
        <5> QED BY <1>2, <1>3, <1>5, <3>3, <5>1
      <4>2. \A i \in S : i < q
        BY <1>0
      <4> QED BY <1>2, <1>5, <3>3, <4>1, <4>2
    <3> QED BY <3>1, <3>2, <3>3
  <2>3. Payload(file', Last(requests)) = Payload(file, Last(requests))
    BY StepPayloads
  <2>4. Last(requests).content = <<>> => U = {}
    <3>1. Last(requests).content = <<>> => Payload(file, Last(requests)) = <<>>
      BY PayloadEmpty
    <3> QED BY <1>3, <3>1, ListsNothing
  <2> QED BY <1>3, <1>4, <2>1, <2>2, <2>3, <2>4 DEF C, n
<1>8. CASE ~(start >= q - 1)
  <2> DEFINE t == Text(start, q - 1)
  <2>1. TextBefore = WithContent(requests, t)
    BY <1>8 DEF TextBefore, q
  <2>2. q - 1 \in Nat /\ start < q - 1 /\ q - 1 <= Limit + 1 /\ (q - 1) - 1 = q - 2
    BY <1>0, <1>8
  <2>3. t \in Tokens(n) /\ Lists(Payload(file', Last(WithContent(requests, t))), U \cup Unescaped(start, q - 1, E))
    <3> DEFINE to == q - 1
    <3>1. to \in Nat /\ start < to /\ to <= Limit + 1
      BY <2>2
    <3> HIDE DEF to
    <3>2. Text(start, to) \in Tokens(Len(file))
          /\ Lists(Payload(file', Last(WithContent(requests, Text(start, to)))),
                   Unfinished(file, Current, start) \cup Unescaped(start, to, Escapes(file, Current)))
      BY <1>1, <3>1, TextEnds
    <3> QED BY <3>2 DEF to, n, U, E, S
  <2> HIDE DEF t
  <2>4. /\ TextBefore \in Seq(Blueprints(n)) /\ TextBefore # <<>> /\ OnlyLast(TextBefore, requests)
        /\ Last(TextBefore).pre = Last(requests).pre /\ Last(TextBefore).content # <<>>
    BY <1>4, <2>1, <2>3, WithContentIs
  <2>5. Unescaped(start, q - 1, E) = {i \in start .. q - 1 : i \notin E /\ (i = q - 1 => q - 2 \in E)}
    <3>1. \A i \in start .. q - 1 : i \in start .. q - 2 \/ i = q - 1
      BY <1>0
    <3>2. \A i \in start .. q - 2 : i \in start .. q - 1 /\ i # q - 1
      BY <1>0
    <3>3. q - 1 \in start .. q - 1
      BY <1>0, <2>2
    <3>4. Unescaped(start, q - 1, E) = ((start .. q - 2) \ E) \cup (IF q - 2 \in E THEN {q - 1} ELSE {})
      BY <2>2 DEF Unescaped
    <3> QED BY <1>2, <3>1, <3>2, <3>3, <3>4
  <2>6. C = U \cup Unescaped(start, q - 1, E)
    <3>1. \A i \in S : i < start \/ i \in start .. q - 1
      BY <1>0
    <3>2. \A i \in S : i < start => i # q - 1
      BY <1>0, <2>2
    <3> QED BY <1>2, <1>5, <2>5, <3>1, <3>2
  <2>7. C # {}
    <3>1. start \in start .. q - 1 /\ start \in S /\ start + 1 \in start .. q - 1 /\ start + 1 \in S
          /\ start # q - 1 /\ (start + 1 = q - 1 => start = q - 2)
      BY <1>0, <2>2
    <3>2. CASE start \notin E
      BY <2>5, <2>6, <3>1, <3>2
    <3>3. CASE start \in E
      <4>1. start + 1 \notin E
        BY <1>6, <3>1, <3>3
      <4> QED BY <2>5, <2>6, <3>1, <3>3, <4>1
    <3> QED BY <3>2, <3>3
  <2> QED BY <2>1, <2>3, <2>4, <2>6, <2>7 DEF C, n
<1> QED BY <1>7, <1>8

(* A delimiter: a request with content is finished, one without goes on.      *)
LEMMA DelimiterIs ==
  ASSUME NEW n, NEW bps \in Seq(Blueprints(n)), bps # <<>>, NEW q \in Nat
  PROVE  /\ WithDelimiter(bps, q) \in Seq(Blueprints(n)) /\ WithDelimiter(bps, q) # <<>>
         /\ Last(WithDelimiter(bps, q)).name = q /\ Last(WithDelimiter(bps, q)).content = <<>>
         /\ Last(bps).content # <<>> =>
              /\ Len(WithDelimiter(bps, q)) = Len(bps) + 1 /\ Last(WithDelimiter(bps, q)).pre = {}
              /\ \A i \in 1 .. Len(bps) : WithDelimiter(bps, q)[i] = bps[i]
         /\ Last(bps).content = <<>> =>
              /\ Len(WithDelimiter(bps, q)) = Len(bps) /\ Last(WithDelimiter(bps, q)).pre = Last(bps).pre
              /\ \A i \in 1 .. Len(bps) - 1 : WithDelimiter(bps, q)[i] = bps[i]
<1> DEFINE L == Len(bps)
           b == bps[L]
           C == Seq(Tokens(n))
           r == WithDelimiter(bps, q)
<1>1. /\ L \in Nat \ {0} /\ DOMAIN bps = 1 .. L /\ L \in 1 .. L
      /\ \A i \in 1 .. L : bps[i] \in Blueprints(n)
      /\ Last(bps) = b /\ b \in Blueprints(n)
  BY BlueprintsAre
<1>2. CASE Last(bps).content # <<>>
  <2> DEFINE e == Blueprint(q)
  <2>1. e \in Blueprints(n) /\ e.name = q /\ e.pre = {} /\ e.content = <<>>
    BY DEF Blueprint, Blueprints
  <2>2. r = Append(bps, e)
    BY <1>2 DEF WithDelimiter
  <2> HIDE DEF e, r
  <2>3. r \in Seq(Blueprints(n)) /\ Len(r) = L + 1 /\ r # <<>> /\ r[L + 1] = e /\ \A i \in 1 .. L : r[i] = bps[i]
    <3> HIDE DEF Blueprints
    <3> QED BY <1>1, <2>1, <2>2
  <2>4. Last(r) = e
    BY <2>3 DEF Last
  <2> QED BY <1>2, <2>1, <2>3, <2>4 DEF r
<1>3. CASE Last(bps).content = <<>>
  <2> DEFINE e == [b EXCEPT !.name = q]
  <2>1. r = [bps EXCEPT ![L] = e]
    BY <1>3 DEF WithDelimiter
  <2>2. b \in [name : Nat, pre : SUBSET Nat, content : C] /\ b.content = <<>>
    BY <1>1, <1>3 DEF Blueprints
  <2> HIDE DEF b, C
  <2>3. e \in [name : Nat, pre : SUBSET Nat, content : C] /\ e.name = q /\ e.pre = b.pre /\ e.content = <<>>
    BY <2>2
  <2>4. e \in Blueprints(n)
    BY <2>3 DEF Blueprints, C
  <2> HIDE DEF e, r, L
  <2>5. DOMAIN r = 1 .. L /\ r[L] = e /\ \A i \in 1 .. L - 1 : r[i] = bps[i]
    <3>1. \A i \in 1 .. L - 1 : i \in 1 .. L /\ i # L
      BY <1>1
    <3> QED BY <1>1, <2>1, <3>1
  <2>6. r \in [1 .. L -> Blueprints(n)]
    <3>1. bps \in [1 .. L -> Blueprints(n)]
      BY <1>1 DEF L
    <3> QED BY <2>1, <2>4, <3>1
  <2>7. r \in Seq(Blueprints(n)) /\ Len(r) = L /\ r # <<>>
    <3> HIDE DEF Blueprints
    <3>1. r \in Seq(Blueprints(n))
      BY <1>1, <2>6
    <3>2. Len(r) = L
      BY <1>1, <2>5, <3>1
    <3> QED BY <1>1, <3>1, <3>2
  <2>8. Last(r) = e
    BY <2>5, <2>7 DEF Last
  <2> QED BY <1>1, <1>3, <2>3, <2>5, <2>7, <2>8 DEF r, L
<1> QED BY <1>2, <1>3

(* The special scripts up to a header are those of the section before it and  *)
(* of the sections before that.                                               *)
LEMMA BetweenNext ==
  ASSUME Known, Reads(file, file', "\n"), reader = "header", NEW low \in Int
  PROVE  /\ low < Newest => Between(file', low, hash) =
              Between(file, low, Newest) \cup Scripts(file, Current, Named)
         /\ Between(file', low, Newest) = Between(file, low, Newest)
         /\ Between(file', Newest, hash) = {}
<1>0. /\ Reads(file, file', "\n") /\ Newest \in Headers(file) /\ Newest \in Nat /\ \A h \in Headers(file) : h \in Nat /\ h <= Newest
      /\ \A i \in DOMAIN file : HeaderMark(file, i) => Header(file, i) \/ i > Newest
  BY KnownSections DEF Known
<1>1. Headers(file') = Headers(file) \cup {hash} /\ Newest < hash /\ hash \in Nat
  BY HeaderEnds, KnownSections
<1>2. Section(file', Newest) = Current /\ Scripts(file', Current, Named) = Scripts(file, Current, Named)
  BY SectionEnds
<1>3. Between(file', low, Newest) = Between(file, low, Newest)
  <2>1. \A h \in Headers(file') : h \in Headers(file) \/ h > Newest
    BY <1>0, <1>1
  <2>2. Newest \in Int /\ Newest <= Newest
    BY <1>0
  <2> QED BY <1>0, <2>1, <2>2, BetweenSettled
<1>4. ASSUME low < Newest
      PROVE  {g \in Headers(file') : low < g /\ g < hash} = {g \in Headers(file') : low < g /\ g < Newest} \cup {Newest}
  <2>1. \A g \in Headers(file') : g < hash <=> g < Newest \/ g = Newest
    BY <1>0, <1>1
  <2> QED BY <1>0, <1>1, <1>4, <2>1
<1>5. low < Newest => Between(file', low, hash) = Between(file, low, Newest) \cup Scripts(file, Current, Named)
  <2> SUFFICES ASSUME low < Newest
               PROVE  Between(file', low, hash) = Between(file, low, Newest) \cup Scripts(file, Current, Named)
    OBVIOUS
  <2> DEFINE A == {g \in Headers(file') : low < g /\ g < hash}
             B == {g \in Headers(file') : low < g /\ g < Newest}
  <2>1. A = B \cup {Newest}
    BY <1>4
  <2>2. Between(file', low, hash) = UNION {Scripts(file', Section(file', h), Named) : h \in A}
        /\ Between(file', low, Newest) = UNION {Scripts(file', Section(file', h), Named) : h \in B}
    BY DEF Between
  <2> HIDE DEF A, B
  <2>3. UNION {Scripts(file', Section(file', h), Named) : h \in A}
          = (UNION {Scripts(file', Section(file', h), Named) : h \in B}) \cup Scripts(file', Section(file', Newest), Named)
    BY <2>1
  <2> QED BY <1>2, <1>3, <2>2, <2>3
<1>6. Between(file', Newest, hash) = {}
  <2>1. \A g \in Headers(file') : ~(Newest < g /\ g < hash)
    BY <1>0, <1>1
  <2> QED BY <2>1 DEF Between
<1> QED BY <1>3, <1>5, <1>6

(* The end of a header finishes a section.                                    *)
LEMMA HeaderIsRead ==
  ASSUME Known, Reads(file, file', "\n"), reader = "header", ReadHeader("\n", Len(file) + 1)
  PROVE  /\ HeadersRead' /\ TextRead' /\ LastRead' /\ Finished'
         /\ requests' \in Seq(Blueprints(Len(file))) /\ requests' # <<>>
<1> DEFINE n == Len(file)
           p == n + 1
           q == hash
           b == TextBefore
           L == Len(requests)
           M == Len(requests')
           C == Content(file', Current)
           Sc == Scripts(file, Current, Named)
<1>0. /\ Reads(file, file', "\n") /\ HeadersRead /\ TextRead /\ LastRead /\ Finished /\ FileType
      /\ n \in Nat /\ p \in Nat /\ Len(file') = p /\ DOMAIN file' = 1 .. p /\ p <= p /\ p <= p + 1
      /\ file'[p] = "\n" /\ p \in 1 .. p
  BY KnownSections DEF Known, Reads
<1>1. /\ requests' = WithDelimiter(b, q) /\ reader' = "consumeWhitespace" /\ escaped' = escaped
  BY DEF ReadHeader, TextBefore
<1>2. /\ Headers(file') = Headers(file) \cup {q} /\ \A i : Header(file', i) <=> Header(file, i) \/ i = q
      /\ Begin(file', q) = n + 2 /\ q \in 1 .. n /\ Newest < q /\ Limit = q - 1
      /\ q \in Nat /\ Newest \in Nat /\ Newest \in Headers(file)
      /\ \A h \in Headers(file) : h \in Nat /\ h <= Newest
      /\ \A i \in DOMAIN file : HeaderMark(file, i) => Header(file, i) \/ i > Newest
  BY HeaderEnds, KnownSections
<1>3. /\ b \in Seq(Blueprints(n)) /\ b # <<>> /\ OnlyLast(b, requests)
      /\ Last(b).pre = Last(requests).pre
      /\ Lists(Payload(file', Last(b)), C)
      /\ Last(b).content # <<>> <=> C # {}
  BY SectionRead
<1>4. /\ Section(file', Newest) = Current /\ Scripts(file', Current, Named) = Sc
      /\ q - 1 \notin Escapes(file, Current)
  BY SectionEnds
<1>5. /\ L \in Nat \ {0} /\ DOMAIN requests = 1 .. L /\ L \in 1 .. L
      /\ \A i \in 1 .. L : requests[i].name \in Nat /\ requests[i].content \in Seq(Tokens(n))
      /\ Last(requests) = requests[L]
  BY <1>0, RequestsTyped
<1>6. /\ requests' \in Seq(Blueprints(n)) /\ requests' # <<>>
      /\ Last(requests').name = q /\ Last(requests').content = <<>>
      /\ Last(b).content # <<>> =>
           /\ Len(requests') = Len(b) + 1 /\ Last(requests').pre = {}
           /\ \A i \in 1 .. Len(b) : requests'[i] = b[i]
      /\ Last(b).content = <<>> =>
           /\ Len(requests') = Len(b) /\ Last(requests').pre = Last(b).pre
           /\ \A i \in 1 .. Len(b) - 1 : requests'[i] = b[i]
  BY <1>1, <1>2, <1>3, DelimiterIs
<1>7. /\ Len(b) = L /\ Last(b) = b[L] /\ b[L].name = Newest /\ requests[L].name = Newest
      /\ \A i \in 1 .. L - 1 : b[i] = requests[i]
  BY <1>3, <1>5 DEF OnlyLast, Newest
<1>8. /\ M \in Nat \ {0} /\ DOMAIN requests' = 1 .. M /\ Last(requests') = requests'[M] /\ M \in 1 .. M
      /\ \A i \in 1 .. M : requests'[i].name \in Nat
  <2> DEFINE r == requests'
  <2>1. r \in Seq(Blueprints(n)) /\ r # <<>>
    BY <1>6
  <2> HIDE DEF r
  <2>2. /\ Len(r) \in Nat \ {0} /\ DOMAIN r = 1 .. Len(r) /\ Last(r) = r[Len(r)] /\ Len(r) \in 1 .. Len(r)
        /\ \A i \in 1 .. Len(r) : r[i].name \in Nat
    BY <2>1, BlueprintsAre
  <2> QED BY <2>2 DEF r
<1>9. Newest' = q
  BY <1>6 DEF Newest
<1> HIDE DEF n, p, q, b, L, M, C, Sc
<1>10. HeadersRead'
  <2>1. q \in Headers(file') /\ \A h \in Headers(file') : h <= q
    BY <1>2
  <2>2. ASSUME NEW i \in DOMAIN file', HeaderMark(file', i) PROVE Header(file', i)
    <3>1. HeaderMark(file, i) /\ i \in DOMAIN file
      BY <1>0, <2>2, MarkGrown DEF HeaderMark, At
    <3>2. Header(file, i) \/ i = q
      BY <1>0, <3>1 DEF HeadersRead, q
    <3> QED BY <1>2, <3>2
  <2>3. ASSUME NEW i \in DOMAIN file', MayBeHeader(file', i) PROVE FALSE
    <3>1. p \in i .. p
      BY <1>0, <2>3
    <3> QED BY <1>0, <2>3, <3>1 DEF MayBeHeader
  <2> QED BY <1>1, <1>9, <2>1, <2>2, <2>3 DEF HeadersRead
<1>11. Limit' = p /\ Current' = {} /\ Pending' = p + 1 /\ ~(InText') /\ Begin(file', Newest') = p + 1
  <2>1. Limit' = p /\ Begin(file', Newest') = p + 1
    BY <1>0, <1>1, <1>2, <1>9 DEF Limit, p, n
  <2>2. Pending' = p + 1 /\ ~(InText')
    BY <1>1, <2>1 DEF Pending, InText
  <2>3. (p + 1) .. p = {}
    BY <1>0
  <2> QED BY <2>1, <2>2, <2>3 DEF Current
<1>12. Kept(file', {}) = {} /\ Escapes(file', {}) = {} /\ Scripts(file', {}, Named) = {}
  <2>1. Kept(file', {}) = {} /\ Scripts(file', {}, Named) = {}
    BY DEF Kept, Scripts
  <2>2. Escapes(file', {}) = {}
    BY DEF Escapes
  <2> QED BY <2>1, <2>2
<1>13. TextRead'
  <2>1. ~escaped
    BY <1>0, <1>2, <1>4 DEF TextRead
  <2>2. Begin(file', Newest') <= Pending' /\ Pending' <= Limit' + 1 /\ \A i \in Pending' .. Limit' : FALSE
    BY <1>0, <1>11
  <2> QED BY <1>1, <1>11, <1>12, <2>1, <2>2 DEF TextRead
<1>14. Since(requests, L) \in Int /\ Since(requests, L) < Newest
       /\ Between(file, Since(requests, L), Newest) \cup Sc = Last(requests).pre
  <2>1. L = 1 => Since(requests, L) \in Int /\ Since(requests, L) < Newest
    BY <1>2 DEF Since
  <2>2. L # 1 => Since(requests, L) \in Int /\ Since(requests, L) < Newest
    <3>1. L # 1 => L - 1 \in 1 .. L /\ L - 1 < L
      BY <1>5
    <3>2. \A i, j \in 1 .. L : i < j => requests[i].name < requests[j].name
      BY <1>0, <1>5 DEF Finished
    <3>3. L # 1 => requests[L - 1].name \in Nat /\ requests[L - 1].name < Newest
      BY <1>5, <1>7, <3>1, <3>2
    <3> QED BY <3>3 DEF Since
  <2>3. Between(file, Since(requests, L), Newest) \cup Sc = Last(requests).pre
    BY <1>0 DEF LastRead, L, Sc
  <2> QED BY <2>1, <2>2, <2>3
<1>15. \A h \in Headers(file') : h \in Headers(file) \/ h > Newest
  BY <1>2
<1>16. ASSUME NEW i \in 1 .. L - 1
       PROVE  /\ IsSection(file', requests[i], Since(requests, i)) /\ requests[i].name < Newest
              /\ i \in 1 .. L
  <2>1. i \in 1 .. L /\ i < L
    BY <1>5, <1>16
  <2>2. IsSection(file, requests[i], Since(requests, i)) /\ requests[i].name < Newest
    <3>1. IsSection(file, requests[i], Since(requests, i))
      BY <1>0 DEF Finished, L
    <3>2. \A j, k \in 1 .. L : j < k => requests[j].name < requests[k].name
      BY <1>0, <1>5 DEF Finished
    <3> QED BY <1>5, <1>7, <2>1, <3>1, <3>2
  <2> DEFINE bp == requests[i]
  <2>3. bp.name < Newest /\ bp.content \in Seq(Tokens(n)) /\ IsSection(file, bp, Since(requests, i))
    BY <1>5, <2>1, <2>2
  <2> HIDE DEF bp
  <2>4. IsSection(file', bp, Since(requests, i))
    BY <1>0, <1>2, <1>15, <2>3, IsSectionSettled DEF n
  <2> QED BY <2>1, <2>2, <2>4 DEF bp
<1>17. ASSUME NEW h \in Headers(file), h < Newest, Content(file', Section(file', h)) # {}
       PROVE  \E i \in 1 .. L - 1 : requests[i].name = h
  <2>1. SettledSection(file, file', h)
    BY <1>0, <1>2, <1>17, SectionsSettled
  <2> QED BY <1>0, <1>17, <2>1 DEF Finished, SettledSection, L
<1>18. /\ \A i \in 1 .. L - 1 : requests'[i] = requests[i] /\ i \in 1 .. M
       /\ C = {} => M = L /\ Last(requests').pre = Last(requests).pre
       /\ C # {} => M = L + 1 /\ Last(requests').pre = {} /\ requests'[L] = b[L]
       /\ requests'[M].name = q
  <2>1. \A i \in 1 .. L - 1 : i \in 1 .. L /\ i \in 1 .. L + 1
    BY <1>5
  <2>2. C = {} => M = L /\ Last(requests').pre = Last(requests).pre /\ \A i \in 1 .. L - 1 : requests'[i] = b[i]
    BY <1>3, <1>6, <1>7 DEF M
  <2>3. C # {} => M = L + 1 /\ Last(requests').pre = {} /\ \A i \in 1 .. L : requests'[i] = b[i]
    BY <1>3, <1>6, <1>7 DEF M
  <2> QED BY <1>5, <1>6, <1>7, <1>8, <2>1, <2>2, <2>3
<1>19. /\ \A i \in 1 .. L : Since(requests', i) = Since(requests, i)
       /\ C # {} => Since(requests', M) = Newest
  <2>1. \A i \in 1 .. L : i # 1 => i - 1 \in 1 .. L - 1
    BY <1>5
  <2>2. \A i \in 1 .. L : Since(requests', i) = Since(requests, i)
    BY <1>18, <2>1 DEF Since
  <2>3. (L + 1) - 1 = L /\ L + 1 # 1
    BY <1>5
  <2> QED BY <1>7, <1>18, <2>2, <2>3 DEF Since
<1>20. LastRead'
  <2>1. Unfinished(file', Current', Pending') = {}
    BY <1>11, <1>12 DEF Unfinished
  <2>2. Payload(file', Last(requests')) = <<>>
    BY <1>6, PayloadEmpty
  <2>3. Last(requests').pre = Between(file', Since(requests', M), q)
    <3>1. CASE C = {}
      <4>1. Between(file', Since(requests, L), q) = Between(file, Since(requests, L), Newest) \cup Sc
        BY <1>14, BetweenNext DEF Sc, q
      <4> QED BY <1>5, <1>14, <1>18, <1>19, <3>1, <4>1
    <3>2. CASE C # {}
      <4>1. Between(file', Newest, q) = {}
        BY <1>14, BetweenNext DEF q
      <4> QED BY <1>18, <1>19, <3>2, <4>1
    <3> QED BY <3>1, <3>2
  <2> QED BY <1>6, <1>9, <1>11, <1>12, <2>1, <2>2, <2>3, ListsEmpty DEF LastRead, M
<1>21. C # {} => IsSection(file', b[L], Since(requests, L))
  <2>1. Between(file', Since(requests, L), Newest) = Between(file, Since(requests, L), Newest)
    BY <1>14, BetweenNext
  <2>2. Newest \in Headers(file')
    BY <1>2
  <2> QED BY <1>3, <1>4, <1>7, <1>14, <2>1, <2>2 DEF IsSection, C
<1>22. Finished'
  <2>1. \A i, j \in 1 .. M : i < j => requests'[i].name < requests'[j].name
    <3>1. \A i \in 1 .. M : i = M \/ i \in 1 .. L - 1 \/ (i = L /\ C # {})
      BY <1>5, <1>8, <1>18
    <3>2. \A i \in 1 .. L - 1 : requests'[i].name < Newest /\ requests'[i].name \in Nat /\ requests'[i].name < q
      <4> TAKE i \in 1 .. L - 1
      <4>1. requests'[i] = requests[i] /\ requests[i].name < Newest /\ requests[i].name \in Nat
        BY <1>5, <1>16, <1>18
      <4> QED BY <1>2, <4>1
    <3>3. \A i, j \in 1 .. L - 1 : i < j => requests'[i].name < requests'[j].name
      BY <1>0, <1>5, <1>16, <1>18 DEF Finished
    <3>4. C # {} => requests'[L].name = Newest
      BY <1>7, <1>18
    <3> SUFFICES ASSUME NEW i \in 1 .. M, NEW j \in 1 .. M, i < j PROVE requests'[i].name < requests'[j].name
      OBVIOUS
    <3>5. i # M
      BY <1>8
    <3>6. CASE i \in 1 .. L - 1
      BY <1>18, <3>1, <3>2, <3>3, <3>4, <3>6
    <3>7. CASE i = L /\ C # {}
      <4>1. j = M
        BY <1>5, <1>18, <3>7
      <4> QED BY <1>2, <1>18, <3>4, <3>7, <4>1
    <3> QED BY <3>1, <3>5, <3>6, <3>7
  <2>2. \A i \in 1 .. M - 1 : IsSection(file', requests'[i], Since(requests', i))
    <3> TAKE i \in 1 .. M - 1
    <3>1. i \in 1 .. L - 1 \/ (i = L /\ C # {})
      BY <1>5, <1>18
    <3>2. CASE i \in 1 .. L - 1
      BY <1>16, <1>18, <1>19, <3>2
    <3>3. CASE i = L /\ C # {}
      BY <1>5, <1>18, <1>19, <1>21, <3>3
    <3> QED BY <3>1, <3>2, <3>3
  <2>3. ASSUME NEW h \in Headers(file'), h < Newest', Content(file', Section(file', h)) # {}
        PROVE  \E i \in 1 .. M - 1 : requests'[i].name = h
    <3>1. h \in Headers(file) /\ (h < Newest \/ h = Newest)
      BY <1>2, <1>9, <2>3
    <3>2. CASE h < Newest
      <4>1. PICK i \in 1 .. L - 1 : requests[i].name = h
        BY <1>17, <2>3, <3>1, <3>2
      <4>2. i \in 1 .. M - 1
        BY <1>5, <1>18
      <4> QED BY <1>18, <4>1, <4>2
    <3>3. CASE h = Newest
      <4>1. C # {}
        BY <1>4, <2>3, <3>3 DEF C
      <4>2. L \in 1 .. M - 1 /\ requests'[L].name = h
        BY <1>5, <1>7, <1>18, <3>3, <4>1
      <4> QED BY <4>2
    <3> QED BY <3>1, <3>2, <3>3
  <2> QED BY <1>8, <2>1, <2>2, <2>3 DEF Finished, M
<1> QED BY <1>6, <1>10, <1>13, <1>20, <1>22 DEF n

(* One more text for the last request. *)
LEMMA TextAdds ==
  ASSUME NEW g, NEW m, requests \in Seq(Blueprints(m)), requests # <<>>,
         NEW t \in Tokens(m), NEW U, NEW T,
         Lists(Payload(g, Last(requests)), U), Lists(ExtractPayload(g, t), T), AllBelow(U, T)
  PROVE  Lists(Payload(g, Last(WithContent(requests, t))), U \cup T)
<1> DEFINE bp == Last(requests)
           d == Last(WithContent(requests, t))
<1>1. bp.content \in Seq(Tokens(m)) /\ d.content = Append(bp.content, t) /\ Lists(Payload(g, bp), U)
  BY BlueprintsAre, WithContentIs
<1> HIDE DEF bp, d
<1>2. Lists(Payload(g, d), U \cup T)
  BY <1>1, PayloadAppend
<1> QED BY <1>2 DEF d

(* The sections are part of the file. *)
LEMMA SectionsInside ==
  ASSUME Known, NEW h \in Headers(file)
  PROVE  /\ Section(file, h) \subseteq DOMAIN file
         /\ h = Newest => Section(file, h) = SectionStart .. Len(file)
<1> DEFINE g == Append(file, "x")
<1>0. Reads(file, g, "x")
  BY ReadsAppend DEF Known, FileType
<1> HIDE DEF g
<1>1. /\ Len(file) \in Nat /\ DOMAIN file = 1 .. Len(file) /\ Newest \in Headers(file) /\ Newest \in Nat
      /\ SectionStart \in Nat \ {0} /\ \A i \in Headers(file) : i \in Nat /\ i <= Newest
  BY KnownSections
<1>2. \A i \in Headers(file) : i \in 0 .. Len(file) /\ Begin(file, i) \in Nat \ {0}
  BY <1>0, BeginSame
<1>3. CASE h = Newest
  <2>1. \A i \in Headers(file) : ~(i > h)
    BY <1>1, <1>3
  <2>2. Section(file, h) = Begin(file, h) .. Len(file)
    BY <2>1, SectionLast
  <2>3. Section(file, h) = SectionStart .. Len(file)
    BY <1>3, <2>2 DEF SectionStart
  <2> QED BY <1>1, <2>3
<1>4. CASE h # Newest
  <2>0. Headers(file) \subseteq Nat
    BY <1>1
  <2>1. Headers(file) \subseteq Nat /\ Newest > h
    <3>1. h \in Nat /\ h <= Newest
      BY <1>1
    <3> QED BY <1>1, <1>4, <2>0, <3>1
  <2>2. PICK q \in Headers(file) : q > h /\ q <= Newest /\ \A i \in Headers(file) : i > h => i >= q
    BY <1>1, <2>1, NextHeader
  <2>3. Section(file, h) = Begin(file, h) .. q - 1
    BY <2>1, <2>2, SectionBefore
  <2>4. Begin(file, h) \in Nat \ {0} /\ q \in 0 .. Len(file)
    BY <1>2
  <2>5. \A i \in Begin(file, h) .. q - 1 : i \in 1 .. Len(file)
    BY <1>1, <2>4
  <2> QED BY <1>1, <1>4, <2>3, <2>5
<1> QED BY <1>3, <1>4

(* What is left of the last section if the file ends here. *)
LEMMA ContentLast ==
  ASSUME Known
  PROVE  Content(file, SectionStart .. Len(file)) = Kept(file, SectionStart .. Len(file))
<1> DEFINE S == SectionStart .. Len(file)
           X == Leading(file, S)
           Y == Escapes(file, S)
           W == Scripts(file, S, Named)
           B == {i \in Blanks(file, S) : Header(file, i + 1)}
           K == Kept(file, S)
           C == Content(file, S)
<1>1. B = {}
  <2>1. /\ Len(file) \in Nat /\ Newest \in Nat /\ SectionStart \in Nat /\ Newest < SectionStart
        /\ \A i : Header(file, i) => i <= Newest
    BY KnownSections
  <2>2. \A i \in S : ~(i + 1 <= Newest)
    BY <2>1
  <2>3. \A i \in Blanks(file, S) : i \in S
    <3> HIDE DEF S
    <3> QED BY DEF Blanks
  <2> QED BY <2>1, <2>2, <2>3
<1>2. C = S \ (X \cup Y \cup W \cup B)
  <2> HIDE DEF S
  <2> QED BY DEF Content
<1>3. K = S \ ((X \cup W) \cup Y)
  <2> HIDE DEF S
  <2> QED BY DEF Kept, Skipped
<1> HIDE DEF X, Y, W, B, K, C, S
<1>4. C = K
  BY <1>1, <1>2, <1>3
<1> QED BY <1>4 DEF C, K, S

(* The whole last section, whose last line is no header if it is read as one. *)
WholeText(S) ==
  /\ Scripts(file, S, Named) = Scripts(file, Current, Named)
  /\ \A i \in start .. Len(file) : i \notin Skipped(file, S)
  /\ Len(file) \notin Escapes(file, S) /\ start - 1 \notin Escapes(file, S)
  /\ hasEscapes \/ \A i \in start .. Len(file) : i \notin Escapes(file, S)
  /\ Unfinished(file, Current, start) = {i \in Kept(file, S) : i < start}

(* If the file ends in a text, outside of a header. *)
LEMMA OpenText ==
  ASSUME Known, InText, ~Dangling, reader # "header"
  PROVE  WholeText(SectionStart .. Len(file))
<1>1. Len(file) \in Nat /\ Limit = Len(file) /\ Current = SectionStart .. Len(file) /\ Pending = start
  BY KnownSections, KnownLimit DEF Current, SectionStart, Pending
<1>2. ~escaped
  BY KnownEscaped DEF Dangling, InText
<1> QED BY <1>1, <1>2 DEF Known, TextRead, Unfinished, WholeText

(* If it ends in a line that begins like a header and has no script or escape *)
(* in it: then that line is text, and no place of it is special.              *)
LEMMA OpenLine ==
  ASSUME Known, ~OpenHeader, reader = "header"
  PROVE  WholeText(SectionStart .. Len(file))
<1> DEFINE n == Len(file)
           q == hash
           a == SectionStart
           S == a .. n
           D == Current
           E == Escapes(file, S)
           B == S \ Scripts(file, S, Named)
<1>0. /\ n \in Nat /\ q \in 1 .. n /\ a \in Nat \ {0} /\ start \in Nat /\ a <= start /\ start <= q
      /\ Limit = q - 1 /\ D = a .. q - 1 /\ Pending = start /\ InText /\ TextRead /\ HeadersRead
      /\ DOMAIN file = 1 .. n
  <2>1. n \in Nat /\ a \in Nat \ {0} /\ start \in Nat /\ q \in 1 .. n /\ Limit = q - 1 /\ TextRead /\ HeadersRead
        /\ DOMAIN file = 1 .. n
    BY KnownSections, KnownLimit DEF Known
  <2>2. InText /\ Pending = start /\ D = a .. q - 1
    BY <2>1 DEF InText, Pending, Current, SectionStart
  <2>3. a <= start /\ start <= q
    BY <2>1, <2>2 DEF TextRead, HeadersRead, SectionStart
  <2> QED BY <2>1, <2>2, <2>3
<1>1. \A i \in q .. n : ~At(file, i, "\\") /\ ~At(file, i, Named) /\ ~At(file, i, Inline)
  <2>1. HeaderMark(file, q) /\ ~Header(file, q)
    BY <1>0 DEF HeadersRead, Header
  <2>2. q \in DOMAIN file
    BY <1>0
  <2>3. \A i \in q .. n : file[i] \notin {"\\", Named, Inline}
    BY <2>1, <2>2 DEF OpenHeader
  <2> QED BY <2>3 DEF At
<1>2. E \subseteq S /\ \A i \in E : At(file, i, "\\")
  <2> HIDE DEF n
  <2> QED BY <1>0, EscapesDef
<1>3. CutFrom(file, D, file, S)
  <2> DEFINE b == q - 1
  <2>1. b \in Nat /\ b <= n /\ \A i \in a .. b : i \in 1 .. n
    BY <1>0
  <2>2. SameText(file, file, a, b)
    BY <1>0, <2>1 DEF SameText
  <2> HIDE DEF b, a, D, n
  <2>3. CutFrom(file, a .. b, file, a .. n)
    BY <1>0, <2>1, <2>2, SectionCut
  <2> QED BY <1>0, <2>3 DEF b
<1>4. \A i \in S : i \in D \/ i \in q .. n
  BY <1>0
<1>5. \A i \in q .. n : i \notin E /\ i \notin Scripts(file, S, Named)
  <2>1. \A i \in Scripts(file, S, Named) : At(file, i, Named)
    BY DEF Scripts
  <2> QED BY <1>1, <1>2, <2>1
<1>6. \A i \in q .. n : i \notin Leading(file, S)
  <2> SUFFICES ASSUME NEW i \in q .. n, NEW j \in S, j <= i, j .. i \subseteq Blanks(file, S), j - 1 \notin B
               PROVE  FALSE
    <3> HIDE DEF S
    <3> QED BY DEF Leading, B
  <2>1. q \notin Blanks(file, S)
    <3>1. At(file, q, "#")
      BY <1>0 DEF HeadersRead, HeaderMark
    <3>2. file[q] \notin Whitespace
      BY <3>1 DEF At, Whitespace
    <3> QED BY <3>2 DEF Blanks
  <2>2. j > q
    <3>1. ~(j <= q)
      <4>1. j <= q => q \in j .. i
        BY <1>0
      <4> QED BY <2>1, <4>1
    <3> QED BY <1>0, <3>1
  <2>3. j - 1 \in q .. n /\ j - 1 \in S
    BY <1>0, <2>2
  <2> QED BY <1>5, <2>3
<1>7. Scripts(file, S, Named) \subseteq S /\ Kept(file, S) \subseteq S
  <2>1. \A X : Scripts(file, X, Named) \subseteq X /\ Kept(file, X) \subseteq X
    BY DEF Scripts, Kept
  <2> QED BY <2>1
<1>8. /\ \A i \in start .. q - 1 : i \notin Skipped(file, D)
      /\ start - 1 \notin Escapes(file, D)
      /\ hasEscapes \/ \A i \in start .. q - 1 : i \notin Escapes(file, D)
  BY <1>0 DEF TextRead
<1>9. /\ D \subseteq S /\ Escapes(file, D) = E \cap D /\ Kept(file, D) = Kept(file, S) \cap D
      /\ Skipped(file, D) = Skipped(file, S) \cap D
      /\ Scripts(file, D, Named) = Scripts(file, S, Named) \cap D
  BY <1>3 DEF CutFrom
<1>10. \A i \in q .. n : i \notin Skipped(file, S)
  BY <1>5, <1>6 DEF Skipped
<1> HIDE DEF S, D, E, B, n, q, a
<1>11. /\ Scripts(file, S, Named) = Scripts(file, D, Named)
       /\ n \notin E
  <2>1. n \in q .. n
    BY <1>0
  <2> QED BY <1>4, <1>5, <1>7, <1>9, <2>1
<1>12. \A i \in start .. n : (i \in start .. q - 1 /\ i \in D) \/ i \in q .. n
  BY <1>0
<1>13. \A i \in start .. n : i \notin Skipped(file, S)
  BY <1>8, <1>9, <1>10, <1>12
<1>14. start - 1 \notin E
  <2>1. start - 1 \in S => start - 1 \in D
    BY <1>0 DEF S
  <2> QED BY <1>2, <1>8, <1>9, <2>1
<1>15. hasEscapes \/ \A i \in start .. n : i \notin E
  BY <1>5, <1>8, <1>9, <1>12
<1>16. Unfinished(file, D, start) = {i \in Kept(file, S) : i < start}
  <2>1. \A i \in S : i < start => i \in D
    BY <1>0 DEF S
  <2>2. {i \in Kept(file, D) : i < start} = {i \in Kept(file, S) : i < start}
    BY <1>7, <1>9, <2>1
  <2> QED BY <2>2 DEF Unfinished
<1> QED BY <1>11, <1>13, <1>14, <1>15, <1>16 DEF WholeText, S, D, E, n, a

(* What ParseRequestBlueprints would return if the file ended here. *)
Ended == IF InText THEN WithContent(requests, Text(start, Len(file) + 1)) ELSE requests

(* They are still blueprints of the text. *)
LEMMA EndedIs ==
  ASSUME Known
  PROVE  /\ Ended \in Seq(Blueprints(Len(file))) /\ Ended # <<>> /\ OnlyLast(Ended, requests)
         /\ Last(Ended).pre = Last(requests).pre
         /\ InText => Text(start, Len(file) + 1) \in Tokens(Len(file))
<1>1. requests \in Seq(Blueprints(Len(file))) /\ requests # <<>> /\ OnlyLast(requests, requests)
  BY KnownBlueprints
<1>2. InText => Text(start, Len(file) + 1) \in Tokens(Len(file))
  <2> SUFFICES ASSUME InText PROVE Text(start, Len(file) + 1) \in Tokens(Len(file))
    OBVIOUS
  <2>1. start \in Nat /\ Len(file) \in Nat /\ SectionStart \in Nat \ {0} /\ hasEscapes \in BOOLEAN
    BY KnownSections DEF Known, FileType
  <2>2. SectionStart <= start /\ start <= Len(file)
    BY DEF Known, TextRead, SectionStart, Pending
  <2> QED BY <2>1, <2>2 DEF Text, Tokens
<1> QED BY <1>1, <1>2, WithContentIs DEF Ended

(* The last request is then that of the last section. *)
LEMMA LastEnded ==
  ASSUME Known, ~(InText /\ Dangling), ~OpenHeader, Last(Ended).content # <<>>
  PROVE  IsSection(file, Last(Ended), Since(requests, Len(requests)))
<1> DEFINE n == Len(file)
           S == SectionStart .. n
           K == Kept(file, S)
           E == Escapes(file, S)
           U == Unfinished(file, Current, start)
           t == Text(start, n + 1)
<1>0. /\ n \in Nat /\ Newest \in Headers(file) /\ SectionStart \in Nat \ {0} /\ start \in Nat /\ LastRead /\ TextRead
      /\ DOMAIN file = 1 .. n
  BY KnownSections DEF Known
<1>1. Section(file, Newest) = S /\ Content(file, S) = K
  BY <1>0, SectionsInside, ContentLast
<1>2. Last(Ended).name = Newest /\ Last(Ended).pre = Last(requests).pre
  BY EndedIs, RequestsTyped DEF OnlyLast, Newest, Known
<1>3. CASE ~InText
  <2>1. Ended = requests /\ Limit = n /\ Pending = n + 1 /\ Current = S
    BY <1>0, <1>3, KnownLimit DEF Ended, InText, Pending, Current, SectionStart
  <2>2. Unfinished(file, Current, Pending) = K
    <3>1. \A i \in S : i < n + 1
      BY <1>0
    <3> QED BY <2>1, <3>1 DEF Unfinished, Kept
  <2>3. Lists(Payload(file, Last(Ended)), K) /\ K # {} /\ Scripts(file, S, Named) = Scripts(file, Current, Named)
    BY <1>0, <2>1, <2>2 DEF LastRead
  <2> HIDE DEF K, S
  <2> QED BY <1>0, <1>1, <1>2, <2>3 DEF IsSection, LastRead
<1>4. CASE InText
  <2>1. WholeText(S)
    BY <1>4, OpenText, OpenLine
  <2>2. Ended = WithContent(requests, t) /\ t \in Tokens(n)
    BY <1>4, EndedIs DEF Ended
  <2>3. requests \in Seq(Blueprints(n)) /\ requests # <<>> /\ Lists(Payload(file, Last(requests)), U)
    BY <1>0, <1>4, KnownBlueprints DEF LastRead, Pending
  <2>4. SectionStart <= start /\ start <= n
    BY <1>0, <1>4 DEF TextRead, Pending, SectionStart
  <2>5. E \subseteq S /\ \A i \in S : i \in E <=> At(file, i, "\\") /\ i - 1 \notin E
    <3> HIDE DEF n
    <3> QED BY <1>0, EscapesDef
  <2>6. t.from = start /\ t.to = n + 1 /\ t.escapes = hasEscapes
    BY DEF Text
  <2>7. EscapesIn(file, t.from, t.to, E) /\ (t.escapes \/ \A i \in t.from .. t.to - 1 : i \notin E)
        /\ n \notin E
    <3>1. \A i \in start .. (n + 1) - 1 : i \in start .. n /\ i \in S
      BY <1>0, <2>4
    <3> HIDE DEF S, E, n, t
    <3>2. start - 1 \notin E /\ n \notin E /\ (hasEscapes \/ \A i \in start .. n : i \notin E)
      BY <2>1 DEF WholeText, E, n
    <3> QED BY <2>5, <2>6, <3>1, <3>2 DEF EscapesIn
  <2> HIDE DEF t
  <2>8. Lists(ExtractPayload(file, t), Unescaped(start, n + 1, E))
    <3> HIDE DEF E, n
    <3> QED BY <2>2, <2>6, <2>7, ExtractPayloadLists
  <2>9. U = {i \in K : i < start}
    BY <2>1 DEF WholeText
  <2>10. AllBelow(U, Unescaped(start, n + 1, E))
    <3>1. \A y \in Unescaped(start, n + 1, E) : y \in Nat /\ y >= start
      BY <1>0 DEF Unescaped
    <3>2. \A x \in U : x \in Nat /\ x < start
      <4>1. \A x \in S : x \in Nat
        BY <1>0
      <4>2. K \subseteq S
        BY DEF Kept
      <4> QED BY <2>9, <4>1, <4>2
    <3> HIDE DEF U, E
    <3> QED BY <1>0, <3>1, <3>2 DEF AllBelow
  <2>11. Lists(Payload(file, Last(Ended)), U \cup Unescaped(start, n + 1, E))
    <3> HIDE DEF U, E, n
    <3> QED BY <2>2, <2>3, <2>8, <2>10, TextAdds
  <2>12. \A i \in S : i \in Nat /\ (i < start \/ i \in start .. n)
    BY <1>0
  <2>13. (n + 1) - 1 = n /\ n \in start .. n /\ \A i \in start .. n : i \in S
    BY <1>0, <2>4
  <2> HIDE DEF U, E, K, S, n
  <2>14. Unescaped(start, n + 1, E) = (start .. n) \ E
    BY <2>7, <2>13 DEF Unescaped
  <2>15. \A i \in start .. n : i \in K <=> i \notin E
    BY <2>1, <2>13 DEF WholeText, K, Kept, E, n
  <2>16. K \subseteq S
    BY DEF K, Kept
  <2>17. U \cup Unescaped(start, n + 1, E) = K
    BY <2>9, <2>12, <2>14, <2>15, <2>16
  <2>18. K # {}
    BY <2>7, <2>13, <2>15
  <2> QED BY <1>0, <1>1, <1>2, <2>1, <2>11, <2>17, <2>18 DEF IsSection, LastRead, WholeText
<1> QED BY <1>3, <1>4

(* Sections and their requests. *)
LEMMA SectionPayload ==
  ASSUME Known, NEW bp, NEW since, IsSection(file, bp, since)
  PROVE  ToSet(Payload(file, bp)) \subseteq DOMAIN file
<1>1. bp.name \in Headers(file) /\ ToSet(Payload(file, bp)) = Content(file, Section(file, bp.name))
  BY DEF IsSection, Lists, InOrder
<1>2. Content(file, Section(file, bp.name)) \subseteq Section(file, bp.name)
  <2> DEFINE S == Section(file, bp.name)
  <2> HIDE DEF S
  <2>1. Content(file, S) \subseteq S
    BY DEF Content
  <2> QED BY <2>1 DEF S
<1> QED BY <1>1, <1>2, SectionsInside

(* Unescaping never reads behind the end of the file. *)
LEMMA PayloadsInside ==
  ASSUME Known, ~(InText /\ Dangling)
  PROVE  \A i \in DOMAIN Ended : ToSet(Payload(file, Ended[i])) \subseteq DOMAIN file
<1> DEFINE n == Len(file)
           L == Len(requests)
           U == Unfinished(file, Current, Pending)
<1>0. /\ n \in Nat /\ DOMAIN file = 1 .. n /\ start \in Nat /\ SectionStart \in Nat \ {0}
      /\ Limit \in Nat /\ Limit <= n /\ LastRead /\ TextRead /\ Finished
  BY KnownSections, KnownLimit DEF Known
<1>1. /\ Ended \in Seq(Blueprints(n)) /\ Ended # <<>> /\ OnlyLast(Ended, requests)
      /\ InText => Text(start, n + 1) \in Tokens(n)
  BY EndedIs
<1>2. L \in Nat \ {0} /\ DOMAIN Ended = 1 .. L /\ Last(Ended) = Ended[L]
      /\ \A i \in 1 .. L - 1 : Ended[i] = requests[i]
  BY <1>1, RequestsTyped DEF Known, OnlyLast
<1>3. ASSUME NEW i \in 1 .. L - 1 PROVE ToSet(Payload(file, Ended[i])) \subseteq DOMAIN file
  <2>1. IsSection(file, requests[i], Since(requests, i))
    BY <1>0 DEF Finished
  <2> QED BY <1>2, <2>1, SectionPayload
<1>4. U \subseteq DOMAIN file /\ \A x \in U : x < Pending
  <2>1. Current \subseteq 1 .. n
    BY <1>0 DEF Current, SectionStart
  <2> QED BY <1>0, <2>1 DEF Unfinished, Kept
<1>5. ToSet(Payload(file, Last(Ended))) \subseteq DOMAIN file
  <2>1. CASE ~InText
    <3>1. Last(Ended) = Last(requests)
      BY <2>1 DEF Ended
    <3>2. ToSet(Payload(file, Last(requests))) = U
      BY <1>0 DEF LastRead, Lists, InOrder
    <3> QED BY <1>4, <3>1, <3>2
  <2>2. CASE InText /\ reader # "header"
    <3>1. ~OpenHeader
      <4>1. \A i \in DOMAIN file : HeaderMark(file, i) => Header(file, i)
        BY <2>2 DEF Known, HeadersRead
      <4> QED BY <4>1 DEF OpenHeader
    <3>2. Last(Ended).content # <<>>
      BY <1>1, <2>2, KnownBlueprints, WithContentIs DEF Ended
    <3>3. IsSection(file, Last(Ended), Since(requests, L))
      BY <2>2, <3>1, <3>2, LastEnded
    <3> QED BY <3>3, SectionPayload
  <2>3. CASE InText /\ reader = "header"
    <3> DEFINE t == Text(start, n + 1)
               to == n + 1
               E == Escapes(file, start .. to)
               T == IF t.escapes THEN Unescaped(start, to, E) ELSE start .. n
    <3>1. t \in Tokens(n) /\ t.from = start /\ t.to = to
      BY <1>1, <2>3 DEF Text
    <3>2. start \in Nat \ {0} /\ to \in Nat /\ start < to /\ to - 1 = n /\ Pending = start
      BY <1>0, <2>3, <3>1 DEF Tokens, Pending
    <3>3. EscapesIn(file, start, to, E)
      <4> HIDE DEF to
      <4> QED BY <3>2, EscapesAlone
    <3>4. n \notin E
      <4>1. ~At(file, n, "\\")
        BY <2>3 DEF Dangling
      <4>2. n \in start .. to - 1 /\ to - 1 = n
        BY <1>0, <3>2
      <4> HIDE DEF to, E
      <4> QED BY <3>3, <4>1, <4>2 DEF EscapesIn
    <3> HIDE DEF t
    <3>5. Lists(ExtractPayload(file, t), T)
      <4>1. CASE t.escapes
        <5>1. Lists(EscapePayload(file, t), Unescaped(start, to, E))
          <6> HIDE DEF to, E
          <6> QED BY <3>1, <3>2, <3>3, EscapePayloadLists
        <5> QED BY <4>1, <5>1 DEF ExtractPayload
      <4>2. CASE ~t.escapes
        <5>1. ExtractPayload(file, t) = [i \in 1 .. to - start |-> start + i - 1]
          BY <3>1, <4>2 DEF ExtractPayload
        <5>2. Lists([i \in 1 .. to - start |-> start + i - 1], start .. to - 1)
          <6> HIDE DEF to
          <6>1. start \in Nat /\ start <= to
            BY <3>2
          <6> QED BY <3>2, <6>1, ListsInterval
        <5> QED BY <3>2, <4>2, <5>1, <5>2
      <4> QED BY <4>1, <4>2
    <3>6. T \subseteq start .. n
      <4> HIDE DEF to, E
      <4> QED BY <3>2, <3>4 DEF Unescaped
    <3> HIDE DEF T
    <3>7. AllBelow(U, T)
      <4>1. \A y \in T : y \in Nat /\ y >= start
        BY <3>2, <3>6
      <4>2. \A x \in U : x \in Nat /\ x < start
        BY <1>0, <1>4, <3>2
      <4> HIDE DEF U
      <4> QED BY <3>2, <4>1, <4>2 DEF AllBelow
    <3>8. Lists(Payload(file, Last(requests)), U)
      BY <1>0 DEF LastRead
    <3>9. Lists(Payload(file, Last(WithContent(requests, t))), U \cup T)
      <4> HIDE DEF U, n
      <4> QED BY <3>1, <3>5, <3>7, <3>8, KnownBlueprints, TextAdds DEF n
    <3>10. Ended = WithContent(requests, t)
      BY <2>3 DEF Ended, t
    <3>11. ToSet(Payload(file, Last(Ended))) = U \cup T
      BY <3>9, <3>10 DEF Lists, InOrder
    <3>12. T \subseteq DOMAIN file
      BY <1>0, <3>2, <3>6
    <3> HIDE DEF U
    <3> QED BY <1>4, <3>11, <3>12
  <2> QED BY <2>1, <2>2, <2>3
<1>6. \A i \in 1 .. L : i = L \/ i \in 1 .. L - 1
  BY <1>2
<1> QED BY <1>2, <1>3, <1>5, <1>6

(* So what the parser makes of a file is what its sections are. *)
LEMMA SectionsAreRead ==
  ASSUME FileInv
  PROVE  RequestsAreSections
<1>1. CASE Outcome = <<>>
  <2>1. DOMAIN Outcome = {}
    BY <1>1
  <2> QED BY <1>1, <2>1 DEF RequestsAreSections
<1>2. CASE Outcome # <<>>
  <2> DEFINE L == Len(requests)
             bps == Ended
             filled == {h \in Headers(file) : Content(file, Section(file, h)) # {}}
             names == [i \in DOMAIN bps |-> bps[i].name]
             since(i) == IF i = 1 THEN -1 ELSE bps[i - 1].name
  <2>1. Known /\ ~(InText /\ Dangling) /\ Last(Ended).content # <<>> /\ Outcome = Ended
    <3>1. ~err /\ ~(InText /\ Dangling) /\ Last(Ended).content # <<>> /\ Outcome = Ended
      BY <1>2 DEF Outcome, Ended
    <3> QED BY <3>1 DEF FileInv, Known
  <2>2. \A i \in DOMAIN bps : ToSet(Payload(file, bps[i])) \subseteq DOMAIN file
    BY <2>1, PayloadsInside
  <2>3. ASSUME ~OpenHeader
        PROVE  /\ InOrder(names, filled)
               /\ \A i \in DOMAIN bps :
                    /\ InOrder(Payload(file, bps[i]), Content(file, Section(file, bps[i].name)))
                    /\ bps[i].pre = UNION {Scripts(file, Section(file, h), Named) :
                                      h \in {g \in Headers(file) : since(i) < g /\ g <= bps[i].name}}
    <3>1. /\ Ended \in Seq(Blueprints(Len(file))) /\ Ended # <<>> /\ OnlyLast(Ended, requests)
      BY <2>1, EndedIs
    <3>2. /\ L \in Nat \ {0} /\ DOMAIN bps = 1 .. L /\ Last(bps) = bps[L] /\ L \in 1 .. L
          /\ \A i \in 1 .. L : bps[i].name \in Nat
          /\ \A i \in 1 .. L - 1 : bps[i] = requests[i]
          /\ bps[L].name = requests[L].name /\ requests[L].name = Newest
          /\ DOMAIN requests = 1 .. L
      <4>1. L \in Nat \ {0} /\ DOMAIN requests = 1 .. L /\ requests[L].name = Newest /\ L \in 1 .. L
        BY <2>1, RequestsTyped DEF Known, Newest
      <4>2. \A i \in 1 .. Len(Ended) : Ended[i].name \in Nat
        BY <3>1, BlueprintsAre
      <4> QED BY <3>1, <4>1, <4>2 DEF OnlyLast
    <3>3. /\ Headers(file) \subseteq Nat /\ \A h \in Headers(file) : h <= Newest
          /\ Finished /\ Newest \in Nat
      BY <2>1, KnownSections DEF Known
    <3> HIDE DEF bps
    <3>4. \A i \in 1 .. L : bps[i].name = requests[i].name
      <4> HIDE DEF L
      <4>1. \A i \in 1 .. L : i = L \/ i \in 1 .. L - 1
        BY <3>2
      <4> QED BY <3>2, <4>1
    <3>5. \A i \in 1 .. L : since(i) = Since(requests, i)
      <4>1. \A i \in 1 .. L : i # 1 => i - 1 \in 1 .. L
        BY <3>2
      <4> QED BY <3>4, <4>1 DEF Since
    <3>6. \A i \in 1 .. L : IsSection(file, bps[i], since(i))
      <4> TAKE i \in 1 .. L
      <4>1. i = L \/ i \in 1 .. L - 1
        BY <3>2
      <4>2. CASE i = L
        <5>1. IsSection(file, Last(bps), Since(requests, L))
          BY <2>1, <2>3, LastEnded DEF bps
        <5> QED BY <3>2, <3>5, <4>2, <5>1
      <4>3. CASE i \in 1 .. L - 1
        <5>1. IsSection(file, requests[i], Since(requests, i))
          BY <3>3, <4>3 DEF Finished
        <5> QED BY <3>2, <3>5, <4>3, <5>1
      <4> QED BY <4>1, <4>2, <4>3
    <3>7. \A i, j \in 1 .. L : i < j => bps[i].name < bps[j].name
      BY <3>2, <3>3, <3>4 DEF Finished
    <3>8. \A i \in 1 .. L : since(i) < bps[i].name /\ since(i) \in Int
      <4> TAKE i \in 1 .. L
      <4>1. i # 1 => i - 1 \in 1 .. L /\ i - 1 < i
        BY <3>2
      <4>2. i # 1 => bps[i - 1].name < bps[i].name /\ bps[i - 1].name \in Nat
        BY <3>2, <3>7, <4>1
      <4>3. bps[i].name \in Nat
        BY <3>2
      <4> QED BY <4>2, <4>3
    <3>9. InOrder(names, filled)
      <4>1. DOMAIN names = 1 .. L /\ \A i \in 1 .. L : names[i] = bps[i].name
        BY <3>2
      <4>2. \A i \in 1 .. L : names[i] \in filled
        BY <3>6, <4>1 DEF IsSection
      <4>3. ASSUME NEW h \in filled PROVE \E i \in 1 .. L : names[i] = h
        <5>1. h \in Headers(file) /\ (h = Newest \/ h < Newest)
          BY <3>3
        <5>2. CASE h = Newest
          BY <3>2, <4>1, <5>2
        <5>3. CASE h < Newest
          <6>1. PICK i \in 1 .. L - 1 : requests[i].name = h
            BY <3>3, <5>1, <5>3 DEF Finished
          <6>2. i \in 1 .. L
            BY <3>2
          <6> QED BY <3>2, <4>1, <6>1, <6>2
        <5> QED BY <5>1, <5>2, <5>3
      <4> HIDE DEF names, filled
      <4> QED BY <3>7, <4>1, <4>2, <4>3 DEF InOrder, ToSet
    <3>10. ASSUME NEW i \in 1 .. L
           PROVE  /\ InOrder(Payload(file, bps[i]), Content(file, Section(file, bps[i].name)))
                  /\ bps[i].pre = UNION {Scripts(file, Section(file, h), Named) :
                                    h \in {g \in Headers(file) : since(i) < g /\ g <= bps[i].name}}
      <4> DEFINE low == since(i)
                 h0 == bps[i].name
                 A == {g \in Headers(file) : low < g /\ g <= h0}
                 B == {g \in Headers(file) : low < g /\ g < h0}
                 Sc(h) == Scripts(file, Section(file, h), Named)
      <4>1. /\ low < h0 /\ low \in Int /\ h0 \in Nat /\ h0 \in Headers(file)
            /\ bps[i].pre = Between(file, low, h0) \cup Sc(h0)
            /\ InOrder(Payload(file, bps[i]), Content(file, Section(file, h0)))
        BY <3>2, <3>6, <3>8 DEF IsSection, Lists
      <4>2. Between(file, low, h0) = UNION {Sc(h) : h \in B}
        BY DEF Between
      <4> HIDE DEF low, h0, Sc
      <4>3. A = B \cup {h0}
        <5>1. \A g \in Headers(file) : g \in Nat /\ (g <= h0 <=> g < h0 \/ g = h0)
          BY <3>3, <4>1
        <5> QED BY <4>1, <5>1
      <4> HIDE DEF A, B
      <4>4. UNION {Sc(h) : h \in A} = (UNION {Sc(h) : h \in B}) \cup Sc(h0)
        BY <4>3
      <4>5. bps[i].pre = UNION {Sc(h) : h \in A}
        BY <4>1, <4>2, <4>4
      <4> QED BY <4>1, <4>5 DEF low, h0, A, Sc
    <3> QED BY <3>2, <3>9, <3>10
  <2> HIDE DEF bps
  <2>4. Outcome = bps
    BY <2>1 DEF bps
  <2> QED BY <2>2, <2>3, <2>4 DEF RequestsAreSections
<1> QED BY <1>1, <1>2

(* The blueprints after a step are blueprints of the longer text. *)
LEMMA StepBlueprints ==
  ASSUME NEW c, Known, Reads(file, file', c), ReadByte(c)
  PROVE  requests' \in Seq(Blueprints(Len(file) + 1)) /\ requests' # <<>>
<1> DEFINE n == Len(file)
           p == n + 1
<1>0. /\ n \in Nat /\ p \in Nat \ {0} /\ requests \in Seq(Blueprints(n)) /\ requests # <<>>
      /\ Seq(Blueprints(n)) \subseteq Seq(Blueprints(p))
  BY KnownSections, KnownBlueprints, TokensMore
<1>1. reader \in {"consumeWhitespace", "lexToken", "parseText", "parseDelimiter", "header"}
  BY DEF Known, FileType
<1>2. ASSUME requests' = requests PROVE requests' \in Seq(Blueprints(p)) /\ requests' # <<>>
  BY <1>0, <1>2
<1>3. ASSUME NEW bps \in Seq(Blueprints(n)), bps # <<>>, c \in {Named, Inline}, ReadScript(c, p, bps)
      PROVE  requests' \in Seq(Blueprints(p)) /\ requests' # <<>>
  <2>1. bps \in Seq(Blueprints(p))
    BY <1>0
  <2> HIDE DEF p
  <2> QED BY <1>0, <1>3, <2>1, ScriptTokens
<1>4. ASSUME ReadToken(c, p) PROVE requests' \in Seq(Blueprints(p)) /\ requests' # <<>>
  BY <1>0, <1>2, <1>3, <1>4 DEF ReadToken
<1>5. ASSUME ReadText(c, p), InText PROVE requests' \in Seq(Blueprints(p)) /\ requests' # <<>>
  <2>1. CASE ~escaped /\ c \in {Named, Inline}
    <3>1. ReadScript(c, p, WithContent(requests, Text(start, p)))
      BY <1>5, <2>1, NotScript DEF ReadText
    <3>2. Text(start, p) \in Tokens(n)
      BY <1>5, EndedIs
    <3>3. WithContent(requests, Text(start, p)) \in Seq(Blueprints(n)) /\ WithContent(requests, Text(start, p)) # <<>>
      BY <1>0, <3>2, WithContentIs
    <3> QED BY <1>3, <2>1, <3>1, <3>3
  <2>2. CASE escaped \/ c \notin {Named, Inline}
    <3>1. requests' = requests
      BY <1>5, <2>2 DEF ReadText
    <3> QED BY <1>2, <3>1
  <2> QED BY <2>1, <2>2
<1>6. CASE reader = "consumeWhitespace"
  <2>1. requests' = requests \/ ReadToken(c, p)
    BY <1>6 DEF ReadByte, ConsumeWhitespace
  <2> QED BY <1>2, <1>4, <2>1
<1>7. CASE reader = "lexToken"
  BY <1>4, <1>7 DEF ReadByte
<1>8. CASE reader = "parseText"
  BY <1>5, <1>8 DEF ReadByte, InText
<1>9. CASE reader = "parseDelimiter"
  <2>1. requests' = requests \/ ReadText(c, p)
    BY <1>9 DEF ReadByte, ReadHash
  <2> QED BY <1>2, <1>5, <1>9, <2>1 DEF InText
<1>10. CASE reader = "header"
  <2>1. ReadHeader(c, p)
    BY <1>10 DEF ReadByte
  <2>2. CASE c = "\n"
    BY <1>0, <1>10, <2>1, <2>2, HeaderIsRead
  <2>3. CASE c # "\n"
    BY <1>2, <2>1, <2>3 DEF ReadHeader
  <2> QED BY <2>2, <2>3
<1> QED BY <1>1, <1>6, <1>7, <1>8, <1>9, <1>10

(* Every step keeps the types. *)
LEMMA StepTypes ==
  ASSUME NEW c, c \in bound.chars, Known, ReadByte(c)
  PROVE  FileType' /\ Reads(file, file', c) /\ file' = Append(file, c)
<1> DEFINE X == UNION {b.chars : b \in Files}
           p == Len(file) + 1
<1>0. /\ FileType /\ Len(file) \in Nat
  BY KnownSections DEF Known
<1>1. file \in Seq(X) /\ c \in X /\ file' = Append(file, c) /\ bound' = bound
  BY <1>0 DEF FileType, ReadByte
<1> HIDE DEF X
<1>2. Reads(file, file', c) /\ file' \in Seq(X) /\ Len(file') = Len(file) + 1
  BY <1>1, ReadsAppend
<1>3. requests' \in Seq(Blueprints(Len(file'))) /\ requests' # <<>>
  BY <1>2, StepBlueprints
<1>4. /\ start \in Nat /\ escaped \in BOOLEAN /\ hasEscapes \in BOOLEAN /\ hash \in Nat /\ err \in BOOLEAN
      /\ p \in Nat /\ reader \in {"consumeWhitespace", "lexToken", "parseText", "parseDelimiter", "header"}
  BY <1>0 DEF FileType
<1> DEFINE Typed == /\ reader' \in {"consumeWhitespace", "lexToken", "parseText", "parseDelimiter", "header"}
                    /\ start' \in Nat /\ escaped' \in BOOLEAN /\ hasEscapes' \in BOOLEAN /\ hash' \in Nat
                    /\ err' \in BOOLEAN
<1> HIDE DEF p
<1>5. ASSUME NEW bps, ReadScript(c, p, bps) PROVE Typed
  <2>1. UNCHANGED <<start, escaped, hasEscapes, hash>>
    BY <1>5 DEF ReadScript
  <2>2. CASE c = Named
    BY <1>4, <1>5, <2>1, <2>2 DEF ReadScript
  <2>3. CASE c # Named
    BY <1>4, <1>5, <2>1, <2>3 DEF ReadScript
  <2> QED BY <2>2, <2>3
<1>6. ASSUME ReadToken(c, p) PROVE Typed
  <2>1. CASE c \in {Named, Inline}
    BY <1>5, <1>6, <2>1 DEF ReadToken
  <2>2. CASE c \notin {Named, Inline}
    <3>1. /\ start' = p /\ UNCHANGED <<requests, err>> /\ escaped' = (c = "\\") /\ hasEscapes' = (c = "\\")
          /\ IF c = "#" THEN hash' = p /\ reader' = "parseDelimiter"
                        ELSE UNCHANGED hash /\ reader' = "parseText"
      BY <1>6, <2>2 DEF ReadToken
    <3>2. escaped' \in BOOLEAN /\ hasEscapes' \in BOOLEAN
      BY <3>1
    <3> QED BY <1>4, <3>1, <3>2
  <2> QED BY <2>1, <2>2
<1>7. ASSUME ReadText(c, p), reader \in {"parseText", "parseDelimiter"} PROVE Typed
  <2>1. CASE ~escaped /\ c \in {Named, Inline}
    <3>1. ReadScript(c, p, WithContent(requests, Text(start, p)))
      BY <1>7, <2>1, NotScript DEF ReadText
    <3> QED BY <1>5, <3>1
  <2>2. CASE escaped \/ c \notin {Named, Inline}
    BY <1>4, <1>7, <2>2 DEF ReadText
  <2> QED BY <2>1, <2>2
<1>8. Typed
  <2>1. CASE reader = "consumeWhitespace"
    <3>1. ConsumeWhitespace(c, p)
      BY <2>1 DEF ReadByte, p
    <3> QED BY <1>4, <1>6, <3>1 DEF ConsumeWhitespace
  <2>2. CASE reader = "lexToken"
    BY <1>6, <2>2 DEF ReadByte, p
  <2>3. CASE reader = "parseText"
    BY <1>7, <2>3 DEF ReadByte, p
  <2>4. CASE reader = "parseDelimiter"
    <3>1. ReadHash(c, p)
      BY <2>4 DEF ReadByte, p
    <3>2. CASE c = "#"
      BY <1>4, <3>1, <3>2 DEF ReadHash
    <3>3. CASE c # "#"
      BY <1>7, <2>4, <3>1, <3>3 DEF ReadHash
    <3> QED BY <3>2, <3>3
  <2>5. CASE reader = "header"
    <3>1. ReadHeader(c, p)
      BY <2>5 DEF ReadByte, p
    <3> QED BY <1>4, <3>1 DEF ReadHeader
  <2> QED BY <1>4, <2>1, <2>2, <2>3, <2>4, <2>5
<1> QED BY <1>0, <1>1, <1>2, <1>3, <1>8 DEF FileType, Blueprints, X

(* The invariant holds of the file that is not read yet. *)
LEMMA FileInitially ==
  ASSUME FileInit
  PROVE  FileInv
<1> DEFINE bp == Blueprint(0)
<1>0. /\ bound \in Files /\ file = <<>> /\ reader = "consumeWhitespace"
      /\ start = 0 /\ escaped = FALSE /\ hasEscapes = FALSE /\ hash = 0
      /\ requests = <<bp>> /\ err = FALSE
  BY DEF FileInit
<1>1. Len(file) = 0 /\ DOMAIN file = {} /\ file \in Seq(UNION {b.chars : b \in Files})
  BY <1>0
<1>2. bp.name = 0 /\ bp.pre = {} /\ bp.content = <<>> /\ bp \in Blueprints(Len(file))
  BY DEF Blueprint, Blueprints
<1> HIDE DEF bp
<1>3. /\ requests \in Seq(Blueprints(Len(file))) /\ requests # <<>> /\ Len(requests) = 1 /\ Last(requests) = bp
      /\ DOMAIN requests = {1} /\ requests[1] = bp
  BY <1>0, <1>2 DEF Last
<1>4. FileType
  BY <1>0, <1>1, <1>3 DEF FileType, Blueprints
<1>5. Headers(file) = {0} /\ Newest = 0 /\ Begin(file, 0) = 1 /\ Limit = 0 /\ Current = {} /\ Pending = 1 /\ ~InText
  <2>1. Headers(file) = {0} /\ Newest = 0 /\ Begin(file, 0) = 1 /\ Limit = 0 /\ ~InText
    BY <1>0, <1>1, <1>2, <1>3 DEF Headers, Newest, Begin, Limit, InText
  <2> QED BY <2>1 DEF Current, Pending
<1>6. HeadersRead
  BY <1>0, <1>1, <1>5 DEF HeadersRead
<1>7. Kept(file, {}) = {} /\ Escapes(file, {}) = {} /\ Scripts(file, {}, Named) = {}
  <2>1. Kept(file, {}) = {} /\ Scripts(file, {}, Named) = {}
    BY DEF Kept, Scripts
  <2>2. Escapes(file, {}) = {}
    BY DEF Escapes
  <2> QED BY <2>1, <2>2
<1>8. TextRead
  BY <1>0, <1>1, <1>5, <1>7 DEF TextRead
<1>9. LastRead
  <2>1. Payload(file, Last(requests)) = <<>>
    BY <1>2, <1>3, PayloadEmpty
  <2>2. Unfinished(file, Current, Pending) = {}
    BY <1>5, <1>7 DEF Unfinished
  <2>3. Between(file, Since(requests, Len(requests)), Newest) = {}
    BY <1>5 DEF Between
  <2> QED BY <1>2, <1>3, <1>5, <1>7, <2>1, <2>2, <2>3, ListsEmpty DEF LastRead
<1>10. Finished
  BY <1>3, <1>5 DEF Finished
<1> QED BY <1>4, <1>6, <1>8, <1>9, <1>10 DEF FileInv

(* RequestsAreSections: a file that is accepted is one request for every      *)
(* section with content, with its text, unescaped, its scripts and its name,  *)
(* whatever is in it and however long it is.                                  *)
THEOREM RequestsSections == FileSpec => []RequestsAreSections
<1>1. FileInit => FileInv
  BY FileInitially
<1>2. FileInv /\ [FileNext]_fileVars => FileInv'
  <2> SUFFICES ASSUME FileInv, [FileNext]_fileVars PROVE FileInv'
    OBVIOUS
  <2>1. CASE UNCHANGED fileVars
    <3>1. UNCHANGED <<bound, file, reader, start, escaped, hasEscapes, hash, requests, err>>
      BY <2>1 DEF fileVars
    <3>2. FileType'
      BY <3>1 DEF FileInv, FileType
    <3>3. err' = err /\ (~err => HeadersRead /\ TextRead /\ LastRead /\ Finished)
      BY <3>1 DEF FileInv
    <3>4. HeadersRead => HeadersRead'
      BY <3>1 DEF HeadersRead, Limit, Newest, Current, Pending, InText
    <3>5. TextRead => TextRead'
      BY <3>1 DEF TextRead, Limit, Newest, Current, Pending, InText
    <3>6. LastRead => LastRead'
      BY <3>1 DEF LastRead, Limit, Newest, Current, Pending, InText
    <3>7. Finished => Finished'
      BY <3>1 DEF Finished, Limit, Newest, Current, Pending, InText
    <3> QED BY <3>2, <3>3, <3>4, <3>5, <3>6, <3>7 DEF FileInv
  <2>2. CASE FileNext
    <3>1. PICK c \in bound.chars : ReadByte(c)
      BY <2>2 DEF FileNext
    <3>2. Known
      BY <2>2 DEF FileNext, FileInv, Known
    <3>3. FileType' /\ Reads(file, file', c)
      BY <3>1, <3>2, StepTypes
    <3>4. HeadersRead' /\ TextRead' /\ LastRead' /\ Finished'
      <4>1. CASE reader = "header" /\ c = "\n"
        <5>1. ReadHeader("\n", Len(file) + 1)
          BY <3>1, <4>1 DEF ReadByte
        <5> QED BY <3>2, <3>3, <4>1, <5>1, HeaderIsRead
      <4>2. CASE ~(reader = "header" /\ c = "\n")
        BY <3>1, <3>2, <3>3, <4>2, StepInside
      <4> QED BY <4>1, <4>2
    <3> QED BY <3>3, <3>4 DEF FileInv
  <2> QED BY <2>1, <2>2
<1>3. FileInv => RequestsAreSections
  BY SectionsAreRead
<1> QED BY <1>1, <1>2, <1>3, PTL DEF FileSpec

-----------------------------------------------------------------------------
(* The text of a request.                                                     *)

(* The characters that are written. *)
Letters == UNION {t.chars \cup ToSet(t.prefix) : t \in Texts}

IsText == text \in Seq(Letters)

(* Lines end with a newline, or with a carriage return and a newline. *)
LinesEnd == \A i \in DOMAIN text : text[i] = "\r" => Among(i + 1, {"\n"})

Blank(i) == Among(i, {" "})
Newline(i) == Among(i, {"\n"})
Carriage(i) == Among(i, {"\r"})
Space(i) == Among(i, {" ", "\n", "\r"})

(* The kinds of space. *)
LEMMA Spaces ==
  ASSUME IsText, NEW i \in Nat
  PROVE  /\ Len(text) \in Nat /\ DOMAIN text = 1 .. Len(text)
         /\ Space(i) <=> Blank(i) \/ Newline(i) \/ Carriage(i)
         /\ Among(i, {"\n", "\r"}) <=> Newline(i) \/ Carriage(i)
         /\ Among(i, {" ", "\r"}) <=> Blank(i) \/ Carriage(i)
         /\ ~(Blank(i) /\ Newline(i)) /\ ~(Blank(i) /\ Carriage(i)) /\ ~(Newline(i) /\ Carriage(i))
         /\ Solid(i) <=> ~Blank(i)
         /\ Space(i) => i \in 1 .. Len(text)
         /\ AtEnd(i) <=> i > Len(text)
         /\ LinesEnd /\ Carriage(i) => Newline(i + 1) /\ i + 1 \in 1 .. Len(text)
<1>1. Len(text) \in Nat /\ DOMAIN text = 1 .. Len(text)
  BY DEF IsText
<1>2. " " # "\n" /\ " " # "\r" /\ "\n" # "\r"
  OBVIOUS
<1>3. LinesEnd /\ Carriage(i) => Newline(i + 1)
  BY DEF LinesEnd, Carriage, Newline, Among
<1>4. Newline(i + 1) => i + 1 \in 1 .. Len(text)
  BY <1>1 DEF Newline, Among
<1> QED BY <1>1, <1>2, <1>3, <1>4 DEF Space, Blank, Newline, Carriage, Among, Solid, AtEnd

(* Find finds the first place. *)
LEMMA FindDef ==
  ASSUME IsText, NEW i \in 1 .. Len(text) + 1, NEW chars
  PROVE  /\ Find(i, chars) \in i .. Len(text) + 1
         /\ AtEnd(Find(i, chars)) \/ Among(Find(i, chars), chars)
         /\ \A j \in i .. Find(i, chars) - 1 : ~Among(j, chars)
<1>0. Len(text) \in Nat
  BY DEF IsText
<1> DEFINE S == {j \in i .. Len(text) + 1 : AtEnd(j) \/ Among(j, chars)}
<1>1. Len(text) + 1 \in S
  BY <1>0 DEF AtEnd
<1>2. S \in SUBSET Nat /\ S # {}
  BY <1>0, <1>1
<1>3. Find(i, chars) = Min(S)
  BY DEF Find
<1> DEFINE m == Min(S)
<1>4. m \in S /\ \A y \in S : m <= y
  <2> HIDE DEF S
  <2> QED BY <1>2, MinOf
<1> HIDE DEF m
<1>5. \A j \in i .. m - 1 : ~Among(j, chars)
  BY <1>0, <1>4
<1> QED BY <1>3, <1>4, <1>5 DEF m

(* skipWhitespace skips blanks, and no more. *)
LEMMA SkipDef ==
  ASSUME IsText, NEW i \in 1 .. Len(text) + 1
  PROVE  /\ skipWhitespace(i) \in i .. Len(text) + 1 /\ ~Blank(skipWhitespace(i))
         /\ \A j \in i .. skipWhitespace(i) - 1 : Blank(j)
<1>0. Len(text) \in Nat /\ DOMAIN text = 1 .. Len(text)
  BY DEF IsText
<1> DEFINE S == {j \in i .. Len(text) + 1 : ~Blank(j)}
<1>1. Len(text) + 1 \in S
  <2>1. Len(text) + 1 \notin DOMAIN text /\ Len(text) + 1 \in i .. Len(text) + 1
    BY <1>0
  <2>2. ~Blank(Len(text) + 1)
    BY <2>1 DEF Blank, Among
  <2> QED BY <2>1, <2>2
<1>2. S \in SUBSET Nat /\ S # {}
  BY <1>0, <1>1
<1>3. skipWhitespace(i) = Min(S)
  BY DEF skipWhitespace, Blank
<1> DEFINE m == Min(S)
<1>4. m \in S /\ \A y \in S : m <= y
  <2> HIDE DEF S
  <2> QED BY <1>2, MinOf
<1> HIDE DEF m
<1>5. \A j \in i .. m - 1 : Blank(j)
  BY <1>0, <1>4
<1> QED BY <1>3, <1>4, <1>5 DEF m

(* scanWord returns what is before the next space. *)
LEMMA ScanWordDef ==
  ASSUME IsText, NEW p \in 1 .. Len(text) + 1
  PROVE  \E s \in p .. Len(text) + 1, e \in p .. Len(text) + 1 :
           /\ s <= e /\ scanWord(p).word = s .. e - 1 /\ scanWord(p).next = e
           /\ ~Blank(s) /\ (\A j \in p .. s - 1 : Blank(j))
           /\ AtEnd(e) \/ Space(e)
           /\ \A j \in s .. e - 1 : ~Space(j)
<1> DEFINE s == skipWhitespace(p)
           e == Find(s, {" ", "\n", "\r"})
<1>1. s \in p .. Len(text) + 1 /\ ~Blank(s) /\ \A j \in p .. s - 1 : Blank(j)
  BY SkipDef
<1>2. s \in 1 .. Len(text) + 1
  BY <1>1 DEF IsText
<1>3. scanWord(p).word = s .. e - 1 /\ scanWord(p).next = e
  BY DEF scanWord
<1> HIDE DEF s
<1>4. /\ e \in s .. Len(text) + 1 /\ (AtEnd(e) \/ Space(e))
      /\ \A j \in s .. e - 1 : ~Space(j)
  BY <1>2, FindDef DEF Space
<1> HIDE DEF e
<1>5. e \in p .. Len(text) + 1 /\ s <= e
  <2>1. Len(text) \in Nat /\ s \in Nat /\ p <= s
    BY <1>1 DEF IsText
  <2> QED BY <1>4, <2>1
<1> QED BY <1>1, <1>3, <1>4, <1>5

-----------------------------------------------------------------------------
(* p is in the line that starts at b, or where it ends. *)
OnLine(b, p) ==
  b \in Nat \ {0} /\ p \in b .. Len(text) + 1 /\ \A j \in b .. p - 1 : ~Newline(j) /\ ~Carriage(j)

(* No word goes on at p. *)
Fresh(b, p) == p = b \/ Blank(p - 1) \/ AtEnd(p) \/ Space(p)

Rest(b, p) == {i \in WordStarts(b) : i >= p}

(* The places of a line. *)
LEMMA LinePlaces ==
  ASSUME IsText, NEW b \in Nat \ {0}, NEW i
  PROVE  i \in Line(b) <=> i \in b .. Len(text) /\ OnLine(b, i + 1)
<1>0. Len(text) \in Nat /\ DOMAIN text = 1 .. Len(text)
  BY DEF IsText
<1>1. CASE i \notin 1 .. Len(text)
  BY <1>0, <1>1 DEF Line
<1>2. CASE i \in 1 .. Len(text)
  <2>1. \A j \in b .. i : Among(j, {"\n", "\r"}) <=> Newline(j) \/ Carriage(j)
    <3> TAKE j \in b .. i
    <3>1. j \in Nat
      OBVIOUS
    <3> QED BY <3>1, Spaces
  <2>2. b .. (i + 1) - 1 = b .. i
    BY <1>2
  <2>3. i \in Line(b) <=> b <= i /\ \A j \in b .. i : ~Newline(j) /\ ~Carriage(j)
    BY <1>0, <1>2, <2>1 DEF Line
  <2> QED BY <1>0, <1>2, <2>2, <2>3 DEF OnLine
<1> QED BY <1>1, <1>2

(* The words of a line, one after the other. *)
LEMMA Scan ==
  ASSUME IsText, NEW b, NEW p, OnLine(b, p), Fresh(b, p)
  PROVE  /\ scanWord(p).next \in p .. Len(text) + 1
         /\ OnLine(b, scanWord(p).next)
         /\ AtEnd(scanWord(p).next) \/ Space(scanWord(p).next)
         /\ scanWord(p).word = {} => /\ Rest(b, p) = {} /\ Rest(b, scanWord(p).next) = {}
                                     /\ ~Blank(scanWord(p).next)
         /\ scanWord(p).word # {} =>
              \E s \in Rest(b, p) :
                /\ s = Min(Rest(b, p)) /\ scanWord(p).word = WordFrom(s)
                /\ Rest(b, scanWord(p).next) = Rest(b, p) \ {s}
                /\ scanWord(p).word = s .. scanWord(p).next - 1 /\ s < scanWord(p).next
                /\ \A j \in p .. s - 1 : Blank(j)
                /\ \A j \in s .. scanWord(p).next - 1 : ~Space(j)
<1>0. /\ Len(text) \in Nat /\ DOMAIN text = 1 .. Len(text)
      /\ b \in Nat \ {0} /\ p \in Nat /\ p \in 1 .. Len(text) + 1 /\ b <= p
      /\ \A j \in b .. p - 1 : ~Newline(j) /\ ~Carriage(j)
  BY DEF IsText, OnLine
<1>1. PICK s \in p .. Len(text) + 1, e \in p .. Len(text) + 1 :
           /\ s <= e /\ scanWord(p).word = s .. e - 1 /\ scanWord(p).next = e
           /\ ~Blank(s) /\ (\A j \in p .. s - 1 : Blank(j))
           /\ AtEnd(e) \/ Space(e)
           /\ \A j \in s .. e - 1 : ~Space(j)
  BY <1>0, ScanWordDef
<1>2. s \in Nat /\ e \in Nat /\ p <= s /\ s <= e /\ e <= Len(text) + 1
  BY <1>0, <1>1
<1>3. \A i \in Nat : /\ Space(i) <=> Blank(i) \/ Newline(i) \/ Carriage(i)
                     /\ ~(Blank(i) /\ Newline(i)) /\ ~(Blank(i) /\ Carriage(i))
                     /\ Solid(i) <=> ~Blank(i)
                     /\ Space(i) => i \in 1 .. Len(text)
                     /\ AtEnd(i) <=> i > Len(text)
  BY Spaces
<1>4. \A j \in b .. e - 1 : ~Newline(j) /\ ~Carriage(j)
  <2> TAKE j \in b .. e - 1
  <2>1. CASE j < p
    BY <1>0, <1>2, <2>1
  <2>2. CASE j >= p /\ j < s
    BY <1>0, <1>1, <1>2, <1>3, <2>2
  <2>3. CASE j >= s
    BY <1>0, <1>1, <1>2, <1>3, <2>3
  <2> QED BY <1>0, <1>2, <2>1, <2>2, <2>3
<1>5. OnLine(b, e)
  BY <1>0, <1>2, <1>4 DEF OnLine
<1>6. \A i : i \in Line(b) <=> /\ i \in b .. Len(text)
                               /\ \A j \in b .. i : ~Newline(j) /\ ~Carriage(j)
  <2> TAKE i
  <2>1. i \in Line(b) <=> i \in b .. Len(text) /\ OnLine(b, i + 1)
    BY <1>0, LinePlaces
  <2>2. i \in b .. Len(text) => (i + 1) - 1 = i /\ i + 1 \in b .. Len(text) + 1
    BY <1>0
  <2> QED BY <1>0, <2>1, <2>2 DEF OnLine
<1>7. \A i : i \in WordStarts(b) <=>
               i \in Line(b) /\ ~Blank(i) /\ ~(i - 1 \in Line(b) /\ ~Blank(i - 1))
  <2> TAKE i
  <2>1. i \in Line(b) => i \in Nat /\ (i - 1 \in Line(b) => i - 1 \in Nat)
    BY <1>0, <1>6
  <2> QED BY <1>3, <2>1 DEF WordStarts
<1>8. \A i \in p .. s - 1 : i \notin WordStarts(b)
  BY <1>1, <1>7
<1>9. \A i \in s + 1 .. e - 1 : i \notin WordStarts(b)
  <2> SUFFICES ASSUME NEW i \in s + 1 .. e - 1 PROVE i \notin WordStarts(b)
    OBVIOUS
  <2>1. i - 1 \in s .. e - 1 /\ i - 1 \in Nat /\ i - 1 \in b .. Len(text)
    BY <1>0, <1>2
  <2>2. i - 1 \in Line(b)
    BY <1>0, <1>2, <1>4, <1>6, <2>1
  <2>3. ~Blank(i - 1)
    BY <1>1, <1>3, <2>1
  <2> QED BY <1>7, <2>2, <2>3
<1>10. CASE s = e
  <2>1. s .. e - 1 = {}
    BY <1>2, <1>10
  <2>2. \A i \in WordStarts(b) : ~(i >= p)
    <3> SUFFICES ASSUME NEW i \in WordStarts(b), i >= p PROVE FALSE
      OBVIOUS
    <3>1. i \in b .. Len(text) /\ \A j \in b .. i : ~Newline(j) /\ ~Carriage(j)
      BY <1>6, <1>7
    <3>2. i >= s
      BY <1>0, <1>2, <1>8, <3>1
    <3>3. ~AtEnd(e)
      BY <1>0, <1>2, <1>3, <1>10, <3>1, <3>2
    <3>4. Newline(s) \/ Carriage(s)
      BY <1>1, <1>2, <1>3, <1>10, <3>3
    <3>5. s \in b .. i
      BY <1>0, <1>2, <3>1, <3>2
    <3> QED BY <3>1, <3>4, <3>5
  <2>3. Rest(b, p) = {} /\ Rest(b, e) = {}
    <3>1. \A i \in WordStarts(b) : i \in Nat
      BY <1>0, <1>6, <1>7
    <3> QED BY <1>0, <1>2, <2>2, <3>1 DEF Rest
  <2> QED BY <1>0, <1>1, <1>2, <1>5, <1>10, <2>1, <2>3
<1>11. CASE s < e
  <2>1. s \in s .. e - 1 /\ s .. e - 1 # {} /\ s \in 1 .. Len(text)
    <3>1. s \in s .. e - 1 /\ s \in 1 .. Len(text)
      BY <1>0, <1>2, <1>11
    <3> QED BY <3>1
  <2>2. s \in Line(b)
    BY <1>0, <1>2, <1>4, <1>6, <1>11, <2>1
  <2>3. ~Space(s)
    BY <1>1, <2>1
  <2>4. s \in WordStarts(b)
    <3> SUFFICES ASSUME s - 1 \in Line(b), ~Blank(s - 1) PROVE FALSE
      BY <1>1, <1>7, <2>2
    <3>1. s - 1 \in Nat /\ b <= s - 1
      BY <1>0, <1>6
    <3>2. s = p
      BY <1>0, <1>1, <1>2, <3>1
    <3>3. p # b
      BY <1>0, <3>1, <3>2
    <3>4. ~AtEnd(p)
      BY <1>0, <1>2, <1>3, <2>1, <3>2
    <3> QED BY <2>3, <3>2, <3>3, <3>4 DEF Fresh
  <2>5. \A i \in Rest(b, p) : i = s \/ i >= e
    <3> TAKE i \in Rest(b, p)
    <3>1. i \in Nat /\ i >= p /\ i \in WordStarts(b)
      BY <1>0, <1>6, <1>7 DEF Rest
    <3> QED BY <1>0, <1>2, <1>8, <1>9, <3>1
  <2>6. s \in Rest(b, p)
    BY <1>0, <1>2, <2>4 DEF Rest
  <2>7. Rest(b, p) \in SUBSET Nat /\ Rest(b, p) # {}
    BY <1>0, <1>6, <1>7, <2>6 DEF Rest
  <2>8. Min(Rest(b, p)) \in Rest(b, p) /\ \A y \in Rest(b, p) : Min(Rest(b, p)) <= y
    BY <2>7, MinOf
  <2>9. s = Min(Rest(b, p))
    <3>1. Min(Rest(b, p)) \in Nat /\ Min(Rest(b, p)) <= s
      BY <2>6, <2>7, <2>8
    <3> QED BY <1>2, <1>11, <2>5, <2>8, <3>1
  <2>10. Rest(b, e) = Rest(b, p) \ {s}
    <3>1. \A i \in WordStarts(b) : i \in Nat
      BY <1>0, <1>6, <1>7
    <3>2. \A i \in WordStarts(b) : i >= e => i >= p /\ i # s
      BY <1>0, <1>2, <1>11, <3>1
    <3> QED BY <2>5, <3>2 DEF Rest
  <2>11. WordFrom(s) = s .. e - 1
    <3>1. \A j \in WordFrom(s) : j \in Nat /\ s <= j /\ j <= Len(text) /\ \A k \in s .. j : ~Space(k)
      <4> TAKE j \in WordFrom(s)
      <4>1. j \in DOMAIN text /\ s <= j /\ \A k \in s .. j : ~Among(k, {" ", "\n", "\r"})
        BY DEF WordFrom
      <4>2. \A k \in s .. j : ~Space(k)
        BY <4>1 DEF Space
      <4>3. j \in 1 .. Len(text)
        BY <1>0, <4>1
      <4>4. j \in Nat /\ j <= Len(text)
        BY <1>0, <4>3
      <4> QED BY <4>1, <4>2, <4>4
    <3>2. \A j \in WordFrom(s) : j < e
      <4> SUFFICES ASSUME NEW j \in WordFrom(s), ~(j < e) PROVE FALSE
        OBVIOUS
      <4>1. e \in s .. j /\ e <= Len(text)
        BY <1>0, <1>2, <3>1
      <4> QED BY <1>1, <1>2, <1>3, <3>1, <4>1
    <3>3. \A j \in s .. e - 1 : j \in WordFrom(s)
      <4> TAKE j \in s .. e - 1
      <4>1. j \in 1 .. Len(text) /\ s <= j /\ \A k \in s .. j : k \in s .. e - 1
        BY <1>0, <1>2
      <4> QED BY <1>0, <1>1, <4>1 DEF WordFrom, Space
    <3>4. \A j \in WordFrom(s) : j \in s .. e - 1
      <4> TAKE j \in WordFrom(s)
      <4>1. j \in Nat /\ s <= j /\ j < e
        BY <3>1, <3>2
      <4> QED BY <1>2, <4>1
    <3> QED BY <3>3, <3>4
  <2> QED BY <1>0, <1>1, <1>2, <1>5, <1>11, <2>1, <2>6, <2>9, <2>10, <2>11
<1> QED BY <1>2, <1>10, <1>11

(* Where words start. *)
LEMMA WordStartsDef ==
  ASSUME IsText, NEW b \in Nat \ {0}, NEW i
  PROVE  i \in WordStarts(b) <=>
           /\ i \in b .. Len(text) /\ \A j \in b .. i : ~Newline(j) /\ ~Carriage(j)
           /\ ~Blank(i) /\ (i = b \/ Blank(i - 1))
<1>0. Len(text) \in Nat /\ DOMAIN text = 1 .. Len(text)
  BY DEF IsText
<1>1. \A k : k \in Line(b) <=> /\ k \in b .. Len(text)
                               /\ \A j \in b .. k : ~Newline(j) /\ ~Carriage(j)
  <2> TAKE k
  <2>1. k \in Line(b) <=> k \in b .. Len(text) /\ OnLine(b, k + 1)
    BY LinePlaces
  <2>2. k \in b .. Len(text) => (k + 1) - 1 = k /\ k + 1 \in b .. Len(text) + 1
    BY <1>0
  <2> QED BY <1>0, <2>1, <2>2 DEF OnLine
<1>2. CASE i \notin b .. Len(text)
  BY <1>1, <1>2 DEF WordStarts
<1>3. CASE i \in b .. Len(text)
  <2>1. i \in Nat /\ b <= i /\ (i # b => i - 1 \in b .. Len(text) /\ i - 1 \in Nat)
    BY <1>0, <1>3
  <2>2. Solid(i) <=> ~Blank(i)
    BY <2>1, Spaces
  <2>3. i # b => (Solid(i - 1) <=> ~Blank(i - 1))
    BY <2>1, Spaces
  <2>4. i - 1 \in Line(b) => i # b
    BY <1>1, <2>1
  <2>5. i \in Line(b) /\ i # b => i - 1 \in Line(b)
    <3> SUFFICES ASSUME i \in Line(b), i # b PROVE i - 1 \in Line(b)
      OBVIOUS
    <3>1. \A j \in b .. i - 1 : j \in b .. i
      BY <2>1
    <3> QED BY <1>1, <2>1, <3>1
  <2> QED BY <1>1, <1>3, <2>2, <2>3, <2>4, <2>5 DEF WordStarts
<1> QED BY <1>2, <1>3

(* nextLine finds the end of the line if no word is left of it.               *)
LEMMA NextLineDef ==
  ASSUME IsText, LinesEnd, NEW b, NEW p, OnLine(b, p), AtEnd(p) \/ Space(p)
  PROVE  /\ nextLine(p).found = "error" <=> Rest(b, p) # {}
         /\ nextLine(p).found \in {"line", "EOF", "error"}
         /\ nextLine(p).found = "line" =>
              \E e \in b .. Len(text) : /\ nextLine(p).next = e + 1 /\ Newline(e)
                                        /\ \A j \in b .. e - 1 : ~Newline(j)
         /\ nextLine(p).found = "EOF" => /\ OnLine(b, Len(text) + 1)
                                         /\ \A j \in p .. Len(text) : Blank(j)
<1>0. /\ Len(text) \in Nat /\ DOMAIN text = 1 .. Len(text)
      /\ b \in Nat \ {0} /\ p \in Nat /\ p \in 1 .. Len(text) + 1 /\ b <= p
      /\ \A j \in b .. p - 1 : ~Newline(j) /\ ~Carriage(j)
  BY DEF IsText, OnLine
<1> DEFINE s == skipWhitespace(p)
           at == IF Among(s, {"\r"}) THEN s + 1 ELSE s
<1>1. s \in p .. Len(text) + 1 /\ ~Blank(s) /\ \A j \in p .. s - 1 : Blank(j)
  BY <1>0, SkipDef
<1>2. /\ nextLine(p).found = IF Newline(at) THEN "line" ELSE IF AtEnd(at) THEN "EOF" ELSE "error"
      /\ nextLine(p).next = at + 1
  BY DEF nextLine, Newline
<1>3. at = IF Carriage(s) THEN s + 1 ELSE s
  BY DEF Carriage
<1> HIDE DEF s, at
<1>4. s \in Nat /\ p <= s /\ s <= Len(text) + 1
  BY <1>0, <1>1
<1>5. \A i \in Nat : /\ Space(i) <=> Blank(i) \/ Newline(i) \/ Carriage(i)
                     /\ ~(Blank(i) /\ Newline(i)) /\ ~(Blank(i) /\ Carriage(i))
                     /\ ~(Newline(i) /\ Carriage(i))
                     /\ Space(i) => i \in 1 .. Len(text)
                     /\ AtEnd(i) <=> i > Len(text)
                     /\ Carriage(i) => Newline(i + 1) /\ i + 1 \in 1 .. Len(text)
  BY Spaces
<1>6. \A j \in b .. s - 1 : ~Newline(j) /\ ~Carriage(j)
  <2> TAKE j \in b .. s - 1
  <2>1. CASE j < p
    BY <1>0, <1>4, <2>1
  <2>2. CASE j >= p
    <3>1. j \in p .. s - 1 /\ j \in Nat
      BY <1>0, <1>4, <2>2
    <3> QED BY <1>1, <1>5, <3>1
  <2> QED BY <1>0, <1>4, <2>1, <2>2
<1>7. \A i : i \in WordStarts(b) <=>
           /\ i \in b .. Len(text) /\ \A j \in b .. i : ~Newline(j) /\ ~Carriage(j)
           /\ ~Blank(i) /\ (i = b \/ Blank(i - 1))
  BY <1>0, WordStartsDef
<1>8. ASSUME s > Len(text) \/ Newline(s) \/ Carriage(s) PROVE Rest(b, p) = {}
  <2> SUFFICES ASSUME NEW i \in Rest(b, p) PROVE FALSE
    OBVIOUS
  <2>1. /\ i \in Nat /\ i >= p /\ b <= i /\ i <= Len(text) /\ ~Blank(i)
        /\ \A j \in b .. i : ~Newline(j) /\ ~Carriage(j)
    BY <1>0, <1>7 DEF Rest
  <2>2. i >= s
    <3> SUFFICES ASSUME i < s PROVE FALSE
      BY <1>4, <2>1
    <3>1. i \in p .. s - 1
      BY <1>0, <1>4, <2>1
    <3> QED BY <1>1, <2>1, <3>1
  <2>3. s \in b .. i
    BY <1>0, <1>4, <2>1, <2>2
  <2> QED BY <1>4, <1>8, <2>1, <2>2, <2>3
<1>9. CASE s > Len(text)
  <2>1. ~Carriage(s) /\ ~Newline(s) /\ AtEnd(s)
    BY <1>4, <1>5, <1>9
  <2>2. nextLine(p).found = "EOF"
    BY <1>2, <1>3, <2>1
  <2>3. s = Len(text) + 1
    BY <1>0, <1>4, <1>9
  <2>4. OnLine(b, Len(text) + 1) /\ \A j \in p .. Len(text) : Blank(j)
    <3>1. Len(text) + 1 \in b .. Len(text) + 1 /\ (Len(text) + 1) - 1 = Len(text)
      BY <1>0
    <3> QED BY <1>0, <1>1, <1>6, <2>3, <3>1 DEF OnLine
  <2> QED BY <1>8, <1>9, <2>2, <2>4
<1>10. CASE Newline(s)
  <2>1. ~Carriage(s) /\ s \in 1 .. Len(text)
    BY <1>4, <1>5, <1>10
  <2>2. nextLine(p).found = "line" /\ nextLine(p).next = s + 1
    BY <1>2, <1>3, <1>10, <2>1
  <2>3. s \in b .. Len(text)
    BY <1>0, <1>4, <2>1
  <2> QED BY <1>6, <1>8, <1>10, <2>2, <2>3
<1>11. CASE Carriage(s)
  <2>1. s \in 1 .. Len(text) /\ Newline(s + 1) /\ s + 1 \in 1 .. Len(text) /\ ~Newline(s)
    BY <1>4, <1>5, <1>11
  <2>2. nextLine(p).found = "line" /\ nextLine(p).next = (s + 1) + 1
    BY <1>2, <1>3, <1>11, <2>1
  <2>3. s + 1 \in b .. Len(text)
    BY <1>0, <1>4, <2>1
  <2>4. \A j \in b .. (s + 1) - 1 : ~Newline(j)
    <3> TAKE j \in b .. (s + 1) - 1
    <3>1. j = s \/ j \in b .. s - 1
      BY <1>0, <1>4
    <3> QED BY <1>6, <2>1, <3>1
  <2> QED BY <1>8, <1>11, <2>1, <2>2, <2>3, <2>4
<1>12. CASE s <= Len(text) /\ ~Newline(s) /\ ~Carriage(s)
  <2>1. ~AtEnd(s) /\ s \in b .. Len(text)
    BY <1>0, <1>4, <1>5, <1>12
  <2>2. nextLine(p).found = "error"
    BY <1>2, <1>3, <1>12, <2>1
  <2>3. s # p
    BY <1>0, <1>1, <1>4, <1>5, <1>12, <2>1
  <2>4. Blank(s - 1)
    <3>1. s - 1 \in p .. s - 1
      BY <1>0, <1>4, <2>3
    <3> QED BY <1>1, <3>1
  <2>5. \A j \in b .. s : ~Newline(j) /\ ~Carriage(j)
    <3> TAKE j \in b .. s
    <3>1. j = s \/ j \in b .. s - 1
      BY <1>0, <1>4
    <3> QED BY <1>6, <1>12, <3>1
  <2>6. s \in Rest(b, p)
    BY <1>1, <1>4, <1>7, <2>1, <2>4, <2>5 DEF Rest
  <2> QED BY <2>2, <2>6
<1> QED BY <1>0, <1>4, <1>9, <1>10, <1>11, <1>12

-----------------------------------------------------------------------------
(* What one call of scanWord does to the words of a line that are left.       *)
ReadsWord(b, p, w) ==
  /\ OnLine(b, w.next) /\ (AtEnd(w.next) \/ Space(w.next))
  /\ w.word = {} => Rest(b, p) = {} /\ Rest(b, w.next) = {} /\ ~Blank(w.next)
  /\ w.word # {} =>
       /\ Min(Rest(b, p)) \in Rest(b, p) /\ w.word = WordFrom(Min(Rest(b, p)))
       /\ Rest(b, w.next) = Rest(b, p) \ {Min(Rest(b, p))}
       /\ w.next - 1 \in w.word /\ ~Space(w.next - 1) /\ w.next - 1 \in Nat

(* scanWord does it. *)
LEMMA ScanReads ==
  ASSUME IsText, NEW b, NEW p, OnLine(b, p), p = b \/ AtEnd(p) \/ Space(p)
  PROVE  ReadsWord(b, p, scanWord(p))
<1> DEFINE w == scanWord(p)
<1>0. b \in Nat \ {0} /\ p \in Nat /\ b <= p /\ Len(text) \in Nat
  BY DEF OnLine, IsText
<1>1. Fresh(b, p)
  BY DEF Fresh
<1>2. /\ w.next \in p .. Len(text) + 1 /\ OnLine(b, w.next)
      /\ AtEnd(w.next) \/ Space(w.next)
      /\ w.word = {} => Rest(b, p) = {} /\ Rest(b, w.next) = {} /\ ~Blank(w.next)
      /\ w.word # {} =>
              \E s \in Rest(b, p) :
                /\ s = Min(Rest(b, p)) /\ w.word = WordFrom(s)
                /\ Rest(b, w.next) = Rest(b, p) \ {s}
                /\ w.word = s .. w.next - 1 /\ s < w.next
                /\ \A j \in s .. w.next - 1 : ~Space(j)
  BY <1>1, Scan
<1> HIDE DEF w
<1>3. ASSUME w.word # {}
      PROVE  /\ Min(Rest(b, p)) \in Rest(b, p) /\ w.word = WordFrom(Min(Rest(b, p)))
             /\ Rest(b, w.next) = Rest(b, p) \ {Min(Rest(b, p))}
             /\ w.next - 1 \in w.word /\ ~Space(w.next - 1) /\ w.next - 1 \in Nat
  <2>1. PICK s \in Rest(b, p) :
                /\ s = Min(Rest(b, p)) /\ w.word = WordFrom(s)
                /\ Rest(b, w.next) = Rest(b, p) \ {s}
                /\ w.word = s .. w.next - 1 /\ s < w.next
                /\ \A j \in s .. w.next - 1 : ~Space(j)
    BY <1>2, <1>3
  <2>2. s \in Nat
    BY <1>0, WordStartsDef DEF Rest
  <2>3. w.next - 1 \in s .. w.next - 1 /\ w.next - 1 \in Nat
    BY <1>0, <1>2, <2>1, <2>2
  <2> QED BY <2>1, <2>3
<1> QED BY <1>2, <1>3 DEF ReadsWord, w

Drops(A, B) == IF A = {} THEN B = {} ELSE \E x \in A : B = A \ {x}

(* Three times one less. *)
LEMMA CountDown ==
  ASSUME NEW A, IsFiniteSet(A), NEW B, NEW C, NEW D, Drops(A, B), Drops(B, C), Drops(C, D)
  PROVE  /\ Cardinality(A) = 1 <=> A # {} /\ B = {}
         /\ Cardinality(A) \in 1 .. 3 <=> A # {} /\ D = {}
         /\ Cardinality(A) = 3 <=> C # {} /\ D = {}
<1>1. ASSUME NEW S, IsFiniteSet(S), NEW T, Drops(S, T)
      PROVE  /\ IsFiniteSet(T) /\ Cardinality(S) \in Nat /\ (Cardinality(S) = 0 <=> S = {})
             /\ Cardinality(T) = IF S = {} THEN 0 ELSE Cardinality(S) - 1
  <2>1. Cardinality(S) \in Nat /\ (Cardinality(S) = 0 <=> S = {})
    BY <1>1, FS_CardinalityType, FS_EmptySet
  <2>2. CASE S = {}
    BY <1>1, <2>1, <2>2, FS_EmptySet DEF Drops
  <2>3. CASE S # {}
    <3>1. PICK x \in S : T = S \ {x}
      BY <1>1, <2>3 DEF Drops
    <3> QED BY <1>1, <2>1, <2>3, <3>1, FS_RemoveElement
  <2> QED BY <2>2, <2>3
<1>2. /\ IsFiniteSet(B) /\ Cardinality(A) \in Nat /\ (Cardinality(A) = 0 <=> A = {})
      /\ Cardinality(B) = IF A = {} THEN 0 ELSE Cardinality(A) - 1
  BY <1>1
<1>3. /\ IsFiniteSet(C) /\ Cardinality(B) \in Nat /\ (Cardinality(B) = 0 <=> B = {})
      /\ Cardinality(C) = IF B = {} THEN 0 ELSE Cardinality(B) - 1
  BY <1>1, <1>2
<1>4. /\ IsFiniteSet(D) /\ Cardinality(C) \in Nat /\ (Cardinality(C) = 0 <=> C = {})
      /\ Cardinality(D) = IF C = {} THEN 0 ELSE Cardinality(C) - 1
  BY <1>1, <1>3
<1>5. Cardinality(D) \in Nat /\ (Cardinality(D) = 0 <=> D = {})
  BY <1>4, FS_CardinalityType, FS_EmptySet
<1> QED BY <1>2, <1>3, <1>4, <1>5

(* Lines start behind newlines. *)
LEMMA LineStartsDef ==
  ASSUME IsText
  PROVE  /\ \A c : c \in LineStarts <=> c = 1 \/ (c \in 2 .. Len(text) + 1 /\ Newline(c - 1))
         /\ LineStarts = {1} <=> \A j \in 1 .. Len(text) : ~Newline(j)
<1>0. Len(text) \in Nat /\ DOMAIN text = 1 .. Len(text)
  BY DEF IsText
<1>1. \A j \in 1 .. Len(text) : Newline(j) <=> text[j] = "\n"
  BY <1>0 DEF Newline, Among
<1>2. LineStarts = {1} \cup {j + 1 : j \in {k \in 1 .. Len(text) : text[k] = "\n"}}
  BY <1>0 DEF LineStarts
<1>3. \A c : c \in LineStarts <=> c = 1 \/ \E j \in 1 .. Len(text) : Newline(j) /\ c = j + 1
  BY <1>1, <1>2
<1>4. ASSUME NEW c
      PROVE  (\E j \in 1 .. Len(text) : Newline(j) /\ c = j + 1)
               <=> c \in 2 .. Len(text) + 1 /\ Newline(c - 1)
  <2>1. \A j \in 1 .. Len(text) : c = j + 1 => c \in 2 .. Len(text) + 1 /\ c - 1 = j
    BY <1>0
  <2>2. c \in 2 .. Len(text) + 1 => c - 1 \in 1 .. Len(text) /\ c = (c - 1) + 1
    BY <1>0
  <2> QED BY <2>1, <2>2
<1>5. \A c : c \in LineStarts <=> c = 1 \/ (c \in 2 .. Len(text) + 1 /\ Newline(c - 1))
  BY <1>3, <1>4
<1>6. LineStarts = {1} <=> \A j \in 1 .. Len(text) : ~Newline(j)
  <2>1. ASSUME NEW j \in 1 .. Len(text), Newline(j) PROVE j + 1 \in LineStarts /\ j + 1 # 1
    BY <1>0, <1>3, <2>1
  <2>2. ASSUME \A j \in 1 .. Len(text) : ~Newline(j) PROVE LineStarts = {1}
    BY <1>3, <2>2
  <2> QED BY <2>1, <2>2
<1> QED BY <1>5, <1>6

(* What the three calls of scanWord for the request line return. *)
FirstRead == RequestLine[1]
SecondRead == RequestLine[2]
ThirdRead == RequestLine[3]

(* Each of them takes a word from the first line, if one is left. *)
LEMMA RequestLineDef ==
  ASSUME IsText
  PROVE  /\ Rest(1, 1) = WordStarts(1) /\ IsFiniteSet(WordStarts(1))
         /\ ReadsWord(1, 1, FirstRead) /\ ReadsWord(1, FirstRead.next, SecondRead)
         /\ ReadsWord(1, SecondRead.next, ThirdRead)
<1>0. Len(text) \in Nat
  BY DEF IsText
<1>1. \A i \in WordStarts(1) : i \in 1 .. Len(text) /\ i >= 1
  BY <1>0, WordStartsDef
<1>2. Rest(1, 1) = WordStarts(1)
  BY <1>1 DEF Rest
<1>3. IsFiniteSet(WordStarts(1))
  <2>1. WordStarts(1) \in SUBSET (1 .. Len(text))
    BY <1>1
  <2>2. IsFiniteSet(1 .. Len(text))
    BY <1>0, FS_Interval
  <2> QED BY <2>1, <2>2, FS_Subset
<1>4. /\ FirstRead = scanWord(1) /\ SecondRead = scanWord(FirstRead.next)
      /\ ThirdRead = scanWord(SecondRead.next)
  BY DEF RequestLine, FirstRead, SecondRead, ThirdRead
<1>5. OnLine(1, 1)
  BY <1>0 DEF OnLine
<1>6. ReadsWord(1, 1, FirstRead)
  BY <1>4, <1>5, ScanReads
<1>7. ReadsWord(1, FirstRead.next, SecondRead)
  <2>1. OnLine(1, FirstRead.next) /\ (AtEnd(FirstRead.next) \/ Space(FirstRead.next))
    BY <1>6 DEF ReadsWord
  <2> QED BY <1>4, <2>1, ScanReads
<1>8. ReadsWord(1, SecondRead.next, ThirdRead)
  <2>1. OnLine(1, SecondRead.next) /\ (AtEnd(SecondRead.next) \/ Space(SecondRead.next))
    BY <1>7 DEF ReadsWord
  <2> QED BY <1>4, <2>1, ScanReads
<1> QED BY <1>2, <1>3, <1>6, <1>7, <1>8

(* A word is read if one is left, and it is the next. *)
LEMMA WordsLeft ==
  ASSUME NEW b, NEW p, NEW w, ReadsWord(b, p, w)
  PROVE  w.word = {} <=> Rest(b, p) = {}
BY DEF ReadsWord

(* The words of a request line. *)
LEMMA WordsRead ==
  ASSUME IsText
  PROVE  LET R0 == WordStarts(1)
             R1 == Rest(1, FirstRead.next)
             R2 == Rest(1, SecondRead.next)
             R3 == Rest(1, ThirdRead.next)
         IN  /\ FirstRead.word = {} <=> R0 = {}
             /\ SecondRead.word = {} <=> R1 = {}
             /\ ThirdRead.word = {} <=> R2 = {}
             /\ R0 = {} => R1 = {}
             /\ R1 = {} => R2 = {}
             /\ R2 = {} => R3 = {}
             /\ Cardinality(R0) = 1 <=> R0 # {} /\ R1 = {}
             /\ Cardinality(R0) \in 1 .. 3 <=> R0 # {} /\ R3 = {}
             /\ Cardinality(R0) = 3 <=> R2 # {} /\ R3 = {}
             /\ R0 # {} => FirstRead.word = FirstWord(1)
             /\ R0 # {} /\ R1 # {} => SecondRead.word = SecondWord(1)
<1> DEFINE R0 == WordStarts(1)
           R1 == Rest(1, FirstRead.next)
           R2 == Rest(1, SecondRead.next)
           R3 == Rest(1, ThirdRead.next)
<1>1. /\ Rest(1, 1) = R0 /\ IsFiniteSet(R0)
      /\ ReadsWord(1, 1, FirstRead) /\ ReadsWord(1, FirstRead.next, SecondRead)
      /\ ReadsWord(1, SecondRead.next, ThirdRead)
  BY RequestLineDef
<1>2. /\ FirstRead.word = {} <=> R0 = {}
      /\ SecondRead.word = {} <=> R1 = {}
      /\ ThirdRead.word = {} <=> R2 = {}
  BY <1>1, WordsLeft
<1>3. Drops(R0, R1)
  BY <1>1, <1>2 DEF Drops, ReadsWord
<1>4. Drops(R1, R2)
  BY <1>1, <1>2 DEF Drops, ReadsWord
<1>5. Drops(R2, R3)
  BY <1>1, <1>2 DEF Drops, ReadsWord
<1>6. /\ Cardinality(R0) = 1 <=> R0 # {} /\ R1 = {}
      /\ Cardinality(R0) \in 1 .. 3 <=> R0 # {} /\ R3 = {}
      /\ Cardinality(R0) = 3 <=> R2 # {} /\ R3 = {}
  <2> HIDE DEF R0, R1, R2, R3
  <2> QED BY <1>1, <1>3, <1>4, <1>5, CountDown
<1>7. R0 # {} => FirstRead.word = FirstWord(1) /\ R1 = R0 \ {Min(R0)}
  BY <1>1, <1>2 DEF ReadsWord, FirstWord
<1>8. R0 # {} /\ R1 # {} => SecondRead.word = SecondWord(1)
  <2> SUFFICES ASSUME R0 # {}, R1 # {} PROVE SecondRead.word = SecondWord(1)
    OBVIOUS
  <2>1. SecondRead.word = WordFrom(Min(R1))
    BY <1>1, <1>2 DEF ReadsWord
  <2>2. SecondWord(1) = WordFrom(Min(R1))
    BY <1>7 DEF SecondWord
  <2> QED BY <2>1, <2>2
<1>9. (R0 = {} => R1 = {}) /\ (R1 = {} => R2 = {}) /\ (R2 = {} => R3 = {})
  BY <1>3, <1>4, <1>5 DEF Drops
<1> QED BY <1>2, <1>6, <1>7, <1>8, <1>9

-----------------------------------------------------------------------------
(* The first line is accepted if it has what a request needs.                 *)
FirstAccepted == ~scanRequestLine.err /\ nextLine(ThirdRead.next).found # "error"

FirstWell ==
  /\ Cardinality(WordStarts(1)) \in 1 .. 3 /\ ValidURL(URL)
  /\ LineStarts = {1} => Cardinality(WordStarts(1)) = 3 /\ ~Solid(Len(text))

(* scanRequestLine, in the words of the first line. *)
LEMMA ScanRequestLineDef ==
  ASSUME IsText
  PROVE  /\ scanRequestLine.err <=>
              \/ AtEnd(FirstRead.next) \/ AtEnd(SecondRead.next) \/ AtEnd(ThirdRead.next)
              \/ WordStarts(1) = {} \/ ~ValidURL(URL)
         /\ ~scanRequestLine.err =>
              /\ scanRequestLine.method = Method /\ scanRequestLine.url = URL
<1> DEFINE hasTwo == SecondRead.word # {}
           url == IF hasTwo THEN SecondRead.word ELSE FirstRead.word
           bad == \/ AtEnd(FirstRead.next) \/ AtEnd(SecondRead.next) \/ AtEnd(ThirdRead.next)
                  \/ FirstRead.word = {} \/ ~ValidURL(url)
<1>1. scanRequestLine =
        IF bad THEN Rejected
        ELSE [err |-> FALSE, method |-> IF hasTwo THEN FirstRead.word ELSE {}, url |-> url]
  <2>1. RequestLine[IF hasTwo THEN 2 ELSE 1].word = url
    BY DEF FirstRead, SecondRead
  <2>2. (\E n \in 1 .. 3 : AtEnd(RequestLine[n].next))
          <=> AtEnd(FirstRead.next) \/ AtEnd(SecondRead.next) \/ AtEnd(ThirdRead.next)
    <3>1. \A n \in 1 .. 3 : n = 1 \/ n = 2 \/ n = 3
      OBVIOUS
    <3> QED BY <3>1 DEF FirstRead, SecondRead, ThirdRead
  <2> QED BY <2>1, <2>2, Zenon DEF scanRequestLine, FirstRead, SecondRead
<1>2. FirstRead.word = {} <=> WordStarts(1) = {}
  BY WordsRead
<1>3. ASSUME WordStarts(1) # {}
      PROVE  url = URL /\ Method = IF hasTwo THEN FirstRead.word ELSE {}
  <2>1. /\ SecondRead.word = {} <=> Rest(1, FirstRead.next) = {}
        /\ Cardinality(WordStarts(1)) = 1 <=> Rest(1, FirstRead.next) = {}
        /\ FirstRead.word = FirstWord(1)
        /\ Rest(1, FirstRead.next) # {} => SecondRead.word = SecondWord(1)
    BY <1>3, WordsRead
  <2> QED BY <2>1 DEF URL, Method
<1> HIDE DEF hasTwo, url
<1>4. scanRequestLine.err <=> bad
  BY <1>1 DEF Rejected
<1> QED BY <1>1, <1>2, <1>3, <1>4 DEF Rejected

(* At the end of the text there is only one line. *)
LEMMA OneLine ==
  ASSUME IsText, NEW b, NEW p, OnLine(b, p), AtEnd(p)
  PROVE  p = Len(text) + 1 /\ \A j \in b .. Len(text) : ~Newline(j) /\ ~Carriage(j)
<1>1. Len(text) \in Nat /\ b \in Nat /\ p \in Nat /\ p > Len(text) /\ p <= Len(text) + 1
  BY DEF IsText, OnLine, AtEnd
<1>2. p = Len(text) + 1 /\ b .. p - 1 = b .. Len(text)
  BY <1>1
<1> QED BY <1>2 DEF OnLine

(* The parser accepts a first line exactly if it is one. *)
LEMMA FirstLine ==
  ASSUME IsText, LinesEnd
  PROVE  FirstAccepted <=> FirstWell
<1> DEFINE R0 == WordStarts(1)
           R1 == Rest(1, FirstRead.next)
           R2 == Rest(1, SecondRead.next)
           R3 == Rest(1, ThirdRead.next)
           E1 == AtEnd(FirstRead.next)
           E2 == AtEnd(SecondRead.next)
           E3 == AtEnd(ThirdRead.next)
           C == Cardinality(R0)
           One == LineStarts = {1}
           found == nextLine(ThirdRead.next).found
<1>0. Len(text) \in Nat /\ DOMAIN text = 1 .. Len(text)
  BY DEF IsText
<1>1. /\ ReadsWord(1, 1, FirstRead) /\ ReadsWord(1, FirstRead.next, SecondRead)
      /\ ReadsWord(1, SecondRead.next, ThirdRead)
  BY RequestLineDef
<1>2. /\ FirstRead.word = {} <=> R0 = {}
      /\ SecondRead.word = {} <=> R1 = {}
      /\ ThirdRead.word = {} <=> R2 = {}
      /\ R0 = {} => R1 = {}
      /\ R1 = {} => R2 = {}
      /\ R2 = {} => R3 = {}
      /\ C \in 1 .. 3 <=> R0 # {} /\ R3 = {}
      /\ C = 3 <=> R2 # {} /\ R3 = {}
  BY WordsRead
<1>3. scanRequestLine.err <=> E1 \/ E2 \/ E3 \/ R0 = {} \/ ~ValidURL(URL)
  BY ScanRequestLineDef
<1>4. /\ OnLine(1, FirstRead.next) /\ (E1 \/ Space(FirstRead.next))
      /\ OnLine(1, SecondRead.next) /\ (E2 \/ Space(SecondRead.next))
      /\ OnLine(1, ThirdRead.next) /\ (E3 \/ Space(ThirdRead.next))
  BY <1>1 DEF ReadsWord
<1>5. /\ found = "error" <=> R3 # {}
      /\ found \in {"line", "EOF", "error"}
      /\ found = "EOF" => \A j \in ThirdRead.next .. Len(text) : Blank(j)
      /\ found = "line" => \E e \in 1 .. Len(text) : Newline(e)
  BY <1>4, NextLineDef
<1>6. One <=> \A j \in 1 .. Len(text) : ~Newline(j)
  BY LineStartsDef
<1>7. \A i \in Nat : Space(i) <=> Blank(i) \/ Newline(i) \/ Carriage(i)
  BY Spaces
<1>8. \A i \in Nat : LinesEnd /\ Carriage(i) => Newline(i + 1) /\ i + 1 \in 1 .. Len(text)
  BY Spaces
<1>9. \A i \in Nat : /\ Solid(i) <=> ~Blank(i)
                     /\ Newline(i) => i \in 1 .. Len(text)
  <2> TAKE i \in Nat
  <2>1. Solid(i) <=> ~Blank(i)
    BY Spaces
  <2>2. Newline(i) => i \in 1 .. Len(text)
    BY Spaces
  <2> QED BY <2>1, <2>2
<1>10. ASSUME One, NEW p \in Nat, Space(p) PROVE Blank(p)
  BY <1>6, <1>7, <1>8, <1>9, <1>10
<1>11. FirstRead.next \in Nat /\ SecondRead.next \in Nat /\ ThirdRead.next \in Nat
  BY <1>0, <1>4 DEF OnLine
<1>12. ASSUME FirstAccepted PROVE FirstWell
  <2>1. ~E1 /\ ~E2 /\ ~E3 /\ R0 # {} /\ ValidURL(URL) /\ R3 = {}
    BY <1>3, <1>5, <1>12 DEF FirstAccepted
  <2>2. C \in 1 .. 3
    BY <1>2, <2>1
  <2>3. ASSUME One PROVE C = 3 /\ ~Solid(Len(text))
    <3>1. Blank(ThirdRead.next) /\ Blank(SecondRead.next) /\ Blank(FirstRead.next)
      BY <1>4, <1>10, <1>11, <2>1, <2>3
    <3>2. ThirdRead.word # {}
      BY <1>1, <3>1 DEF ReadsWord
    <3>3. found = "EOF"
      BY <1>5, <1>6, <2>1, <2>3
    <3>4. ThirdRead.next <= Len(text)
      BY <1>0, <1>11, <2>1 DEF AtEnd
    <3>5. Len(text) \in ThirdRead.next .. Len(text)
      BY <1>0, <1>11, <3>4
    <3> QED BY <1>0, <1>2, <1>5, <1>9, <2>1, <3>2, <3>3, <3>5
  <2> QED BY <2>1, <2>2, <2>3 DEF FirstWell
<1>13. ASSUME FirstWell PROVE FirstAccepted
  <2>1. /\ C \in 1 .. 3 /\ R0 # {} /\ R3 = {} /\ ValidURL(URL)
        /\ One => C = 3 /\ R2 # {} /\ R1 # {} /\ Blank(Len(text))
    BY <1>0, <1>2, <1>9, <1>13 DEF FirstWell
  <2>2. ASSUME NEW p, OnLine(1, p), AtEnd(p) PROVE One /\ p = Len(text) + 1 /\ Rest(1, p) = {}
    <3>1. p = Len(text) + 1 /\ \A j \in 1 .. Len(text) : ~Newline(j)
      BY <2>2, OneLine
    <3>2. \A i \in WordStarts(1) : i \in 1 .. Len(text)
      BY WordStartsDef
    <3>3. Rest(1, p) = {}
      BY <1>0, <3>1, <3>2 DEF Rest
    <3> QED BY <1>6, <3>1, <3>3
  <2>3. ~E1
    BY <1>4, <2>1, <2>2
  <2>4. ~E2
    BY <1>4, <2>1, <2>2
  <2>5. ~E3
    <3> SUFFICES ASSUME E3 PROVE FALSE
      OBVIOUS
    <3>1. One /\ ThirdRead.next = Len(text) + 1
      BY <1>4, <2>2
    <3>2. ThirdRead.word # {}
      BY <1>2, <2>1, <3>1
    <3>3. ~Space(ThirdRead.next - 1) /\ ThirdRead.next - 1 = Len(text)
      BY <1>0, <1>1, <3>1, <3>2 DEF ReadsWord
    <3> QED BY <1>0, <1>7, <2>1, <3>1, <3>3
  <2>6. ~scanRequestLine.err
    BY <1>3, <2>1, <2>3, <2>4, <2>5
  <2>7. found # "error"
    BY <1>5, <2>1
  <2> QED BY <2>6, <2>7 DEF FirstAccepted
<1> QED BY <1>12, <1>13

(* scanLine moves on, but not behind the end. *)
LEMMA ScanLineNext ==
  ASSUME IsText, NEW p \in 1 .. Len(text) + 1
  PROVE  \E s \in p .. Len(text) + 1, e \in p .. Len(text) + 1 :
           /\ s <= e /\ s = skipWhitespace(p)
           /\ AtEnd(e) \/ Newline(e)
           /\ \A j \in s .. e - 1 : ~Newline(j)
           /\ AtEnd(e) => scanLine(p).value = s .. e - 1 /\ scanLine(p).next = e
           /\ ~AtEnd(e) =>
                /\ scanLine(p).next = e + 1 /\ e + 1 \in p .. Len(text) + 1
                /\ scanLine(p).value =
                     s .. Max({j \in s .. e - 1 : ~Blank(j) /\ ~Carriage(j)} \cup {s - 1})
<1>0. Len(text) \in Nat /\ p \in Nat
  BY DEF IsText
<1> DEFINE s == skipWhitespace(p)
           e == Find(s, {"\n"})
           solid == {j \in s .. e - 1 : ~Among(j, {" ", "\r"})}
<1>1. s \in p .. Len(text) + 1
  BY SkipDef
<1>2. s \in 1 .. Len(text) + 1 /\ s \in Nat
  BY <1>0, <1>1
<1>3. scanLine(p) = IF AtEnd(e) THEN [value |-> s .. e - 1, next |-> e]
                    ELSE [value |-> s .. Max(solid \cup {s - 1}), next |-> e + 1]
  BY DEF scanLine
<1> HIDE DEF s
<1>4. /\ e \in s .. Len(text) + 1 /\ (AtEnd(e) \/ Newline(e))
      /\ \A j \in s .. e - 1 : ~Newline(j)
  BY <1>2, FindDef DEF Newline
<1> HIDE DEF e
<1>5. e \in p .. Len(text) + 1 /\ s <= e /\ e \in Nat
  BY <1>0, <1>1, <1>2, <1>4
<1>6. solid = {j \in s .. e - 1 : ~Blank(j) /\ ~Carriage(j)}
  <2>1. \A j \in s .. e - 1 : Among(j, {" ", "\r"}) <=> Blank(j) \/ Carriage(j)
    <3> TAKE j \in s .. e - 1
    <3>1. j \in Nat
      BY <1>2, <1>5
    <3> QED BY <3>1, Spaces
  <2> QED BY <2>1
<1> HIDE DEF solid
<1>7. ~AtEnd(e) => e + 1 \in p .. Len(text) + 1
  BY <1>0, <1>5 DEF AtEnd
<1>8. AtEnd(e) => scanLine(p).value = s .. e - 1 /\ scanLine(p).next = e
  BY <1>3
<1>9. ~AtEnd(e) => /\ scanLine(p).next = e + 1
                   /\ scanLine(p).value =
                        s .. Max({j \in s .. e - 1 : ~Blank(j) /\ ~Carriage(j)} \cup {s - 1})
  BY <1>3, <1>6
<1>10. s = skipWhitespace(p)
  BY DEF s
<1> QED BY <1>1, <1>4, <1>5, <1>7, <1>8, <1>9, <1>10, Zenon

(* Where the next header is read. *)
Later(i) == scanLine(scanWord(i).next).next

(* One round of the loop of scanHeaders, given what the rounds after it do.   *)
HeadersFrom(i, later) ==
  LET scanned == scanWord(i)
      word    == scanned.word
      line    == scanLine(scanned.next)
      set(name, value) == IF IsNamed(word, name) /\ value = Default THEN line.value ELSE value
      field   == [line |-> i, name |-> word, value |-> line.value]
  IN  IF EndsHeaders(word)
      THEN [err |-> FALSE, host |-> Default, agent |-> Default, others |-> <<>>,
            next |-> scanned.next]
      ELSE IF AtEnd(scanned.next) \/ ~EndsWithColon(word) \/ later.err THEN Rejected
      ELSE [err |-> FALSE, host |-> set("h", later.host), agent |-> set("a", later.agent),
            others |-> IF IsNamed(word, "h") \/ IsNamed(word, "a") THEN later.others
                       ELSE <<field>> \o later.others,
            next |-> later.next]

(* The next header is behind this one. *)
LEMMA LaterIsLater ==
  ASSUME IsText, NEW i \in 1 .. Len(text) + 1, scanWord(i).word # {}
  PROVE  Later(i) \in i + 1 .. Len(text) + 1
<1>0. Len(text) \in Nat /\ i \in Nat
  BY DEF IsText
<1>1. PICK s \in i .. Len(text) + 1, e \in i .. Len(text) + 1 :
           s <= e /\ scanWord(i).word = s .. e - 1 /\ scanWord(i).next = e
  BY ScanWordDef
<1>2. e \in i + 1 .. Len(text) + 1 /\ e \in 1 .. Len(text) + 1
  <2>1. \E j \in s .. e - 1 : TRUE
    BY <1>1
  <2> QED BY <1>0, <1>1, <2>1
<1>3. scanLine(e).next \in e .. Len(text) + 1
  BY <1>2, ScanLineNext
<1> QED BY <1>0, <1>1, <1>2, <1>3 DEF Later

(* scanHeaders is what its definition says. *)
LEMMA ScanHeadersDef ==
  ASSUME IsText
  PROVE  \A i \in 1 .. Len(text) + 1 : scanHeaders[i] = HeadersFrom(i, scanHeaders[Later(i)])
<1> DEFINE N == Len(text) + 1
           B(d, i) == HeadersFrom(i, d[Later(i)])
           Is(d) == d = [i \in 1 .. N |-> B(d, i)]
           Good(d, m) == \A i \in (N + 1) - m .. N : d[i] = B(d, i)
           S == {m \in Nat : m <= N => \E d : Good(d, m)}
<1>0. N \in Nat /\ N >= 1
  BY DEF IsText
<1>a. ASSUME NEW i \in 1 .. N, NEW d, NEW e, \A j \in i + 1 .. N : d[j] = e[j]
      PROVE  B(d, i) = B(e, i)
  <2>1. CASE scanWord(i).word = {}
    BY <2>1 DEF HeadersFrom, EndsHeaders
  <2>2. CASE scanWord(i).word # {}
    <3>1. Later(i) \in i + 1 .. N
      BY <2>2, LaterIsLater
    <3>2. d[Later(i)] = e[Later(i)]
      BY <1>a, <3>1
    <3> QED BY <3>2
  <2> QED BY <2>1, <2>2
<1>1. 0 \in S
  <2>1. (N + 1) - 0 .. N = {}
    BY <1>0
  <2> HIDE DEF B, N
  <2>2. Good([i \in {} |-> 0], 0)
    BY <2>1
  <2> HIDE DEF Good
  <2> QED BY <2>2
<1>2. \A m \in Nat : m \in S => m + 1 \in S
  <2> SUFFICES ASSUME NEW m \in Nat, m \in S, m + 1 <= N
               PROVE  \E d : Good(d, m + 1)
    <3> HIDE DEF Good, N
    <3> QED OBVIOUS
  <2>1. PICK d : Good(d, m)
    <3> HIDE DEF Good, N
    <3>1. m <= N
      BY <1>0
    <3> QED BY <3>1
  <2> DEFINE k == N - m
             e == [i \in k .. N |-> IF i > k THEN d[i] ELSE B(d, k)]
  <2>2. k \in 1 .. N /\ (N + 1) - (m + 1) = k /\ (N + 1) - m = k + 1
    BY <1>0
  <2> HIDE DEF B, N
  <2>3. /\ \A i \in k + 1 .. N : i \in k .. N /\ e[i] = d[i]
        /\ e[k] = B(d, k)
    BY <1>0, <2>2
  <2> HIDE DEF e, k
  <2>4. \A i \in k .. N : B(e, i) = B(d, i)
    <3> TAKE i \in k .. N
    <3>1. i \in 1 .. N /\ \A j \in i + 1 .. N : e[j] = d[j]
      BY <1>0, <2>2, <2>3
    <3> QED BY <1>a, <3>1
  <2>5. \A i \in k .. N : i = k \/ i \in k + 1 .. N
    BY <1>0, <2>2
  <2>6. \A i \in k .. N : e[i] = B(e, i)
    BY <2>1, <2>2, <2>3, <2>4, <2>5
  <2>7. Good(e, m + 1)
    BY <2>2, <2>6
  <2> HIDE DEF Good
  <2> QED BY <2>7
<1>3. PICK d0 : Good(d0, N)
  <2>1. N \in S
    <3> HIDE DEF S, N
    <3> QED BY <1>0, <1>1, <1>2, NatSetInduction
  <2> HIDE DEF Good, N
  <2> QED BY <1>0, <2>1
<1> DEFINE d == [i \in 1 .. N |-> d0[i]]
<1>4. Is(d)
  <2>1. \A i \in 1 .. N : d0[i] = B(d0, i)
    <3>1. (N + 1) - N = 1
      BY <1>0
    <3> HIDE DEF B, N
    <3> QED BY <1>3, <3>1
  <2>2. \A i \in 1 .. N : B(d0, i) = B(d, i)
    <3> TAKE i \in 1 .. N
    <3>1. \A j \in i + 1 .. N : d0[j] = d[j]
      BY <1>0
    <3> HIDE DEF B, d, N
    <3> QED BY <1>a, <3>1
  <2>3. d = [i \in 1 .. N |-> d[i]] /\ \A i \in 1 .. N : d[i] = d0[i]
    OBVIOUS
  <2> HIDE DEF d, B, N
  <2> QED BY <2>1, <2>2, <2>3
<1>5. Is(scanHeaders)
  <2>1. scanHeaders = CHOOSE h : h = [i \in 1 .. Len(text) + 1 |-> HeadersFrom(i, h[Later(i)])]
    BY Zenon DEF scanHeaders, HeadersFrom, Later
  <2>2. \E h : h = [i \in 1 .. Len(text) + 1 |-> HeadersFrom(i, h[Later(i)])]
    <3> HIDE DEF d
    <3> QED BY <1>4
  <2>3. scanHeaders = [i \in 1 .. Len(text) + 1 |-> HeadersFrom(i, scanHeaders[Later(i)])]
    BY <2>1, <2>2, Zenon
  <2> QED BY <2>3
<1> QED BY <1>5

(* Blanks around a value do not matter. *)
LEMMA TrimSame ==
  ASSUME NEW a \in Nat, NEW c \in Int, NEW S \in SUBSET Nat, a .. c \subseteq S,
         \A j \in S : ~Blank(j) => j \in a .. c
  PROVE  Trim(S) = Trim(a .. c)
<1>0. \A j : Solid(j) <=> ~Blank(j)
  BY DEF Solid, Blank
<1>1. ASSUME NEW i \in Trim(S) PROVE i \in Trim(a .. c)
  <2>1. PICK j \in S, k \in S : i \in S /\ j <= i /\ i <= k /\ ~Blank(j) /\ ~Blank(k)
    BY <1>0, <1>1 DEF Trim
  <2>2. j \in a .. c /\ k \in a .. c /\ i \in Nat
    BY <2>1
  <2>3. i \in a .. c
    BY <2>1, <2>2
  <2> QED BY <1>0, <2>1, <2>2, <2>3 DEF Trim
<1>2. ASSUME NEW i \in Trim(a .. c) PROVE i \in Trim(S)
  BY <1>2 DEF Trim
<1> QED BY <1>1, <1>2

(* The value of a header, and where its line ends. *)
LEMMA HeaderValue ==
  ASSUME IsText, LinesEnd, NEW i \in 1 .. Len(text) + 1,
         NEW s \in i .. Len(text), NEW p \in i .. Len(text), s < p, OnLine(i, p), Space(p),
         \A j \in i .. s - 1 : Blank(j)
  PROVE  /\ Trim(scanLine(p).value) = Trim(Line(i) \ (s .. p - 1))
         /\ scanLine(p).value # Default
         /\ \/ \E e \in i .. Len(text) : /\ Newline(e) /\ scanLine(p).next = e + 1
                                         /\ \A j \in i .. e - 1 : ~Newline(j)
            \/ scanLine(p).next = Len(text) + 1 /\ \A j \in i .. Len(text) : ~Newline(j)
<1>0. /\ Len(text) \in Nat /\ i \in Nat /\ s \in Nat /\ p \in Nat /\ p \in 1 .. Len(text) + 1
      /\ i \in Nat \ {0} /\ i <= s /\ s < p /\ p <= Len(text)
      /\ \A j \in i .. p - 1 : ~Newline(j) /\ ~Carriage(j)
  BY DEF IsText, OnLine
<1>1. PICK b \in p .. Len(text) + 1, e \in p .. Len(text) + 1 :
           /\ b <= e /\ b = skipWhitespace(p)
           /\ AtEnd(e) \/ Newline(e)
           /\ \A j \in b .. e - 1 : ~Newline(j)
           /\ AtEnd(e) => scanLine(p).value = b .. e - 1 /\ scanLine(p).next = e
           /\ ~AtEnd(e) =>
                /\ scanLine(p).next = e + 1
                /\ scanLine(p).value =
                     b .. Max({j \in b .. e - 1 : ~Blank(j) /\ ~Carriage(j)} \cup {b - 1})
  BY <1>0, ScanLineNext
<1>2. \A j \in p .. b - 1 : Blank(j)
  BY <1>0, <1>1, SkipDef
<1>3. b \in Nat /\ e \in Nat /\ p <= b /\ b <= e /\ e <= Len(text) + 1
  BY <1>0, <1>1
<1>4. \A j \in Nat : /\ ~(Blank(j) /\ Newline(j)) /\ ~(Blank(j) /\ Carriage(j))
                     /\ ~(Newline(j) /\ Carriage(j))
                     /\ Space(j) => j \in 1 .. Len(text)
                     /\ AtEnd(j) <=> j > Len(text)
                     /\ Space(j) <=> Blank(j) \/ Newline(j) \/ Carriage(j)
                     /\ Carriage(j) => Newline(j + 1) /\ j + 1 \in 1 .. Len(text)
  BY Spaces
<1>5. \A j \in i .. b - 1 : ~Newline(j) /\ ~Carriage(j)
  <2> TAKE j \in i .. b - 1
  <2>1. j \in i .. p - 1 \/ j \in p .. b - 1
    BY <1>0, <1>3
  <2>2. j \in Nat
    BY <1>0
  <2> QED BY <1>0, <1>2, <1>4, <2>1, <2>2
<1>6. \A j \in i .. e - 1 : ~Newline(j)
  <2> TAKE j \in i .. e - 1
  <2>1. j \in i .. b - 1 \/ j \in b .. e - 1
    BY <1>0, <1>3
  <2> QED BY <1>1, <1>5, <2>1
<1>7. \A j \in i .. e - 1 : Carriage(j) => j = e - 1 /\ ~AtEnd(e)
  <2> SUFFICES ASSUME NEW j \in i .. e - 1, Carriage(j) PROVE j = e - 1 /\ ~AtEnd(e)
    OBVIOUS
  <2>1. j \in Nat /\ Newline(j + 1) /\ j + 1 <= Len(text)
    BY <1>0, <1>4
  <2>2. j + 1 \notin i .. e - 1
    BY <1>6, <2>1
  <2>3. j + 1 = e
    BY <1>0, <1>3, <2>1, <2>2
  <2> QED BY <1>3, <1>4, <2>1, <2>3
<1>8. \A j : j \in Line(i) <=> /\ j \in i .. Len(text)
                               /\ \A k \in i .. j : ~Newline(k) /\ ~Carriage(k)
  <2> TAKE j
  <2>1. j \in Line(i) <=> j \in i .. Len(text) /\ OnLine(i, j + 1)
    BY <1>0, LinePlaces
  <2>2. j \in i .. Len(text) => (j + 1) - 1 = j /\ j + 1 \in i .. Len(text) + 1
    BY <1>0
  <2> QED BY <1>0, <2>1, <2>2 DEF OnLine
<1>9. \A j : j \in Line(i) <=> j \in i .. e - 1 /\ ~Carriage(j)
  <2>1. ASSUME NEW j \in Line(i) PROVE j \in i .. e - 1 /\ ~Carriage(j)
    <3>1. j \in i .. Len(text) /\ \A k \in i .. j : ~Newline(k) /\ ~Carriage(k)
      BY <1>8, <2>1
    <3>2. j < e
      <4> SUFFICES ASSUME j >= e PROVE FALSE
        BY <1>0, <1>3, <3>1
      <4>1. e \in i .. j /\ ~AtEnd(e)
        BY <1>0, <1>3, <1>4, <3>1
      <4> QED BY <1>1, <3>1, <4>1
    <3> QED BY <1>0, <1>3, <3>1, <3>2
  <2>2. ASSUME NEW j \in i .. e - 1, ~Carriage(j) PROVE j \in Line(i)
    <3>1. j \in i .. Len(text)
      BY <1>0, <1>3
    <3>2. \A k \in i .. j : ~Newline(k) /\ ~Carriage(k)
      <4> TAKE k \in i .. j
      <4>1. k \in i .. e - 1 /\ (k = e - 1 => k = j)
        BY <1>0, <1>3
      <4> QED BY <1>6, <1>7, <2>2, <4>1
    <3> QED BY <1>8, <3>1, <3>2
  <2> QED BY <2>1, <2>2
<1> DEFINE S == Line(i) \ (s .. p - 1)
           V == scanLine(p).value
<1>10. S \in SUBSET Nat
  BY <1>0, <1>8
<1>11. \A j \in S : ~Blank(j) => j \in b .. e - 1 /\ ~Carriage(j)
  <2> SUFFICES ASSUME NEW j \in S, ~Blank(j) PROVE j \in b .. e - 1 /\ ~Carriage(j)
    OBVIOUS
  <2>1. j \in i .. e - 1 /\ ~Carriage(j) /\ j \notin s .. p - 1 /\ j \in Nat
    BY <1>0, <1>9
  <2>2. j \notin i .. s - 1 /\ j \notin p .. b - 1
    BY <1>2
  <2> QED BY <1>0, <1>3, <2>1, <2>2
<1>12. ASSUME NEW c \in Int, V = b .. c, c < e, \A j \in b .. c : ~Carriage(j),
              \A j \in b .. e - 1 : ~Blank(j) /\ ~Carriage(j) => j <= c
       PROVE  Trim(V) = Trim(S) /\ V # Default
  <2>1. b .. c \subseteq S
    <3> SUFFICES ASSUME NEW j \in b .. c PROVE j \in S
      OBVIOUS
    <3>1. j \in i .. e - 1 /\ j \notin s .. p - 1 /\ j \in Nat
      BY <1>0, <1>3, <1>12
    <3> QED BY <1>9, <1>12, <3>1
  <2>2. \A j \in S : ~Blank(j) => j \in b .. c
    <3> SUFFICES ASSUME NEW j \in S, ~Blank(j) PROVE j \in b .. c
      OBVIOUS
    <3>1. j \in b .. e - 1 /\ ~Carriage(j) /\ j <= c
      BY <1>11, <1>12
    <3> QED BY <1>3, <3>1
  <2>3. Trim(S) = Trim(b .. c)
    <3> HIDE DEF S
    <3> QED BY <1>3, <1>10, <2>1, <2>2, TrimSame
  <2>4. 0 \notin b .. c
    BY <1>0, <1>3
  <2> QED BY <1>12, <2>3, <2>4 DEF Default
<1>13. CASE AtEnd(e)
  <2>1. e = Len(text) + 1 /\ e - 1 = Len(text)
    BY <1>0, <1>3, <1>4, <1>13
  <2>2. V = b .. e - 1 /\ scanLine(p).next = e
    BY <1>1, <1>13
  <2>3. Trim(V) = Trim(S) /\ V # Default
    <3>1. \A j \in b .. e - 1 : ~Carriage(j)
      <4> TAKE j \in b .. e - 1
      <4>1. j \in i .. e - 1
        BY <1>0, <1>3
      <4> QED BY <1>7, <1>13, <4>1
    <3>2. e - 1 \in Int /\ e - 1 < e /\ \A j \in b .. e - 1 : j <= e - 1
      BY <1>3
    <3> HIDE DEF V, S
    <3> QED BY <1>12, <2>2, <3>1, <3>2
  <2> QED BY <1>6, <2>1, <2>2, <2>3
<1>14. CASE ~AtEnd(e)
  <2> DEFINE T == {j \in b .. e - 1 : ~Blank(j) /\ ~Carriage(j)} \cup {b - 1}
  <2>1. V = b .. Max(T) /\ scanLine(p).next = e + 1 /\ Newline(e)
    BY <1>1, <1>14
  <2>2. T \in SUBSET (0 .. e) /\ T # {} /\ b - 1 \in T
    BY <1>0, <1>3
  <2>3. Max(T) \in T /\ \A y \in T : Max(T) >= y
    <3> HIDE DEF T
    <3> QED BY <1>3, <2>2, MaxOf
  <2>4. Max(T) \in Int /\ Max(T) < e /\ Max(T) >= b - 1
    BY <1>0, <1>3, <2>2, <2>3
  <2>5. \A j \in b .. e - 1 : ~Blank(j) /\ ~Carriage(j) => j <= Max(T)
    <3> SUFFICES ASSUME NEW j \in b .. e - 1, ~Blank(j), ~Carriage(j) PROVE j <= Max(T)
      OBVIOUS
    <3>1. j \in T /\ j \in Nat
      BY <1>3
    <3> HIDE DEF T
    <3> QED BY <2>3, <2>4, <3>1
  <2>6. \A j \in b .. Max(T) : ~Carriage(j)
    <3> SUFFICES ASSUME NEW j \in b .. Max(T), Carriage(j) PROVE FALSE
      OBVIOUS
    <3>1. j \in i .. e - 1 /\ j \in Nat
      BY <1>0, <1>3, <2>4
    <3>2. j = e - 1
      BY <1>7, <3>1
    <3>3. Max(T) = j /\ Max(T) # b - 1
      BY <1>3, <2>4, <3>1, <3>2
    <3> QED BY <2>3, <3>3
  <2>7. Trim(V) = Trim(S) /\ V # Default
    <3> HIDE DEF V, S, T
    <3> QED BY <1>12, <2>1, <2>4, <2>5, <2>6
  <2>8. e \in i .. Len(text)
    BY <1>0, <1>3, <1>4, <1>14
  <2> QED BY <1>6, <2>1, <2>7, <2>8
<1> QED BY <1>13, <1>14

(* One header, as the parser reads it. *)
LEMMA HeaderRead ==
  ASSUME IsText, LinesEnd, NEW i \in 1 .. Len(text) + 1, WordStarts(i) # {}
  PROVE  LET w == scanWord(i)
             l == scanLine(w.next)
         IN  /\ w.word = FirstWord(i) /\ w.word # {}
             /\ EndsWithColon(w.word) <=> EndsWithColon(FirstWord(i))
             /\ AtEnd(w.next) <=> Len(text) \in FirstWord(i)
             /\ ~AtEnd(w.next) =>
                  /\ Trim(l.value) = Value(i) /\ l.value # Default
                  /\ \/ \E e \in i .. Len(text) : /\ Newline(e) /\ l.next = e + 1
                                                  /\ \A j \in i .. e - 1 : ~Newline(j)
                     \/ l.next = Len(text) + 1 /\ \A j \in i .. Len(text) : ~Newline(j)
<1> DEFINE w == scanWord(i)
<1>0. Len(text) \in Nat /\ i \in Nat \ {0} /\ i <= Len(text) + 1
  BY DEF IsText
<1>1. OnLine(i, i) /\ Fresh(i, i)
  BY <1>0 DEF OnLine, Fresh
<1>2. Rest(i, i) = WordStarts(i)
  <2>1. \A k \in WordStarts(i) : k >= i
    BY <1>0, WordStartsDef
  <2> QED BY <2>1 DEF Rest
<1>3. /\ w.next \in i .. Len(text) + 1
      /\ OnLine(i, w.next)
      /\ AtEnd(w.next) \/ Space(w.next)
      /\ w.word = {} => Rest(i, i) = {}
      /\ w.word # {} =>
              \E s \in Rest(i, i) :
                /\ s = Min(Rest(i, i)) /\ w.word = WordFrom(s)
                /\ w.word = s .. w.next - 1 /\ s < w.next
                /\ \A j \in i .. s - 1 : Blank(j)
  BY <1>1, Scan
<1>4. PICK s \in WordStarts(i) :
                /\ s = Min(WordStarts(i)) /\ w.word = WordFrom(s)
                /\ w.word = s .. w.next - 1 /\ s < w.next
                /\ \A j \in i .. s - 1 : Blank(j)
  BY <1>2, <1>3
<1>5. w.word = FirstWord(i) /\ w.word # {}
  BY <1>2, <1>3, <1>4 DEF FirstWord
<1>6. s \in i .. Len(text)
  BY <1>0, WordStartsDef
<1>7. AtEnd(w.next) <=> Len(text) \in w.word
  BY <1>0, <1>3, <1>4, <1>6 DEF AtEnd
<1>8. ASSUME ~AtEnd(w.next)
      PROVE  /\ Trim(scanLine(w.next).value) = Value(i) /\ scanLine(w.next).value # Default
             /\ \/ \E e \in i .. Len(text) : /\ Newline(e) /\ scanLine(w.next).next = e + 1
                                             /\ \A j \in i .. e - 1 : ~Newline(j)
                \/ /\ scanLine(w.next).next = Len(text) + 1
                   /\ \A j \in i .. Len(text) : ~Newline(j)
  <2>1. w.next \in i .. Len(text)
    BY <1>0, <1>3, <1>8 DEF AtEnd
  <2>2. Space(w.next) /\ OnLine(i, w.next)
    BY <1>3, <1>8
  <2>3. Value(i) = Trim(Line(i) \ (s .. w.next - 1))
    BY <1>4, <1>5 DEF Value
  <2> HIDE DEF w
  <2> QED BY <1>4, <1>6, <2>1, <2>2, <2>3, HeaderValue
<1> QED BY <1>5, <1>7, <1>8

(* The first line without a word. *)
LEMMA SeparatorDef ==
  ASSUME IsText
  PROVE  /\ Separator \in 2 .. Len(text) + 2
         /\ Separator # Len(text) + 2 => Separator \in LineStarts /\ WordStarts(Separator) = {}
         /\ \A b \in HeaderStarts :
              b \in 2 .. Len(text) /\ b \in LineStarts /\ b < Separator /\ WordStarts(b) # {}
<1>0. Len(text) \in Nat
  BY DEF IsText
<1> DEFINE S == {b \in LineStarts \ {1} : WordStarts(b) = {}} \cup {Len(text) + 2}
<1>1. \A b \in LineStarts \ {1} : b \in 2 .. Len(text) + 1
  BY LineStartsDef
<1>2. S \in SUBSET Nat /\ S # {} /\ S \subseteq 2 .. Len(text) + 2
  BY <1>0, <1>1
<1>3. Min(S) \in S /\ \A y \in S : Min(S) <= y
  <2> HIDE DEF S
  <2> QED BY <1>2, MinOf
<1>4. Separator = Min(S)
  BY DEF Separator
<1>5. Separator \in S /\ \A y \in S : Separator <= y
  BY <1>3, <1>4, Zenon
<1>6. Separator \in 2 .. Len(text) + 2
  BY <1>2, <1>5
<1>7. ASSUME NEW b \in HeaderStarts
      PROVE  b \in 2 .. Len(text) /\ b \in LineStarts /\ b < Separator /\ WordStarts(b) # {}
  <2>1. b \in LineStarts \ {1} /\ b < Separator /\ b \in 2 .. Len(text) + 1
    BY <1>1 DEF HeaderStarts
  <2>2. WordStarts(b) # {}
    BY <1>0, <1>5, <1>6, <2>1
  <2>3. PICK j \in WordStarts(b) : TRUE
    BY <2>2
  <2>4. j \in b .. Len(text)
    BY <1>0, <2>1, WordStartsDef
  <2> QED BY <1>0, <2>1, <2>2, <2>4
<1> QED BY <1>5, <1>6, <1>7

(* The places from which scanHeaders reads a line, or the end. *)
ReadFrom ==
  {i \in LineStarts \ {1} : i <= Separator}
  \cup (IF Separator = Len(text) + 2 THEN {Len(text) + 1} ELSE {})

(* Where the headers end. *)
HeadersEnd(p) ==
  IF Separator = Len(text) + 2 THEN p = Len(text) + 1
  ELSE OnLine(Separator, p) /\ (AtEnd(p) \/ Space(p)) /\ Rest(Separator, p) = {}

(* The headers from i on are the one at i and those from k on. *)
Precedes(i, k) == i < k /\ \A c \in HeaderStarts : c >= i <=> c = i \/ c >= k

(* The line behind a newline is read next. *)
LEMMA HeaderBehind ==
  ASSUME IsText, NEW i \in HeaderStarts, NEW k,
         \/ \E e \in i .. Len(text) : Newline(e) /\ k = e + 1 /\ \A j \in i .. e - 1 : ~Newline(j)
         \/ k = Len(text) + 1 /\ \A j \in i .. Len(text) : ~Newline(j)
  PROVE  k \in ReadFrom /\ k \in Nat /\ Precedes(i, k)
<1>0. Len(text) \in Nat
  BY DEF IsText
<1>1. /\ Separator \in 2 .. Len(text) + 2
      /\ Separator # Len(text) + 2 => Separator \in LineStarts
      /\ \A b \in HeaderStarts : b \in 2 .. Len(text) /\ b \in LineStarts /\ b < Separator
  BY SeparatorDef
<1>2. \A c : c \in LineStarts <=> c = 1 \/ (c \in 2 .. Len(text) + 1 /\ Newline(c - 1))
  BY LineStartsDef
<1>3. i \in 2 .. Len(text) /\ i < Separator
  BY <1>1
<1>4. CASE \E e \in i .. Len(text) : /\ Newline(e) /\ k = e + 1
                                     /\ \A j \in i .. e - 1 : ~Newline(j)
  <2>1. PICK e \in i .. Len(text) : /\ Newline(e) /\ k = e + 1
                                    /\ \A j \in i .. e - 1 : ~Newline(j)
    BY <1>4
  <2>2. e \in Nat /\ k \in 2 .. Len(text) + 1 /\ k - 1 = e /\ i < k /\ k # 1
    BY <1>0, <1>3, <2>1
  <2>3. k \in LineStarts \ {1}
    BY <1>2, <2>1, <2>2
  <2>4. ASSUME NEW c \in LineStarts, c > i PROVE c >= k
    <3>1. c \in 2 .. Len(text) + 1 /\ Newline(c - 1)
      BY <1>0, <1>2, <1>3, <2>4
    <3>2. c - 1 \notin i .. e - 1
      BY <2>1, <3>1
    <3> QED BY <1>0, <1>3, <2>2, <2>4, <3>1, <3>2
  <2>5. k <= Separator
    <3>1. CASE Separator = Len(text) + 2
      BY <1>0, <2>2, <3>1
    <3>2. CASE Separator # Len(text) + 2
      BY <1>0, <1>1, <1>3, <2>2, <2>4, <3>2
    <3> QED BY <3>1, <3>2
  <2>6. ASSUME NEW c \in HeaderStarts PROVE c >= i <=> c = i \/ c >= k
    <3>1. c \in Nat /\ c \in LineStarts
      BY <1>0, <1>1
    <3> QED BY <1>0, <1>3, <2>2, <2>4, <3>1
  <2> QED BY <2>2, <2>3, <2>5, <2>6 DEF ReadFrom, Precedes
<1>5. CASE k = Len(text) + 1 /\ \A j \in i .. Len(text) : ~Newline(j)
  <2>1. ASSUME NEW c \in LineStarts, c > i PROVE FALSE
    <3>1. c \in 2 .. Len(text) + 1 /\ Newline(c - 1)
      BY <1>0, <1>2, <1>3, <2>1
    <3>2. c - 1 \in i .. Len(text)
      BY <1>0, <1>3, <2>1, <3>1
    <3> QED BY <1>5, <3>1, <3>2
  <2>2. Separator = Len(text) + 2
    BY <1>0, <1>1, <1>3, <2>1
  <2>3. ASSUME NEW c \in HeaderStarts PROVE c >= i <=> c = i \/ c >= k
    <3>1. c \in 2 .. Len(text) /\ c \in LineStarts /\ c \in Nat
      BY <1>0, <1>1
    <3> QED BY <1>0, <1>3, <1>5, <2>1, <3>1
  <2> QED BY <1>0, <1>3, <1>5, <2>2, <2>3 DEF ReadFrom, Precedes
<1> QED BY <1>4, <1>5

(* At the end of the headers there is no word. *)
LEMMA NoHeader ==
  ASSUME IsText, NEW i \in ReadFrom, i \notin HeaderStarts
  PROVE  /\ i \in 1 .. Len(text) + 1 /\ scanWord(i).word = {}
         /\ \A c \in HeaderStarts : ~(c >= i)
         /\ HeadersEnd(scanWord(i).next)
<1>0. Len(text) \in Nat
  BY DEF IsText
<1>1. /\ Separator \in 2 .. Len(text) + 2
      /\ Separator # Len(text) + 2 => Separator \in LineStarts /\ WordStarts(Separator) = {}
      /\ \A b \in HeaderStarts : b \in 2 .. Len(text) /\ b < Separator
  BY SeparatorDef
<1>2. \A c \in LineStarts : c \in 1 .. Len(text) + 1
  BY <1>0, LineStartsDef
<1>3. i = Separator \/ (i = Len(text) + 1 /\ Separator = Len(text) + 2)
  <2>1. CASE i \in LineStarts \ {1} /\ i <= Separator
    <3>1. ~(i < Separator)
      BY <2>1 DEF HeaderStarts
    <3> QED BY <1>0, <1>1, <1>2, <2>1, <3>1
  <2> QED BY <2>1 DEF ReadFrom
<1>4. i \in 1 .. Len(text) + 1
  BY <1>0, <1>2 DEF ReadFrom
<1>5. \A c \in HeaderStarts : ~(c >= i)
  BY <1>0, <1>1, <1>3, <1>4
<1>6. CASE Separator = Len(text) + 2
  <2>1. i = Len(text) + 1
    BY <1>0, <1>3, <1>4, <1>6
  <2>2. PICK s \in i .. Len(text) + 1, e \in i .. Len(text) + 1 :
           s <= e /\ scanWord(i).word = s .. e - 1 /\ scanWord(i).next = e
    BY <1>4, ScanWordDef
  <2>3. s = Len(text) + 1 /\ e = Len(text) + 1
    BY <1>0, <2>1, <2>2
  <2>4. s .. e - 1 = {}
    BY <1>0, <2>3
  <2> QED BY <1>4, <1>5, <1>6, <2>2, <2>3, <2>4 DEF HeadersEnd
<1>7. CASE Separator # Len(text) + 2
  <2>1. i = Separator /\ WordStarts(i) = {}
    BY <1>1, <1>3, <1>7
  <2>2. OnLine(i, i)
    BY <1>0, <1>4 DEF OnLine
  <2>3. ReadsWord(i, i, scanWord(i))
    BY <2>2, ScanReads
  <2>4. Rest(i, i) = {}
    BY <2>1 DEF Rest
  <2>5. scanWord(i).word = {}
    BY <2>3, <2>4, WordsLeft
  <2>6. HeadersEnd(scanWord(i).next)
    BY <1>7, <2>1, <2>3, <2>5 DEF HeadersEnd, ReadsWord
  <2> QED BY <1>4, <1>5, <2>5, <2>6
<1> QED BY <1>6, <1>7

-----------------------------------------------------------------------------
(* A header that the parser takes for an error. *)
Faulty(c) == ~EndsWithColon(FirstWord(c)) \/ Len(text) \in FirstWord(c)

(* v is the value that the headers from i on give to a name. *)
ValueFrom(i, name, v) ==
  LET S == {c \in HeadersNamed(name) : c >= i}
  IN  IF S = {} THEN v = Default ELSE v # Default /\ Trim(v) = Value(Max(S))

Fields == [line : Nat, name : SUBSET Int, value : SUBSET Int]

(* o is the list of the headers from i on that have no name of their own.     *)
OthersFrom(i, o) ==
  /\ o \in Seq(Fields)
  /\ {o[n].line : n \in DOMAIN o} = {c \in Others : c >= i}
  /\ \A m, n \in DOMAIN o : m < n => o[m].line < o[n].line
  /\ \A n \in DOMAIN o : o[n].name = FirstWord(o[n].line) /\ Trim(o[n].value) = Value(o[n].line)

(* What scanHeaders finds from i on. *)
HeadersOK(i, h) ==
  /\ h.err <=> \E c \in HeaderStarts : c >= i /\ Faulty(c)
  /\ ~h.err => /\ ValueFrom(i, "h", h.host) /\ ValueFrom(i, "a", h.agent)
               /\ OthersFrom(i, h.others) /\ HeadersEnd(h.next)

(* A later value stays. *)
LEMMA ValueStep ==
  ASSUME IsText, NEW i \in HeaderStarts, NEW k \in Nat, Precedes(i, k), NEW name,
         NEW v, ValueFrom(k, name, v), NEW u, Trim(u) = Value(i), u # Default
  PROVE  ValueFrom(i, name, IF IsNamed(FirstWord(i), name) /\ v = Default THEN u ELSE v)
<1>0. Len(text) \in Nat /\ \A c \in HeaderStarts : c \in 2 .. Len(text) /\ c \in Nat
  BY SeparatorDef DEF IsText
<1> DEFINE S == {c \in HeadersNamed(name) : c >= i}
           T == {c \in HeadersNamed(name) : c >= k}
<1>1. \A c \in HeadersNamed(name) : c \in HeaderStarts
  BY DEF HeadersNamed
<1>2. S = T \cup (IF IsNamed(FirstWord(i), name) THEN {i} ELSE {})
  <2>1. i \in HeadersNamed(name) <=> IsNamed(FirstWord(i), name)
    BY DEF HeadersNamed
  <2>2. \A c \in HeadersNamed(name) : c >= i <=> c = i \/ c >= k
    BY <1>1 DEF Precedes
  <2>3. i >= i /\ ~(i >= k)
    BY <1>0 DEF Precedes
  <2> QED BY <2>1, <2>2, <2>3
<1>3. IF T = {} THEN v = Default ELSE v # Default /\ Trim(v) = Value(Max(T))
  BY DEF ValueFrom
<1>4. S \in SUBSET (0 .. Len(text)) /\ T \in SUBSET (0 .. Len(text)) /\ \A c \in T : i < c
  <2>1. \A c \in HeadersNamed(name) : c \in 0 .. Len(text)
    BY <1>0, <1>1
  <2>2. \A c \in T : i < c
    BY <1>0, <1>1 DEF Precedes
  <2> QED BY <2>1, <2>2
<1>5. ASSUME T # {} PROVE Max(S) = Max(T)
  <2> HIDE DEF S, T
  <2>1. Max(T) \in T /\ \A y \in T : Max(T) >= y
    BY <1>0, <1>4, <1>5, MaxOf
  <2>2. S # {}
    BY <1>2, <1>5
  <2>3. Max(S) \in S /\ \A y \in S : Max(S) >= y
    BY <1>0, <1>4, <2>2, MaxOf
  <2>4. Max(T) \in S /\ Max(T) \in Nat /\ Max(S) \in Nat /\ i < Max(T) /\ i \in Nat
    BY <1>0, <1>2, <1>4, <2>1, <2>3
  <2>5. Max(S) >= Max(T)
    BY <2>3, <2>4
  <2>6. Max(S) \in T
    BY <1>2, <2>3, <2>4, <2>5
  <2> QED BY <2>1, <2>4, <2>5, <2>6
<1>6. ASSUME S = {i} PROVE Max(S) = i
  <2>1. Max(S) \in S
    <3>1. S # {}
      BY <1>6
    <3> HIDE DEF S
    <3> QED BY <1>0, <1>4, <3>1, MaxOf
  <2> QED BY <1>6, <2>1
<1> HIDE DEF S, T
<1>7. CASE T # {}
  <2>1. S # {} /\ v # Default
    BY <1>2, <1>3, <1>7
  <2>2. v # Default /\ Trim(v) = Value(Max(S))
    BY <1>3, <1>5, <1>7
  <2> QED BY <2>1, <2>2 DEF ValueFrom, S
<1>8. CASE T = {} /\ IsNamed(FirstWord(i), name)
  <2>1. S = {i} /\ v = Default
    BY <1>2, <1>3, <1>8
  <2>2. S # {} /\ Trim(u) = Value(Max(S))
    BY <1>6, <2>1
  <2> QED BY <1>8, <2>1, <2>2 DEF ValueFrom, S
<1>9. CASE T = {} /\ ~IsNamed(FirstWord(i), name)
  <2>1. S = {} /\ v = Default
    BY <1>2, <1>3, <1>9
  <2> QED BY <1>9, <2>1 DEF ValueFrom, S
<1> QED BY <1>7, <1>8, <1>9

(* Another header comes before the later ones. *)
LEMMA OthersStep ==
  ASSUME IsText, NEW i \in HeaderStarts, NEW k \in Nat, Precedes(i, k),
         NEW o, OthersFrom(k, o), NEW f \in Fields,
         f.line = i, f.name = FirstWord(i), Trim(f.value) = Value(i)
  PROVE  OthersFrom(i, IF IsNamed(f.name, "h") \/ IsNamed(f.name, "a") THEN o ELSE <<f>> \o o)
<1>0. Len(text) \in Nat /\ \A c \in HeaderStarts : c \in 2 .. Len(text) /\ c \in Nat
  BY SeparatorDef DEF IsText
<1> DEFINE S == {c \in Others : c >= i}
           T == {c \in Others : c >= k}
           named == IsNamed(f.name, "h") \/ IsNamed(f.name, "a")
<1>1. S = T \cup (IF named THEN {} ELSE {i})
  <2>1. i \in Others <=> ~named
    BY DEF Others, HeadersNamed
  <2>2. \A c \in Others : c >= i <=> c = i \/ c >= k
    BY DEF Precedes, Others
  <2>3. i >= i /\ ~(i >= k)
    BY <1>0 DEF Precedes
  <2> QED BY <2>1, <2>2, <2>3
<1>2. \A c \in T : i < c
  BY <1>0 DEF Precedes, Others
<1>3. /\ o \in Seq(Fields)
      /\ {o[n].line : n \in DOMAIN o} = T
      /\ \A m, n \in DOMAIN o : m < n => o[m].line < o[n].line
      /\ \A n \in DOMAIN o : o[n].name = FirstWord(o[n].line) /\ Trim(o[n].value) = Value(o[n].line)
  BY DEF OthersFrom
<1> HIDE DEF S, T, named
<1>4. CASE named
  <2>1. S = T
    BY <1>1, <1>4
  <2> QED BY <1>3, <1>4, <2>1 DEF OthersFrom, S, named
<1>5. CASE ~named
  <2> DEFINE r == <<f>> \o o
  <2>1. /\ r \in Seq(Fields) /\ Len(o) \in Nat /\ DOMAIN o = 1 .. Len(o)
        /\ DOMAIN r = 1 .. Len(o) + 1
        /\ r[1] = f /\ \A n \in 1 .. Len(o) : r[n + 1] = o[n]
    BY <1>3
  <2>2. \A n \in DOMAIN r : n = 1 \/ (n - 1 \in DOMAIN o /\ r[n] = o[n - 1])
    <3> TAKE n \in DOMAIN r
    <3>1. n = 1 \/ (n - 1 \in 1 .. Len(o) /\ (n - 1) + 1 = n)
      BY <2>1
    <3> HIDE DEF r
    <3> QED BY <2>1, <3>1
  <2>3. \A n \in DOMAIN o : n + 1 \in DOMAIN r /\ r[n + 1] = o[n]
    BY <2>1
  <2>4. 1 \in DOMAIN r /\ r[1].line = i
    BY <2>1
  <2> HIDE DEF r
  <2>5. {r[n].line : n \in DOMAIN r} = T \cup {i}
    <3>1. \A n \in DOMAIN r : r[n].line \in T \cup {i}
      BY <1>3, <2>2, <2>4
    <3>2. \A c \in T : \E n \in DOMAIN r : r[n].line = c
      BY <1>3, <2>3
    <3> QED BY <2>4, <3>1, <3>2
  <2>6. \A m, n \in DOMAIN r : m < n => r[m].line < r[n].line
    <3> SUFFICES ASSUME NEW m \in DOMAIN r, NEW n \in DOMAIN r, m < n
                 PROVE  r[m].line < r[n].line
      OBVIOUS
    <3>1. m \in Nat /\ n \in Nat /\ m >= 1 /\ n # 1
      BY <2>1
    <3>2. n - 1 \in DOMAIN o /\ r[n] = o[n - 1]
      BY <2>2, <3>1
    <3>3. CASE m = 1
      BY <1>2, <1>3, <2>4, <3>2, <3>3
    <3>4. CASE m # 1
      <4>1. m - 1 \in DOMAIN o /\ r[m] = o[m - 1] /\ m - 1 < n - 1
        BY <2>2, <3>1, <3>4
      <4> QED BY <1>3, <3>2, <4>1
    <3> QED BY <3>3, <3>4
  <2>7. \A n \in DOMAIN r : r[n].name = FirstWord(r[n].line) /\ Trim(r[n].value) = Value(r[n].line)
    BY <1>3, <2>1, <2>2
  <2>8. S = T \cup {i}
    BY <1>1, <1>5
  <2>9. OthersFrom(i, r)
    BY <2>1, <2>5, <2>6, <2>7, <2>8 DEF OthersFrom, S
  <2> QED BY <1>5, <2>9 DEF r, named
<1> QED BY <1>4, <1>5

(* What scanWord and scanLine return is a set of places. *)
LEMMA FieldPlaces ==
  ASSUME IsText, NEW i \in 1 .. Len(text) + 1
  PROVE  /\ scanWord(i).word \in SUBSET Int
         /\ scanWord(i).next \in 1 .. Len(text) + 1
         /\ scanLine(scanWord(i).next).value \in SUBSET Int
<1>0. Len(text) \in Nat /\ i \in Nat
  BY DEF IsText
<1>1. PICK s \in i .. Len(text) + 1, e \in i .. Len(text) + 1 :
           s <= e /\ scanWord(i).word = s .. e - 1 /\ scanWord(i).next = e
  BY ScanWordDef
<1>2. e \in 1 .. Len(text) + 1
  BY <1>0
<1> DEFINE T(b, d) == {j \in b .. d - 1 : ~Blank(j) /\ ~Carriage(j)} \cup {b - 1}
<1>3. PICK b \in e .. Len(text) + 1, d \in e .. Len(text) + 1 :
           /\ AtEnd(d) => scanLine(e).value = b .. d - 1
           /\ ~AtEnd(d) => scanLine(e).value = b .. Max(T(b, d))
  BY <1>2, ScanLineNext
<1>4. b .. d - 1 \in SUBSET Int /\ b .. Max(T(b, d)) \in SUBSET Int
  <2> HIDE DEF T
  <2> QED OBVIOUS
<1> HIDE DEF T
<1>5. scanLine(e).value \in SUBSET Int
  BY <1>3, <1>4
<1>6. scanWord(i).word \in SUBSET Int
  BY <1>1
<1> QED BY <1>1, <1>2, <1>5, <1>6

(* A header is what scanHeaders makes of its line and of the headers behind   *)
(* it, if they are.                                                           *)
LEMMA HeaderFound ==
  ASSUME IsText, LinesEnd, NEW i \in HeaderStarts, i \in 1 .. Len(text) + 1,
         \A k \in ReadFrom : k > i => HeadersOK(k, scanHeaders[k])
  PROVE  HeadersOK(i, scanHeaders[i])
<1> DEFINE w == scanWord(i)
           l == scanLine(w.next)
           h == scanHeaders[i]
           k == Later(i)
           g == scanHeaders[k]
<1>0. Len(text) \in Nat /\ i \in Nat /\ WordStarts(i) # {}
  BY SeparatorDef DEF IsText
<1>1. /\ w.word = FirstWord(i) /\ w.word # {}
      /\ AtEnd(w.next) <=> Len(text) \in FirstWord(i)
      /\ ~AtEnd(w.next) =>
           /\ Trim(l.value) = Value(i) /\ l.value # Default
           /\ \/ \E e \in i .. Len(text) : /\ Newline(e) /\ l.next = e + 1
                                           /\ \A j \in i .. e - 1 : ~Newline(j)
              \/ l.next = Len(text) + 1 /\ \A j \in i .. Len(text) : ~Newline(j)
  BY <1>0, HeaderRead
<1>2. h = HeadersFrom(i, g)
  BY ScanHeadersDef
<1>3. k = l.next
  BY DEF Later
<1>4. CASE Faulty(i)
  <2>1. AtEnd(w.next) \/ ~EndsWithColon(w.word)
    BY <1>1, <1>4 DEF Faulty
  <2>2. h = Rejected
    BY <1>1, <1>2, <2>1 DEF HeadersFrom, EndsHeaders
  <2>3. h.err /\ i >= i
    BY <1>0, <2>2 DEF Rejected
  <2> QED BY <1>4, <2>3 DEF HeadersOK
<1>5. CASE ~Faulty(i)
  <2>1. ~AtEnd(w.next) /\ EndsWithColon(w.word)
    BY <1>1, <1>5 DEF Faulty
  <2>2. k \in ReadFrom /\ k \in Nat /\ Precedes(i, k)
    <3>1. \/ \E e \in i .. Len(text) : /\ Newline(e) /\ k = e + 1
                                       /\ \A j \in i .. e - 1 : ~Newline(j)
          \/ k = Len(text) + 1 /\ \A j \in i .. Len(text) : ~Newline(j)
      BY <1>1, <1>3, <2>1
    <3> HIDE DEF k
    <3> QED BY <3>1, HeaderBehind
  <2>3. HeadersOK(k, g)
    <3>1. k > i
      BY <1>0, <2>2 DEF Precedes
    <3> HIDE DEF k
    <3> QED BY <2>2, <3>1
  <2>4. g.err <=> \E c \in HeaderStarts : c >= i /\ Faulty(c)
    <3>1. \A c \in HeaderStarts : c >= i <=> c = i \/ c >= k
      BY <2>2 DEF Precedes
    <3>2. g.err <=> \E c \in HeaderStarts : c >= k /\ Faulty(c)
      BY <2>3 DEF HeadersOK
    <3> HIDE DEF g, k
    <3> QED BY <1>5, <3>1, <3>2
  <2> DEFINE set(name, v) == IF IsNamed(w.word, name) /\ v = Default THEN l.value ELSE v
             field == [line |-> i, name |-> w.word, value |-> l.value]
  <2>5. CASE g.err
    <3>1. h = Rejected
      BY <1>1, <1>2, <2>5 DEF HeadersFrom, EndsHeaders
    <3>2. h.err
      BY <3>1 DEF Rejected
    <3> QED BY <2>4, <2>5, <3>2 DEF HeadersOK
  <2>6. CASE ~g.err
    <3>1. h = [err |-> FALSE, host |-> set("h", g.host), agent |-> set("a", g.agent),
               others |-> IF IsNamed(w.word, "h") \/ IsNamed(w.word, "a") THEN g.others
                          ELSE <<field>> \o g.others,
               next |-> g.next]
      <4>1. ~EndsHeaders(w.word)
        BY <1>1 DEF EndsHeaders
      <4> QED BY <1>2, <2>1, <2>6, <4>1, Zenon DEF HeadersFrom
    <3> DEFINE others == IF IsNamed(w.word, "h") \/ IsNamed(w.word, "a") THEN g.others
                         ELSE <<field>> \o g.others
    <3>2. /\ ~h.err /\ h.host = set("h", g.host) /\ h.agent = set("a", g.agent)
          /\ h.others = others /\ h.next = g.next
      <4> HIDE DEF h, others, set, g
      <4> QED BY <3>1 DEF others
    <3>3. ValueFrom(k, "h", g.host) /\ ValueFrom(k, "a", g.agent) /\ OthersFrom(k, g.others)
          /\ HeadersEnd(g.next)
      BY <2>3, <2>6 DEF HeadersOK
    <3>4. Trim(l.value) = Value(i) /\ l.value # Default
      BY <1>1, <2>1
    <3>5. field \in Fields
      <4>1. w.word \in SUBSET Int /\ l.value \in SUBSET Int
        BY FieldPlaces
      <4> QED BY <1>0, <4>1 DEF Fields
    <3>6. ValueFrom(i, "h", set("h", g.host)) /\ ValueFrom(i, "a", set("a", g.agent))
      <4> HIDE DEF k, g, l
      <4> QED BY <1>1, <2>2, <3>3, <3>4, ValueStep
    <3>7. OthersFrom(i, others)
      <4>1. field.line = i /\ field.name = w.word /\ field.value = l.value
        BY DEF field
      <4> HIDE DEF k, g, l, field
      <4>2. OthersFrom(i, IF IsNamed(field.name, "h") \/ IsNamed(field.name, "a") THEN g.others
                          ELSE <<field>> \o g.others)
        BY <1>1, <2>2, <3>3, <3>4, <3>5, <4>1, OthersStep
      <4> QED BY <4>1, <4>2
    <3>8. HeadersOK(i, h)
      <4>1. ValueFrom(i, "h", h.host) /\ ValueFrom(i, "a", h.agent)
        BY <3>2, <3>6
      <4>2. OthersFrom(i, h.others) /\ HeadersEnd(h.next)
        BY <3>2, <3>3, <3>7
      <4>3. h.err <=> \E c \in HeaderStarts : c >= i /\ Faulty(c)
        BY <2>4, <2>6, <3>2
      <4> HIDE DEF h
      <4> QED BY <4>1, <4>2, <4>3 DEF HeadersOK
    <3> QED BY <3>8 DEF h
  <2> QED BY <2>5, <2>6
<1> QED BY <1>4, <1>5

(* Where the headers end, scanHeaders finds none. *)
LEMMA NothingFound ==
  ASSUME IsText, NEW i \in ReadFrom, i \notin HeaderStarts
  PROVE  HeadersOK(i, scanHeaders[i])
<1>1. /\ i \in 1 .. Len(text) + 1 /\ scanWord(i).word = {}
      /\ \A c \in HeaderStarts : ~(c >= i)
      /\ HeadersEnd(scanWord(i).next)
  BY NoHeader
<1>2. scanHeaders[i] = HeadersFrom(i, scanHeaders[Later(i)])
  BY <1>1, ScanHeadersDef
<1>3. scanHeaders[i] = [err |-> FALSE, host |-> Default, agent |-> Default, others |-> <<>>,
                        next |-> scanWord(i).next]
  BY <1>1, <1>2 DEF HeadersFrom, EndsHeaders
<1>4. \A name : ValueFrom(i, name, Default)
  <2>1. \A name : {c \in HeadersNamed(name) : c >= i} = {}
    BY <1>1 DEF HeadersNamed
  <2> QED BY <2>1 DEF ValueFrom
<1>5. OthersFrom(i, <<>>)
  <2>1. {c \in Others : c >= i} = {}
    BY <1>1 DEF Others
  <2>2. << >> \in Seq(Fields) /\ DOMAIN << >> = {}
    OBVIOUS
  <2>3. {<< >>[n].line : n \in DOMAIN << >>} = {}
    BY <2>2
  <2> QED BY <2>1, <2>2, <2>3 DEF OthersFrom
<1> QED BY <1>1, <1>3, <1>4, <1>5 DEF HeadersOK

(* scanHeaders finds the headers, from the last one back to each of them. *)
LEMMA HeadersFound ==
  ASSUME IsText, LinesEnd
  PROVE  \A i \in ReadFrom : HeadersOK(i, scanHeaders[i])
<1>0. Len(text) \in Nat
  BY DEF IsText
<1>1. \A i \in ReadFrom : i \in 1 .. Len(text) + 1
  <2>1. \A c \in LineStarts : c \in 1 .. Len(text) + 1
    BY <1>0, LineStartsDef
  <2> QED BY <1>0, <2>1 DEF ReadFrom
<1> DEFINE OK(i) == HeadersOK(i, scanHeaders[i])
           S == {m \in Nat : \A i \in ReadFrom : i + m >= Len(text) + 2 => OK(i)}
<1>2. ASSUME NEW i \in ReadFrom, \A k \in ReadFrom : k > i => OK(k)
      PROVE  OK(i)
  <2>1. CASE i \in HeaderStarts
    BY <1>1, <1>2, <2>1, HeaderFound
  <2>2. CASE i \notin HeaderStarts
    BY <2>2, NothingFound
  <2> QED BY <2>1, <2>2
<1> HIDE DEF OK
<1>3. 0 \in S
  BY <1>0, <1>1
<1>4. \A m \in Nat : m \in S => m + 1 \in S
  <2> SUFFICES ASSUME NEW m \in Nat, m \in S, NEW i \in ReadFrom, i + (m + 1) >= Len(text) + 2
               PROVE  OK(i)
    OBVIOUS
  <2>1. \A k \in ReadFrom : k > i => OK(k)
    BY <1>0, <1>1
  <2> QED BY <1>2, <2>1
<1>5. Len(text) + 1 \in S
  <2> HIDE DEF S
  <2>1. \A m \in Nat : m \in S
    BY <1>3, <1>4, NatSetInduction
  <2> QED BY <1>0, <2>1
<1>6. \A i \in ReadFrom : OK(i)
  BY <1>0, <1>1, <1>5
<1> QED BY <1>6 DEF OK

(* What nextLine finds behind a request line: the end of the text, or the     *)
(* second line.                                                               *)
LEMMA AfterRequestLine ==
  ASSUME IsText, LinesEnd
  PROVE  LET after == nextLine(ThirdRead.next)
         IN  /\ after.found \in {"line", "EOF", "error"}
             /\ after.found = "EOF" => LineStarts = {1} /\ HeaderStarts = {} /\ Body = {}
             /\ after.found = "line" =>
                  /\ after.next \in ReadFrom /\ \A c \in HeaderStarts : c >= after.next
                  /\ LineStarts # {1}
<1> DEFINE p == ThirdRead.next
           after == nextLine(p)
<1>0. Len(text) \in Nat /\ DOMAIN text = 1 .. Len(text)
  BY DEF IsText
<1>1. OnLine(1, p) /\ (AtEnd(p) \/ Space(p))
  BY RequestLineDef DEF ReadsWord
<1>2. /\ after.found \in {"line", "EOF", "error"}
      /\ after.found = "line" =>
           \E e \in 1 .. Len(text) : /\ after.next = e + 1 /\ Newline(e)
                                     /\ \A j \in 1 .. e - 1 : ~Newline(j)
      /\ after.found = "EOF" => OnLine(1, Len(text) + 1)
  <2> HIDE DEF p
  <2> QED BY <1>1, NextLineDef
<1> HIDE DEF after
<1>3. /\ \A c : c \in LineStarts <=> c = 1 \/ (c \in 2 .. Len(text) + 1 /\ Newline(c - 1))
      /\ LineStarts = {1} <=> \A j \in 1 .. Len(text) : ~Newline(j)
  BY LineStartsDef
<1>4. /\ Separator \in 2 .. Len(text) + 2
      /\ Separator # Len(text) + 2 => Separator \in LineStarts
  BY SeparatorDef
<1>5. ASSUME after.found = "EOF" PROVE LineStarts = {1} /\ HeaderStarts = {} /\ Body = {}
  <2>1. \A j \in 1 .. Len(text) : ~Newline(j)
    <3>1. (Len(text) + 1) - 1 = Len(text)
      BY <1>0
    <3> QED BY <1>2, <1>5, <3>1 DEF OnLine
  <2>2. LineStarts = {1}
    BY <1>3, <2>1
  <2>3. HeaderStarts = {}
    BY <2>2 DEF HeaderStarts
  <2>4. ASSUME NEW i \in Body PROVE FALSE
    <3>1. PICK j \in Separator .. i - 1 : Newline(j)
      BY <2>4 DEF Body, Newline
    <3>2. i \in 1 .. Len(text)
      BY <1>0, <2>4 DEF Body
    <3>3. j \in 1 .. Len(text)
      BY <1>0, <1>4, <3>1, <3>2
    <3> QED BY <2>1, <3>1, <3>3
  <2> QED BY <2>2, <2>3, <2>4
<1>6. ASSUME after.found = "line"
      PROVE  /\ after.next \in ReadFrom /\ \A c \in HeaderStarts : c >= after.next
             /\ LineStarts # {1}
  <2>1. PICK e \in 1 .. Len(text) : /\ after.next = e + 1 /\ Newline(e)
                                    /\ \A j \in 1 .. e - 1 : ~Newline(j)
    BY <1>2, <1>6
  <2>2. e + 1 \in 2 .. Len(text) + 1 /\ (e + 1) - 1 = e
    BY <1>0
  <2>3. e + 1 \in LineStarts \ {1}
    BY <1>3, <2>1, <2>2
  <2>4. ASSUME NEW c \in LineStarts \ {1} PROVE c >= e + 1
    <3>1. c \in 2 .. Len(text) + 1 /\ Newline(c - 1)
      BY <1>3
    <3>2. c - 1 \notin 1 .. e - 1
      BY <2>1, <3>1
    <3> QED BY <1>0, <3>1, <3>2
  <2>5. e + 1 <= Separator
    <3>1. CASE Separator = Len(text) + 2
      BY <1>0, <2>2, <3>1
    <3>2. CASE Separator # Len(text) + 2
      BY <1>0, <1>4, <2>4, <3>2
    <3> QED BY <3>1, <3>2
  <2>6. e + 1 \in ReadFrom
    BY <2>3, <2>5 DEF ReadFrom
  <2>7. \A c \in HeaderStarts : c >= e + 1
    BY <2>4 DEF HeaderStarts
  <2>8. LineStarts # {1}
    BY <2>3
  <2> QED BY <2>1, <2>6, <2>7, <2>8
<1> QED BY <1>2, <1>5, <1>6 DEF after

(* What nextLine finds behind the headers: the end of the text, or the body.  *)
LEMMA AfterHeaders ==
  ASSUME IsText, LinesEnd, NEW q, HeadersEnd(q)
  PROVE  LET after == nextLine(q)
         IN  /\ after.found # "error"
             /\ Body = IF after.found = "EOF" THEN {} ELSE after.next .. Len(text)
<1> DEFINE after == nextLine(q)
<1>0. Len(text) \in Nat /\ DOMAIN text = 1 .. Len(text)
  BY DEF IsText
<1>1. Separator \in 2 .. Len(text) + 2
  BY SeparatorDef
<1>2. \A i : i \in Body <=> i \in 1 .. Len(text) /\ \E j \in Separator .. i - 1 : Newline(j)
  BY <1>0 DEF Body, Newline
<1>3. CASE Separator = Len(text) + 2
  <2>1. q = Len(text) + 1 /\ q \in 1 .. Len(text) + 1
    BY <1>0, <1>3 DEF HeadersEnd
  <2>2. skipWhitespace(q) = q
    <3>1. skipWhitespace(q) \in q .. Len(text) + 1
      BY <2>1, SkipDef
    <3> QED BY <1>0, <2>1, <3>1
  <2>3. q \notin DOMAIN text /\ q > Len(text)
    BY <1>0, <2>1
  <2>4. \A chars : ~Among(q, chars)
    BY <2>3 DEF Among
  <2>5. after.found = "EOF"
    BY <2>2, <2>3, <2>4 DEF nextLine, AtEnd
  <2>6. Body = {}
    <3>1. ASSUME NEW i \in 1 .. Len(text) PROVE Separator .. i - 1 = {}
      BY <1>0, <1>3
    <3> QED BY <1>2, <3>1
  <2> QED BY <2>5, <2>6
<1>4. CASE Separator # Len(text) + 2
  <2>1. OnLine(Separator, q) /\ (AtEnd(q) \/ Space(q)) /\ Rest(Separator, q) = {}
    BY <1>4 DEF HeadersEnd
  <2>2. /\ after.found = "error" <=> Rest(Separator, q) # {}
        /\ after.found \in {"line", "EOF", "error"}
        /\ after.found = "line" =>
             \E e \in Separator .. Len(text) : /\ after.next = e + 1 /\ Newline(e)
                                               /\ \A j \in Separator .. e - 1 : ~Newline(j)
        /\ after.found = "EOF" => OnLine(Separator, Len(text) + 1)
    BY <2>1, NextLineDef
  <2> HIDE DEF after
  <2>3. CASE after.found = "EOF"
    <3>1. \A j \in Separator .. Len(text) : ~Newline(j)
      <4>1. (Len(text) + 1) - 1 = Len(text)
        BY <1>0
      <4> QED BY <2>2, <2>3, <4>1 DEF OnLine
    <3>2. ASSUME NEW i \in Body PROVE FALSE
      <4>1. PICK j \in Separator .. i - 1 : Newline(j)
        BY <1>2, <3>2
      <4>2. i \in 1 .. Len(text)
        BY <1>2, <3>2
      <4>3. j \in Separator .. Len(text)
        BY <1>0, <1>1, <4>1, <4>2
      <4> QED BY <3>1, <4>1, <4>3
    <3> QED BY <2>3, <3>2 DEF after
  <2>4. CASE after.found = "line"
    <3>1. PICK e \in Separator .. Len(text) : /\ after.next = e + 1 /\ Newline(e)
                                              /\ \A j \in Separator .. e - 1 : ~Newline(j)
      BY <2>2, <2>4
    <3>2. ASSUME NEW i PROVE i \in Body <=> i \in e + 1 .. Len(text)
      <4>1. ASSUME i \in Body PROVE i \in e + 1 .. Len(text)
        <5>1. PICK j \in Separator .. i - 1 : Newline(j)
          BY <1>2, <4>1
        <5>2. i \in 1 .. Len(text)
          BY <1>2, <4>1
        <5>3. j \notin Separator .. e - 1
          BY <3>1, <5>1
        <5> QED BY <1>0, <1>1, <5>1, <5>2, <5>3
      <4>2. ASSUME i \in e + 1 .. Len(text) PROVE i \in Body
        <5>1. i \in 1 .. Len(text) /\ e \in Separator .. i - 1
          BY <1>0, <1>1, <4>2
        <5> QED BY <1>2, <3>1, <5>1
      <4> QED BY <4>1, <4>2
    <3>3. Body = after.next .. Len(text)
      BY <3>1, <3>2
    <3> QED BY <2>4, <3>3 DEF after
  <2> QED BY <2>1, <2>2, <2>3, <2>4 DEF after
<1> QED BY <1>3, <1>4

(* What a text looks like is its first line and its headers. *)
LEMMA WellFormedDef ==
  WellFormed <=> FirstWell /\ \A c \in HeaderStarts : ~Faulty(c)
BY DEF WellFormed, FirstWell, EndsWell, Faulty

(* The value of all headers is the last one. *)
LEMMA ValueOfAll ==
  ASSUME IsText, NEW i, \A c \in HeaderStarts : c >= i, NEW name, NEW v, ValueFrom(i, name, v)
  PROVE  Trim(v) = LastValue(name)
<1>1. {c \in HeadersNamed(name) : c >= i} = HeadersNamed(name)
  BY DEF HeadersNamed
<1>2. Trim(Default) = Default
  <2>1. Solid(0)
    <3>1. 0 \notin DOMAIN text
      BY DEF IsText
    <3> QED BY <3>1 DEF Solid, Among
  <2>2. ASSUME NEW i0 \in Default PROVE i0 \in Trim(Default)
    BY <2>1 DEF Default, Trim
  <2> QED BY <2>2 DEF Trim
<1> QED BY <1>1, <1>2 DEF ValueFrom, LastValue

(* What TextIsSent says of a request. *)
IsSent(request) ==
  LET others == request.others
  IN  /\ ~request.err <=> WellFormed
      /\ ~request.err =>
           /\ request.method = Method /\ request.url = URL /\ request.body = Body
           /\ Trim(request.host) = LastValue("h") /\ Trim(request.agent) = Agent
           /\ {others[n].line : n \in DOMAIN others} = Others
           /\ \A m, n \in DOMAIN others : m < n => others[m].line < others[n].line
           /\ \A n \in DOMAIN others :
                /\ others[n].name = FirstWord(others[n].line)
                /\ Trim(others[n].value) = Value(others[n].line)

(* A request is sent as its headers from the second line on say. *)
LEMMA SentFrom ==
  ASSUME IsText, NEW i, \A c \in HeaderStarts : c >= i, WellFormed, NEW line,
         line.method = Method, line.url = URL, NEW h,
         ValueFrom(i, "h", h.host), OthersFrom(i, h.others),
         IF LineStarts = {1} THEN h.agent = NilHeader ELSE ValueFrom(i, "a", h.agent)
  PROVE  IsSent(Sent(line, h, Body))
<1> DEFINE r == Sent(line, h, Body)
<1>1. /\ r.err = FALSE /\ r.method = Method /\ r.url = URL /\ r.body = Body
      /\ r.host = h.host /\ r.agent = h.agent /\ r.others = h.others
  BY DEF Sent
<1> HIDE DEF r
<1>2. Trim(r.host) = LastValue("h") /\ Trim(r.agent) = Agent
  <2>1. CASE LineStarts = {1}
    <3>1. Trim(NilHeader) = NilHeader
      <4>1. Solid(-1)
        <5>1. -1 \notin DOMAIN text
          BY DEF IsText
        <5> QED BY <5>1 DEF Solid, Among
      <4> QED BY <4>1 DEF NilHeader, Trim
    <3> QED BY <1>1, <2>1, <3>1, ValueOfAll DEF Agent
  <2>2. CASE LineStarts # {1}
    BY <1>1, <2>2, ValueOfAll DEF Agent
  <2> QED BY <2>1, <2>2
<1>3. {c \in Others : c >= i} = Others
  BY DEF Others
<1> DEFINE others == h.others
<1>4. /\ {others[n].line : n \in DOMAIN others} = Others
      /\ \A m, n \in DOMAIN others : m < n => others[m].line < others[n].line
      /\ \A n \in DOMAIN others : /\ others[n].name = FirstWord(others[n].line)
                                  /\ Trim(others[n].value) = Value(others[n].line)
  BY <1>3 DEF OthersFrom
<1> HIDE DEF others
<1>5. r.others = others
  BY <1>1 DEF others
<1>6. IsSent(r)
  BY <1>1, <1>2, <1>4, <1>5 DEF IsSent
<1> QED BY <1>6 DEF r

(* Every text is parsed as it looks. *)
LEMMA ParsedText ==
  ASSUME IsText
  PROVE  TextIsSent
<1> SUFFICES ASSUME LinesEnd PROVE IsSent(parse)
  BY DEF TextIsSent, IsSent, LinesEnd
<1> DEFINE line == scanRequestLine
           after == nextLine(RequestLine[3].next)
           i == after.next
           h == scanHeaders[i]
           behind == nextLine(h.next)
           none == [host |-> Default, agent |-> NilHeader, others |-> <<>>]
<1>1. parse = IF line.err \/ after.found = "error" THEN Rejected
              ELSE IF after.found = "EOF" THEN Sent(line, none, {})
              ELSE IF h.err \/ behind.found = "error" THEN Rejected
              ELSE Sent(line, h, IF behind.found = "EOF" THEN {} ELSE behind.next .. Len(text))
  BY DEF parse
<1>2. after = nextLine(ThirdRead.next)
  BY DEF ThirdRead
<1>3. FirstAccepted <=> FirstWell
  BY FirstLine
<1>4. FirstAccepted <=> ~line.err /\ after.found # "error"
  BY <1>2 DEF FirstAccepted
<1>5. ~line.err => line.method = Method /\ line.url = URL
  BY ScanRequestLineDef
<1>6. /\ after.found \in {"line", "EOF", "error"}
      /\ after.found = "EOF" => LineStarts = {1} /\ HeaderStarts = {} /\ Body = {}
      /\ after.found = "line" => /\ i \in ReadFrom /\ \A c \in HeaderStarts : c >= i
                                 /\ LineStarts # {1}
  BY <1>2, AfterRequestLine
<1>7. ASSUME ~WellFormed PROVE IsSent(Rejected)
  BY <1>7 DEF IsSent, Rejected
<1> HIDE DEF line, after, h
<1>8. CASE ~FirstAccepted
  BY <1>1, <1>3, <1>4, <1>7, <1>8, WellFormedDef
<1>9. CASE FirstAccepted /\ after.found = "EOF"
  <2>1. LineStarts = {1} /\ HeaderStarts = {} /\ Body = {}
    BY <1>6, <1>9
  <2>2. WellFormed
    BY <1>3, <1>9, <2>1, WellFormedDef
  <2>3. parse = Sent(line, none, Body)
    BY <1>1, <1>4, <1>9, <2>1
  <2>4. /\ none.host = Default /\ none.agent = NilHeader /\ none.others = <<>>
    OBVIOUS
  <2>5. HeadersNamed("h") = {} /\ Others = {}
    BY <2>1 DEF HeadersNamed, Others
  <2>6. ValueFrom(0, "h", none.host)
    BY <2>4, <2>5 DEF ValueFrom
  <2>7. OthersFrom(0, none.others)
    <3>1. << >> \in Seq(Fields) /\ DOMAIN << >> = {}
      OBVIOUS
    <3>2. {<< >>[n].line : n \in DOMAIN << >>} = {} /\ {c \in Others : c >= 0} = {}
      BY <2>5, <3>1
    <3> QED BY <2>4, <3>1, <3>2 DEF OthersFrom
  <2>8. line.method = Method /\ line.url = URL
    BY <1>4, <1>5, <1>9
  <2> HIDE DEF none
  <2>9. \A c \in HeaderStarts : c >= 0
    BY <2>1
  <2>10. IsSent(Sent(line, none, Body))
    BY <2>1, <2>2, <2>4, <2>6, <2>7, <2>8, <2>9, SentFrom
  <2> QED BY <2>3, <2>10
<1>10. CASE FirstAccepted /\ after.found = "line"
  <2>1. i \in ReadFrom /\ (\A c \in HeaderStarts : c >= i) /\ LineStarts # {1}
    BY <1>6, <1>10
  <2>2. HeadersOK(i, h)
    BY <2>1, HeadersFound DEF h
  <2>3. WellFormed <=> ~h.err
    BY <1>3, <1>10, <2>1, <2>2, WellFormedDef DEF HeadersOK
  <2>4. CASE h.err
    <3>1. parse = Rejected
      BY <1>1, <1>4, <1>10, <2>4
    <3> QED BY <1>7, <2>3, <2>4, <3>1
  <2>5. CASE ~h.err
    <3>1. ValueFrom(i, "h", h.host) /\ ValueFrom(i, "a", h.agent) /\ OthersFrom(i, h.others)
          /\ HeadersEnd(h.next)
      BY <2>2, <2>5 DEF HeadersOK
    <3>2. /\ behind.found # "error"
          /\ Body = IF behind.found = "EOF" THEN {} ELSE behind.next .. Len(text)
      BY <3>1, AfterHeaders
    <3> HIDE DEF behind
    <3>3. parse = Sent(line, h, Body)
      BY <1>1, <1>4, <1>10, <2>5, <3>2
    <3>4. line.method = Method /\ line.url = URL
      BY <1>4, <1>5, <1>10
    <3> HIDE DEF i
    <3> QED BY <2>1, <2>3, <2>5, <3>1, <3>3, <3>4, SentFrom
  <2> QED BY <2>4, <2>5
<1> QED BY <1>6, <1>4, <1>8, <1>9, <1>10

(* Each text that is written consists of characters. *)
LEMMA TextStays ==
  TextSpec => [](IsText /\ kind \in Texts)
<1> DEFINE J == IsText /\ kind \in Texts
<1>1. TextInit => J
  <2> SUFFICES ASSUME TextInit PROVE J
    OBVIOUS
  <2>1. kind \in Texts /\ text = kind.prefix /\ kind.prefix \in Seq(ToSet(kind.prefix))
    BY TextAssumption DEF TextInit
  <2>2. ToSet(kind.prefix) \subseteq Letters
    BY <2>1 DEF Letters
  <2> QED BY <2>1, <2>2 DEF IsText
<1>2. J /\ [TextNext]_textVars => J'
  <2> SUFFICES ASSUME J, [TextNext]_textVars PROVE J'
    OBVIOUS
  <2>1. CASE TextNext
    <3>1. PICK c \in kind.chars : Write(c)
      BY <2>1 DEF TextNext
    <3>2. c \in Letters
      BY DEF Letters
    <3>3. text' \in Seq(Letters) /\ kind' = kind
      BY <3>1, <3>2 DEF Write, IsText
    <3> QED BY <3>3 DEF IsText, Letters
  <2>2. CASE UNCHANGED textVars
    BY <2>2 DEF textVars, IsText, Letters
  <2> QED BY <2>1, <2>2
<1> QED BY <1>1, <1>2, PTL DEF TextSpec

(* Every text, of whatever length, is sent as what it looks like, or not at   *)
(* all (requestParser.parse).                                                 *)
THEOREM TextSent == TextSpec => []TextIsSent
<1>1. IsText /\ kind \in Texts => TextIsSent
  BY ParsedText
<1> QED BY <1>1, TextStays, PTL
=============================================================================
