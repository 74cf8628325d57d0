--------------------------- MODULE AlgorithmsProof --------------------------
(* What the sequential parts compute, for inputs of every length: Compare     *)
(* orders the names of a directory, a client keeps its limit, the parser of   *)
(* scripts finds their ends, and the last writer of an environment wins.      *)
(*                                                                            *)
(* Induction is over sets of numbers: the library's induction theorem takes   *)
(* an operator, which the provers cannot instantiate, and WFMin does not.     *)
EXTENDS NaturalOrder, Redirects, ScriptLexer, Environments, FiniteSetTheorems, WellFoundedInduction, TLAPS

(* A set of numbers with 0 and every successor has all numbers.               *)
LEMMA NatSetInduction ==
  ASSUME NEW S, 0 \in S, \A n \in Nat : n \in S => n + 1 \in S
  PROVE  Nat \subseteq S
<1> DEFINE T == Nat \ S
<1>1. SUFFICES ASSUME T # {} PROVE FALSE
  OBVIOUS
<1>2. PICK x \in T : \A y \in T : ~(<<y, x>> \in OpToRel(<, Nat))
  <2>1. IsWellFoundedOn(OpToRel(<, Nat), Nat)
    BY NatLessThanWellFounded
  <2>2. T \subseteq Nat
    OBVIOUS
  <2> HIDE DEF T
  <2> QED BY <1>1, <2>1, <2>2, WFMin
<1>3. \A y \in T : ~(y < x)
  <2> SUFFICES ASSUME NEW y \in T, y < x PROVE FALSE
    OBVIOUS
  <2>1. <<y, x>> \in OpToRel(<, Nat)
    BY DEF OpToRel
  <2> QED BY <1>2, <2>1
<1>4. x # 0 /\ x \in Nat
  OBVIOUS
<1>5. x - 1 \in Nat /\ x - 1 < x
  BY <1>4
<1>6. x - 1 \in S
  BY <1>3, <1>5
<1> QED BY <1>5, <1>6, <1>4

(* A set of numbers that is not empty has a least one. *)
LEMMA MinOf ==
  ASSUME NEW S \in SUBSET Nat, S # {}
  PROVE  Min(S) \in S /\ \A y \in S : Min(S) <= y
<1>1. PICK x \in S : \A y \in S : ~(<<y, x>> \in OpToRel(<, Nat))
  <2>1. IsWellFoundedOn(OpToRel(<, Nat), Nat)
    BY NatLessThanWellFounded
  <2> QED BY <2>1, WFMin
<1>2. \A y \in S : x <= y
  <2> SUFFICES ASSUME NEW y \in S, ~(x <= y) PROVE FALSE
    OBVIOUS
  <2>1. <<y, x>> \in OpToRel(<, Nat)
    BY DEF OpToRel
  <2> QED BY <1>1, <2>1
<1> QED BY <1>2 DEF Min

(* One that is bounded has a greatest one. *)
LEMMA MaxOf ==
  ASSUME NEW n \in Nat, NEW S \in SUBSET (0 .. n), S # {}
  PROVE  Max(S) \in S /\ \A y \in S : Max(S) >= y
<1> DEFINE T == {m \in 0 .. n : n - m \in S}
<1>1. T \in SUBSET Nat /\ T # {}
  <2>1. PICK x \in S : TRUE
    OBVIOUS
  <2>2. n - x \in 0 .. n /\ n - (n - x) = x
    OBVIOUS
  <2>3. n - x \in T
    BY <2>2
  <2>4. T \in SUBSET Nat
    OBVIOUS
  <2> QED BY <2>3, <2>4
<1>2. Min(T) \in T /\ \A y \in T : Min(T) <= y
  <2> HIDE DEF T
  <2> QED BY <1>1, MinOf
<1>3. \A y \in S : n - Min(T) >= y
  <2> TAKE y \in S
  <2>1. n - y \in T
    <3>1. n - y \in 0 .. n /\ n - (n - y) = y
      OBVIOUS
    <3> QED BY <3>1
  <2> QED BY <1>2, <2>1
<1>4. n - Min(T) \in S
  BY <1>2
<1> QED BY <1>3, <1>4 DEF Max

-----------------------------------------------------------------------------
(* Sequences compared place by place, by an order R of their elements.        *)

StrictOrder(X, R) ==
  /\ \A x \in X : <<x, x>> \notin R
  /\ \A x, y \in X : x = y \/ <<x, y>> \in R \/ <<y, x>> \in R
  /\ \A x, y, z \in X : <<x, y>> \in R /\ <<y, z>> \in R => <<x, z>> \in R

Differ(a, b) == {i \in DOMAIN a \cap DOMAIN b : a[i] # b[i]}

Lex(R, a, b) ==
  IF Differ(a, b) = {} THEN Len(a) < Len(b)
  ELSE <<a[Min(Differ(a, b))], b[Min(Differ(a, b))]>> \in R

(* The sequences agree before k, where a has ended or has the smaller one.    *)
Decided(R, a, b, k) ==
  /\ k \in 1 .. Len(b) /\ k <= Len(a) + 1
  /\ \A i \in 1 .. k - 1 : a[i] = b[i]
  /\ k <= Len(a) => <<a[k], b[k]>> \in R

(* There is such a place if and only if a is the smaller one. *)
LEMMA LexDecided ==
  ASSUME NEW X, NEW R, StrictOrder(X, R), NEW a \in Seq(X), NEW b \in Seq(X)
  PROVE  Lex(R, a, b) <=> \E k \in 1 .. Len(b) : Decided(R, a, b, k)
<1> DEFINE D == Differ(a, b)
<1>0. D \in SUBSET Nat /\ \A i \in D : i \in 1 .. Len(a) /\ i \in 1 .. Len(b) /\ a[i] # b[i]
  BY DEF Differ
<1>1. \A i : i \in 1 .. Len(a) /\ i \in 1 .. Len(b) /\ i \notin D => a[i] = b[i]
  BY DEF Differ
<1>2. ASSUME Lex(R, a, b) PROVE \E k \in 1 .. Len(b) : Decided(R, a, b, k)
  <2>1. CASE D = {}
    <3>1. Len(a) < Len(b)
      BY <1>2, <2>1 DEF Lex
    <3>2. Decided(R, a, b, Len(a) + 1)
      BY <1>1, <2>1, <3>1 DEF Decided
    <3> QED BY <3>1, <3>2
  <2>2. CASE D # {}
    <3>1. Min(D) \in D /\ \A y \in D : Min(D) <= y
      <4> HIDE DEF D
      <4> QED BY <1>0, <2>2, MinOf
    <3>2. <<a[Min(D)], b[Min(D)]>> \in R
      BY <1>2, <2>2 DEF Lex
    <3> DEFINE m == Min(D)
    <3>3. m \in 1 .. Len(a) /\ m \in 1 .. Len(b)
      BY <1>0, <3>1
    <3>4. \A i \in 1 .. m - 1 : i \notin D
      <4> HIDE DEF D
      <4> QED BY <1>0, <3>1, <3>3
    <3>5. Decided(R, a, b, m)
      <4> HIDE DEF m, D
      <4>1. \A i \in 1 .. m - 1 : a[i] = b[i]
        BY <1>1, <3>3, <3>4
      <4> QED BY <3>2, <3>3, <4>1 DEF Decided, m
    <3> QED BY <3>3, <3>5
  <2> QED BY <2>1, <2>2
<1>3. ASSUME NEW k \in 1 .. Len(b), Decided(R, a, b, k) PROVE Lex(R, a, b)
  <2>1. \A i \in D : i >= k
    BY <1>0, <1>3 DEF Decided
  <2>2. CASE k = Len(a) + 1
    <3>1. D = {}
      BY <1>0, <2>1, <2>2
    <3> QED BY <2>2, <3>1 DEF Lex
  <2>3. CASE k <= Len(a)
    <3>1. <<a[k], b[k]>> \in R /\ a[k] \in X /\ b[k] \in X
      BY <1>3, <2>3 DEF Decided
    <3>2. k \in D
      BY <2>3, <3>1 DEF Differ, StrictOrder
    <3>3. Min(D) \in D /\ \A y \in D : Min(D) <= y
      <4> HIDE DEF D
      <4> QED BY <1>0, <3>2, MinOf
    <3>4. Min(D) = k
      <4> HIDE DEF D
      <4>1. Min(D) \in Nat /\ Min(D) >= k /\ Min(D) <= k
        BY <1>0, <2>1, <3>2, <3>3
      <4> QED BY <4>1
    <3> QED BY <3>1, <3>2, <3>4 DEF Lex
  <2> QED BY <1>3, <2>2, <2>3 DEF Decided
<1> QED BY <1>2, <1>3

(* Sequences are ordered as strictly as their elements are. *)
LEMMA LexOrder ==
  ASSUME NEW X, NEW R, StrictOrder(X, R)
  PROVE  /\ \A a \in Seq(X) : ~Lex(R, a, a)
         /\ \A a, b \in Seq(X) : a = b \/ Lex(R, a, b) \/ Lex(R, b, a)
         /\ \A a, b, c \in Seq(X) : Lex(R, a, b) /\ Lex(R, b, c) => Lex(R, a, c)
<1>1. ASSUME NEW a \in Seq(X) PROVE ~Lex(R, a, a)
  BY DEF Lex, Differ
<1>2. ASSUME NEW a \in Seq(X), NEW b \in Seq(X), a # b, ~Lex(R, a, b) PROVE Lex(R, b, a)
  <2>1. Differ(a, b) = Differ(b, a) /\ Differ(a, b) \in SUBSET Nat
    BY DEF Differ
  <2>2. CASE Differ(a, b) = {}
    <3>1. Len(a) >= Len(b)
      BY <1>2, <2>2 DEF Lex
    <3>2. CASE Len(a) = Len(b)
      <4>1. \A i \in 1 .. Len(a) : a[i] = b[i]
        BY <2>2, <3>2 DEF Differ
      <4> QED BY <1>2, <3>2, <4>1
    <3> QED BY <2>1, <2>2, <3>1, <3>2 DEF Lex
  <2>3. CASE Differ(a, b) # {}
    <3> DEFINE m == Min(Differ(a, b))
    <3>1. m \in Differ(a, b)
      BY <2>1, <2>3, MinOf
    <3>2. a[m] \in X /\ b[m] \in X /\ a[m] # b[m]
      <4> HIDE DEF m
      <4> QED BY <3>1 DEF Differ
    <3>3. <<a[m], b[m]>> \notin R
      BY <1>2, <2>3 DEF Lex
    <3>4. <<b[m], a[m]>> \in R
      <4> HIDE DEF m
      <4> QED BY <3>2, <3>3 DEF StrictOrder
    <3> QED BY <2>1, <2>3, <3>4 DEF Lex
  <2> QED BY <2>2, <2>3
<1>3. ASSUME NEW a \in Seq(X), NEW b \in Seq(X), NEW c \in Seq(X), Lex(R, a, b), Lex(R, b, c)
      PROVE  Lex(R, a, c)
  <2>1. PICK k \in 1 .. Len(b) : Decided(R, a, b, k)
    BY <1>3, LexDecided
  <2>2. PICK l \in 1 .. Len(c) : Decided(R, b, c, l)
    BY <1>3, LexDecided
  <2>3. CASE k < l
    <3>1. k \in 1 .. l - 1 /\ k \in 1 .. Len(c) /\ b[k] = c[k]
      BY <2>2, <2>3 DEF Decided
    <3>2. \A i \in 1 .. k - 1 : a[i] = c[i]
      <4> TAKE i \in 1 .. k - 1
      <4>1. i \in 1 .. l - 1
        BY <2>3
      <4> QED BY <2>1, <2>2, <4>1 DEF Decided
    <3>3. Decided(R, a, c, k)
      BY <2>1, <3>1, <3>2 DEF Decided
    <3> QED BY <3>1, <3>3, LexDecided
  <2>4. CASE l < k
    <3>1. l \in 1 .. k - 1 /\ a[l] = b[l] /\ l <= Len(b) /\ l <= Len(a)
      BY <2>1, <2>4 DEF Decided
    <3>2. \A i \in 1 .. l - 1 : a[i] = c[i]
      <4> TAKE i \in 1 .. l - 1
      <4>1. i \in 1 .. k - 1
        BY <2>4
      <4> QED BY <2>1, <2>2, <4>1 DEF Decided
    <3>3. Decided(R, a, c, l)
      BY <2>2, <3>1, <3>2 DEF Decided
    <3> QED BY <3>3, LexDecided
  <2>5. CASE k = l
    <3>1. \A i \in 1 .. k - 1 : a[i] = c[i]
      BY <2>1, <2>2, <2>5 DEF Decided
    <3>2. k <= Len(a) => <<a[k], c[k]>> \in R
      <4> SUFFICES ASSUME k <= Len(a) PROVE <<a[k], c[k]>> \in R
        OBVIOUS
      <4>1. <<a[k], b[k]>> \in R /\ <<b[k], c[k]>> \in R
        BY <2>1, <2>2, <2>5 DEF Decided
      <4>2. a[k] \in X /\ b[k] \in X /\ c[k] \in X
        BY <2>5
      <4> QED BY <4>1, <4>2 DEF StrictOrder
    <3>3. Decided(R, a, c, k)
      BY <2>1, <2>2, <2>5, <3>1, <3>2 DEF Decided
    <3> QED BY <2>5, <3>3, LexDecided
  <2> QED BY <2>3, <2>4, <2>5
<1> QED BY <1>1, <1>2, <1>3

-----------------------------------------------------------------------------
(* f is what a loop computes that starts with b and does step g[n] for n = 1 .. N. *)
Follows(f, V, b, N, g) ==
  f \in [0 .. N -> V] /\ f[0] = b /\ \A n \in 1 .. N : f[n] = g[n][f[n - 1]]

(* There is such a computation. *)
LEMMA RecursionExists ==
  ASSUME NEW V, NEW b \in V, NEW N \in Nat, NEW g \in [1 .. N -> [V -> V]]
  PROVE  \E f : Follows(f, V, b, N, g)
<1> DEFINE Good(m) == \E f \in [0 .. m -> V] :
                        f[0] = b /\ \A n \in 1 .. m : f[n] = g[n][f[n - 1]]
           S == {m \in Nat : m <= N => Good(m)}
<1>1. 0 \in S
  <2> DEFINE f == [n \in 0 .. 0 |-> b]
  <2>1. f[0] = b /\ f \in [0 .. 0 -> V] /\ 1 .. 0 = {}
    OBVIOUS
  <2>2. Good(0)
    BY <2>1
  <2> HIDE DEF Good
  <2> QED BY <2>2
<1>2. \A m \in Nat : m \in S => m + 1 \in S
  <2> SUFFICES ASSUME NEW m \in Nat, m \in S, m + 1 <= N PROVE Good(m + 1)
    <3> HIDE DEF Good
    <3> QED OBVIOUS
  <2>1. PICK f \in [0 .. m -> V] : f[0] = b /\ \A n \in 1 .. m : f[n] = g[n][f[n - 1]]
    OBVIOUS
  <2> DEFINE h == [n \in 0 .. m + 1 |-> IF n <= m THEN f[n] ELSE g[m + 1][f[m]]]
  <2>2. g[m + 1][f[m]] \in V
    OBVIOUS
  <2>3. h \in [0 .. m + 1 -> V]
    BY <2>2
  <2>4. h[0] = b
    BY <2>1
  <2>5. \A n \in 1 .. m + 1 : h[n] = g[n][h[n - 1]]
    <3> TAKE n \in 1 .. m + 1
    <3>1. CASE n <= m
      <4>1. n \in 1 .. m /\ n \in 0 .. m + 1 /\ n - 1 \in 0 .. m + 1 /\ n - 1 <= m
        BY <3>1
      <4>2. h[n] = f[n] /\ h[n - 1] = f[n - 1]
        BY <3>1, <4>1
      <4> HIDE DEF h
      <4> QED BY <2>1, <4>1, <4>2
    <3>2. CASE n = m + 1
      <4>1. h[m + 1] = g[m + 1][f[m]] /\ h[m] = f[m] /\ (m + 1) - 1 = m
        OBVIOUS
      <4> HIDE DEF h
      <4> QED BY <3>2, <4>1
    <3> QED BY <3>1, <3>2
  <2> HIDE DEF h
  <2> QED BY <2>3, <2>4, <2>5
<1> HIDE DEF S
<1>3. N \in S
  BY <1>1, <1>2, NatSetInduction
<1> QED BY <1>3 DEF S, Follows

-----------------------------------------------------------------------------
(* Bytes and numbers. *)

IntLess == {p \in Int \X Int : p[1] < p[2]}

(* Strings are compared byte by byte. *)
LEMMA BytesLessIsLex ==
  /\ StrictOrder(Int, IntLess)
  /\ \A a, b \in Seq(Int) : BytesLess(a, b) <=> Lex(IntLess, a, b)
<1>1. \A x, y \in Int : <<x, y>> \in IntLess <=> x < y
  BY DEF IntLess
<1>2. StrictOrder(Int, IntLess)
  BY <1>1 DEF StrictOrder
<1>3. ASSUME NEW a \in Seq(Int), NEW b \in Seq(Int)
      PROVE  BytesLess(a, b) <=> Lex(IntLess, a, b)
  <2>1. CASE Differ(a, b) = {}
    BY <2>1 DEF Lex, BytesLess, Differ
  <2>2. CASE Differ(a, b) # {}
    <3>1. Min(Differ(a, b)) \in Differ(a, b)
      <4>1. Differ(a, b) \in SUBSET Nat
        BY DEF Differ
      <4> QED BY <2>2, <4>1, MinOf
    <3>2. a[Min(Differ(a, b))] \in Int /\ b[Min(Differ(a, b))] \in Int
      BY <3>1 DEF Differ
    <3>3. Lex(IntLess, a, b) <=> a[Min(Differ(a, b))] < b[Min(Differ(a, b))]
      BY <1>1, <2>2, <3>2 DEF Lex
    <3>4. BytesLess(a, b) <=> a[Min(Differ(a, b))] < b[Min(Differ(a, b))]
      BY <2>2 DEF BytesLess, Differ
    <3> QED BY <3>3, <3>4
  <2> QED BY <2>1, <2>2
<1> QED BY <1>2, <1>3

(* The first bytes decide if they differ. *)
LEMMA FirstByte ==
  ASSUME NEW a \in Seq(Int) \ {<<>>}, NEW b \in Seq(Int) \ {<<>>}
  PROVE  /\ a[1] < b[1] => BytesLess(a, b)
         /\ BytesLess(a, b) => a[1] <= b[1]
<1>0. a \in Seq(Int) /\ b \in Seq(Int) /\ Len(a) >= 1 /\ Len(b) >= 1 /\ a[1] \in Int /\ b[1] \in Int
  OBVIOUS
<1>1. BytesLess(a, b) <=> \E k \in 1 .. Len(b) : Decided(IntLess, a, b, k)
  BY <1>0, BytesLessIsLex, LexDecided
<1>2. ASSUME a[1] < b[1] PROVE BytesLess(a, b)
  <2>1. <<a[1], b[1]>> \in IntLess
    BY <1>0, <1>2 DEF IntLess
  <2>2. Decided(IntLess, a, b, 1)
    BY <1>0, <2>1 DEF Decided
  <2> QED BY <1>0, <1>1, <2>2
<1>3. ASSUME BytesLess(a, b) PROVE a[1] <= b[1]
  <2>1. PICK k \in 1 .. Len(b) : Decided(IntLess, a, b, k)
    BY <1>1, <1>3
  <2>2. CASE k = 1
    BY <1>0, <2>1, <2>2 DEF Decided, IntLess
  <2>3. CASE k > 1
    BY <1>0, <2>1, <2>3 DEF Decided
  <2> QED BY <2>2, <2>3
<1> QED BY <1>2, <1>3

(* f holds the values of the first 0 .. Len(c) digits of c. *)
Numbers(f, c) ==
  /\ f \in [0 .. Len(c) -> Nat] /\ f[0] = 0
  /\ \A i \in 1 .. Len(c) : f[i] = 10 * f[i - 1] + c[i]

(* NumberOf is the value of all of them. *)
LEMMA NumberOfDef ==
  ASSUME NEW c \in Seq(0 .. 9)
  PROVE  \E f : Numbers(f, c) /\ NumberOf(c) = f[Len(c)]
<1> DEFINE N == Len(c)
           g == [n \in 1 .. N |-> [v \in Nat |-> 10 * v + c[n]]]
           Is(f) == f = [i \in 0 .. N |-> IF i = 0 THEN 0 ELSE 10 * f[i - 1] + c[i]]
<1>1. N \in Nat /\ 0 \in Nat /\ g \in [1 .. N -> [Nat -> Nat]]
  OBVIOUS
<1>2. PICK f : Follows(f, Nat, 0, N, g)
  <2> HIDE DEF N, g
  <2> QED BY <1>1, RecursionExists
<1>3. \A n \in 1 .. N : f[n] = 10 * f[n - 1] + c[n]
  <2> TAKE n \in 1 .. N
  <2>1. n \in 1 .. N /\ n - 1 \in 0 .. N
    BY <1>1
  <2>2. f[n - 1] \in Nat /\ f[n] = g[n][f[n - 1]]
    <3> HIDE DEF N, g
    <3> QED BY <1>2, <2>1 DEF Follows
  <2> QED BY <2>2
<1>4. Is(f)
  <2> HIDE DEF N
  <2>1. f = [n \in 0 .. N |-> f[n]]
    BY <1>2 DEF Follows
  <2>2. \A n \in 0 .. N : f[n] = IF n = 0 THEN 0 ELSE 10 * f[n - 1] + c[n]
    BY <1>1, <1>2, <1>3 DEF Follows
  <2> QED BY <2>1, <2>2
<1>5. PICK h : Is(h) /\ NumberOf(c) = h[N]
  BY <1>4 DEF NumberOf
<1>6. \A n \in 0 .. N : h[n] \in Nat
  <2> DEFINE S == {n \in Nat : n <= N => h[n] \in Nat}
  <2> HIDE DEF N
  <2>1. 0 \in S
    BY <1>1, <1>5
  <2>2. \A n \in Nat : n \in S => n + 1 \in S
    <3> SUFFICES ASSUME NEW n \in Nat, n \in S, n + 1 <= N PROVE h[n + 1] \in Nat
      OBVIOUS
    <3>1. n + 1 \in 1 .. N /\ n + 1 \in 0 .. N /\ h[n] \in Nat /\ n + 1 # 0 /\ (n + 1) - 1 = n
      BY <1>1
    <3>2. h[n + 1] = 10 * h[n] + c[n + 1]
      BY <1>5, <3>1
    <3>3. c[n + 1] \in Nat
      BY <3>1 DEF N
    <3> QED BY <3>1, <3>2, <3>3
  <2> HIDE DEF S
  <2>3. Nat \subseteq S
    BY <2>1, <2>2, NatSetInduction
  <2> QED BY <1>1, <2>3 DEF S
<1>7. Numbers(h, c)
  <2>1. h \in [0 .. N -> Nat]
    <3> HIDE DEF N
    <3> QED BY <1>5, <1>6
  <2>2. h[0] = 0 /\ \A i \in 1 .. N : h[i] = 10 * h[i - 1] + c[i]
    <3> HIDE DEF N
    <3> QED BY <1>1, <1>5
  <2> QED BY <2>1, <2>2 DEF Numbers
<1> QED BY <1>5, <1>7

(* Without a leading zero every number is positive. *)
LEMMA NumbersPositive ==
  ASSUME NEW c \in Seq(0 .. 9), c # <<>>, c[1] # 0, NEW f, Numbers(f, c)
  PROVE  \A i \in 1 .. Len(c) : f[i] > 0
<1> DEFINE S == {n \in Nat : n + 1 <= Len(c) => f[n + 1] > 0}
<1>1. 0 \in S
  <2>1. f[1] = 10 * f[0] + c[1] /\ f[0] = 0 /\ c[1] \in 1 .. 9
    BY DEF Numbers
  <2> QED BY <2>1
<1>2. \A n \in Nat : n \in S => n + 1 \in S
  <2> SUFFICES ASSUME NEW n \in Nat, n \in S, n + 2 <= Len(c) PROVE f[n + 2] > 0
    OBVIOUS
  <2>1. n + 2 \in 1 .. Len(c) /\ (n + 2) - 1 = n + 1 /\ f[n + 1] > 0 /\ n + 1 \in 0 .. Len(c)
    OBVIOUS
  <2>2. f[n + 2] = 10 * f[n + 1] + c[n + 2] /\ c[n + 2] \in 0 .. 9 /\ f[n + 1] \in Nat
    BY <2>1 DEF Numbers
  <2> QED BY <2>1, <2>2
<1> HIDE DEF S
<1>3. Nat \subseteq S
  BY <1>1, <1>2, NatSetInduction
<1> QED
  <2> TAKE i \in 1 .. Len(c)
  <2>1. i - 1 \in S /\ (i - 1) + 1 = i
    BY <1>3
  <2> QED BY <2>1 DEF S

(* A number can be written in one way only, if not with a leading zero. *)
LEMMA NumberOfInjective ==
  ASSUME NEW c \in Seq(0 .. 9), NEW d \in Seq(0 .. 9), c # <<>>, d # <<>>,
         c[1] = 0 => Len(c) = 1, d[1] = 0 => Len(d) = 1, NumberOf(c) = NumberOf(d)
  PROVE  c = d
<1>1. PICK f : Numbers(f, c) /\ NumberOf(c) = f[Len(c)]
  BY NumberOfDef
<1>2. PICK h : Numbers(h, d) /\ NumberOf(d) = h[Len(d)]
  BY NumberOfDef
<1>7. /\ Len(c) \in Nat /\ Len(c) >= 1 /\ 1 \in 1 .. Len(c)
      /\ \A i \in 1 .. Len(c) : c[i] \in 0 .. 9
      /\ Len(d) \in Nat /\ Len(d) >= 1 /\ 1 \in 1 .. Len(d)
      /\ \A i \in 1 .. Len(d) : d[i] \in 0 .. 9
  OBVIOUS
<1>8. /\ f[0] = 0
      /\ \A i \in 1 .. Len(c) : f[i] = 10 * f[i - 1] + c[i]
      /\ \A i \in 0 .. Len(c) : f[i] \in Nat
  BY <1>1 DEF Numbers
<1>9. /\ h[0] = 0
      /\ \A i \in 1 .. Len(d) : h[i] = 10 * h[i - 1] + d[i]
      /\ \A i \in 0 .. Len(d) : h[i] \in Nat
  BY <1>2 DEF Numbers
<1>0. /\ 1 \in 1 .. Len(c) /\ 1 \in 1 .. Len(d) /\ Len(c) \in Nat /\ Len(c) >= 1 /\ Len(d) \in Nat /\ Len(d) >= 1
      /\ f[0] = 0 /\ h[0] = 0 /\ f[Len(c)] = h[Len(d)]
      /\ \A i \in 1 .. Len(c) : f[i] = 10 * f[i - 1] + c[i] /\ c[i] \in 0 .. 9
      /\ \A i \in 1 .. Len(d) : h[i] = 10 * h[i - 1] + d[i] /\ d[i] \in 0 .. 9
      /\ \A i \in 0 .. Len(c) : f[i] \in Nat
      /\ \A i \in 0 .. Len(d) : h[i] \in Nat
  BY <1>1, <1>2, <1>7, <1>8, <1>9
<1>3. CASE c[1] = 0 /\ d[1] = 0
  BY <1>3
<1>4. CASE c[1] = 0 /\ d[1] # 0
  <2>1. Len(c) = 1 /\ f[1] = 10 * f[0] + c[1]
    <3>1. f[1] = 10 * f[1 - 1] + c[1]
      BY <1>0
    <3> QED BY <1>4, <3>1
  <2>2. h[Len(d)] > 0
    BY <1>0, <1>2, <1>4, NumbersPositive
  <2> QED BY <1>0, <1>4, <2>1, <2>2
<1>5. CASE c[1] # 0 /\ d[1] = 0
  <2>1. Len(d) = 1 /\ h[1] = 10 * h[0] + d[1]
    <3>1. h[1] = 10 * h[1 - 1] + d[1]
      BY <1>0
    <3> QED BY <1>5, <3>1
  <2>2. f[Len(c)] > 0
    <3>1. \A i \in 1 .. Len(c) : f[i] > 0
      BY <1>1, <1>5, NumbersPositive
    <3> QED BY <1>0, <3>1
  <2> QED BY <1>0, <1>5, <2>1, <2>2
<1>6. CASE c[1] # 0 /\ d[1] # 0
  <2> DEFINE Same(n) == \A m \in 0 .. Len(d) : f[n] = h[m] =>
                          n = m /\ \A i \in 1 .. n : c[i] = d[i]
             S == {n \in Nat : n <= Len(c) => Same(n)}
  <2>0. /\ \A i \in 1 .. Len(c) : f[i] > 0
        /\ \A i \in 1 .. Len(d) : h[i] > 0
    BY <1>1, <1>2, <1>6, NumbersPositive
  <2>1. 0 \in S
    <3>1. \A m \in 0 .. Len(d) : f[0] = h[m] => m = 0
      BY <1>0, <2>0
    <3> QED BY <3>1
  <2>2. \A n \in Nat : n \in S => n + 1 \in S
    <3> SUFFICES ASSUME NEW n \in Nat, n \in S, n + 1 <= Len(c) PROVE Same(n + 1)
      <4> HIDE DEF Same
      <4> QED OBVIOUS
    <3>0. Same(n) /\ n + 1 \in 1 .. Len(c) /\ (n + 1) - 1 = n /\ n \in 0 .. Len(c)
      <4> HIDE DEF Same
      <4> QED BY <1>0
    <3> SUFFICES ASSUME NEW m \in 0 .. Len(d), f[n + 1] = h[m]
                 PROVE  n + 1 = m /\ \A i \in 1 .. n + 1 : c[i] = d[i]
      OBVIOUS
    <3> HIDE DEF S
    <3>1. \A l \in 0 .. Len(d) : f[n] = h[l] => n = l /\ \A i \in 1 .. n : c[i] = d[i]
      BY <3>0
    <3> HIDE DEF Same
    <3>2. m \in 1 .. Len(d) /\ m - 1 \in 0 .. Len(d)
      <4>1. f[n + 1] > 0
        BY <2>0, <3>0
      <4> QED BY <1>0, <4>1
    <3>3. f[n + 1] = 10 * f[n] + c[n + 1] /\ f[n] \in Nat /\ c[n + 1] \in 0 .. 9
      BY <1>0, <3>0
    <3>4. h[m] = 10 * h[m - 1] + d[m] /\ h[m - 1] \in Nat /\ d[m] \in 0 .. 9
      BY <1>0, <3>2
    <3>5. f[n] = h[m - 1] /\ c[n + 1] = d[m]
      <4> DEFINE u == f[n]
                 v == h[m - 1]
                 p == c[n + 1]
                 q == d[m]
      <4>1. u \in Nat /\ v \in Nat /\ p \in 0 .. 9 /\ q \in 0 .. 9 /\ 10 * u + p = 10 * v + q
        BY <3>3, <3>4
      <4> HIDE DEF u, v, p, q
      <4>2. u = v /\ p = q
        BY <4>1
      <4> QED BY <4>2 DEF u, v, p, q
    <3>6. n = m - 1 /\ \A i \in 1 .. n : c[i] = d[i]
      BY <3>1, <3>2, <3>5
    <3> QED BY <3>2, <3>5, <3>6
  <2> HIDE DEF S
  <2>3. Nat \subseteq S
    BY <2>1, <2>2, NatSetInduction
  <2>4. Same(Len(c))
    <3> HIDE DEF Same
    <3> QED BY <1>0, <2>3 DEF S
  <2>5. Len(c) = Len(d) /\ \A i \in 1 .. Len(c) : c[i] = d[i]
    BY <1>0, <2>4
  <2> HIDE DEF Same
  <2> QED BY <2>5
<1> QED BY <1>3, <1>4, <1>5, <1>6

-----------------------------------------------------------------------------
(* Chunks. *)

(* What chunkify does with byte i of s. *)
Grow(chunks, s, i) ==
  IF i = 1 \/ Digit(s[i]) # Digit(s[i - 1]) THEN Append(chunks, <<s[i]>>)
  ELSE [chunks EXCEPT ![Len(chunks)] = Append(@, s[i])]

Grown(r, s) ==
  /\ r \in [0 .. Len(s) -> Seq(Seq(Int))] /\ r[0] = <<>>
  /\ \A i \in 1 .. Len(s) : r[i] = Grow(r[i - 1], s, i)

(* A sequence with one more element, or another one. *)
LEMMA AppendOrReplace ==
  ASSUME NEW T, NEW q \in Seq(T), NEW e \in T
  PROVE  /\ Append(q, e) \in Seq(T) /\ Len(Append(q, e)) = Len(q) + 1
         /\ Append(q, e)[Len(q) + 1] = e /\ \A k \in 1 .. Len(q) : Append(q, e)[k] = q[k]
         /\ SubSeq(Append(q, e), 1, Len(q)) = q
         /\ \A n \in 1 .. Len(q) :
              /\ [q EXCEPT ![n] = e] \in Seq(T) /\ Len([q EXCEPT ![n] = e]) = Len(q)
              /\ [q EXCEPT ![n] = e][n] = e
              /\ \A k \in 1 .. Len(q) : k # n => [q EXCEPT ![n] = e][k] = q[k]
<1>1. /\ Append(q, e) \in Seq(T) /\ Len(Append(q, e)) = Len(q) + 1
      /\ Append(q, e)[Len(q) + 1] = e /\ \A k \in 1 .. Len(q) : Append(q, e)[k] = q[k]
  OBVIOUS
<1>2. SubSeq(Append(q, e), 1, Len(q)) = q
  OBVIOUS
<1>3. ASSUME NEW n \in 1 .. Len(q)
      PROVE  /\ [q EXCEPT ![n] = e] \in Seq(T) /\ Len([q EXCEPT ![n] = e]) = Len(q)
             /\ [q EXCEPT ![n] = e][n] = e
             /\ \A k \in 1 .. Len(q) : k # n => [q EXCEPT ![n] = e][k] = q[k]
  <2>1. q \in [1 .. Len(q) -> T] /\ Len(q) \in Nat
    OBVIOUS
  <2>2. [q EXCEPT ![n] = e] \in [1 .. Len(q) -> T]
    BY <2>1
  <2>3. [q EXCEPT ![n] = e] \in Seq(T)
    BY <2>1, <2>2
  <2>4. DOMAIN [q EXCEPT ![n] = e] = 1 .. Len(q)
    BY <2>2
  <2>5. Len([q EXCEPT ![n] = e]) = Len(q)
    BY <2>1, <2>3, <2>4
  <2> QED BY <2>1, <2>3, <2>5
<1> QED BY <1>1, <1>2, <1>3

(* Chunks stay sequences of bytes. *)
LEMMA GrowType ==
  ASSUME NEW q \in Seq(Seq(Int)), NEW s \in Seq(Int), NEW i \in 1 .. Len(s)
  PROVE  Grow(q, s, i) \in Seq(Seq(Int))
<1>1. s[i] \in Int /\ <<s[i]>> \in Seq(Int)
  OBVIOUS
<1>2. Append(q, <<s[i]>>) \in Seq(Seq(Int))
  BY <1>1
<1>3. [q EXCEPT ![Len(q)] = Append(@, s[i])] \in Seq(Seq(Int))
  <2>1. CASE Len(q) = 0
    <3>1. q = <<>>
      BY <2>1
    <3> DEFINE e == Append(q[Len(q)], s[i])
               p == [q EXCEPT ![Len(q)] = e]
    <3>2. q \in [{} -> Seq(Int)] /\ DOMAIN p = {}
      BY <3>1
    <3>3. p = q
      <4> HIDE DEF e
      <4>1. p = [k \in DOMAIN q |-> IF k = Len(q) THEN e ELSE q[k]]
        BY <3>2
      <4>2. DOMAIN q = {}
        BY <3>1
      <4> HIDE DEF p
      <4>3. p = [k \in {} |-> q[k]] /\ q = [k \in {} |-> q[k]]
        BY <3>1, <4>1, <4>2
      <4> QED BY <4>3
    <3> HIDE DEF p
    <3> QED BY <3>3 DEF p
  <2>2. CASE Len(q) # 0
    <3>1. Len(q) \in 1 .. Len(q)
      BY <2>2
    <3>2. Append(q[Len(q)], s[i]) \in Seq(Int)
      BY <1>1, <3>1
    <3> QED BY <3>1, <3>2, AppendOrReplace
  <2> QED BY <2>1, <2>2
<1> QED BY <1>2, <1>3 DEF Grow

(* chunkify is what Grow makes of all bytes. *)
LEMMA ChunkifyDef ==
  ASSUME NEW s \in Seq(Int)
  PROVE  \E r : Grown(r, s) /\ chunkify(s) = r[Len(s)]
<1> DEFINE N == Len(s)
           V == Seq(Seq(Int))
           g == [n \in 1 .. N |-> [v \in V |-> Grow(v, s, n)]]
           Is(f) == f = [i \in 0 .. N |-> IF i = 0 THEN <<>> ELSE Grow(f[i - 1], s, i)]
<1>1. N \in Nat /\ <<>> \in V /\ g \in [1 .. N -> [V -> V]]
  <2>1. \A n \in 1 .. N : \A v \in V : Grow(v, s, n) \in V
    BY GrowType
  <2>2. N \in Nat /\ <<>> \in V
    OBVIOUS
  <2> HIDE DEF V, N
  <2> QED BY <2>1, <2>2
<1>2. PICK f : Follows(f, V, <<>>, N, g)
  <2> HIDE DEF N, g, V
  <2> QED BY <1>1, RecursionExists
<1>3. \A n \in 1 .. N : f[n] = Grow(f[n - 1], s, n)
  <2> TAKE n \in 1 .. N
  <2>1. n \in 1 .. N /\ n - 1 \in 0 .. N
    BY <1>1
  <2> HIDE DEF V
  <2>2. f[n - 1] \in V /\ f[n] = g[n][f[n - 1]]
    <3> HIDE DEF N, g
    <3> QED BY <1>2, <2>1 DEF Follows
  <2> QED BY <2>2
<1>4. Is(f)
  <2> HIDE DEF N, V
  <2>1. f = [n \in 0 .. N |-> f[n]]
    BY <1>2 DEF Follows
  <2>2. \A n \in 0 .. N : f[n] = IF n = 0 THEN <<>> ELSE Grow(f[n - 1], s, n)
    BY <1>1, <1>2, <1>3 DEF Follows
  <2> QED BY <2>1, <2>2
<1>5. PICK h : Is(h) /\ chunkify(s) = h[N]
  BY <1>4 DEF chunkify, Grow
<1>6. \A n \in 0 .. N : h[n] \in V
  <2> DEFINE S == {n \in Nat : n <= N => h[n] \in V}
  <2>0. \A n \in 1 .. N : \A v \in V : Grow(v, s, n) \in V
    BY GrowType
  <2> HIDE DEF N, V
  <2>1. 0 \in S
    BY <1>1, <1>5
  <2>2. \A n \in Nat : n \in S => n + 1 \in S
    <3> SUFFICES ASSUME NEW n \in Nat, n \in S, n + 1 <= N PROVE h[n + 1] \in V
      OBVIOUS
    <3>1. n + 1 \in 1 .. N /\ n + 1 \in 0 .. N /\ h[n] \in V /\ n + 1 # 0 /\ (n + 1) - 1 = n
      BY <1>1
    <3>2. h[n + 1] = Grow(h[n], s, n + 1)
      BY <1>5, <3>1
    <3> QED BY <2>0, <3>1, <3>2
  <2> HIDE DEF S
  <2>3. Nat \subseteq S
    BY <2>1, <2>2, NatSetInduction
  <2> QED BY <1>1, <2>3 DEF S
<1>7. Grown(h, s)
  <2>1. h \in [0 .. N -> V]
    <3> HIDE DEF N, V
    <3> QED BY <1>5, <1>6
  <2>2. h[0] = <<>> /\ \A i \in 1 .. N : h[i] = Grow(h[i - 1], s, i)
    <3> HIDE DEF N, V
    <3> QED BY <1>1, <1>5
  <2> QED BY <2>1, <2>2 DEF Grown
<1> QED BY <1>5, <1>7

Uniform(x) == \A j \in DOMAIN x : Digit(x[j]) = Digit(x[1])

(* No chunk is empty, each is of one kind, and the last ends with byte i.     *)
Cut(q, s, i) ==
  /\ q \in Seq(Seq(Int) \ {<<>>})
  /\ \A k \in DOMAIN q : Uniform(q[k])
  /\ IF i = 0 THEN q = <<>>
     ELSE Len(q) > 0 /\ q[Len(q)][Len(q[Len(q)])] = s[i]

(* That stays true. *)
LEMMA GrowCut ==
  ASSUME NEW s \in Seq(Int), NEW i \in 1 .. Len(s), NEW q, Cut(q, s, i - 1)
  PROVE  Cut(Grow(q, s, i), s, i)
<1>0. s[i] \in Int /\ q \in Seq(Seq(Int) \ {<<>>})
  BY DEF Cut
<1>1. CASE i = 1 \/ Digit(s[i]) # Digit(s[i - 1])
  <2> DEFINE p == Append(q, <<s[i]>>)
  <2>1. Grow(q, s, i) = p
    BY <1>1 DEF Grow
  <2>2. <<s[i]>> \in Seq(Int) \ {<<>>} /\ Uniform(<<s[i]>>) /\ Len(<<s[i]>>) = 1
    BY <1>0 DEF Uniform
  <2>3. p \in Seq(Seq(Int) \ {<<>>}) /\ Len(p) = Len(q) + 1 /\ p[Len(p)] = <<s[i]>>
    BY <1>0, <2>2
  <2>4. \A k \in DOMAIN p : Uniform(p[k])
    <3> TAKE k \in DOMAIN p
    <3>1. CASE k \in DOMAIN q
      <4>1. p[k] = q[k]
        BY <1>0, <3>1
      <4> QED BY <3>1, <4>1 DEF Cut
    <3>2. CASE k = Len(p)
      BY <2>2, <2>3, <3>2
    <3> QED BY <1>0, <2>3, <3>1, <3>2
  <2> HIDE DEF p
  <2> QED BY <2>1, <2>2, <2>3, <2>4 DEF Cut
<1>2. CASE i # 1 /\ Digit(s[i]) = Digit(s[i - 1])
  <2> DEFINE n == Len(q)
             x == q[n]
             y == Append(x, s[i])
             p == [q EXCEPT ![n] = y]
  <2>1. Grow(q, s, i) = p
    BY <1>2 DEF Grow
  <2>2. n > 0 /\ n \in 1 .. Len(q) /\ x \in Seq(Int) /\ x # <<>> /\ x[Len(x)] = s[i - 1] /\ Uniform(x)
    BY <1>0, <1>2 DEF Cut
  <2>3. /\ y \in Seq(Int) /\ y # <<>> /\ Len(y) = Len(x) + 1 /\ y[Len(y)] = s[i]
        /\ \A j \in 1 .. Len(x) : y[j] = x[j]
        /\ Len(x) >= 1 /\ Len(x) \in Nat /\ DOMAIN x = 1 .. Len(x) /\ DOMAIN y = 1 .. Len(x) + 1
    <3> HIDE DEF x
    <3>1. /\ y \in Seq(Int) /\ Len(y) = Len(x) + 1 /\ y[Len(x) + 1] = s[i]
          /\ \A j \in 1 .. Len(x) : y[j] = x[j]
      BY <1>0, <2>2, AppendOrReplace
    <3> HIDE DEF y
    <3>2. Len(x) >= 1 /\ Len(x) \in Nat /\ DOMAIN x = 1 .. Len(x)
      BY <2>2
    <3>3. DOMAIN y = 1 .. Len(y) /\ (y = <<>> => Len(y) = 0)
      BY <3>1
    <3> QED BY <3>1, <3>2, <3>3
  <2>4. Uniform(y)
    <3>1. Digit(s[i]) = Digit(x[1])
      <4> HIDE DEF x, y
      <4>1. Len(x) \in DOMAIN x
        BY <2>2, <2>3
      <4> QED BY <1>2, <2>2, <4>1 DEF Uniform
    <3> SUFFICES ASSUME NEW j \in DOMAIN y PROVE Digit(y[j]) = Digit(y[1])
      BY DEF Uniform
    <3> HIDE DEF x, y
    <3>2. y[1] = x[1] /\ j \in 1 .. Len(x) + 1
      BY <2>2, <2>3
    <3>3. CASE j = Len(x) + 1
      BY <2>3, <3>1, <3>2, <3>3
    <3>4. CASE j \in 1 .. Len(x)
      <4>1. y[j] = x[j] /\ j \in DOMAIN x
        BY <2>3, <3>4
      <4> QED BY <2>2, <3>2, <4>1 DEF Uniform
    <3> QED BY <2>2, <2>3, <3>2, <3>3, <3>4
  <2>5. p \in Seq(Seq(Int) \ {<<>>}) /\ Len(p) = n /\ p[n] = y
        /\ \A k \in 1 .. Len(q) : k # n => p[k] = q[k]
    <3> HIDE DEF y, n
    <3>1. y \in Seq(Int) \ {<<>>}
      BY <2>3
    <3>2. n = Len(q)
      BY DEF n
    <3> QED BY <1>0, <2>2, <3>1, <3>2, AppendOrReplace
  <2>6. \A k \in DOMAIN p : Uniform(p[k])
    <3> TAKE k \in DOMAIN p
    <3>1. k \in 1 .. Len(q)
      <4>1. p \in Seq(Seq(Int) \ {<<>>}) /\ Len(p) = Len(q)
        BY <2>5
      <4> HIDE DEF p
      <4> QED BY <4>1
    <3>2. CASE k # n
      <4>1. p[k] = q[k] /\ k \in DOMAIN q
        BY <1>0, <2>5, <3>1, <3>2
      <4> HIDE DEF p
      <4> QED BY <4>1 DEF Cut
    <3>3. CASE k = n
      BY <2>4, <2>5, <3>3
    <3> QED BY <3>2, <3>3
  <2>7. Len(p) > 0 /\ p[Len(p)][Len(p[Len(p)])] = s[i]
    <3> HIDE DEF n, x, y, p
    <3> QED BY <2>2, <2>3, <2>5
  <2> HIDE DEF n, x, y, p
  <2> QED BY <2>1, <2>5, <2>6, <2>7 DEF Cut
<1> QED BY <1>1, <1>2

(* It is true of all prefixes of a string. *)
LEMMA GrownCut ==
  ASSUME NEW s \in Seq(Int), NEW r, Grown(r, s)
  PROVE  \A i \in 0 .. Len(s) : Cut(r[i], s, i)
<1> DEFINE S == {n \in Nat : n <= Len(s) => Cut(r[n], s, n)}
<1>1. 0 \in S
  <2>1. Cut(<<>>, s, 0)
    BY DEF Cut
  <2> QED BY <2>1 DEF Grown
<1>2. \A n \in Nat : n \in S => n + 1 \in S
  <2> SUFFICES ASSUME NEW n \in Nat, n \in S, n + 1 <= Len(s) PROVE Cut(r[n + 1], s, n + 1)
    OBVIOUS
  <2>1. n + 1 \in 1 .. Len(s) /\ (n + 1) - 1 = n /\ Cut(r[n], s, n)
    OBVIOUS
  <2>2. r[n + 1] = Grow(r[n], s, n + 1)
    BY <2>1 DEF Grown
  <2> QED BY <2>1, <2>2, GrowCut
<1> HIDE DEF S
<1>3. Nat \subseteq S
  BY <1>1, <1>2, NatSetInduction
<1> QED BY <1>3 DEF S

(* The chunks without their last byte, which undoes Grow. *)
Shrink(q) ==
  IF Len(q[Len(q)]) = 1 THEN SubSeq(q, 1, Len(q) - 1)
  ELSE [q EXCEPT ![Len(q)] = SubSeq(@, 1, Len(@) - 1)]

(* It does. *)
LEMMA ShrinkGrow ==
  ASSUME NEW s \in Seq(Int), NEW i \in 1 .. Len(s), NEW q, Cut(q, s, i - 1)
  PROVE  Shrink(Grow(q, s, i)) = q
<1>0. s[i] \in Int /\ q \in Seq(Seq(Int) \ {<<>>})
  BY DEF Cut
<1>1. CASE i = 1 \/ Digit(s[i]) # Digit(s[i - 1])
  <2> DEFINE p == Append(q, <<s[i]>>)
  <2>1. Grow(q, s, i) = p
    BY <1>1 DEF Grow
  <2>2. <<s[i]>> \in Seq(Int) \ {<<>>} /\ Len(<<s[i]>>) = 1
    BY <1>0
  <2>3. p \in Seq(Seq(Int) \ {<<>>}) /\ Len(p) = Len(q) + 1 /\ p[Len(p)] = <<s[i]>>
    BY <1>0, <2>2
  <2>4. SubSeq(p, 1, Len(q)) = q
    BY <1>0, <2>2
  <2> HIDE DEF p
  <2>5. Len(p) - 1 = Len(q)
    BY <1>0, <2>3
  <2> QED BY <2>1, <2>2, <2>3, <2>4, <2>5 DEF Shrink
<1>2. CASE i # 1 /\ Digit(s[i]) = Digit(s[i - 1])
  <2> DEFINE n == Len(q)
             x == q[n]
             y == Append(x, s[i])
             p == [q EXCEPT ![n] = y]
  <2>1. Grow(q, s, i) = p
    BY <1>2 DEF Grow
  <2>2. n > 0 /\ n \in 1 .. Len(q) /\ x \in Seq(Int) /\ x # <<>>
    BY <1>0, <1>2 DEF Cut
  <2>3. Len(y) = Len(x) + 1 /\ Len(x) >= 1 /\ SubSeq(y, 1, Len(x)) = x /\ Len(x) \in Nat
    <3> HIDE DEF x
    <3> QED BY <1>0, <2>2
  <2>4. p \in [1 .. Len(q) -> Seq(Int)] /\ Len(p) = n /\ p[n] = y
        /\ \A k \in 1 .. Len(q) : k # n => p[k] = q[k]
    <3> HIDE DEF y
    <3>1. y \in Seq(Int)
      BY <1>0, <2>2 DEF y
    <3> QED BY <1>0, <2>2, <3>1
  <2>5. [p EXCEPT ![n] = x] = q
    <3>1. \A k \in 1 .. Len(q) : [p EXCEPT ![n] = x][k] = q[k]
      <4> HIDE DEF p, y
      <4> QED BY <2>4 DEF x
    <3>2. q \in [1 .. Len(q) -> Seq(Int)]
      BY <1>0
    <3> HIDE DEF p, x, n
    <3> QED BY <2>4, <3>1, <3>2
  <2>6. Len(y) # 1 /\ SubSeq(y, 1, Len(y) - 1) = x
    <3> HIDE DEF x, y
    <3>1. Len(y) - 1 = Len(x)
      BY <2>3
    <3> QED BY <2>3, <3>1
  <2>7. Shrink(p) = [p EXCEPT ![n] = SubSeq(p[n], 1, Len(p[n]) - 1)]
    <3> HIDE DEF p, y, n
    <3> QED BY <2>4, <2>6 DEF Shrink
  <2> HIDE DEF p, x, y, n
  <2> QED BY <2>1, <2>4, <2>5, <2>6, <2>7
<1> QED BY <1>1, <1>2

(* Names with the same chunks are the same. *)
LEMMA ChunkifyInjective ==
  ASSUME NEW a \in Seq(Int), NEW b \in Seq(Int), chunkify(a) = chunkify(b)
  PROVE  a = b
<1>1. PICK r : Grown(r, a) /\ chunkify(a) = r[Len(a)]
  BY ChunkifyDef
<1>2. PICK t : Grown(t, b) /\ chunkify(b) = t[Len(b)]
  BY ChunkifyDef
<1> DEFINE Same(n) == \A m \in 0 .. Len(b) : r[n] = t[m] =>
                        n = m /\ \A i \in 1 .. n : a[i] = b[i]
           S == {n \in Nat : n <= Len(a) => Same(n)}
<1>3. /\ \A i \in 0 .. Len(a) : Cut(r[i], a, i)
      /\ \A i \in 0 .. Len(b) : Cut(t[i], b, i)
  BY <1>1, <1>2, GrownCut
<1>0. Len(a) \in Nat /\ Len(b) \in Nat
  OBVIOUS
<1>4. 0 \in S
  <2>1. \A m \in 0 .. Len(b) : r[0] = t[m] => m = 0
    <3> SUFFICES ASSUME NEW m \in 0 .. Len(b), r[0] = t[m], m # 0 PROVE FALSE
      OBVIOUS
    <3>1. r[0] = <<>> /\ Len(t[m]) > 0
      BY <1>1, <1>3 DEF Grown, Cut
    <3> QED BY <3>1
  <2> QED BY <2>1
<1>5. \A n \in Nat : n \in S => n + 1 \in S
  <2> SUFFICES ASSUME NEW n \in Nat, n \in S, n + 1 <= Len(a) PROVE Same(n + 1)
    <3> HIDE DEF Same
    <3> QED OBVIOUS
  <2>1. Same(n) /\ n + 1 \in 1 .. Len(a) /\ (n + 1) - 1 = n /\ n \in 0 .. Len(a) /\ n + 1 \in 0 .. Len(a)
    <3> HIDE DEF Same
    <3> QED BY <1>0
  <2> SUFFICES ASSUME NEW m \in 0 .. Len(b), r[n + 1] = t[m]
               PROVE  n + 1 = m /\ \A i \in 1 .. n + 1 : a[i] = b[i]
    OBVIOUS
  <2> HIDE DEF S
  <2>2. m \in 1 .. Len(b) /\ m - 1 \in 0 .. Len(b)
    <3>1. SUFFICES ASSUME m = 0 PROVE FALSE
      BY <1>0
    <3>2. Len(r[n + 1]) > 0 /\ t[m] = <<>>
      BY <1>2, <1>3, <2>1, <3>1 DEF Grown, Cut
    <3> QED BY <3>2
  <2>3. r[n + 1] = Grow(r[n], a, n + 1) /\ Cut(r[n], a, (n + 1) - 1)
    BY <1>1, <1>3, <2>1 DEF Grown
  <2>4. t[m] = Grow(t[m - 1], b, m) /\ Cut(t[m - 1], b, m - 1)
    BY <1>2, <1>3, <2>2 DEF Grown
  <2>5. r[n] = t[m - 1]
    <3>1. Shrink(r[n + 1]) = r[n]
      BY <2>1, <2>3, ShrinkGrow
    <3>2. Shrink(t[m]) = t[m - 1]
      BY <2>2, <2>4, ShrinkGrow
    <3> QED BY <3>1, <3>2
  <2>6. a[n + 1] = b[m]
    <3>1. Cut(r[n + 1], a, n + 1) /\ Cut(t[m], b, m) /\ n + 1 # 0 /\ m # 0
      BY <1>3, <2>1, <2>2
    <3> QED BY <3>1 DEF Cut
  <2>7. n = m - 1 /\ \A i \in 1 .. n : a[i] = b[i]
    BY <2>1, <2>2, <2>5
  <2> QED BY <2>2, <2>6, <2>7
<1> HIDE DEF S
<1>6. Nat \subseteq S
  BY <1>4, <1>5, NatSetInduction
<1>7. Same(Len(a))
  <2> HIDE DEF Same
  <2> QED BY <1>0, <1>6 DEF S
<1>8. Len(a) = Len(b) /\ \A i \in 1 .. Len(a) : a[i] = b[i]
  <2>1. r[Len(a)] = t[Len(b)] /\ Len(b) \in 0 .. Len(b)
    <3>1. r[Len(a)] = t[Len(b)]
      BY <1>1, <1>2, Zenon
    <3> QED BY <1>0, <3>1
  <2> QED BY <1>7, <2>1
<1> HIDE DEF Same
<1> QED BY <1>8

-----------------------------------------------------------------------------
(* Names whose numbers are counted.                                           *)

CountedChunks ==
  {x \in Seq(Int) \ {<<>>} : Uniform(x) /\ (Digit(x[1]) => Atoi(x))}

(* A number is a sequence of digits. *)
LEMMA CountedNumbers ==
  ASSUME NEW x \in CountedChunks, Digit(x[1])
  PROVE  x \in Seq(0 .. 9) /\ x # <<>> /\ NumberOf(x) \in Nat
<1>1. x \in Seq(0 .. 9)
  <2>1. x \in Seq(Int) /\ \A j \in 1 .. Len(x) : Digit(x[j])
    BY DEF CountedChunks, Uniform
  <2>2. \A j \in 1 .. Len(x) : x[j] \in 0 .. 9
    BY <2>1 DEF Digit
  <2>3. x = [j \in 1 .. Len(x) |-> x[j]] /\ Len(x) \in Nat
    BY <2>1
  <2>4. x \in [1 .. Len(x) -> 0 .. 9]
    BY <2>2, <2>3
  <2> QED BY <2>3, <2>4
<1>2. NumberOf(x) \in Nat
  <2>1. PICK f : Numbers(f, x) /\ NumberOf(x) = f[Len(x)]
    BY <1>1, NumberOfDef
  <2>2. Len(x) \in 0 .. Len(x)
    BY DEF CountedChunks
  <2> QED BY <2>1, <2>2 DEF Numbers
<1> QED BY <1>1, <1>2 DEF CountedChunks

(* How two chunks compare: numbers by their value, others by their bytes, and *)
(* numbers with others by the first byte.                                     *)
LEMMA ChunkLessCases ==
  ASSUME NEW x \in CountedChunks, NEW y \in CountedChunks
  PROVE  /\ x \in Seq(Int) \ {<<>>} /\ y \in Seq(Int) \ {<<>>} /\ x[1] \in Int /\ y[1] \in Int
         /\ Digit(x[1]) /\ Digit(y[1]) =>
              /\ ChunkLess(x, y) <=> NumberOf(x) < NumberOf(y)
              /\ SameChunk(x, y) <=> NumberOf(x) = NumberOf(y)
         /\ ~Digit(x[1]) \/ ~Digit(y[1]) =>
              /\ ChunkLess(x, y) <=> BytesLess(x, y)
              /\ SameChunk(x, y) <=> x = y
         /\ Digit(x[1]) # Digit(y[1]) => (ChunkLess(x, y) <=> x[1] < y[1])
<1>1. x \in Seq(Int) \ {<<>>} /\ y \in Seq(Int) \ {<<>>} /\ x[1] \in Int /\ y[1] \in Int
  BY DEF CountedChunks
<1>2. (Digit(x[1]) <=> Atoi(x)) /\ (Digit(y[1]) <=> Atoi(y))
  BY DEF CountedChunks, Atoi
<1>3. ASSUME Digit(x[1]), Digit(y[1])
      PROVE  /\ ChunkLess(x, y) <=> NumberOf(x) < NumberOf(y)
             /\ SameChunk(x, y) <=> NumberOf(x) = NumberOf(y)
  BY <1>2, <1>3 DEF ChunkLess, SameChunk
<1>4. ASSUME ~Digit(x[1]) \/ ~Digit(y[1])
      PROVE  (ChunkLess(x, y) <=> BytesLess(x, y)) /\ (SameChunk(x, y) <=> x = y)
  BY <1>2, <1>4 DEF ChunkLess, SameChunk
<1>5. ASSUME Digit(x[1]) # Digit(y[1]) PROVE ChunkLess(x, y) <=> x[1] < y[1]
  <2>1. x[1] # y[1] /\ (~Digit(x[1]) \/ ~Digit(y[1]))
    BY <1>5 DEF Digit
  <2>2. ChunkLess(x, y) <=> BytesLess(x, y)
    BY <1>4, <2>1
  <2> QED BY <1>1, <2>1, <2>2, FirstByte
<1> QED BY <1>1, <1>3, <1>4, <1>5

(* One way to write each number, and the chunk that stands for all those that *)
(* Compare takes for the same.                                                *)
Written(n) == CHOOSE y \in CountedChunks : Digit(y[1]) /\ NumberOf(y) = n

Canon(x) == IF Digit(x[1]) THEN Written(NumberOf(x)) ELSE x

Canons == {Canon(x) : x \in CountedChunks}

ChunkOrder == {p \in Canons \X Canons : ChunkLess(p[1], p[2])}

(* It is a chunk of the same kind with the same value. *)
LEMMA CanonOf ==
  ASSUME NEW x \in CountedChunks
  PROVE  /\ Canon(x) \in CountedChunks /\ Canon(x) \in Canons
         /\ Digit(x[1]) => Digit(Canon(x)[1]) /\ NumberOf(Canon(x)) = NumberOf(x)
         /\ ~Digit(x[1]) => Canon(x) = x
<1>1. CASE Digit(x[1])
  <2>1. /\ Written(NumberOf(x)) \in CountedChunks
        /\ Digit(Written(NumberOf(x))[1]) /\ NumberOf(Written(NumberOf(x))) = NumberOf(x)
    BY <1>1 DEF Written
  <2> QED BY <1>1, <2>1 DEF Canon, Canons
<1>2. CASE ~Digit(x[1])
  BY <1>2 DEF Canon, Canons
<1> QED BY <1>1, <1>2

(* It stands for the same chunks, and compares as they do. *)
LEMMA CanonSame ==
  ASSUME NEW x \in CountedChunks, NEW y \in CountedChunks
  PROVE  /\ SameChunk(x, y) <=> Canon(x) = Canon(y)
         /\ ChunkLess(x, y) <=> ChunkLess(Canon(x), Canon(y))
<1> DEFINE u == Canon(x)
           v == Canon(y)
<1>0. /\ u \in CountedChunks /\ v \in CountedChunks
      /\ Digit(x[1]) => Digit(u[1]) /\ NumberOf(u) = NumberOf(x)
      /\ Digit(y[1]) => Digit(v[1]) /\ NumberOf(v) = NumberOf(y)
      /\ ~Digit(x[1]) => u = x
      /\ ~Digit(y[1]) => v = y
  BY CanonOf
<1>1. CASE Digit(x[1]) /\ Digit(y[1])
  <2>1. SameChunk(x, y) <=> NumberOf(x) = NumberOf(y)
    BY <1>1, ChunkLessCases
  <2>2. NumberOf(x) = NumberOf(y) => u = v
    BY <1>1 DEF Canon
  <2>3. ChunkLess(x, y) <=> NumberOf(x) < NumberOf(y)
    BY <1>1, ChunkLessCases
  <2> HIDE DEF u, v
  <2>4. ChunkLess(u, v) <=> NumberOf(u) < NumberOf(v)
    BY <1>0, <1>1, ChunkLessCases
  <2>5. (SameChunk(x, y) <=> u = v) /\ (ChunkLess(x, y) <=> ChunkLess(u, v))
    BY <1>0, <1>1, <2>1, <2>2, <2>3, <2>4
  <2> QED BY <2>5 DEF u, v
<1>2. CASE ~Digit(x[1]) /\ ~Digit(y[1])
  BY <1>0, <1>2, ChunkLessCases
<1>3. CASE Digit(x[1]) /\ ~Digit(y[1])
  <2> HIDE DEF u, v
  <2>1. v = y /\ Digit(u[1]) /\ x # y /\ u # y
    BY <1>0, <1>3
  <2>2. (SameChunk(x, y) <=> x = y) /\ (ChunkLess(x, y) <=> x[1] < y[1])
    BY <1>3, ChunkLessCases
  <2>3. ChunkLess(u, y) <=> u[1] < y[1]
    BY <1>0, <1>3, <2>1, ChunkLessCases
  <2>4. y[1] \in Int /\ x[1] \in 0 .. 9 /\ u[1] \in 0 .. 9 /\ y[1] \notin 0 .. 9
    BY <1>3, <2>1, ChunkLessCases DEF Digit
  <2>5. (SameChunk(x, y) <=> u = v) /\ (ChunkLess(x, y) <=> ChunkLess(u, v))
    BY <2>1, <2>2, <2>3, <2>4
  <2> QED BY <2>5 DEF u, v
<1>4. CASE ~Digit(x[1]) /\ Digit(y[1])
  <2> HIDE DEF u, v
  <2>1. u = x /\ Digit(v[1]) /\ x # y /\ v # x
    BY <1>0, <1>4
  <2>2. (SameChunk(x, y) <=> x = y) /\ (ChunkLess(x, y) <=> x[1] < y[1])
    BY <1>4, ChunkLessCases
  <2>3. ChunkLess(x, v) <=> x[1] < v[1]
    BY <1>0, <1>4, <2>1, ChunkLessCases
  <2>4. x[1] \in Int /\ y[1] \in 0 .. 9 /\ v[1] \in 0 .. 9 /\ x[1] \notin 0 .. 9
    BY <1>4, <2>1, ChunkLessCases DEF Digit
  <2>5. (SameChunk(x, y) <=> u = v) /\ (ChunkLess(x, y) <=> ChunkLess(u, v))
    BY <2>1, <2>2, <2>3, <2>4
  <2> QED BY <2>5 DEF u, v
<1> QED BY <1>1, <1>2, <1>3, <1>4

(* No two of them are the same number. *)
LEMMA CanonsDiffer ==
  /\ Canons \subseteq CountedChunks
  /\ \A x, y \in Canons : Digit(x[1]) /\ Digit(y[1]) /\ NumberOf(x) = NumberOf(y) => x = y
<1>1. \A x \in Canons : x \in CountedChunks /\ (Digit(x[1]) => x = Written(NumberOf(x)))
  <2> TAKE x \in Canons
  <2>1. PICK y \in CountedChunks : x = Canon(y)
    BY DEF Canons
  <2>2. CASE Digit(y[1])
    BY <2>1, <2>2, CanonOf DEF Canon
  <2>3. CASE ~Digit(y[1])
    BY <2>1, <2>3, CanonOf
  <2> QED BY <2>2, <2>3
<1> QED BY <1>1

(* Chunks are strictly ordered, zeros aside. *)
LEMMA ChunksOrdered == StrictOrder(Canons, ChunkOrder)
<1>0. /\ \A x, y \in Canons : <<x, y>> \in ChunkOrder <=> ChunkLess(x, y)
      /\ \A x \in Canons : x \in CountedChunks
  BY CanonsDiffer DEF ChunkOrder
<1>1. /\ \A a \in Seq(Int) : ~BytesLess(a, a)
      /\ \A a, b \in Seq(Int) : a = b \/ BytesLess(a, b) \/ BytesLess(b, a)
      /\ \A a, b, c \in Seq(Int) : BytesLess(a, b) /\ BytesLess(b, c) => BytesLess(a, c)
  BY BytesLessIsLex, LexOrder
<1>2. ASSUME NEW x \in Canons PROVE ~ChunkLess(x, x)
  <2>1. CASE Digit(x[1])
    BY <1>0, <2>1, ChunkLessCases, CountedNumbers
  <2>2. CASE ~Digit(x[1])
    BY <1>0, <1>1, <2>2, ChunkLessCases
  <2> QED BY <2>1, <2>2
<1>3. ASSUME NEW x \in Canons, NEW y \in Canons, x # y
      PROVE  ChunkLess(x, y) \/ ChunkLess(y, x)
  <2>0. x \in CountedChunks /\ y \in CountedChunks
    BY <1>0
  <2>1. CASE Digit(x[1]) /\ Digit(y[1])
    <3>1. NumberOf(x) # NumberOf(y) /\ NumberOf(x) \in Nat /\ NumberOf(y) \in Nat
      BY <1>3, <2>0, <2>1, CanonsDiffer, CountedNumbers
    <3> QED BY <2>0, <2>1, <3>1, ChunkLessCases
  <2>2. CASE ~Digit(x[1]) \/ ~Digit(y[1])
    <3>1. BytesLess(x, y) \/ BytesLess(y, x)
      BY <1>1, <1>3, <2>0, ChunkLessCases
    <3> QED BY <2>0, <2>2, <3>1, ChunkLessCases
  <2> QED BY <2>1, <2>2
<1>4. ASSUME NEW x \in CountedChunks, NEW y \in CountedChunks, NEW z \in CountedChunks,
             ChunkLess(x, y), ChunkLess(y, z)
      PROVE  ChunkLess(x, z)
  <2>0. /\ x \in Seq(Int) \ {<<>>} /\ y \in Seq(Int) \ {<<>>} /\ z \in Seq(Int) \ {<<>>}
        /\ x[1] \in Int /\ y[1] \in Int /\ z[1] \in Int
    BY ChunkLessCases
  <2>1. CASE Digit(x[1]) /\ Digit(y[1]) /\ Digit(z[1])
    <3>1. NumberOf(x) < NumberOf(y) /\ NumberOf(y) < NumberOf(z)
      BY <1>4, <2>1, ChunkLessCases
    <3>2. NumberOf(x) \in Nat /\ NumberOf(y) \in Nat /\ NumberOf(z) \in Nat
      BY <2>1, CountedNumbers
    <3>3. NumberOf(x) < NumberOf(z)
      BY <3>1, <3>2
    <3> QED BY <2>1, <3>3, ChunkLessCases
  <2>2. CASE ~Digit(x[1]) /\ ~Digit(y[1]) /\ ~Digit(z[1])
    <3>1. BytesLess(x, y) /\ BytesLess(y, z)
      BY <1>4, <2>2, ChunkLessCases
    <3>2. BytesLess(x, z)
      BY <1>1, <2>0, <3>1
    <3> QED BY <2>2, <3>2, ChunkLessCases
  <2>3. CASE Digit(x[1]) # Digit(y[1]) \/ Digit(y[1]) # Digit(z[1])
    (* At least one step changes the kind, and the other does not go back. *)
    <3>1. (Digit(x[1]) # Digit(y[1]) => x[1] < y[1]) /\ (Digit(y[1]) # Digit(z[1]) => y[1] < z[1])
      BY <1>4, ChunkLessCases
    <3>2. ~Digit(x[1]) /\ ~Digit(y[1]) => x[1] <= y[1]
      BY <1>4, <2>0, ChunkLessCases, FirstByte
    <3>3. ~Digit(y[1]) /\ ~Digit(z[1]) => y[1] <= z[1]
      BY <1>4, <2>0, ChunkLessCases, FirstByte
    <3> DEFINE u == x[1]
               v == y[1]
               w == z[1]
    <3>4. u < w /\ (Digit(u) = Digit(w) => ~Digit(u) /\ ~Digit(w))
      <4>1. u \in Int /\ v \in Int /\ w \in Int
        BY <2>0
      <4>2. (Digit(u) <=> ~Digit(v)) \/ (Digit(v) <=> ~Digit(w))
        BY <2>3 DEF Digit
      <4>3. ((Digit(u) <=> ~Digit(v)) => u < v) /\ ((Digit(v) <=> ~Digit(w)) => v < w)
        BY <3>1 DEF Digit
      <4>4. (~Digit(u) /\ ~Digit(v) => u <= v) /\ (~Digit(v) /\ ~Digit(w) => v <= w)
        BY <3>2, <3>3
      <4> HIDE DEF u, v, w
      <4>5. (Digit(u) <=> 0 <= u /\ u <= 9) /\ (Digit(v) <=> 0 <= v /\ v <= 9) /\ (Digit(w) <=> 0 <= w /\ w <= 9)
        BY <4>1 DEF Digit
      <4> QED BY <4>1, <4>2, <4>3, <4>4, <4>5
    <3>5. CASE Digit(x[1]) # Digit(z[1])
      BY <3>4, <3>5, ChunkLessCases
    <3>6. CASE Digit(x[1]) = Digit(z[1])
      <4>1. BytesLess(x, z)
        BY <2>0, <3>4, FirstByte
      <4> QED BY <3>4, <3>6, <4>1, ChunkLessCases
    <3> QED BY <3>5, <3>6
  <2> QED BY <2>1, <2>2, <2>3
<1> QED BY <1>0, <1>2, <1>3, <1>4 DEF StrictOrder

(* What Compare sees of a name. *)
Canonical(s) == [i \in DOMAIN chunkify(s) |-> Canon(chunkify(s)[i])]

CountedNames == {s \in Seq(Int) \ {<<>>} : Counted(s)}

(* The chunks of a name whose numbers are counted. *)
LEMMA CountedName ==
  ASSUME NEW s \in CountedNames
  PROVE  /\ chunkify(s) \in Seq(CountedChunks) /\ Canonical(s) \in Seq(Canons)
         /\ Len(Canonical(s)) = Len(chunkify(s))
         /\ \A i \in 1 .. Len(chunkify(s)) : Canonical(s)[i] = Canon(chunkify(s)[i])
<1>0. s \in Seq(Int) /\ Counted(s)
  BY DEF CountedNames
<1>1. PICK r : Grown(r, s) /\ chunkify(s) = r[Len(s)]
  BY <1>0, ChunkifyDef
<1>2. Cut(chunkify(s), s, Len(s))
  <2>1. Len(s) \in 0 .. Len(s)
    BY <1>0
  <2> QED BY <1>0, <1>1, <2>1, GrownCut
<1> DEFINE q == chunkify(s)
<1>3. q \in Seq(Seq(Int) \ {<<>>}) /\ \A k \in DOMAIN q : Uniform(q[k])
  BY <1>2 DEF Cut
<1>4. \A k \in 1 .. Len(q) : q[k] \in CountedChunks
  <2> TAKE k \in 1 .. Len(q)
  <2>1. Digit(q[k][1]) => Atoi(q[k])
    BY <1>0, <1>3 DEF Counted
  <2>2. q[k] \in Seq(Int) \ {<<>>} /\ Uniform(q[k])
    BY <1>3
  <2> QED BY <2>1, <2>2 DEF CountedChunks
<1>5. Canonical(s) = [i \in DOMAIN q |-> Canon(q[i])]
  BY DEF Canonical
<1> HIDE DEF q
<1>6. q \in Seq(CountedChunks) /\ DOMAIN q = 1 .. Len(q) /\ Len(q) \in Nat
  BY <1>3, <1>4
<1>7. \A i \in 1 .. Len(q) : Canon(q[i]) \in Canons
  BY <1>4, CanonOf
<1>8. Canonical(s) \in [1 .. Len(q) -> Canons]
  BY <1>5, <1>6, <1>7
<1>9. Canonical(s) \in Seq(Canons) /\ Len(Canonical(s)) = Len(q)
  <2> DEFINE t == Canonical(s)
             N == Len(q)
  <2>1. t \in [1 .. N -> Canons] /\ N \in Nat
    BY <1>6, <1>8
  <2> HIDE DEF t, N
  <2>2. t \in Seq(Canons) /\ Len(t) = N
    BY <2>1
  <2> QED BY <2>2 DEF t, N
<1> QED BY <1>5, <1>6, <1>9 DEF q

(* Names that are alike look the same, and others are put in that order.      *)
LEMMA CompareIsLex ==
  ASSUME NEW a \in CountedNames, NEW b \in CountedNames
  PROVE  /\ Alike(a, b) <=> Canonical(a) = Canonical(b)
         /\ ~Alike(a, b) => (Compare(a, b) <=> Lex(ChunkOrder, Canonical(a), Canonical(b)))
<1> DEFINE p == chunkify(a)
           q == chunkify(b)
           u == Canonical(a)
           v == Canonical(b)
           D == {i \in DOMAIN p \cap DOMAIN q : ~SameChunk(p[i], q[i])}
<1>1. /\ p \in Seq(CountedChunks) /\ u \in Seq(Canons) /\ Len(u) = Len(p)
      /\ \A i \in 1 .. Len(p) : u[i] = Canon(p[i])
      /\ q \in Seq(CountedChunks) /\ v \in Seq(Canons) /\ Len(v) = Len(q)
      /\ \A i \in 1 .. Len(q) : v[i] = Canon(q[i])
  BY CountedName
<1>2. Compare(a, b) <=> IF D = {} THEN Len(p) <= Len(q) ELSE ChunkLess(p[Min(D)], q[Min(D)])
  BY DEF Compare
<1>3. Alike(a, b) <=> Len(p) = Len(q) /\ \A i \in DOMAIN p : SameChunk(p[i], q[i])
  BY DEF Alike
<1> HIDE DEF p, q, u, v
<1>4. /\ DOMAIN p = 1 .. Len(p) /\ DOMAIN q = 1 .. Len(q) /\ Len(p) \in Nat /\ Len(q) \in Nat
      /\ DOMAIN u = DOMAIN p /\ DOMAIN v = DOMAIN q
  BY <1>1
<1>5. ASSUME NEW i \in DOMAIN p \cap DOMAIN q
      PROVE  /\ SameChunk(p[i], q[i]) <=> u[i] = v[i]
             /\ ChunkLess(p[i], q[i]) <=> <<u[i], v[i]>> \in ChunkOrder
  <2>1. p[i] \in CountedChunks /\ q[i] \in CountedChunks /\ u[i] = Canon(p[i]) /\ v[i] = Canon(q[i])
    BY <1>1, <1>4
  <2>2. u[i] \in Canons /\ v[i] \in Canons
    BY <2>1, CanonOf
  <2> QED BY <2>1, <2>2, CanonSame DEF ChunkOrder
<1>6. D = Differ(u, v) /\ D \in SUBSET Nat
  <2>1. \A i \in DOMAIN p \cap DOMAIN q : SameChunk(p[i], q[i]) <=> u[i] = v[i]
    BY <1>5
  <2>2. DOMAIN p \cap DOMAIN q \subseteq Nat
    BY <1>4
  <2> QED BY <1>4, <2>1, <2>2 DEF Differ
<1>7. Alike(a, b) <=> u = v
  <2>1. ASSUME Alike(a, b) PROVE u = v
    <3>0. Len(p) = Len(q) /\ \A i \in DOMAIN p : SameChunk(p[i], q[i])
      BY <1>3, <2>1
    <3>1. Len(u) = Len(v) /\ \A i \in 1 .. Len(u) : i \in DOMAIN p \cap DOMAIN q
      BY <1>1, <1>4, <3>0
    <3>2. \A i \in 1 .. Len(u) : u[i] = v[i]
      BY <1>5, <3>0, <3>1
    <3> QED BY <1>1, <3>1, <3>2
  <2>2. ASSUME u = v PROVE Alike(a, b)
    <3>1. Len(p) = Len(q)
      BY <1>1, <2>2
    <3>2. \A i \in DOMAIN p : i \in DOMAIN p \cap DOMAIN q /\ u[i] = v[i]
      BY <1>4, <2>2, <3>1
    <3> QED BY <1>3, <1>5, <3>1, <3>2
  <2> QED BY <2>1, <2>2
<1>8. ASSUME ~Alike(a, b) PROVE Compare(a, b) <=> Lex(ChunkOrder, u, v)
  <2>1. CASE D = {}
    <3>1. Len(p) # Len(q)
      <4> SUFFICES ASSUME Len(p) = Len(q) PROVE u = v
        BY <1>7, <1>8
      <4>1. \A i \in 1 .. Len(u) : u[i] = v[i]
        BY <1>1, <1>4, <1>6, <2>1 DEF Differ
      <4> QED BY <1>1, <4>1
    <3>2. Lex(ChunkOrder, u, v) <=> Len(u) < Len(v)
      BY <1>6, <2>1 DEF Lex
    <3> HIDE DEF D
    <3>3. Compare(a, b) <=> Len(p) <= Len(q)
      BY <1>2, <2>1
    <3>4. Len(p) <= Len(q) <=> Len(u) < Len(v)
      <4> DEFINE m == Len(p)
                 n == Len(q)
      <4>1. Len(u) = m /\ Len(v) = n
        BY <1>1
      <4>0. m \in Nat /\ n \in Nat
        BY <1>4
      <4>2. m # n
        BY <3>1
      <4> HIDE DEF m, n
      <4>3. m <= n <=> m < n
        BY <4>0, <4>2
      <4> QED BY <4>1, <4>3 DEF m, n
    <3> QED BY <3>2, <3>3, <3>4
  <2>2. CASE D # {}
    <3>0. \A i \in D : i \in DOMAIN p \cap DOMAIN q
      OBVIOUS
    <3> HIDE DEF D
    <3>1. Min(D) \in D
      BY <1>6, <2>2, MinOf
    <3>2. Lex(ChunkOrder, u, v) <=> <<u[Min(D)], v[Min(D)]>> \in ChunkOrder
      BY <1>6, <2>2 DEF Lex
    <3>3. ChunkLess(p[Min(D)], q[Min(D)]) <=> <<u[Min(D)], v[Min(D)]>> \in ChunkOrder
      BY <1>5, <3>0, <3>1
    <3> QED BY <1>2, <2>2, <3>2, <3>3
  <2> QED BY <2>1, <2>2
<1> QED BY <1>7, <1>8 DEF u, v

(* Compare is what SortFunc asks for: of two names that are not alike exactly *)
(* one is less than the other, and it never goes round in a circle.           *)
THEOREM CompareIsAnOrder ==
  /\ \A a, b \in CountedNames : ~Alike(a, b) => (Compare(a, b) <=> ~Compare(b, a))
  /\ \A a, b, c \in CountedNames :
       ~Alike(a, b) /\ ~Alike(b, c) /\ Compare(a, b) /\ Compare(b, c) =>
         ~Alike(a, c) /\ Compare(a, c)
<1>1. ASSUME NEW a \in CountedNames, NEW b \in CountedNames, ~Alike(a, b)
      PROVE  Compare(a, b) <=> ~Compare(b, a)
  <2> DEFINE p == Canonical(a)
             q == Canonical(b)
  <2>1. p \in Seq(Canons) /\ q \in Seq(Canons)
    BY CountedName
  <2>2. p # q /\ (Compare(a, b) <=> Lex(ChunkOrder, p, q))
    BY <1>1, CompareIsLex
  <2>3. ~Alike(b, a)
    BY <2>2, CompareIsLex
  <2>4. Compare(b, a) <=> Lex(ChunkOrder, q, p)
    BY <2>3, CompareIsLex
  <2> HIDE DEF p, q
  <2>5. Lex(ChunkOrder, p, q) \/ Lex(ChunkOrder, q, p)
    BY <2>1, <2>2, ChunksOrdered, LexOrder
  <2>6. ~(Lex(ChunkOrder, p, q) /\ Lex(ChunkOrder, q, p))
    BY <2>1, ChunksOrdered, LexOrder
  <2> QED BY <2>2, <2>4, <2>5, <2>6
<1>2. ASSUME NEW a \in CountedNames, NEW b \in CountedNames, NEW c \in CountedNames,
             ~Alike(a, b), ~Alike(b, c), Compare(a, b), Compare(b, c)
      PROVE  ~Alike(a, c) /\ Compare(a, c)
  <2> DEFINE p == Canonical(a)
             q == Canonical(b)
             r == Canonical(c)
  <2>1. p \in Seq(Canons) /\ q \in Seq(Canons) /\ r \in Seq(Canons)
    BY CountedName
  <2>2. Lex(ChunkOrder, p, q) /\ Lex(ChunkOrder, q, r)
    BY <1>2, CompareIsLex
  <2>3. (Alike(a, c) <=> p = r) /\ (~Alike(a, c) => (Compare(a, c) <=> Lex(ChunkOrder, p, r)))
    BY CompareIsLex
  <2> HIDE DEF p, q, r
  <2>4. Lex(ChunkOrder, p, r) /\ p # r
    BY <2>1, <2>2, ChunksOrdered, LexOrder
  <2> QED BY <2>3, <2>4
<1> QED BY <1>1, <1>2

(* No number of the name has a leading zero. *)
Plain(s) ==
  \A i \in DOMAIN chunkify(s) :
    Digit(chunkify(s)[i][1]) /\ chunkify(s)[i][1] = 0 => Len(chunkify(s)[i]) = 1

(* Only leading zeros make different names alike.                             *)
THEOREM AlikeButForZeros ==
  \A a, b \in CountedNames : Plain(a) /\ Plain(b) /\ Alike(a, b) => a = b
<1> SUFFICES ASSUME NEW a \in CountedNames, NEW b \in CountedNames, Plain(a), Plain(b), Alike(a, b)
             PROVE  a = b
  OBVIOUS
<1> DEFINE p == chunkify(a)
           q == chunkify(b)
<1>1. p \in Seq(CountedChunks) /\ q \in Seq(CountedChunks)
  BY CountedName
<1>2. Len(p) = Len(q) /\ \A i \in DOMAIN p : SameChunk(p[i], q[i])
  BY DEF Alike
<1>3. /\ \A i \in DOMAIN p : Digit(p[i][1]) /\ p[i][1] = 0 => Len(p[i]) = 1
      /\ \A i \in DOMAIN q : Digit(q[i][1]) /\ q[i][1] = 0 => Len(q[i]) = 1
  BY DEF Plain
<1>4. p = q => a = b
  BY ChunkifyInjective DEF CountedNames
<1> HIDE DEF p, q
<1>5. \A i \in 1 .. Len(p) : p[i] = q[i]
  <2> TAKE i \in 1 .. Len(p)
  <2>1. /\ i \in DOMAIN p /\ i \in DOMAIN q /\ p[i] \in CountedChunks /\ q[i] \in CountedChunks
        /\ SameChunk(p[i], q[i])
    BY <1>1, <1>2
  <2>2. CASE Digit(p[i][1]) /\ Digit(q[i][1])
    <3> DEFINE x == p[i]
               y == q[i]
    <3>1. (x[1] = 0 => Len(x) = 1) /\ (y[1] = 0 => Len(y) = 1)
      BY <1>3, <2>1, <2>2
    <3>2. /\ x \in CountedChunks /\ y \in CountedChunks /\ SameChunk(x, y)
          /\ Digit(x[1]) /\ Digit(y[1])
      BY <2>1, <2>2
    <3> HIDE DEF x, y
    <3>3. NumberOf(x) = NumberOf(y)
      BY <3>2, ChunkLessCases
    <3>4. x \in Seq(0 .. 9) /\ y \in Seq(0 .. 9) /\ x # <<>> /\ y # <<>>
      BY <3>2, CountedNumbers
    <3>5. x = y
      BY <3>1, <3>3, <3>4, NumberOfInjective
    <3> QED BY <3>5 DEF x, y
  <2>3. CASE ~Digit(p[i][1]) \/ ~Digit(q[i][1])
    BY <2>1, <2>3, ChunkLessCases
  <2> QED BY <2>2, <2>3
<1>6. p = q
  BY <1>1, <1>2, <1>5
<1> QED BY <1>4, <1>6

-----------------------------------------------------------------------------
(* A directory. *)

(* Where entry k of the directory was before entry n + 1 moved to place to. *)
Was(k, n, to) == IF k = to THEN n + 1 ELSE IF to < k /\ k <= n + 1 THEN k - 1 ELSE k

(* Two sequences in a row. *)
LEMMA Joined ==
  ASSUME NEW T, NEW p \in Seq(T), NEW q \in Seq(T)
  PROVE  /\ p \o q \in Seq(T) /\ Len(p \o q) = Len(p) + Len(q)
         /\ \A k \in 1 .. Len(p) : (p \o q)[k] = p[k]
         /\ \A k \in 1 .. Len(q) : (p \o q)[Len(p) + k] = q[k]
  OBVIOUS

(* That is what taking it out and putting it in does. *)
LEMMA Moved ==
  ASSUME NEW T, NEW s \in Seq(T), NEW n \in Nat, n + 1 <= Len(s), NEW to \in 1 .. n + 1
  PROVE  LET t == InsertAt(RemoveAt(s, n + 1), to, s[n + 1])
         IN  /\ t \in Seq(T) /\ Len(t) = Len(s)
             /\ \A k \in 1 .. Len(s) : Was(k, n, to) \in 1 .. Len(s) /\ t[k] = s[Was(k, n, to)]
<1> DEFINE x == s[n + 1]
           r == RemoveAt(s, n + 1)
           t == InsertAt(r, to, x)
           L == Len(s)
<1>0. L \in Nat /\ n + 1 \in 1 .. L /\ x \in T
  OBVIOUS
<1>1. r \in Seq(T) /\ Len(r) = L - 1
      /\ \A k \in 1 .. L - 1 : r[k] = IF k <= n THEN s[k] ELSE s[k + 1]
  <2> DEFINE a == SubSeq(s, 1, n)
             b == SubSeq(s, n + 2, L)
  <2>1. a \in Seq(T) /\ Len(a) = n /\ \A k \in 1 .. n : a[k] = s[k]
    OBVIOUS
  <2>2. b \in Seq(T) /\ Len(b) = L - n - 1 /\ \A k \in 1 .. L - n - 1 : b[k] = s[n + 1 + k]
    OBVIOUS
  <2>3. r = a \o b
    <3>1. (n + 1) - 1 = n /\ (n + 1) + 1 = n + 2
      OBVIOUS
    <3> QED BY <3>1 DEF RemoveAt
  <2> HIDE DEF a, b, r, L, x
  <2>6. /\ a \o b \in Seq(T) /\ Len(a \o b) = Len(a) + Len(b)
        /\ \A k \in 1 .. Len(a) : (a \o b)[k] = a[k]
        /\ \A k \in 1 .. Len(b) : (a \o b)[Len(a) + k] = b[k]
    <3>1. a \in Seq(T) /\ b \in Seq(T)
      BY <2>1, <2>2
    <3> QED BY <3>1
  <2>4. a \o b \in Seq(T) /\ Len(a \o b) = L - 1
    BY <1>0, <2>1, <2>2, <2>6
  <2>5. \A k \in 1 .. L - 1 : (a \o b)[k] = IF k <= n THEN s[k] ELSE s[k + 1]
    <3> TAKE k \in 1 .. L - 1
    <3>1. CASE k <= n
      BY <1>0, <2>1, <2>6, <3>1
    <3>2. CASE k > n
      <4>1. (a \o b)[k] = b[k - n] /\ k - n \in 1 .. L - n - 1
        <5>1. k - n \in 1 .. L - n - 1 /\ n + (k - n) = k
          BY <1>0, <3>2
        <5> QED BY <2>1, <2>2, <2>6, <5>1
      <4>2. b[k - n] = s[n + 1 + (k - n)] /\ n + 1 + (k - n) = k + 1
        BY <2>2, <4>1
      <4> QED BY <3>2, <4>1, <4>2
    <3>3. k <= n \/ k > n
      BY <1>0
    <3> QED BY <3>1, <3>2, <3>3
  <2> QED BY <2>3, <2>4, <2>5
<1> HIDE DEF r
<1>2. t \in Seq(T) /\ Len(t) = L
      /\ \A k \in 1 .. L : t[k] = IF k < to THEN r[k] ELSE IF k = to THEN x ELSE r[k - 1]
  <2> DEFINE a == SubSeq(r, 1, to - 1)
             b == SubSeq(r, to, Len(r))
             e == <<x>>
  <2>1. a \in Seq(T) /\ Len(a) = to - 1 /\ \A k \in 1 .. to - 1 : a[k] = r[k]
    <3> HIDE DEF x, L
    <3>1. to - 1 \in Nat /\ to - 1 <= Len(r)
      BY <1>0, <1>1
    <3> QED BY <1>1, <3>1
  <2>2. b \in Seq(T) /\ Len(b) = L - to /\ \A k \in 1 .. L - to : b[k] = r[to + k - 1]
    <3> HIDE DEF x, L
    <3> QED BY <1>0, <1>1
  <2>3. t = a \o e \o b
    BY DEF InsertAt
  <2>4. e \in Seq(T) /\ Len(e) = 1 /\ e[1] = x
    BY <1>0
  <2> HIDE DEF a, b, t, e, x, L
  <2> DEFINE c == a \o e
  <2>5. c \in Seq(T) /\ Len(c) = to /\ c[to] = x /\ \A k \in 1 .. to - 1 : c[k] = r[k]
    <3>1. /\ c \in Seq(T) /\ Len(c) = Len(a) + Len(e)
          /\ \A k \in 1 .. Len(a) : c[k] = a[k]
          /\ \A k \in 1 .. Len(e) : c[Len(a) + k] = e[k]
      <4>1. a \in Seq(T) /\ e \in Seq(T)
        BY <2>1, <2>4
      <4> QED BY <4>1
    <3>2. 1 \in 1 .. Len(e) /\ Len(a) + 1 = to
      BY <2>1, <2>4
    <3> HIDE DEF c
    <3> QED BY <2>1, <2>4, <3>1, <3>2
  <2> HIDE DEF c
  <2>8. /\ c \o b \in Seq(T) /\ Len(c \o b) = Len(c) + Len(b)
        /\ \A k \in 1 .. Len(c) : (c \o b)[k] = c[k]
        /\ \A k \in 1 .. Len(b) : (c \o b)[Len(c) + k] = b[k]
    <3>1. c \in Seq(T) /\ b \in Seq(T)
      BY <2>2, <2>5
    <3> QED BY <3>1
  <2>6. c \o b \in Seq(T) /\ Len(c \o b) = L
    BY <1>0, <2>2, <2>5, <2>8
  <2>7. \A k \in 1 .. L : (c \o b)[k] = IF k < to THEN r[k] ELSE IF k = to THEN x ELSE r[k - 1]
    <3> TAKE k \in 1 .. L
    <3>1. CASE k <= to
      <4>1. (c \o b)[k] = c[k]
        BY <1>0, <2>5, <2>8, <3>1
      <4> QED BY <1>0, <2>5, <3>1, <4>1
    <3>2. CASE k > to
      <4>1. (c \o b)[k] = b[k - to] /\ k - to \in 1 .. L - to
        <5>1. k - to \in 1 .. L - to /\ to + (k - to) = k
          BY <1>0, <3>2
        <5> QED BY <2>2, <2>5, <2>8, <5>1
      <4>2. b[k - to] = r[to + (k - to) - 1] /\ to + (k - to) - 1 = k - 1
        BY <1>0, <2>2, <4>1
      <4> QED BY <1>0, <3>2, <4>1, <4>2
    <3>3. k <= to \/ k > to
      BY <1>0
    <3> QED BY <3>1, <3>2, <3>3
  <2> QED BY <2>3, <2>6, <2>7 DEF c
<1> HIDE DEF t
<1>3. ASSUME NEW k \in 1 .. L PROVE Was(k, n, to) \in 1 .. L /\ t[k] = s[Was(k, n, to)]
  <2>0. k \in 1 .. L /\ to \in 1 .. n + 1
    OBVIOUS
  <2> HIDE DEF L
  <2>1. CASE k < to
    <3>1. Was(k, n, to) = k
      BY <1>0, <2>0, <2>1 DEF Was
    <3>2. t[k] = r[k]
      BY <1>2, <2>0, <2>1
    <3>3. k \in 1 .. L - 1 /\ k <= n
      BY <1>0, <2>0, <2>1
    <3>4. r[k] = s[k]
      BY <1>1, <3>3
    <3> QED BY <2>0, <3>1, <3>2, <3>4
  <2>2. CASE k = to
    BY <1>0, <1>2, <2>0, <2>2 DEF Was
  <2>3. CASE k > to /\ k <= n + 1
    <3>1. k - 1 \in 1 .. L - 1 /\ k - 1 <= n
      BY <1>0, <2>0, <2>3
    <3>2. t[k] = r[k - 1]
      BY <1>0, <1>2, <2>0, <2>3
    <3>3. r[k - 1] = s[k - 1]
      BY <1>1, <3>1
    <3>4. Was(k, n, to) = k - 1
      BY <2>0, <2>3 DEF Was
    <3> QED BY <1>0, <3>1, <3>2, <3>3, <3>4
  <2>4. CASE k > n + 1
    <3>1. k - 1 \in 1 .. L - 1 /\ k - 1 > n /\ (k - 1) + 1 = k
      BY <1>0, <2>0, <2>4
    <3>2. t[k] = r[k - 1]
      BY <1>0, <1>2, <2>0, <2>4
    <3>3. r[k - 1] = s[k]
      <4>1. r[k - 1] = IF k - 1 <= n THEN s[k - 1] ELSE s[(k - 1) + 1]
        BY <1>1, <3>1
      <4>2. ~(k - 1 <= n)
        BY <2>0, <3>1
      <4> QED BY <3>1, <4>1, <4>2
    <3>4. Was(k, n, to) = k
      BY <2>0, <2>4 DEF Was
    <3> QED BY <2>0, <3>2, <3>3, <3>4
  <2> QED BY <1>0, <2>0, <2>1, <2>2, <2>3, <2>4
<1> QED BY <1>2, <1>3 DEF t, r

(* No name is listed twice, and what SortFunc has dealt with is in order.     *)
SortInv ==
  /\ entries \in Seq(Names)
  /\ ordered \in Nat \ {0} /\ (ordered = 1 \/ ordered <= Len(entries))
  /\ \A i, j \in DOMAIN entries : entries[i] = entries[j] => i = j
  /\ Sortable(entries) =>
       \A i, j \in DOMAIN entries : i < j /\ j <= ordered => Compare(entries[i], entries[j])

(* ReadDir lists each name once. *)
LEMMA InitSortInv == SortInit => SortInv
<1> SUFFICES ASSUME SortInit PROVE SortInv
  OBVIOUS
<1>1. entries \in [1 .. Listing -> Names] /\ Ascending(entries) /\ ordered = 1 /\ Listing \in Nat
  BY NameAssumption DEF SortInit
<1>2. entries \in Seq(Names) /\ Len(entries) = Listing /\ DOMAIN entries = 1 .. Listing
  BY <1>1
<1>3. \A i \in 1 .. Listing : entries[i] \in Seq(Int)
  BY <1>1, NameAssumption
<1> DEFINE S == {d \in Nat : \A i \in 1 .. Listing :
                   i + d + 1 <= Listing => BytesLess(entries[i], entries[i + d + 1])}
<1>4. 0 \in S
  BY <1>1, <1>2 DEF Ascending
<1>5. \A d \in Nat : d \in S => d + 1 \in S
  <2> SUFFICES ASSUME NEW d \in Nat, d \in S PROVE d + 1 \in S
    OBVIOUS
  <2> SUFFICES ASSUME NEW i \in 1 .. Listing, i + (d + 1) + 1 <= Listing
               PROVE  BytesLess(entries[i], entries[i + (d + 1) + 1])
    OBVIOUS
  <2> DEFINE j == i + d + 1
  <2>1. j \in 1 .. Listing /\ j \in 1 .. Len(entries) - 1 /\ i + (d + 1) + 1 = j + 1 /\ j + 1 \in 1 .. Listing
    BY <1>1, <1>2
  <2>2. BytesLess(entries[i], entries[j])
    BY <2>1
  <2>3. BytesLess(entries[j], entries[j + 1])
    <3> HIDE DEF j
    <3> QED BY <1>1, <2>1 DEF Ascending
  <2> HIDE DEF j, S
  <2>4. BytesLess(entries[i], entries[j + 1])
    BY <1>3, <2>1, <2>2, <2>3, BytesLessIsLex, LexOrder
  <2> QED BY <2>1, <2>4
<1> HIDE DEF S
<1>6. Nat \subseteq S
  BY <1>4, <1>5, NatSetInduction
<1>7. \A i, j \in 1 .. Listing : i < j => entries[i] # entries[j]
  <2> SUFFICES ASSUME NEW i \in 1 .. Listing, NEW j \in 1 .. Listing, i < j PROVE entries[i] # entries[j]
    OBVIOUS
  <2>1. j - i - 1 \in S /\ i + (j - i - 1) + 1 = j
    BY <1>1, <1>6
  <2>2. BytesLess(entries[i], entries[j])
    BY <1>1, <2>1 DEF S
  <2> QED BY <1>3, <2>2, BytesLessIsLex, LexOrder
<1>8. \A i, j \in DOMAIN entries : entries[i] = entries[j] => i = j
  <2> SUFFICES ASSUME NEW i \in 1 .. Listing, NEW j \in 1 .. Listing, i # j PROVE entries[i] # entries[j]
    BY <1>2
  <2> QED BY <1>1, <1>7
<1>9. \A i, j \in DOMAIN entries : ~(i < j /\ j <= ordered)
  BY <1>1, <1>2
<1> QED BY <1>1, <1>2, <1>8, <1>9 DEF SortInv

(* The entry that is inserted stops behind the last that is not after it.     *)
LEMMA StepSortInv == SortInv /\ [SortNext]_sortVars => SortInv'
<1> SUFFICES ASSUME SortInv, [SortNext]_sortVars PROVE SortInv'
  OBVIOUS
<1>1. CASE InsertEntry
  <2> DEFINE n == ordered
             x == entries[n + 1]
             stop == {i \in 1 .. n : ~Compare(x, entries[i])}
             m == Max(stop \cup {0})
             to == 1 + m
             L == Len(entries)
             was(k) == Was(k, n, to)
  <2>1. /\ n \in Nat /\ n >= 1 /\ n + 1 <= L /\ L \in Nat /\ DOMAIN entries = 1 .. L
        /\ ordered' = n + 1 /\ n + 1 \in 1 .. L
    BY <1>1 DEF SortInv, InsertEntry
  <2>2. entries' = InsertAt(RemoveAt(entries, n + 1), to, x)
    BY <1>1 DEF InsertEntry
  <2>3. m \in stop \cup {0} /\ m \in 0 .. n /\ \A i \in stop : i <= m
    <3>1. stop \cup {0} \in SUBSET (0 .. n) /\ stop \cup {0} # {}
      BY <2>1
    <3> HIDE DEF stop, n
    <3> QED BY <2>1, <3>1, MaxOf
  <2>4. to \in 1 .. n + 1
    <3> HIDE DEF m, n
    <3> QED BY <2>1, <2>3
  <2>5. /\ entries' \in Seq(Names) /\ Len(entries') = L /\ DOMAIN entries' = 1 .. L
        /\ \A k \in 1 .. L : was(k) \in 1 .. L /\ entries'[k] = entries[was(k)]
    <3> HIDE DEF to, n
    <3>0. entries \in Seq(Names)
      BY DEF SortInv
    <3>1. LET t == InsertAt(RemoveAt(entries, n + 1), to, entries[n + 1])
          IN  /\ t \in Seq(Names) /\ Len(t) = Len(entries)
              /\ \A k \in 1 .. Len(entries) :
                   Was(k, n, to) \in 1 .. Len(entries) /\ t[k] = entries[Was(k, n, to)]
      <4>1. n \in Nat /\ n + 1 <= Len(entries) /\ to \in 1 .. n + 1
        BY <2>1, <2>4
      <4> HIDE DEF L, was, x
      <4> QED BY <3>0, <4>1, Moved, SMTT(30)
    <3>2. /\ entries' \in Seq(Names) /\ Len(entries') = L
          /\ \A k \in 1 .. L : was(k) \in 1 .. L /\ entries'[k] = entries[was(k)]
      BY <2>2, <3>1
    <3> QED BY <3>2
  <2>6. \A i, j \in 1 .. L : was(i) = was(j) => i = j
    <3> HIDE DEF to, n
    <3> QED BY <2>1, <2>4 DEF Was
  <2>7. \A i, j \in DOMAIN entries' : entries'[i] = entries'[j] => i = j
    <3> HIDE DEF was
    <3> QED BY <2>1, <2>5, <2>6 DEF SortInv
  <2>8. ASSUME Sortable(entries)', NEW i \in 1 .. L, NEW j \in 1 .. L, i < j, j <= ordered'
        PROVE  Compare(entries'[i], entries'[j])
    <3>0. \A k \in 1 .. L : \E l \in 1 .. L : was(l) = k
      <4> TAKE k \in 1 .. L
      <4> DEFINE l == IF k < to THEN k ELSE IF k <= n THEN k + 1 ELSE IF k = n + 1 THEN to ELSE k
      <4>1. l \in 1 .. L /\ was(l) = k
        <5> HIDE DEF to, n, L
        <5> QED BY <2>1, <2>4 DEF Was
      <4> QED BY <4>1
    <3>1. /\ \A k \in 1 .. L : Counted(entries[k])
          /\ \A k, l \in 1 .. L : k # l => ~Alike(entries[k], entries[l])
      <4>1. /\ \A k \in 1 .. L : Counted(entries'[k])
            /\ \A k, l \in 1 .. L : k # l => ~Alike(entries'[k], entries'[l])
        BY <2>5, <2>8 DEF Sortable
      <4> HIDE DEF was, L
      <4>2. \A k \in 1 .. L : entries'[k] = entries[was(k)]
        BY <2>5
      <4>3. \A k \in 1 .. L : Counted(entries[k])
        BY <3>0, <4>1, <4>2
      <4>4. ASSUME NEW k \in 1 .. L, NEW l \in 1 .. L, k # l PROVE ~Alike(entries[k], entries[l])
        <5>1. PICK g \in 1 .. L : was(g) = k
          BY <3>0
        <5>2. PICK h \in 1 .. L : was(h) = l
          BY <3>0
        <5>3. g # h /\ entries'[g] = entries[k] /\ entries'[h] = entries[l]
          BY <4>2, <4>4, <5>1, <5>2
        <5> QED BY <4>1, <5>3
      <4> QED BY <4>3, <4>4
    <3>2. Sortable(entries) /\ \A k \in 1 .. L : entries[k] \in CountedNames
      <4>1. \A k \in 1 .. L : entries[k] \in Seq(Int) \ {<<>>}
        BY <2>1, NameAssumption DEF SortInv
      <4> QED BY <2>1, <3>1, <4>1 DEF Sortable, CountedNames
    <3>3. \A k, l \in 1 .. L : k < l /\ l <= n => Compare(entries[k], entries[l])
      BY <2>1, <3>2 DEF SortInv
    <3>4. \A k, l \in 1 .. L : k # l => ~Alike(entries[k], entries[l])
      BY <3>1
    <3>5. was(i) \in 1 .. L /\ was(j) \in 1 .. L /\ was(i) # was(j)
          /\ entries'[i] = entries[was(i)] /\ entries'[j] = entries[was(j)]
      <4> HIDE DEF was
      <4> QED BY <2>1, <2>5, <2>6, <2>8
    <3>6. CASE i # to /\ j # to
      <4>1. was(i) < was(j) /\ was(j) <= n
        <5> HIDE DEF to, n, L
        <5> QED BY <2>1, <2>4, <2>8, <3>6 DEF Was
      <4> HIDE DEF was
      <4> QED BY <3>3, <3>5, <4>1
    <3>7. CASE j = to
      <4>1. was(j) = n + 1 /\ was(i) = i /\ i <= m /\ m >= 1 /\ m \in 1 .. n
        <5> HIDE DEF m, n, L
        <5> QED BY <2>1, <2>3, <2>4, <2>8, <3>7 DEF Was
      <4>2. m \in 1 .. L /\ ~Compare(x, entries[m])
        <5> HIDE DEF m, x, n
        <5> QED BY <2>1, <2>3, <4>1
      <4>3. Compare(entries[m], x) /\ ~Alike(entries[m], x)
        <5> HIDE DEF m, n, L
        <5>1. m # n + 1 /\ ~Alike(x, entries[m])
          <6>1. m # n + 1
            BY <2>1, <4>1
          <6> QED BY <2>1, <3>4, <4>2, <6>1
        <5> QED BY <2>1, <3>2, <3>4, <4>2, <5>1, CompareIsAnOrder
      <4>4. CASE i = m
        <5> HIDE DEF was, m, n
        <5> QED BY <3>5, <4>1, <4>3, <4>4
      <4>5. CASE i < m
        <5>1. Compare(entries[i], entries[m]) /\ ~Alike(entries[i], entries[m])
          <6> HIDE DEF m, n, L
          <6>1. i # m /\ i # n + 1
            BY <2>1, <4>1, <4>5
          <6> QED BY <2>1, <3>3, <3>4, <4>1, <4>2, <4>5, <6>1
        <5>2. Compare(entries[i], x)
          <6> HIDE DEF m, n, L
          <6> QED BY <2>1, <3>2, <4>2, <4>3, <5>1, CompareIsAnOrder
        <5> HIDE DEF was, m, n
        <5> QED BY <3>5, <4>1, <5>2
      <4>6. m \in Int
        BY <2>3
      <4> HIDE DEF m
      <4> QED BY <4>1, <4>4, <4>5, <4>6
    <3>8. CASE i = to
      <4>1. was(i) = n + 1 /\ was(j) = j - 1 /\ j - 1 \in 1 .. n /\ j - 1 > m
        <5> HIDE DEF m, n, L
        <5> QED BY <2>1, <2>3, <2>4, <2>8, <3>8 DEF Was
      <4>2. j - 1 \notin stop
        <5> HIDE DEF m, stop, n
        <5> QED BY <2>3, <4>1
      <4>3. Compare(x, entries[j - 1])
        BY <4>1, <4>2
      <4> HIDE DEF was, m, n
      <4> QED BY <3>5, <4>1, <4>3 DEF x
    <3> QED BY <3>6, <3>7, <3>8
  <2>9. ordered' \in Nat \ {0} /\ ordered' <= Len(entries')
    <3> HIDE DEF n, to, x
    <3> QED BY <2>1, <2>5
  <2> HIDE DEF was, L
  <2> QED BY <2>5, <2>7, <2>8, <2>9 DEF SortInv
<1>2. CASE UNCHANGED sortVars
  BY <1>2 DEF sortVars, SortInv
<1> QED BY <1>1, <1>2 DEF SortNext

(* A name with the smaller number comes first. *)
LEMMA SmallerNumberFirst ==
  ASSUME NEW a \in CountedNames, NEW b \in CountedNames, SmallerNumber(a, b)
  PROVE  ~Alike(a, b) /\ Compare(a, b)
<1> DEFINE p == chunkify(a)
           q == chunkify(b)
           u == Canonical(a)
           v == Canonical(b)
<1>1. /\ p \in Seq(CountedChunks) /\ u \in Seq(Canons) /\ Len(u) = Len(p)
      /\ \A i \in 1 .. Len(p) : u[i] = Canon(p[i])
      /\ q \in Seq(CountedChunks) /\ v \in Seq(Canons) /\ Len(v) = Len(q)
      /\ \A i \in 1 .. Len(q) : v[i] = Canon(q[i])
  BY CountedName
<1>2. Len(p) = Len(q) /\ \E i \in DOMAIN p :
        /\ Digit(p[i][1]) /\ Digit(q[i][1]) /\ NumberOf(p[i]) < NumberOf(q[i])
        /\ \A j \in DOMAIN p \ {i} : SameChunk(p[j], q[j])
  BY DEF SmallerNumber
<1>3. /\ Alike(a, b) <=> u = v
      /\ ~Alike(a, b) => (Compare(a, b) <=> Lex(ChunkOrder, u, v))
  BY CompareIsLex
<1> HIDE DEF p, q, u, v
<1>4. PICK i \in DOMAIN p : /\ Digit(p[i][1]) /\ Digit(q[i][1]) /\ NumberOf(p[i]) < NumberOf(q[i])
                            /\ \A j \in DOMAIN p \ {i} : SameChunk(p[j], q[j])
  BY <1>2
<1>5. /\ DOMAIN p = 1 .. Len(p) /\ Len(p) \in Nat /\ i \in 1 .. Len(p)
      /\ \A j \in 1 .. Len(p) : /\ p[j] \in CountedChunks /\ q[j] \in CountedChunks
                                /\ u[j] = Canon(p[j]) /\ v[j] = Canon(q[j])
  BY <1>1, <1>2
<1>6. ChunkLess(p[i], q[i]) /\ <<u[i], v[i]>> \in ChunkOrder
  <2>1. ChunkLess(p[i], q[i])
    BY <1>4, <1>5, ChunkLessCases
  <2> QED BY <1>5, <2>1, CanonOf, CanonSame DEF ChunkOrder
<1>7. Decided(ChunkOrder, u, v, i)
  <2>1. \A j \in 1 .. i - 1 : u[j] = v[j]
    <3> TAKE j \in 1 .. i - 1
    <3>1. j \in DOMAIN p \ {i} /\ j \in 1 .. Len(p)
      BY <1>5
    <3> QED BY <1>4, <1>5, <3>1, CanonSame
  <2> QED BY <1>1, <1>2, <1>5, <1>6, <2>1 DEF Decided
<1>8. Lex(ChunkOrder, u, v)
  <2>1. i \in 1 .. Len(v)
    BY <1>1, <1>2, <1>5
  <2> QED BY <1>1, <1>7, <2>1, ChunksOrdered, LexDecided
<1>9. u # v
  BY <1>1, <1>8, ChunksOrdered, LexOrder
<1> QED BY <1>3, <1>8, <1>9

(* What the invariant says is what a sorted directory is for. *)
LEMMA SortedInv == SortInv => FilesInNaturalOrder
<1> SUFFICES ASSUME SortInv PROVE FilesInNaturalOrder
  OBVIOUS
<1> SUFFICES ASSUME Sortable(entries)
             PROVE  /\ Cardinality(ToSet(entries)) = Len(entries)
                    /\ \A i, j \in 1 .. ordered : i < j =>
                         /\ ~Compare(entries[j], entries[i])
                         /\ ~SmallerNumber(entries[j], entries[i])
  BY DEF FilesInNaturalOrder
<1> DEFINE L == Len(entries)
<1>1. L \in Nat /\ DOMAIN entries = 1 .. L /\ \A i \in 1 .. L : entries[i] \in CountedNames
  BY NameAssumption DEF SortInv, Sortable, CountedNames
<1>2. Cardinality(ToSet(entries)) = L
  <2>1. entries \in [1 .. L -> ToSet(entries)]
    <3>1. entries \in [1 .. L -> Names]
      BY <1>1 DEF SortInv
    <3>2. \A i \in 1 .. L : entries[i] \in ToSet(entries)
      BY <1>1 DEF ToSet
    <3> QED BY <3>1, <3>2
  <2>2. entries \in Injection(1 .. L, ToSet(entries)) /\ entries \in Surjection(1 .. L, ToSet(entries))
    BY <1>1, <2>1 DEF SortInv, ToSet, Injection, IsInjective, Surjection
  <2>3. IsFiniteSet(1 .. L) /\ Cardinality(1 .. L) = L
    BY <1>1, FS_Interval
  <2> HIDE DEF L
  <2> QED BY <2>2, <2>3, FS_Surjection
<1>3. ASSUME NEW i \in 1 .. ordered, NEW j \in 1 .. ordered, i < j
      PROVE  ~Compare(entries[j], entries[i]) /\ ~SmallerNumber(entries[j], entries[i])
  <2>1. i \in 1 .. L /\ j \in 1 .. L /\ j <= ordered /\ i # j
    BY <1>1, <1>3 DEF SortInv
  <2>2. Compare(entries[i], entries[j]) /\ ~Alike(entries[i], entries[j])
    BY <1>1, <1>3, <2>1 DEF SortInv, Sortable
  <2>3. ~Compare(entries[j], entries[i])
    BY <1>1, <2>1, <2>2, CompareIsAnOrder
  <2> QED BY <1>1, <2>1, <2>3, SmallerNumberFirst
<1> QED BY <1>2, <1>3

(* In a directory of sortable names, of any size, with any names, no two      *)
(* entries are the wrong way round, and none is lost or listed twice.         *)
THEOREM Sorted == SortSpec => []FilesInNaturalOrder
  BY InitSortInv, StepSortInv, SortedInv, PTL DEF SortSpec

-----------------------------------------------------------------------------
(* Redirects: the limit of a client, for any limit and any server. *)

(* Requests are only added while there are fewer than the limit, and the      *)
(* first one is made whatever the limit.                                      *)
MadeInv ==
  /\ made <= chain + 1
  /\ ~cached => made = 1 \/ made <= limit
  /\ outcome = "error" => Refused /\ made <= chain
  /\ outcome = "answer" => made > chain

RedirectInv == TypeOK /\ MadeInv

(* An exchange begins with its first request. *)
LEMMA InitRedirectInv == Init => RedirectInv
  BY RedirectAssumption DEF Init, RedirectInv, TypeOK, MadeInv

(* One step per action. *)
LEMMA StepRedirectInv == RedirectInv /\ [Next]_vars => RedirectInv'
<1> SUFFICES ASSUME RedirectInv, [Next]_vars PROVE RedirectInv'
  OBVIOUS
<1> USE RedirectAssumption DEF RedirectInv, TypeOK, MadeInv, Redirected, Refused, DefaultLimit
<1>1. CASE GiveUp
  BY <1>1 DEF GiveUp
<1>2. CASE Follow
  BY <1>2 DEF Follow
<1>3. CASE Answer
  BY <1>3 DEF Answer
<1>4. CASE UNCHANGED vars
  BY <1>4 DEF vars
<1> QED
  BY <1>1, <1>2, <1>3, <1>4 DEF Next

(* Every variable keeps its type, and requests are counted as they are made.  *)
THEOREM RedirectInvariance == Spec => []RedirectInv
  BY InitRedirectInv, StepRedirectInv, PTL DEF Spec

(* A scenario's own client makes as many requests as its limit says, at least *)
(* one, and has an answer if and only if these are enough.                    *)
THEOREM LimitKept == Spec => []OwnClientKeepsLimit
<1>1. RedirectInv => OwnClientKeepsLimit
  BY RedirectAssumption
  DEF RedirectInv, TypeOK, MadeInv, OwnClientKeepsLimit, Followed, Refused
<1> QED
  BY <1>1, RedirectInvariance, PTL

-----------------------------------------------------------------------------
(* The end of a script: the lexer and Lua, for scripts of any length.         *)
(*                                                                            *)
(* What follows may change what a token is: a dash becomes a comment, a       *)
(* bracket a long one.  So what the lexer knows of the text s it has read is  *)
(* said of all texts that begin with s (Settled), and says for every place of *)
(* the lexer where the token it is in began (PlaceInv).                       *)

(* What is read consists of the characters of the inputs. *)
Alphabet == (UNION {i.chars : i \in Inputs}) \cup {OpenBrace}
Words == Seq(Alphabet)

Extends(w, s) == Len(w) >= Len(s) /\ \A i \in 1 .. Len(s) : w[i] = s[i]

(* Where the first of some places is. *)
LEMMA FirstOf ==
  ASSUME NEW s \in Words, NEW S \in SUBSET (1 .. Len(s))
  PROVE  /\ S = {} => First(s, S) = Len(s) + 1
         /\ S # {} => First(s, S) \in S /\ \A j \in S : First(s, S) <= j
<1>1. S \in SUBSET Nat
  OBVIOUS
<1> QED BY <1>1, MinOf DEF First

(* The level of a long bracket is the one it has, and it has one level. *)
LEMMA LevelOf ==
  ASSUME NEW s \in Words, NEW i \in Nat, NEW n \in Nat, BracketAt(s, i, "[", n)
  PROVE  OpensLong(s, i) /\ LevelAt(s, i) = n
<1>1. n \in 0 .. Len(s)
  BY DEF BracketAt, CharAt
<1>2. ASSUME NEW m \in 0 .. Len(s), BracketAt(s, i, "[", m), m # n PROVE FALSE
  <2>1. CASE m < n
    <3>1. i + m + 1 \in i + 1 .. i + n
      BY <2>1
    <3> QED BY <1>2, <3>1 DEF BracketAt, CharAt
  <2>2. CASE n < m
    <3>1. i + n + 1 \in i + 1 .. i + m
      BY <2>2
    <3> QED BY <1>2, <3>1 DEF BracketAt, CharAt
  <2> QED BY <1>2, <2>1, <2>2
<1> QED BY <1>1, <1>2 DEF OpensLong, LevelAt

(* The level of a long bracket is a number. *)
LEMMA LevelType ==
  ASSUME NEW s \in Words, NEW i \in Nat, OpensLong(s, i)
  PROVE  LevelAt(s, i) \in 0 .. Len(s) /\ BracketAt(s, i, "[", LevelAt(s, i))
  BY DEF OpensLong, LevelAt

(* Every token is at least a character long. *)
LEMMA TokenHasLength ==
  ASSUME NEW s \in Words, NEW i \in 1 .. Len(s)
  PROVE  AfterToken(s, i) \in Nat /\ AfterToken(s, i) > i
<1>0. Len(s) \in Nat /\ i \in Nat
  OBVIOUS
<1>1. ASSUME NEW b \in Nat, b >= i, OpensLong(s, b)
      PROVE  AfterLong(s, b) \in Nat /\ AfterLong(s, b) > i
  <2>1. LevelAt(s, b) \in 0 .. Len(s)
    BY <1>1, LevelType
  <2>2. CASE Closers(s, b) = {}
    BY <1>0, <2>2 DEF AfterLong
  <2>3. CASE Closers(s, b) # {}
    <3>1. Closers(s, b) \in SUBSET Nat /\ \A j \in Closers(s, b) : j >= b + LevelAt(s, b) + 2
      BY <1>0, <2>1 DEF Closers
    <3>2. Min(Closers(s, b)) \in Closers(s, b)
      BY <2>3, <3>1, MinOf
    <3>3. AfterLong(s, b) = Min(Closers(s, b)) + LevelAt(s, b) + 2
      BY <2>3 DEF AfterLong
    <3>4. Min(Closers(s, b)) \in Nat /\ Min(Closers(s, b)) >= b + LevelAt(s, b) + 2
      BY <3>1, <3>2
    <3> QED BY <1>0, <1>1, <2>1, <3>3, <3>4
  <2> QED BY <2>2, <2>3
<1>2. ASSUME NEW b \in Nat, b >= i PROVE AfterLine(s, b) \in Nat /\ AfterLine(s, b) > i
  <2> DEFINE S == {j \in b .. Len(s) : CharAt(s, j, "\n")}
  <2>1. S \in SUBSET (1 .. Len(s)) /\ \A j \in S : j >= i /\ j \in Nat
    BY <1>0, <1>2
  <2>2. AfterLine(s, b) = 1 + First(s, S)
    BY DEF AfterLine
  <2> HIDE DEF S
  <2>3. First(s, S) = Len(s) + 1 \/ First(s, S) \in S
    BY <2>1, FirstOf
  <2>4. First(s, S) \in Nat /\ First(s, S) >= i
    <3>1. CASE First(s, S) = Len(s) + 1
      BY <1>0, <3>1
    <3>2. CASE First(s, S) \in S
      BY <2>1, <3>2
    <3> QED BY <2>3, <3>1, <3>2
  <2> QED BY <1>0, <2>2, <2>4
<1>3. AfterString(s, i) \in Nat /\ AfterString(s, i) > i
  <2> DEFINE S == {j \in i + 1 .. Len(s) : s[j] \in {s[i], "\n"} /\ ~Escaped(s, j, i)}
  <2>1. S \in SUBSET (1 .. Len(s)) /\ \A j \in S : j >= i /\ j \in Nat
    BY <1>0
  <2>2. AfterString(s, i) = 1 + First(s, S)
    BY DEF AfterString
  <2> HIDE DEF S
  <2>3. First(s, S) = Len(s) + 1 \/ First(s, S) \in S
    BY <2>1, FirstOf
  <2>4. First(s, S) \in Nat /\ First(s, S) >= i
    <3>1. CASE First(s, S) = Len(s) + 1
      BY <1>0, <3>1
    <3>2. CASE First(s, S) \in S
      BY <2>1, <3>2
    <3> QED BY <2>3, <3>1, <3>2
  <2> QED BY <1>0, <2>2, <2>4
<1>4. i + 2 \in Nat /\ i + 2 >= i /\ i >= i /\ i + 1 \in Nat /\ i + 1 > i
  BY <1>0
<1> QED BY <1>0, <1>1, <1>2, <1>3, <1>4 DEF AfterToken

(* The boundaries are 1 and what follows a token at a boundary, no more. *)
AreBoundaries(B, s) ==
  /\ B \in SUBSET (Nat \ {0}) /\ 1 \in B
  /\ \A i \in B : i <= Len(s) => AfterToken(s, i) \in B
  /\ \A b \in B : b = 1 \/ \E i \in B : i <= Len(s) /\ b = AfterToken(s, i)

(* That is what Boundaries computes, from left to right. *)
LEMMA BoundariesDef ==
  ASSUME NEW s \in Words
  PROVE  AreBoundaries(Boundaries(s), s)
<1> DEFINE N == Len(s)
           V == SUBSET (Nat \ {0})
           A(i) == AfterToken(s, i)
           g == [n \in 1 .. N |-> [v \in V |-> IF n \in v THEN v \cup {A(n)} ELSE v]]
           Is(f) == f = [i \in 0 .. N |->
                           IF i = 0 THEN {1}
                           ELSE IF i \in f[i - 1] THEN f[i - 1] \cup {A(i)} ELSE f[i - 1]]
<1>0. \A i \in 1 .. N : A(i) \in Nat \ {0} /\ A(i) > i
  BY TokenHasLength
<1>1. N \in Nat /\ {1} \in V
  OBVIOUS
<1> HIDE DEF A, N
<1>2. g \in [1 .. N -> [V -> V]]
  BY <1>0
<1>3. PICK f : Follows(f, V, {1}, N, g)
  <2> HIDE DEF g, V
  <2> QED BY <1>1, <1>2, RecursionExists
<1>4. \A n \in 1 .. N : f[n] = IF n \in f[n - 1] THEN f[n - 1] \cup {A(n)} ELSE f[n - 1]
  <2> TAKE n \in 1 .. N
  <2>1. n \in 1 .. N /\ n - 1 \in 0 .. N
    BY <1>1
  <2>2. f[n - 1] \in V /\ f[n] = g[n][f[n - 1]]
    <3> HIDE DEF g, V
    <3> QED BY <1>3, <2>1 DEF Follows
  <2> QED BY <2>2
<1>5. Is(f)
  <2> HIDE DEF V
  <2>1. f = [n \in 0 .. N |-> f[n]]
    BY <1>3 DEF Follows
  <2>2. f[0] = {1}
    BY <1>3 DEF Follows
  <2>3. \A n \in 0 .. N : n = 0 \/ n \in 1 .. N
    BY <1>1
  <2>4. \A n \in 0 .. N : f[n] = IF n = 0 THEN {1} ELSE
                             IF n \in f[n - 1] THEN f[n - 1] \cup {A(n)} ELSE f[n - 1]
    BY <1>4, <2>2, <2>3
  <2> QED BY <2>1, <2>4
<1>6. PICK h : Is(h) /\ Boundaries(s) = h[N]
  BY <1>5 DEF Boundaries, A, N
<1>7. /\ h[0] = {1}
      /\ \A n \in 1 .. N : h[n] = IF n \in h[n - 1] THEN h[n - 1] \cup {A(n)} ELSE h[n - 1]
  <2> HIDE DEF V, g
  <2>1. 0 \in 0 .. N /\ \A n \in 1 .. N : n \in 0 .. N /\ n # 0
    BY <1>1
  <2>2. \A n \in 0 .. N : h[n] = IF n = 0 THEN {1} ELSE
                             IF n \in h[n - 1] THEN h[n - 1] \cup {A(n)} ELSE h[n - 1]
    BY <1>6
  <2>3. h[0] = {1}
    BY <2>1, <2>2
  <2> QED BY <2>1, <2>2, <2>3
<1> DEFINE Good(n) == /\ h[n] \in V /\ 1 \in h[n]
                      /\ \A i \in h[n] : i <= n => A(i) \in h[n]
                      /\ \A b \in h[n] : b = 1 \/ \E i \in h[n] : i <= n /\ b = A(i)
           S == {n \in Nat : n <= N => Good(n)}
<1>8. 0 \in S
  BY <1>7
<1>9. \A n \in Nat : n \in S => n + 1 \in S
  <2> SUFFICES ASSUME NEW n \in Nat, n + 1 <= N, Good(n) PROVE Good(n + 1)
    <3> HIDE DEF Good
    <3> QED BY <1>1
  <2>1. n + 1 \in 1 .. N /\ (n + 1) - 1 = n
    BY <1>1
  <2>2. h[n + 1] = IF n + 1 \in h[n] THEN h[n] \cup {A(n + 1)} ELSE h[n]
    BY <1>7, <2>1
  <2>3. A(n + 1) \in Nat \ {0} /\ A(n + 1) > n + 1
    BY <1>0, <2>1
  <2>4. h[n + 1] \in V /\ 1 \in h[n + 1] /\ h[n] \subseteq h[n + 1]
    BY <2>2, <2>3
  <2>5. \A i \in h[n + 1] : i <= n + 1 => A(i) \in h[n + 1]
    <3> SUFFICES ASSUME NEW i \in h[n + 1], i <= n + 1 PROVE A(i) \in h[n + 1]
      OBVIOUS
    <3>1. i \in h[n] /\ i \in Nat
      BY <2>2, <2>3, <2>4
    <3>2. CASE i <= n
      BY <2>4, <3>1, <3>2
    <3>3. CASE i = n + 1
      BY <2>2, <3>1, <3>3
    <3> QED BY <3>1, <3>2, <3>3
  <2>6. \A b \in h[n + 1] : b = 1 \/ \E i \in h[n + 1] : i <= n + 1 /\ b = A(i)
    <3> SUFFICES ASSUME NEW b \in h[n + 1], b # 1 PROVE \E i \in h[n + 1] : i <= n + 1 /\ b = A(i)
      OBVIOUS
    <3>1. CASE b \in h[n]
      <4>1. PICK i \in h[n] : i <= n /\ b = A(i)
        BY <3>1
      <4>2. i <= n + 1 /\ i \in h[n + 1]
        BY <2>4, <4>1
      <4> QED BY <4>1, <4>2
    <3>2. CASE b \notin h[n]
      <4>1. n + 1 \in h[n] /\ b = A(n + 1)
        BY <2>2, <3>2
      <4> QED BY <2>4, <4>1
    <3> QED BY <3>1, <3>2
  <2> QED BY <2>4, <2>5, <2>6
<1> HIDE DEF S
<1>10. Good(N)
  <2> HIDE DEF Good
  <2>1. Nat \subseteq S
    BY <1>8, <1>9, NatSetInduction
  <2> QED BY <1>1, <2>1 DEF S
<1> QED BY <1>6, <1>10 DEF AreBoundaries, A, N

(* No boundary is inside a token. *)
LEMMA Gap ==
  ASSUME NEW s \in Words, NEW t \in Boundaries(s), t <= Len(s),
         NEW b \in Boundaries(s), t < b
  PROVE  b >= AfterToken(s, t)
<1> DEFINE B == Boundaries(s)
           Inside(c) == \E i \in B : i <= Len(s) /\ i < c /\ c < AfterToken(s, i)
           S == {c \in B : Inside(c)}
<1>0. AreBoundaries(B, s) /\ B \in SUBSET (Nat \ {0})
  BY BoundariesDef DEF AreBoundaries
<1>1. \A i \in B : i <= Len(s) => AfterToken(s, i) \in Nat /\ AfterToken(s, i) > i
  <2> TAKE i \in B
  <2> HAVE i <= Len(s)
  <2>1. i \in 1 .. Len(s)
    BY <1>0
  <2> QED BY <2>1, TokenHasLength
<1>2. S = {}
  <2> SUFFICES ASSUME S # {} PROVE FALSE
    OBVIOUS
  <2> DEFINE c == Min(S)
  <2>1. c \in S /\ \A y \in S : c <= y
    <3>1. S \in SUBSET Nat
      BY <1>0
    <3> HIDE DEF S
    <3> QED BY <3>1, MinOf
  <2> HIDE DEF c
  <2>2. PICK i \in B : i <= Len(s) /\ i < c /\ c < AfterToken(s, i)
    BY <2>1
  <2>3. c \in B /\ c # 1
    BY <1>0, <2>1, <2>2
  <2>4. PICK j \in B : j <= Len(s) /\ c = AfterToken(s, j)
    BY <1>0, <2>3 DEF AreBoundaries
  <2>5. c \in Nat /\ i \in Nat /\ j \in Nat /\ j < c
    BY <1>0, <1>1, <2>3, <2>4
  <2>6. CASE j < i
    <3>1. i \in S
      BY <2>2, <2>4, <2>6
    <3> QED BY <2>1, <2>2, <2>5, <3>1
  <2>7. CASE j = i
    BY <2>2, <2>4, <2>5, <2>7
  <2>8. CASE j > i
    <3>1. j < AfterToken(s, i)
      BY <1>1, <2>2, <2>5
    <3>2. j \in S
      BY <2>2, <2>8, <3>1
    <3> QED BY <2>1, <2>5, <3>2
  <2> QED BY <2>5, <2>6, <2>7, <2>8
<1>3. b \notin S /\ b \in Nat /\ AfterToken(s, t) \in Nat
  BY <1>0, <1>1, <1>2
<1> QED BY <1>3
-----------------------------------------------------------------------------
(* What is read so far, and whatever may follow it. *)

(* Whatever follows s, t starts a token, and the tokens before t are those of s. *)
Settled(s, t) ==
  \A w \in Words : Extends(w, s) =>
    t \in Boundaries(w) /\ \A i \in 1 .. t : i \in Boundaries(w) <=> i \in Boundaries(s)

(* Braces of Lua's before t. *)
Braces(s, t, c) == {j \in Boundaries(s) : j < t /\ CharAt(s, j, c)}

(* Before t there are d braces open, and none was closed that was not opened. *)
Balanced(s, t, d) ==
  /\ Cardinality(Braces(s, t, OpenBrace)) = d + Cardinality(Braces(s, t, CloseBrace))
  /\ \A i \in Boundaries(s) : i < t /\ CharAt(s, i, CloseBrace) =>
       Cardinality(Braces(s, i + 1, CloseBrace)) <= Cardinality(Braces(s, i + 1, OpenBrace))

(* The token at t, if there is one yet, is preceded by what is settled. *)
InToken(s, t, d) == t \in 1 .. Len(s) + 1 /\ Settled(s, t) /\ Balanced(s, t, d)

(* A longer text has the characters of the shorter one. *)
LEMMA ExtendsChars ==
  ASSUME NEW s \in Words, NEW w \in Words, Extends(w, s)
  PROVE  /\ Len(s) \in Nat /\ Len(w) \in Nat /\ Len(w) >= Len(s)
         /\ \A i \in 1 .. Len(s) : w[i] = s[i]
         /\ \A c : \A i \in Int : i <= Len(s) => (CharAt(w, i, c) <=> CharAt(s, i, c))
<1>1. Len(s) \in Nat /\ Len(w) \in Nat /\ DOMAIN s = 1 .. Len(s) /\ DOMAIN w = 1 .. Len(w)
  OBVIOUS
<1> QED BY <1>1 DEF Extends, CharAt

(* Longer texts can be made longer. *)
LEMMA ExtendsOrder ==
  ASSUME NEW s \in Words
  PROVE  /\ Extends(s, s)
         /\ \A v, w \in Words : Extends(w, v) /\ Extends(v, s) => Extends(w, s)
<1>1. \A v \in Words : Len(v) \in Nat
  OBVIOUS
<1> QED BY <1>1 DEF Extends

(* One more character is read. *)
LEMMA Appended ==
  ASSUME NEW s \in Words, NEW c \in Alphabet
  PROVE  /\ Append(s, c) \in Words /\ Len(Append(s, c)) = Len(s) + 1
         /\ Extends(Append(s, c), s) /\ Append(s, c)[Len(s) + 1] = c
<1>1. s \in Seq(Alphabet) /\ Append(s, c) \in Seq(Alphabet)
  BY DEF Words
<1> QED BY <1>1 DEF Extends, Words

(* Boundaries are positive, and come one token after the other. *)
LEMMA BoundaryType ==
  ASSUME NEW s \in Words
  PROVE  /\ Boundaries(s) \in SUBSET (Nat \ {0}) /\ 1 \in Boundaries(s)
         /\ \A i \in Boundaries(s) : i <= Len(s) => AfterToken(s, i) \in Boundaries(s)
  BY BoundariesDef DEF AreBoundaries

(* Braces can be counted. *)
LEMMA BracesCount ==
  ASSUME NEW s \in Words, NEW t \in Nat, NEW c
  PROVE  /\ IsFiniteSet(Braces(s, t, c)) /\ Cardinality(Braces(s, t, c)) \in Nat
         /\ Braces(s, t, c) \in SUBSET (1 .. Len(s))
<1>1. Braces(s, t, c) \in SUBSET (1 .. Len(s))
  BY DEF Braces, CharAt
<1>2. IsFiniteSet(1 .. Len(s))
  BY FS_Interval
<1>3. IsFiniteSet(Braces(s, t, c))
  BY <1>1, <1>2, FS_Subset
<1> QED BY <1>1, <1>3, FS_CardinalityType

(* The tokens that are settled are no others in a longer text. *)
LEMMA ExtendToken ==
  ASSUME NEW s \in Words, NEW w \in Words, Extends(w, s), NEW t, NEW d, InToken(s, t, d)
  PROVE  InToken(w, t, d)
<1>0. Len(s) \in Nat /\ Len(w) \in Nat /\ Len(w) >= Len(s) /\ t \in 1 .. Len(s) + 1
  BY ExtendsChars DEF InToken
<1>1. \A i \in 1 .. t : i \in Boundaries(w) <=> i \in Boundaries(s)
  BY DEF InToken, Settled
<1>2. Settled(w, t)
  <2> SUFFICES ASSUME NEW v \in Words, Extends(v, w)
               PROVE  t \in Boundaries(v) /\ \A i \in 1 .. t : i \in Boundaries(v) <=> i \in Boundaries(w)
    BY DEF Settled
  <2>1. Extends(v, s)
    BY ExtendsOrder
  <2> QED BY <1>1, <2>1 DEF InToken, Settled
<1>3. ASSUME NEW i \in 1 .. t, NEW c PROVE Braces(w, i, c) = Braces(s, i, c)
  <2>1. \A j \in Nat \ {0} : j < i => (CharAt(w, j, c) <=> CharAt(s, j, c))
    BY <1>0, ExtendsChars
  <2>2. \A j \in Nat \ {0} : j < i => (j \in Boundaries(w) <=> j \in Boundaries(s))
    BY <1>0, <1>1
  <2>3. Boundaries(w) \in SUBSET (Nat \ {0}) /\ Boundaries(s) \in SUBSET (Nat \ {0})
    BY BoundaryType
  <2> QED BY <2>1, <2>2, <2>3 DEF Braces
<1>4. Balanced(w, t, d)
  <2>1. Cardinality(Braces(w, t, OpenBrace)) = d + Cardinality(Braces(w, t, CloseBrace))
    <3>1. t \in 1 .. t
      BY <1>0
    <3> QED BY <1>3, <3>1 DEF InToken, Balanced
  <2>2. ASSUME NEW i \in Boundaries(w), i < t, CharAt(w, i, CloseBrace)
        PROVE  Cardinality(Braces(w, i + 1, CloseBrace)) <= Cardinality(Braces(w, i + 1, OpenBrace))
    <3>1. i \in Nat \ {0} /\ i \in 1 .. t /\ i + 1 \in 1 .. t /\ i <= Len(s)
      BY <1>0, <2>2, BoundaryType
    <3>2. i \in Boundaries(s) /\ CharAt(s, i, CloseBrace)
      BY <1>1, <2>2, <3>1, ExtendsChars
    <3>3. Cardinality(Braces(s, i + 1, CloseBrace)) <= Cardinality(Braces(s, i + 1, OpenBrace))
      BY <2>2, <3>2 DEF InToken, Balanced
    <3> QED BY <1>3, <3>1, <3>3
  <2> QED BY <2>1, <2>2 DEF Balanced
<1> QED BY <1>0, <1>2, <1>4 DEF InToken

(* The braces up to u, when t is the last token before u. *)
LEMMA NextBraces ==
  ASSUME NEW s \in Words, NEW t \in Boundaries(s), t <= Len(s), NEW u \in Nat, t < u,
         \A j \in Boundaries(s) : ~(t < j /\ j < u), NEW c
  PROVE  /\ Braces(s, u, c) = Braces(s, t + 1, c)
         /\ s[t] = c => Cardinality(Braces(s, u, c)) = Cardinality(Braces(s, t, c)) + 1
         /\ s[t] # c => Braces(s, u, c) = Braces(s, t, c)
<1>0. Boundaries(s) \in SUBSET (Nat \ {0}) /\ t \in Nat /\ t \in DOMAIN s
  BY BoundaryType
<1>1. \A j \in Boundaries(s) : j < u <=> j < t \/ j = t
  BY <1>0
<1>2. \A j \in Boundaries(s) : j < t + 1 <=> j < t \/ j = t
  BY <1>0
<1>3. Braces(s, u, c) = Braces(s, t + 1, c)
  BY <1>1, <1>2 DEF Braces
<1>4. CASE s[t] = c
  <2>1. Braces(s, u, c) = Braces(s, t, c) \cup {t}
    BY <1>0, <1>1, <1>4 DEF Braces, CharAt
  <2>2. t \notin Braces(s, t, c)
    BY <1>0 DEF Braces
  <2>3. IsFiniteSet(Braces(s, t, c))
    BY <1>0, BracesCount
  <2>4. Cardinality(Braces(s, t, c) \cup {t}) = Cardinality(Braces(s, t, c)) + 1
    BY <2>2, <2>3, FS_AddElement
  <2> QED BY <1>3, <1>4, <2>1, <2>4
<1>5. CASE s[t] # c
  BY <1>0, <1>1, <1>3, <1>5 DEF Braces, CharAt
<1> QED BY <1>3, <1>4, <1>5

(* The characters that matter are different. *)
LEMMA Characters ==
  /\ OpenBrace # CloseBrace /\ OpenBrace \notin Quotes /\ CloseBrace \notin Quotes
  /\ "-" \notin Quotes /\ "[" \notin Quotes /\ "=" \notin Quotes /\ "\\" \notin Quotes
  /\ "\n" \notin Quotes
  /\ \A c \in {"-", "[", "=", "\\", "\n", "]"} : c # OpenBrace /\ c # CloseBrace
  BY Zenon DEF OpenBrace, CloseBrace, DoubleQuote, Quotes

(* How many braces are open after a token that is, or begins with, c. *)
Depth(c, d) == CASE c = OpenBrace -> d + 1 [] c = CloseBrace -> d - 1 [] OTHER -> d

(* When the token at t ends at u whatever follows, the next one starts at u.  *)
LEMMA NextToken ==
  ASSUME NEW s \in Words, NEW t \in 1 .. Len(s), NEW d \in Nat, InToken(s, t, d),
         NEW u \in 1 .. Len(s) + 1, t < u,
         \A w \in Words : Extends(w, s) => AfterToken(w, t) = u,
         s[t] = CloseBrace => d > 0
  PROVE  InToken(s, u, Depth(s[t], d))
<1>0. Len(s) \in Nat /\ t \in Nat /\ u \in Nat /\ t \in Boundaries(s) /\ Extends(s, s)
  <2>1. Extends(s, s)
    BY ExtendsOrder
  <2> QED BY <2>1 DEF InToken, Settled
<1>1. ASSUME NEW w \in Words, Extends(w, s)
      PROVE  /\ t \in Boundaries(w) /\ u \in Boundaries(w)
             /\ \A j \in Boundaries(w) : ~(t < j /\ j < u)
             /\ \A i \in 1 .. t : i \in Boundaries(w) <=> i \in Boundaries(s)
  <2>1. t \in Boundaries(w) /\ \A i \in 1 .. t : i \in Boundaries(w) <=> i \in Boundaries(s)
    BY <1>1 DEF InToken, Settled
  <2>2. t <= Len(w) /\ AfterToken(w, t) = u
    BY <1>0, <1>1, ExtendsChars
  <2>3. u \in Boundaries(w)
    BY <2>1, <2>2, BoundaryType
  <2>4. ASSUME NEW j \in Boundaries(w), t < j, j < u PROVE FALSE
    <3>1. j >= u
      BY <2>1, <2>2, <2>4, Gap
    <3>2. j \in Nat
      BY BoundaryType
    <3> QED BY <1>0, <2>4, <3>1, <3>2
  <2> QED BY <2>1, <2>3, <2>4
<1>2. Settled(s, u)
  <2> SUFFICES ASSUME NEW w \in Words, Extends(w, s)
               PROVE  u \in Boundaries(w) /\ \A i \in 1 .. u : i \in Boundaries(w) <=> i \in Boundaries(s)
    BY DEF Settled
  <2>1. ASSUME NEW i \in 1 .. u PROVE i \in Boundaries(w) <=> i \in Boundaries(s)
    <3>1. CASE i \in 1 .. t
      BY <1>1, <3>1
    <3>2. CASE t < i /\ i < u
      BY <1>0, <1>1, <3>2
    <3>3. CASE i = u
      BY <1>0, <1>1, <3>3
    <3>4. i \in 1 .. t \/ (t < i /\ i < u) \/ i = u
      BY <1>0
    <3> QED BY <3>1, <3>2, <3>3, <3>4
  <2> QED BY <1>1, <2>1
<1> DEFINE Op == Cardinality(Braces(s, t, OpenBrace))
           Cl == Cardinality(Braces(s, t, CloseBrace))
<1>3. Op \in Nat /\ Cl \in Nat /\ Op = d + Cl
  BY <1>0, BracesCount DEF InToken, Balanced
<1>4. \A j \in Boundaries(s) : ~(t < j /\ j < u)
  BY <1>0, <1>1
<1>5. /\ Cardinality(Braces(s, u, OpenBrace)) = IF s[t] = OpenBrace THEN Op + 1 ELSE Op
      /\ Cardinality(Braces(s, t + 1, OpenBrace)) = Cardinality(Braces(s, u, OpenBrace))
  BY <1>0, <1>4, NextBraces
<1>6. /\ Cardinality(Braces(s, u, CloseBrace)) = IF s[t] = CloseBrace THEN Cl + 1 ELSE Cl
      /\ Cardinality(Braces(s, t + 1, CloseBrace)) = Cardinality(Braces(s, u, CloseBrace))
  BY <1>0, <1>4, NextBraces
<1>7. ASSUME NEW i \in Boundaries(s), i < u, CharAt(s, i, CloseBrace)
      PROVE  Cardinality(Braces(s, i + 1, CloseBrace)) <= Cardinality(Braces(s, i + 1, OpenBrace))
  <2>1. i \in Nat
    BY BoundaryType
  <2>2. CASE i < t
    BY <1>7, <2>2 DEF InToken, Balanced
  <2>3. CASE i = t
    <3>1. s[t] = CloseBrace /\ s[t] # OpenBrace
      BY <1>7, <2>3, Characters DEF CharAt
    <3> HIDE DEF Op, Cl
    <3> QED BY <1>3, <1>5, <1>6, <2>3, <3>1
  <2>4. i < t \/ i = t
    BY <1>0, <1>4, <1>7, <2>1
  <2> QED BY <2>2, <2>3, <2>4
<1>8. Balanced(s, u, Depth(s[t], d))
  <2> HIDE DEF Op, Cl
  <2>1. Cardinality(Braces(s, u, OpenBrace)) = Depth(s[t], d) + Cardinality(Braces(s, u, CloseBrace))
    BY <1>3, <1>5, <1>6 DEF Depth
  <2> QED BY <1>7, <2>1 DEF Balanced
<1> QED BY <1>2, <1>8 DEF InToken

(* The brace that closes the script. *)
LEMMA LastBrace ==
  ASSUME NEW s \in Words, NEW t \in 1 .. Len(s), InToken(s, t, 0), s[t] = CloseBrace
  PROVE  EndsInLua(s, TokenStarts(s))
<1>0. Len(s) \in Nat /\ t \in Nat /\ t \in Boundaries(s) /\ t \in DOMAIN s
  BY ExtendsOrder DEF InToken, Settled
<1>1. \A j \in Boundaries(s) : ~(t < j /\ j < t + 1)
  BY <1>0, BoundaryType
<1>2. /\ Cardinality(Braces(s, t + 1, CloseBrace)) = Cardinality(Braces(s, t, CloseBrace)) + 1
      /\ Braces(s, t + 1, OpenBrace) = Braces(s, t, OpenBrace)
  <2>1. t + 1 \in Nat /\ t < t + 1 /\ t <= Len(s) /\ s[t] # OpenBrace
    BY <1>0, Characters
  <2> QED BY <1>0, <1>1, <2>1, NextBraces
<1>3. Cardinality(Braces(s, t, OpenBrace)) = Cardinality(Braces(s, t, CloseBrace))
  BY <1>0, BracesCount DEF InToken, Balanced
<1>4. Cardinality(Braces(s, t + 1, CloseBrace)) > Cardinality(Braces(s, t + 1, OpenBrace))
  BY <1>0, <1>2, <1>3, BracesCount
<1>5. \A c : Braces(s, t + 1, c) = {j \in TokenStarts(s) : j <= t /\ s[j] = c}
  <2>1. \A j \in Boundaries(s) : j < t + 1 <=> j <= t
    BY <1>0, BoundaryType
  <2> QED BY <2>1 DEF Braces, TokenStarts, CharAt
<1> QED BY <1>0, <1>4, <1>5 DEF EndsInLua, TokenStarts

(* A script is not over as long as no brace closes from t on. *)
LEMMA NotOver ==
  ASSUME NEW s \in Words, NEW t, NEW d \in Nat, InToken(s, t, d),
         \A i \in TokenStarts(s) : i >= t => s[i] # CloseBrace
  PROVE  ~EndsInLua(s, TokenStarts(s))
<1> SUFFICES ASSUME NEW i \in TokenStarts(s), s[i] = CloseBrace,
                    Cardinality({j \in TokenStarts(s) : j <= i /\ s[j] = CloseBrace})
                      > Cardinality({j \in TokenStarts(s) : j <= i /\ s[j] = OpenBrace})
             PROVE  FALSE
  BY DEF EndsInLua
<1>0. Len(s) \in Nat /\ t \in Nat /\ i \in Boundaries(s) /\ i \in Nat /\ CharAt(s, i, CloseBrace)
  BY BoundaryType DEF InToken, TokenStarts, CharAt
<1>1. i < t
  BY <1>0
<1>2. \A c : Braces(s, i + 1, c) = {j \in TokenStarts(s) : j <= i /\ s[j] = c}
  <2>1. \A j \in Boundaries(s) : j < i + 1 <=> j <= i
    BY <1>0, BoundaryType
  <2> QED BY <2>1 DEF Braces, TokenStarts, CharAt
<1>3. Cardinality(Braces(s, i + 1, CloseBrace)) <= Cardinality(Braces(s, i + 1, OpenBrace))
  BY <1>0, <1>1 DEF InToken, Balanced
<1>4. Cardinality(Braces(s, i + 1, CloseBrace)) \in Nat /\ Cardinality(Braces(s, i + 1, OpenBrace)) \in Nat
  BY <1>0, BracesCount
<1>5. ~(Cardinality(Braces(s, i + 1, CloseBrace)) > Cardinality(Braces(s, i + 1, OpenBrace)))
  BY <1>3, <1>4
<1>6. /\ Braces(s, i + 1, CloseBrace) = {j \in TokenStarts(s) : j <= i /\ s[j] = CloseBrace}
      /\ Braces(s, i + 1, OpenBrace) = {j \in TokenStarts(s) : j <= i /\ s[j] = OpenBrace}
  BY <1>2
<1> QED BY <1>5, <1>6
-----------------------------------------------------------------------------
(* Tokens. *)

(* Texts have a length. *)
LEMMA WordType ==
  ASSUME NEW s \in Words
  PROVE  Len(s) \in Nat /\ DOMAIN s = 1 .. Len(s)
  BY DEF Words

(* A long bracket begins with a bracket. *)
LEMMA LongBegins ==
  ASSUME NEW s \in Words, NEW i, OpensLong(s, i)
  PROVE  CharAt(s, i, "[")
  BY DEF OpensLong, BracketAt

(* A bracket with anything but a bracket after its = is not a long one.       *)
LEMMA BrokenBracket ==
  ASSUME NEW s \in Words, NEW b \in Nat, NEW e \in Nat, b < e, e <= Len(s), s[e] \notin {"[", "="},
         \A j \in b + 1 .. e - 1 : CharAt(s, j, "=")
  PROVE  ~OpensLong(s, b)
<1> SUFFICES ASSUME NEW n \in 0 .. Len(s), BracketAt(s, b, "[", n) PROVE FALSE
  BY DEF OpensLong
<1>0. Len(s) \in Nat /\ n \in Nat
  BY WordType
<1>1. CharAt(s, b + n + 1, "[") /\ \A j \in b + 1 .. b + n : CharAt(s, j, "=")
  BY DEF BracketAt
<1>2. CASE b + n + 1 < e
  <2>1. CharAt(s, b + n + 1, "=")
    BY <1>0, <1>2
  <2> QED BY <1>1, <2>1 DEF CharAt
<1>3. CASE b + n + 1 = e
  BY <1>1, <1>3 DEF CharAt
<1>4. CASE b + n + 1 > e
  <2>1. CharAt(s, e, "=")
    BY <1>0, <1>1, <1>4
  <2> QED BY <2>1 DEF CharAt
<1> QED BY <1>0, <1>2, <1>3, <1>4

(* A token that is a single character. *)
LEMMA SimpleToken ==
  ASSUME NEW s \in Words, NEW t \in 1 .. Len(s), ~Commented(s, t), ~OpensLong(s, t), s[t] \notin Quotes
  PROVE  AfterToken(s, t) = t + 1
  BY DEF AfterToken

(* A comment that is not long ends with its line, or not at all. *)
LEMMA LineToken ==
  ASSUME NEW s \in Words, NEW t \in Nat, Commented(s, t), ~OpensLong(s, t + 2)
  PROVE  /\ (\A j \in t + 2 .. Len(s) : s[j] # "\n") => AfterToken(s, t) = Len(s) + 2
         /\ \A e \in t + 2 .. Len(s) :
              s[e] = "\n" /\ (\A j \in t + 2 .. e - 1 : s[j] # "\n") => AfterToken(s, t) = e + 1
<1> DEFINE S == {j \in t + 2 .. Len(s) : CharAt(s, j, "\n")}
<1>0. Len(s) \in Nat /\ DOMAIN s = 1 .. Len(s)
  BY WordType
<1>1. AfterToken(s, t) = 1 + First(s, S)
  BY DEF AfterToken, AfterLine
<1>2. S \in SUBSET (1 .. Len(s)) /\ \A j \in t + 2 .. Len(s) : j \in S <=> s[j] = "\n"
  BY <1>0 DEF CharAt
<1>3. \A j \in S : j \in t + 2 .. Len(s)
  OBVIOUS
<1> HIDE DEF S
<1>4. ASSUME \A j \in t + 2 .. Len(s) : s[j] # "\n" PROVE AfterToken(s, t) = Len(s) + 2
  <2>1. S = {}
    BY <1>2, <1>3, <1>4
  <2> QED BY <1>0, <1>1, <1>2, <2>1, FirstOf
<1>5. ASSUME NEW e \in t + 2 .. Len(s), s[e] = "\n", \A j \in t + 2 .. e - 1 : s[j] # "\n"
      PROVE  AfterToken(s, t) = e + 1
  <2>1. e \in S
    BY <1>2, <1>5
  <2>2. First(s, S) \in S /\ First(s, S) <= e
    BY <1>2, <2>1, FirstOf
  <2>3. First(s, S) \in t + 2 .. Len(s) /\ s[First(s, S)] = "\n"
    BY <1>2, <1>3, <2>2
  <2>4. First(s, S) = e
    BY <1>0, <1>5, <2>2, <2>3
  <2> QED BY <1>0, <1>1, <2>4
<1> QED BY <1>4, <1>5

(* A long bracket ends with its first closer, or not at all. *)
LEMMA LongToken ==
  ASSUME NEW s \in Words, NEW b \in Nat, NEW n \in Nat, BracketAt(s, b, "[", n)
  PROVE  /\ OpensLong(s, b) /\ LevelAt(s, b) = n
         /\ Closers(s, b) = {} => AfterLong(s, b) = Len(s) + 1
         /\ \A e \in b + n + 2 .. Len(s) :
              /\ BracketAt(s, e, "]", n)
              /\ \A j \in b + n + 2 .. e - 1 : ~BracketAt(s, j, "]", n)
              => /\ Closers(s, b) # {} /\ Min(Closers(s, b)) = e
                 /\ AfterLong(s, b) = e + n + 2
<1>0. Len(s) \in Nat
  BY WordType
<1>1. OpensLong(s, b) /\ LevelAt(s, b) = n
  BY LevelOf
<1>2. Closers(s, b) = {j \in b + n + 2 .. Len(s) : BracketAt(s, j, "]", n)}
  BY <1>1 DEF Closers
<1>3. ASSUME NEW e \in b + n + 2 .. Len(s), BracketAt(s, e, "]", n),
             \A j \in b + n + 2 .. e - 1 : ~BracketAt(s, j, "]", n)
      PROVE  /\ Closers(s, b) # {} /\ Min(Closers(s, b)) = e
             /\ AfterLong(s, b) = e + n + 2
  <2> DEFINE S == Closers(s, b)
  <2>1. e \in S /\ S \in SUBSET Nat /\ \A j \in S : j \in b + n + 2 .. Len(s) /\ BracketAt(s, j, "]", n)
    BY <1>0, <1>2, <1>3
  <2> HIDE DEF S
  <2>2. Min(S) \in S /\ Min(S) <= e
    BY <2>1, MinOf
  <2>3. Min(S) \in b + n + 2 .. Len(s) /\ BracketAt(s, Min(S), "]", n)
    BY <2>1, <2>2
  <2>4. Min(S) = e
    BY <1>0, <1>3, <2>2, <2>3
  <2>5. S # {}
    BY <2>1
  <2> QED BY <1>1, <2>4, <2>5 DEF S, AfterLong
<1>4. Closers(s, b) = {} => AfterLong(s, b) = Len(s) + 1
  BY DEF AfterLong
<1> QED BY <1>1, <1>3, <1>4

(* A character is escaped by a backslash that is not escaped itself. *)
LEMMA EscapedStep ==
  ASSUME NEW s \in Words, NEW t \in Nat
  PROVE  /\ ~Escaped(s, t + 1, t)
         /\ \A i \in Nat : i > t => (Escaped(s, i + 1, t) <=> CharAt(s, i, "\\") /\ ~Escaped(s, i, t))
<1> DEFINE Slashes(i) == {j \in t + 1 .. i - 1 : \A m \in j .. i - 1 : CharAt(s, m, "\\")}
<1>0. \A i : Escaped(s, i, t) <=> Cardinality(Slashes(i)) % 2 = 1
  BY DEF Escaped
<1>1. ~Escaped(s, t + 1, t)
  <2>1. Slashes(t + 1) = {}
    OBVIOUS
  <2> HIDE DEF Slashes
  <2>2. Cardinality(Slashes(t + 1)) = 0
    BY <2>1, FS_EmptySet
  <2>3. Escaped(s, t + 1, t) <=> Cardinality(Slashes(t + 1)) % 2 = 1
    BY <1>0
  <2> QED BY <2>2, <2>3
<1>2. ASSUME NEW i \in Nat, i > t
      PROVE  Escaped(s, i + 1, t) <=> CharAt(s, i, "\\") /\ ~Escaped(s, i, t)
  <2>1. Slashes(i) \in SUBSET (t + 1 .. i - 1) /\ i \notin Slashes(i)
    OBVIOUS
  <2>2. IsFiniteSet(Slashes(i)) /\ Cardinality(Slashes(i)) \in Nat
    <3>1. IsFiniteSet(t + 1 .. i - 1)
      BY FS_Interval
    <3> HIDE DEF Slashes
    <3> QED BY <2>1, <3>1, FS_Subset, FS_CardinalityType
  <2>3. (Escaped(s, i + 1, t) <=> Cardinality(Slashes(i + 1)) % 2 = 1)
        /\ (Escaped(s, i, t) <=> Cardinality(Slashes(i)) % 2 = 1)
    BY <1>0
  <2>4. CASE CharAt(s, i, "\\")
    <3>1. Slashes(i + 1) = Slashes(i) \cup {i}
      <4>1. \A j \in t + 1 .. i : j \in Slashes(i + 1) <=> j \in Slashes(i) \/ j = i
        <5> TAKE j \in t + 1 .. i
        <5>1. CASE j = i
          BY <1>2, <2>4, <5>1
        <5>2. CASE j # i
          <6>1. j \in t + 1 .. i - 1 /\ j \in t + 1 .. (i + 1) - 1
            BY <5>2
          <6>2. \A m : m \in j .. (i + 1) - 1 <=> m \in j .. i - 1 \/ m = i
            BY <6>1
          <6> QED BY <2>4, <5>2, <6>1, <6>2
        <5> QED BY <5>1, <5>2
      <4>2. Slashes(i + 1) \subseteq t + 1 .. i /\ Slashes(i) \cup {i} \subseteq t + 1 .. i
        BY <1>2
      <4> HIDE DEF Slashes
      <4> QED BY <4>1, <4>2
    <3> HIDE DEF Slashes
    <3>2. Cardinality(Slashes(i + 1)) = Cardinality(Slashes(i)) + 1
      BY <2>1, <2>2, <3>1, FS_AddElement
    <3> QED BY <2>2, <2>3, <2>4, <3>2
  <2>5. CASE ~CharAt(s, i, "\\")
    <3>1. Slashes(i + 1) = {}
      <4> SUFFICES ASSUME NEW j \in Slashes(i + 1) PROVE FALSE
        OBVIOUS
      <4>1. j \in t + 1 .. i /\ \A m \in j .. (i + 1) - 1 : CharAt(s, m, "\\")
        OBVIOUS
      <4>2. i \in j .. (i + 1) - 1
        BY <4>1
      <4> QED BY <2>5, <4>1, <4>2
    <3> HIDE DEF Slashes
    <3>2. Cardinality(Slashes(i + 1)) = 0
      BY <3>1, FS_EmptySet
    <3> QED BY <2>3, <2>5, <3>2
  <2> QED BY <2>4, <2>5
<1> QED BY <1>1, <1>2

(* What follows a character does not escape it. *)
LEMMA EscapedBefore ==
  ASSUME NEW s \in Words, NEW w \in Words, Extends(w, s), NEW t \in Nat, NEW i \in Nat, i <= Len(s) + 1
  PROVE  Escaped(w, i, t) <=> Escaped(s, i, t)
<1>1. \A m \in t + 1 .. i - 1 : CharAt(w, m, "\\") <=> CharAt(s, m, "\\")
  <2> TAKE m \in t + 1 .. i - 1
  <2>1. m \in Int /\ m <= Len(s)
    BY WordType
  <2> QED BY <2>1, ExtendsChars
<1>2. \A j \in t + 1 .. i - 1 :
        (\A m \in j .. i - 1 : CharAt(w, m, "\\")) <=> (\A m \in j .. i - 1 : CharAt(s, m, "\\"))
  BY <1>1
<1>3. {j \in t + 1 .. i - 1 : \A m \in j .. i - 1 : CharAt(w, m, "\\")}
        = {j \in t + 1 .. i - 1 : \A m \in j .. i - 1 : CharAt(s, m, "\\")}
  BY <1>2
<1> QED BY <1>3 DEF Escaped

(* A string ends with its quote or its line, or not at all. *)
LEMMA StringToken ==
  ASSUME NEW s \in Words, NEW t \in 1 .. Len(s), s[t] \in Quotes
  PROVE  /\ AfterToken(s, t) = AfterString(s, t)
         /\ (\A j \in t + 1 .. Len(s) : s[j] \in {s[t], "\n"} => Escaped(s, j, t)) =>
              AfterString(s, t) = Len(s) + 2
         /\ \A e \in t + 1 .. Len(s) :
              /\ s[e] \in {s[t], "\n"} /\ ~Escaped(s, e, t)
              /\ \A j \in t + 1 .. e - 1 : s[j] \in {s[t], "\n"} => Escaped(s, j, t)
              => AfterString(s, t) = e + 1
<1> DEFINE S == {j \in t + 1 .. Len(s) : s[j] \in {s[t], "\n"} /\ ~Escaped(s, j, t)}
<1>0. Len(s) \in Nat /\ t \in Nat
  BY WordType
<1>1. AfterToken(s, t) = AfterString(s, t)
  <2>1. ~Commented(s, t) /\ ~OpensLong(s, t)
    BY Characters, LongBegins DEF Commented, CharAt
  <2> QED BY <2>1 DEF AfterToken
<1>2. AfterString(s, t) = 1 + First(s, S)
  BY DEF AfterString
<1>3. S \in SUBSET (1 .. Len(s)) /\ \A j \in S : j \in t + 1 .. Len(s)
  BY <1>0
<1>4. \A j \in t + 1 .. Len(s) : j \in S <=> s[j] \in {s[t], "\n"} /\ ~Escaped(s, j, t)
  OBVIOUS
<1> HIDE DEF S
<1>5. ASSUME \A j \in t + 1 .. Len(s) : s[j] \in {s[t], "\n"} => Escaped(s, j, t)
      PROVE  AfterString(s, t) = Len(s) + 2
  <2>1. S = {}
    BY <1>3, <1>4, <1>5
  <2> QED BY <1>0, <1>2, <1>3, <2>1, FirstOf
<1>6. ASSUME NEW e \in t + 1 .. Len(s), s[e] \in {s[t], "\n"}, ~Escaped(s, e, t),
             \A j \in t + 1 .. e - 1 : s[j] \in {s[t], "\n"} => Escaped(s, j, t)
      PROVE  AfterString(s, t) = e + 1
  <2>1. e \in S
    BY <1>4, <1>6
  <2>2. First(s, S) \in S /\ First(s, S) <= e
    BY <1>3, <2>1, FirstOf
  <2>3. First(s, S) \in t + 1 .. Len(s)
    BY <1>3, <2>2
  <2>4. ~(First(s, S) \in t + 1 .. e - 1)
    BY <1>4, <1>6, <2>2, <2>3
  <2>5. First(s, S) = e
    BY <1>0, <2>2, <2>3, <2>4
  <2> QED BY <1>0, <1>2, <2>5
<1> QED BY <1>1, <1>5, <1>6
-----------------------------------------------------------------------------
(* Where the lexer is. *)

(* Whatever follows s, it contains a token that the property excludes. *)
Poisoned(s) ==
  \E t \in 1 .. Len(s) :
    Settled(s, t) /\ \A w \in Words : Extends(w, s) => BrokenString(w, t) \/ SharedCloser(w, t)

InComment(s, t, d) == t \in Nat /\ InToken(s, t, d) /\ Commented(s, t)

(* From i on, s is c and nothing but = after it. *)
EndsWith(s, i, c) == i \in 1 .. Len(s) /\ s[i] = c /\ \A j \in i + 1 .. Len(s) : s[j] = "="

(* The token at t is a long string, or a comment, whose bracket of level n at *)
(* b is not closed.                                                           *)
LongAt(s, t, b, d, n) ==
  /\ t \in 1 .. Len(s) /\ b \in Nat /\ InToken(s, t, d)
  /\ b = t \/ (b = t + 2 /\ Commented(s, t))
  /\ BracketAt(s, b, "[", n) /\ Closers(s, b) = {}

(* The bracket at e, in the contents of the long bracket at b, ended a closer *)
(* of a level other than n.                                                   *)
Spent(s, b, n, e) == \E m \in Nat \ {n} : e - m - 1 >= b + n + 2 /\ BracketAt(s, e - m - 1, "]", m)

(* A closer may begin at e, and nowhere else unless it shares its bracket.    *)
MayClose(s, b, n, e) ==
  /\ e \in Nat /\ e >= b + n + 2
  /\ \A i \in b + n + 2 .. Len(s) : i # e /\ EndsWith(s, i, "]") => Spent(s, b, n, i)

InLong(s, d, n, e) == \E t, b \in Nat : LongAt(s, t, b, d, n) /\ MayClose(s, b, n, e)

(* The token at t is a string that has not ended yet. *)
StringAt(s, t, d, q) ==
  /\ t \in 1 .. Len(s) /\ InToken(s, t, d) /\ s[t] = q /\ q \in Quotes
  /\ \A i \in t + 1 .. Len(s) : s[i] \in {q, "\n"} => Escaped(s, i, t)

InLine(s, t, d) ==
  /\ InComment(s, t, d)
  /\ \A w \in Words : Extends(w, s) => ~OpensLong(w, t + 2)
  /\ \A j \in t + 2 .. Len(s) : s[j] # "\n"

(* What the place of the lexer, and its counters, say about s. *)
PlaceInv(s, place, d, n, l, q) ==
  \/ place = "name" /\ s = <<>> /\ d = 0
  \/ place = "code" /\ InToken(s, Len(s) + 1, d)
  \/ place = "dash" /\ EndsWith(s, Len(s), "-") /\ InToken(s, Len(s), d)
  \/ place = "comment?" /\ InComment(s, Len(s) - 1, d)
  \/ place = "commentBracket" /\ EndsWith(s, Len(s) - l, "[") /\ InComment(s, Len(s) - l - 2, d)
  \/ place = "comment" /\ \E t \in Nat : InLine(s, t, d)
  \/ place = "bracket" /\ EndsWith(s, Len(s) - l, "[") /\ InToken(s, Len(s) - l, d)
  \/ place = "long" /\ InLong(s, d, n, Len(s) + 1)
  \/ place = "closer" /\ EndsWith(s, Len(s) - l, "]") /\ InLong(s, d, n, Len(s) - l)
  \/ place = "string" /\ \E t \in Nat : StringAt(s, t, d, q) /\ ~Escaped(s, Len(s) + 1, t)
  \/ place = "escape" /\ \E t \in Nat : StringAt(s, t, d, q) /\ Escaped(s, Len(s) + 1, t)
  \/ place = "closed" /\ EndsInLua(s, TokenStarts(s))
  \/ place = "failed" /\ s = <<>>

LexTypeInv ==
  /\ input \in Inputs /\ src \in Words /\ lexer \in Places
  /\ depth \in Nat /\ level \in Nat /\ layer \in Nat

Placed(s) == Poisoned(s) \/ PlaceInv(s, lexer', depth', level', layer', quote')

LexInv ==
  LexTypeInv /\ (Poisoned(src) \/ PlaceInv(src, lexer, depth, level, layer, quote))

(* The last character of s is the script's. *)
LEMMA CodeStep ==
  ASSUME NEW s \in Words, s # <<>>, depth \in Nat, InToken(s, Len(s), depth), ReadCode(s[Len(s)])
  PROVE  Placed(s)
<1> DEFINE t == Len(s)
           c == s[t]
<1>0. t \in Nat /\ t \in 1 .. Len(s)
  BY WordType DEF Words
<1>1. CASE c = "-"
  <2>1. lexer' = "dash" /\ depth' = depth
    BY <1>1, Characters DEF ReadCode, Goto
  <2>2. EndsWith(s, t, "-")
    BY <1>0, <1>1 DEF EndsWith
  <2> QED BY <2>1, <2>2 DEF Placed, PlaceInv
<1>2. CASE c \in Quotes
  <2>1. lexer' = "string" /\ depth' = depth /\ quote' = c
    BY <1>2, Characters DEF ReadCode
  <2>2. StringAt(s, t, depth, c)
    BY <1>0, <1>2 DEF StringAt
  <2>3. ~Escaped(s, t + 1, t)
    BY <1>0, EscapedStep
  <2> QED BY <1>0, <2>1, <2>2, <2>3 DEF Placed, PlaceInv
<1>3. CASE c = "["
  <2>1. lexer' = "bracket" /\ depth' = depth /\ layer' = 0
    BY <1>3, Characters DEF ReadCode, Open
  <2>2. EndsWith(s, t, "[")
    BY <1>0, <1>3 DEF EndsWith
  <2>3. t - 0 = t
    BY <1>0
  <2> QED BY <2>1, <2>2, <2>3 DEF Placed, PlaceInv
<1>4. CASE c = CloseBrace /\ depth = 0
  <2>1. lexer' = "closed"
    BY <1>4, Characters DEF ReadCode
  <2>2. EndsInLua(s, TokenStarts(s))
    BY <1>0, <1>4, LastBrace
  <2> QED BY <2>1, <2>2 DEF Placed, PlaceInv
<1>5. CASE c \notin Quotes \cup {"-", "["} /\ ~(c = CloseBrace /\ depth = 0)
  <2>1. lexer' = "code" /\ depth' = Depth(c, depth)
    BY <1>5, Characters DEF ReadCode, Goto, Depth
  <2>2. ASSUME NEW w \in Words, Extends(w, s) PROVE AfterToken(w, t) = t + 1
    <3>1. w[t] = c /\ t \in 1 .. Len(w)
      BY <1>0, <2>2, ExtendsChars
    <3>2. ~Commented(w, t) /\ ~OpensLong(w, t)
      BY <1>5, <3>1, LongBegins DEF Commented, CharAt
    <3> QED BY <1>5, <3>1, <3>2, SimpleToken
  <2>3. InToken(s, t + 1, Depth(c, depth))
    <3>1. t + 1 \in 1 .. Len(s) + 1 /\ t < t + 1 /\ (c = CloseBrace => depth > 0)
      BY <1>0, <1>5
    <3> QED BY <1>0, <2>2, <3>1, NextToken
  <2> QED BY <2>1, <2>3 DEF Placed, PlaceInv
<1> QED BY <1>1, <1>2, <1>3, <1>4, <1>5

(* The last character of s is part of a comment that is not long. *)
LEMMA CommentStep ==
  ASSUME NEW s \in Words, NEW t \in Nat, t + 2 <= Len(s), depth \in Nat, InComment(s, t, depth),
         \A w \in Words : Extends(w, s) => ~OpensLong(w, t + 2),
         \A j \in t + 2 .. Len(s) - 1 : s[j] # "\n",
         ReadComment(s[Len(s)])
  PROVE  Placed(s)
<1>0. Len(s) \in Nat /\ t \in 1 .. Len(s) /\ s[t] = "-"
  BY WordType DEF InComment, Commented, CharAt
<1>1. CASE s[Len(s)] = "\n"
  <2>1. lexer' = "code" /\ depth' = depth
    BY <1>1 DEF ReadComment, Goto
  <2>2. ASSUME NEW w \in Words, Extends(w, s) PROVE AfterToken(w, t) = Len(s) + 1
    <3>1. Len(s) \in t + 2 .. Len(w) /\ w[Len(s)] = "\n" /\ \A j \in t + 2 .. Len(s) - 1 : w[j] # "\n"
      BY <1>0, <1>1, <2>2, ExtendsChars
    <3>2. Commented(w, t)
      BY <1>0, <2>2, ExtendsChars DEF InComment, Commented
    <3> QED BY <2>2, <3>1, <3>2, LineToken
  <2>3. Depth(s[t], depth) = depth /\ s[t] # CloseBrace
    BY <1>0, Characters DEF Depth
  <2>4. InToken(s, Len(s) + 1, depth)
    <3>1. Len(s) + 1 \in 1 .. Len(s) + 1 /\ t < Len(s) + 1
      BY <1>0
    <3> QED BY <1>0, <2>2, <2>3, <3>1, NextToken DEF InComment
  <2> QED BY <2>1, <2>4 DEF Placed, PlaceInv
<1>2. CASE s[Len(s)] # "\n"
  <2>1. lexer' = "comment" /\ depth' = depth
    BY <1>2 DEF ReadComment, Goto
  <2>2. InLine(s, t, depth)
    BY <1>0, <1>2 DEF InLine
  <2> QED BY <2>1, <2>2 DEF Placed, PlaceInv
<1> QED BY <1>1, <1>2

(* A bracket that turned out not to be a long one is a sequence of tokens.    *)
LEMMA BracketRun ==
  ASSUME NEW s \in Words, NEW d \in Nat, NEW b \in Nat, b < Len(s), InToken(s, b, d),
         CharAt(s, b, "["), \A j \in b + 1 .. Len(s) - 1 : CharAt(s, j, "="),
         s[Len(s)] \notin {"[", "="}
  PROVE  InToken(s, Len(s), d)
<1> DEFINE S == {j \in Nat : b + j <= Len(s) => InToken(s, b + j, d)}
<1>0. Len(s) \in Nat /\ b \in 1 .. Len(s) /\ DOMAIN s = 1 .. Len(s)
  BY WordType DEF InToken
<1>1. 0 \in S
  BY <1>0
<1>2. \A j \in Nat : j \in S => j + 1 \in S
  <2> SUFFICES ASSUME NEW j \in Nat, InToken(s, b + j, d), b + (j + 1) <= Len(s)
               PROVE  InToken(s, b + (j + 1), d)
    BY <1>0
  <2>1. b + j \in 1 .. Len(s) /\ b + j \in Nat /\ b + (j + 1) \in 1 .. Len(s) + 1 /\ b + j < b + (j + 1)
    BY <1>0
  <2>2. s[b + j] = (IF j = 0 THEN "[" ELSE "=")
    BY <1>0, <2>1 DEF CharAt
  <2>3. ASSUME NEW w \in Words, Extends(w, s) PROVE AfterToken(w, b + j) = b + (j + 1)
    <3>1. b + j \in 1 .. Len(w) /\ w[b + j] = s[b + j]
      BY <1>0, <2>1, <2>3, ExtendsChars
    <3>2. ~Commented(w, b + j) /\ w[b + j] \notin Quotes
      BY <2>2, <3>1, Characters DEF Commented, CharAt
    <3>3. CASE j # 0
      <4>1. ~OpensLong(w, b + j)
        BY <2>2, <3>1, <3>3, LongBegins DEF CharAt
      <4> QED BY <2>1, <3>1, <3>2, <4>1, SimpleToken
    <3>4. CASE j = 0
      <4>1. /\ Len(s) <= Len(w) /\ w[Len(s)] \notin {"[", "="}
            /\ \A i \in b + 1 .. Len(s) - 1 : CharAt(w, i, "=")
        BY <1>0, <2>3, ExtendsChars
      <4>2. ~OpensLong(w, b)
        BY <1>0, <4>1, BrokenBracket
      <4>3. b + j = b
        BY <3>4
      <4> QED BY <2>1, <3>1, <3>2, <4>2, <4>3, SimpleToken
    <3> QED BY <3>3, <3>4
  <2>4. Depth(s[b + j], d) = d /\ s[b + j] # CloseBrace
    BY <2>2, Characters DEF Depth
  <2> QED BY <2>1, <2>3, <2>4, NextToken
<1> HIDE DEF S
<1>3. Len(s) - b \in S /\ Len(s) - b \in Nat
  BY <1>0, <1>1, <1>2, NatSetInduction
<1> QED BY <1>0, <1>3 DEF S
(* What the next character does to a long bracket that is open. *)
LEMMA LongStep ==
  ASSUME NEW s \in Words, NEW c \in Alphabet, NEW t \in Nat, NEW b \in Nat, NEW d \in Nat, NEW n \in Nat,
         LongAt(s, t, b, d, n), NEW e, MayClose(s, b, n, e)
  PROVE  LET r == Append(s, c) IN
         \/ Poisoned(r)
         \/ LongAt(r, t, b, d, n) /\ ~(e = Len(s) - n /\ c = "]" /\ EndsWith(s, e, "]"))
         \/ /\ e = Len(s) - n /\ c = "]" /\ EndsWith(s, e, "]")
            /\ InToken(r, Len(r) + 1, d)
<1> DEFINE r == Append(s, c)
           K == Len(s)
           f == K - n
<1>0. /\ r \in Words /\ Len(r) = K + 1 /\ Extends(r, s) /\ r[K + 1] = c
      /\ K \in Nat /\ DOMAIN s = 1 .. K /\ DOMAIN r = 1 .. K + 1
  BY Appended, WordType
<1> HIDE DEF r
<1>1. /\ t \in 1 .. K /\ t \in 1 .. K + 1 /\ InToken(s, t, d) /\ BracketAt(s, b, "[", n)
      /\ Closers(s, b) = {} /\ (b = t \/ (b = t + 2 /\ Commented(s, t)))
  BY <1>0 DEF LongAt
<1>2. b + n + 1 <= K /\ b \in 1 .. K /\ s[b] = "["
  BY <1>0, <1>1 DEF BracketAt, CharAt
<1>3. ASSUME NEW w \in Words, Extends(w, s)
      PROVE  /\ BracketAt(w, b, "[", n)
             /\ (b = t /\ ~Commented(w, t)) \/ (b = t + 2 /\ Commented(w, t))
             /\ \A j \in b + n + 2 .. K - n - 1 : ~BracketAt(w, j, "]", n)
  <2>1. \A x : \A i \in Int : i <= K => (CharAt(w, i, x) <=> CharAt(s, i, x))
    BY <1>3, ExtendsChars
  <2>2. BracketAt(w, b, "[", n)
    BY <1>0, <1>1, <1>2, <2>1 DEF BracketAt
  <2>3. (b = t /\ ~Commented(w, t)) \/ (b = t + 2 /\ Commented(w, t))
    <3>1. CASE b = t
      <4>1. CharAt(w, t, "[")
        BY <2>2, <3>1 DEF BracketAt
      <4> QED BY <3>1, <4>1 DEF Commented, CharAt
    <3>2. CASE b = t + 2 /\ Commented(s, t)
      BY <1>0, <1>2, <2>1, <3>2 DEF Commented
    <3> QED BY <1>1, <3>1, <3>2
  <2>4. ASSUME NEW j \in b + n + 2 .. K - n - 1, BracketAt(w, j, "]", n) PROVE FALSE
    <3>1. j + n + 1 <= K /\ j \in Int /\ j \in b + n + 2 .. K
      BY <1>0
    <3>2. BracketAt(s, j, "]", n)
      BY <1>0, <2>1, <2>4, <3>1 DEF BracketAt
    <3>3. LevelAt(s, b) = n
      BY <1>1, LongToken
    <3>4. j \in Closers(s, b)
      BY <3>1, <3>2, <3>3 DEF Closers
    <3> QED BY <1>1, <3>4
  <2> QED BY <2>2, <2>3, <2>4
<1>4. CASE ~(c = "]" /\ f >= b + n + 2 /\ EndsWith(s, f, "]"))
  <2>1. BracketAt(r, b, "[", n) /\ LevelAt(r, b) = n
    <3>1. BracketAt(r, b, "[", n)
      BY <1>0, <1>3
    <3> QED BY <1>0, <3>1, LongToken
  <2>2. ASSUME NEW j \in b + n + 2 .. K + 1, BracketAt(r, j, "]", n) PROVE FALSE
    <3>1. j + n + 1 <= K + 1 /\ j \in Int
      BY <1>0, <2>2 DEF BracketAt, CharAt
    <3>2. ~(j <= K - n - 1)
      BY <1>0, <1>3, <2>2
    <3>3. j = f
      <4>1. K \in Nat /\ n \in Nat
        BY <1>0
      <4> HIDE DEF K
      <4> QED BY <3>1, <3>2, <4>1
    <3>4. CharAt(r, f, "]") /\ CharAt(r, K + 1, "]") /\ \A i \in f + 1 .. K : CharAt(r, i, "=")
      <4>1. f + n + 1 = K + 1 /\ f + n = K
        BY <1>0
      <4> HIDE DEF f
      <4> QED BY <2>2, <3>3, <4>1 DEF BracketAt
    <3>5. f \in 1 .. K /\ f \in Int
      BY <1>0, <1>2, <2>2, <3>1, <3>3
    <3>6. CharAt(s, f, "]") /\ \A i \in f + 1 .. K : CharAt(s, i, "=")
      <4>1. \A x : \A i \in Int : i <= K => (CharAt(r, i, x) <=> CharAt(s, i, x))
        BY <1>0, ExtendsChars
      <4> QED BY <1>0, <3>4, <3>5, <4>1
    <3>7. EndsWith(s, f, "]") /\ c = "]"
      BY <1>0, <3>4, <3>5, <3>6 DEF EndsWith, CharAt
    <3> QED BY <1>4, <2>2, <3>3, <3>7
  <2>3. Closers(r, b) = {}
    BY <1>0, <2>1, <2>2 DEF Closers
  <2>4. InToken(r, t, d)
    BY <1>0, <1>1, ExtendToken
  <2>5. b = t \/ (b = t + 2 /\ Commented(r, t))
    BY <1>0, <1>3
  <2>6. LongAt(r, t, b, d, n)
    BY <1>0, <1>1, <2>1, <2>3, <2>4, <2>5 DEF LongAt
  <2>7. ~(e = K - n /\ c = "]" /\ EndsWith(s, e, "]"))
    BY <1>4 DEF MayClose
  <2> QED BY <2>6, <2>7 DEF r
<1>5. CASE c = "]" /\ f >= b + n + 2 /\ EndsWith(s, f, "]")
  <2>0. f \in 1 .. K /\ f \in Nat /\ f \in b + n + 2 .. K
    BY <1>0, <1>5 DEF EndsWith
  <2>1. ASSUME NEW w \in Words, Extends(w, r)
        PROVE  /\ OpensLong(w, b) /\ LevelAt(w, b) = n
               /\ Closers(w, b) # {} /\ Min(Closers(w, b)) = f
               /\ AfterToken(w, t) = K + 2
               /\ Extends(w, s)
    <3>1. Extends(w, s)
      BY <1>0, <2>1, ExtendsOrder
    <3>2. BracketAt(w, f, "]", n)
      <4>1. /\ CharAt(r, f, "]") /\ CharAt(r, f + n + 1, "]")
            /\ \A i \in f + 1 .. f + n : CharAt(r, i, "=") /\ i \in Int /\ i <= K + 1
        <5>1. f + n + 1 = K + 1 /\ f + n = K
          BY <1>0
        <5>2. s[f] = "]" /\ \A i \in f + 1 .. K : s[i] = "="
          BY <1>5 DEF EndsWith
        <5>3. r[f] = "]" /\ \A i \in f + 1 .. K : r[i] = "="
          <6>1. \A i \in 1 .. K : r[i] = s[i]
            BY <1>0, ExtendsChars
          <6>2. \A i \in f + 1 .. K : i \in 1 .. K
            BY <1>0, <2>0
          <6> HIDE DEF f
          <6> QED BY <2>0, <5>2, <6>1, <6>2
        <5> HIDE DEF f
        <5> QED BY <1>0, <1>5, <2>0, <5>1, <5>3 DEF CharAt
      <4>2. f \in Int /\ f <= K + 1 /\ f + n + 1 \in Int /\ f + n + 1 <= K + 1
        BY <1>0
      <4>3. \A x : \A i \in Int : i <= K + 1 => (CharAt(w, i, x) <=> CharAt(r, i, x))
        BY <1>0, <2>1, ExtendsChars
      <4> HIDE DEF f
      <4> QED BY <4>1, <4>2, <4>3 DEF BracketAt
    <3>3. BracketAt(w, b, "[", n) /\ \A j \in b + n + 2 .. f - 1 : ~BracketAt(w, j, "]", n)
      BY <1>3, <3>1
    <3>4. f \in b + n + 2 .. Len(w)
      BY <1>0, <2>0, <3>1, ExtendsChars
    <3>5. /\ OpensLong(w, b) /\ LevelAt(w, b) = n
          /\ Closers(w, b) # {} /\ Min(Closers(w, b)) = f /\ AfterLong(w, b) = f + n + 2
      <4> HIDE DEF f
      <4> QED BY <3>2, <3>3, <3>4, LongToken
    <3>6. AfterToken(w, t) = AfterLong(w, b)
      <4>1. (b = t /\ ~Commented(w, t)) \/ (b = t + 2 /\ Commented(w, t))
        BY <1>3, <3>1
      <4> QED BY <3>5, <4>1 DEF AfterToken
    <3>7. f + n + 2 = K + 2
      BY <1>0
    <3> QED BY <3>1, <3>5, <3>6, <3>7
  <2>2. InToken(r, t, d)
    BY <1>0, <1>1, ExtendToken
  <2>3. CASE e = f
    <3>1. Depth(r[t], d) = d /\ r[t] # CloseBrace
      <4>1. CharAt(r, t, "[") \/ CharAt(r, t, "-")
        BY <1>0, <1>3 DEF Commented, BracketAt
      <4> QED BY <4>1, Characters DEF Depth, CharAt
    <3>2. InToken(r, K + 2, d)
      <4>1. t \in 1 .. Len(r) /\ K + 2 \in 1 .. Len(r) + 1 /\ t < K + 2
        BY <1>0, <1>1
      <4> QED BY <1>0, <2>1, <2>2, <3>1, <4>1, NextToken
    <3>3. Len(r) + 1 = K + 2
      BY <1>0
    <3> QED BY <1>5, <2>3, <3>2, <3>3 DEF r
  <2>4. CASE e # f
    <3>1. PICK m \in Nat \ {n} : f - m - 1 >= b + n + 2 /\ BracketAt(s, f - m - 1, "]", m)
      BY <1>5, <2>0, <2>4 DEF MayClose, Spent
    <3>2. ASSUME NEW w \in Words, Extends(w, r) PROVE SharedCloser(w, t)
      <4> DEFINE o == f - m - 1
      <4>0. o \in Int /\ o + m + 1 = f /\ o <= K /\ m \in 0 .. K
        BY <1>0, <2>0, <3>1
      <4>1. \A x : \A i \in Int : i <= K => (CharAt(w, i, x) <=> CharAt(s, i, x))
        BY <2>1, <3>2, ExtendsChars
      <4>2. BracketAt(w, o, "]", m)
        <5>1. BracketAt(s, o, "]", m)
          BY <3>1
        <5> HIDE DEF o, f
        <5> QED BY <1>0, <2>0, <4>0, <4>1, <5>1 DEF BracketAt
      <4>3. m \in (0 .. Len(w)) \ {n}
        <5>1. Len(w) >= K /\ Len(w) \in Nat
          BY <2>1, <3>2, ExtendsChars
        <5> QED BY <1>0, <3>1, <4>0, <5>1
      <4>4. b = (IF Commented(w, t) THEN t + 2 ELSE t)
        BY <1>3, <2>1, <3>2
      <4>5. o >= b + n + 2
        BY <3>1
      <4>6. OpensLong(w, b) /\ LevelAt(w, b) = n /\ Closers(w, b) # {} /\ Min(Closers(w, b)) = f
        BY <2>1, <3>2
      <4> HIDE DEF f
      <4> QED BY <4>2, <4>3, <4>4, <4>5, <4>6 DEF SharedCloser
    <3>3. t \in 1 .. Len(r) /\ Settled(r, t)
      BY <1>0, <1>1, <2>2 DEF InToken
    <3> QED BY <3>2, <3>3 DEF Poisoned, r
  <2> QED BY <2>3, <2>4
<1> QED BY <1>4, <1>5

(* What the next character does to a string. *)
LEMMA StringStep ==
  ASSUME NEW s \in Words, NEW c \in Alphabet, NEW t \in Nat, NEW d \in Nat, NEW q,
         StringAt(s, t, d, q)
  PROVE  LET r == Append(s, c)
             escaped == Escaped(s, Len(s) + 1, t)
         IN  /\ ~escaped /\ c = "\n" => Poisoned(r)
             /\ ~escaped /\ c = q => InToken(r, Len(r) + 1, d)
             /\ escaped \/ c \notin {q, "\n"} =>
                  /\ StringAt(r, t, d, q)
                  /\ Escaped(r, Len(r) + 1, t) <=> c = "\\" /\ ~escaped
<1> DEFINE r == Append(s, c)
           K == Len(s)
<1>0. /\ r \in Words /\ Len(r) = K + 1 /\ Extends(r, s) /\ r[K + 1] = c
      /\ K \in Nat /\ DOMAIN s = 1 .. K /\ DOMAIN r = 1 .. K + 1
  BY Appended, WordType
<1> HIDE DEF r
<1>1. /\ t \in 1 .. K /\ t \in 1 .. K + 1 /\ InToken(s, t, d) /\ s[t] = q /\ q \in Quotes
      /\ \A i \in t + 1 .. K : s[i] \in {q, "\n"} => Escaped(s, i, t)
  BY <1>0 DEF StringAt
<1>2. ASSUME NEW w \in Words, Extends(w, r)
      PROVE  /\ K + 1 \in t + 1 .. Len(w) /\ t \in 1 .. Len(w) /\ w[t] = q /\ w[K + 1] = c
             /\ \A i \in t + 1 .. K : w[i] \in {q, "\n"} => Escaped(w, i, t)
             /\ Escaped(w, K + 1, t) <=> Escaped(s, K + 1, t)
  <2>1. Extends(w, s) /\ Len(w) >= K + 1 /\ Len(w) \in Nat /\ w[K + 1] = c
    <3>1. K + 1 \in 1 .. Len(r)
      BY <1>0
    <3> QED BY <1>0, <1>2, <3>1, ExtendsOrder, ExtendsChars
  <2>2. \A i \in 1 .. K : w[i] = s[i]
    BY <2>1, ExtendsChars
  <2>3. \A i \in t + 1 .. K + 1 : Escaped(w, i, t) <=> Escaped(s, i, t)
    <3> TAKE i \in t + 1 .. K + 1
    <3>1. i \in Nat /\ i <= K + 1
      BY <1>0
    <3> QED BY <2>1, <3>1, EscapedBefore
  <2>4. \A i \in t + 1 .. K : i \in 1 .. K /\ i \in t + 1 .. K + 1
    BY <1>0, <1>1
  <2>5. K + 1 \in t + 1 .. K + 1 /\ K + 1 \in t + 1 .. Len(w) /\ t \in 1 .. Len(w)
    BY <1>0, <1>1, <2>1
  <2> QED BY <1>1, <2>1, <2>2, <2>3, <2>4, <2>5
<1>3. InToken(r, t, d) /\ Extends(r, r) /\ t \in 1 .. Len(r)
  BY <1>0, <1>1, ExtendToken, ExtendsOrder
<1>4. ASSUME ~Escaped(s, K + 1, t), c \in {q, "\n"}, NEW w \in Words, Extends(w, r)
      PROVE  AfterString(w, t) = K + 2 /\ AfterToken(w, t) = K + 2
  <2>1. \A j \in t + 1 .. (K + 1) - 1 : w[j] \in {q, "\n"} => Escaped(w, j, t)
    BY <1>0, <1>2, <1>4
  <2>2. w[K + 1] \in {w[t], "\n"} /\ ~Escaped(w, K + 1, t) /\ w[t] = q
        /\ K + 1 \in t + 1 .. Len(w) /\ t \in 1 .. Len(w)
    BY <1>2, <1>4
  <2>3. AfterString(w, t) = (K + 1) + 1 /\ AfterToken(w, t) = AfterString(w, t)
    BY <1>1, <2>1, <2>2, StringToken
  <2> QED BY <1>0, <2>3
<1>5. ASSUME ~Escaped(s, K + 1, t), c = "\n" PROVE Poisoned(r)
  <2>1. ASSUME NEW w \in Words, Extends(w, r) PROVE BrokenString(w, t)
    <3>1. AfterString(w, t) - 1 = K + 1
      BY <1>0, <1>4, <1>5, <2>1
    <3>2. CharAt(w, K + 1, "\n") /\ w[t] \in Quotes
      <4>1. K + 1 \in DOMAIN w
        BY <1>0, <1>2, <2>1, WordType
      <4> QED BY <1>1, <1>2, <1>5, <2>1, <4>1 DEF CharAt
    <3> QED BY <3>1, <3>2 DEF BrokenString
  <2> QED BY <1>3, <2>1 DEF Poisoned, InToken
<1>6. ASSUME ~Escaped(s, K + 1, t), c = q PROVE InToken(r, Len(r) + 1, d)
  <2>1. Depth(r[t], d) = d /\ r[t] # CloseBrace
    <3>1. r[t] \in Quotes
      BY <1>0, <1>1, <1>2, <1>3
    <3> QED BY <3>1, Characters DEF Depth
  <2>2. K + 2 \in 1 .. Len(r) + 1 /\ t < K + 2 /\ Len(r) + 1 = K + 2
    BY <1>0, <1>1
  <2>3. \A w \in Words : Extends(w, r) => AfterToken(w, t) = K + 2
    BY <1>4, <1>6
  <2> QED BY <1>0, <1>3, <2>1, <2>2, <2>3, NextToken
<1>7. ASSUME Escaped(s, K + 1, t) \/ c \notin {q, "\n"}
      PROVE  StringAt(r, t, d, q) /\ (Escaped(r, Len(r) + 1, t) <=> c = "\\" /\ ~Escaped(s, K + 1, t))
  <2>1. \A i \in t + 1 .. Len(r) : r[i] \in {q, "\n"} => Escaped(r, i, t)
    <3> TAKE i \in t + 1 .. Len(r)
    <3>1. CASE i = K + 1
      BY <1>0, <1>2, <1>3, <1>7, <3>1
    <3>2. CASE i # K + 1
      <4>1. i \in t + 1 .. K
        BY <1>0, <3>2
      <4> QED BY <1>0, <1>2, <1>3, <4>1
    <3> QED BY <3>1, <3>2
  <2>2. StringAt(r, t, d, q)
    BY <1>0, <1>1, <1>2, <1>3, <2>1 DEF StringAt
  <2>3. Escaped(r, (K + 1) + 1, t) <=> CharAt(r, K + 1, "\\") /\ ~Escaped(r, K + 1, t)
    <3>1. K + 1 \in Nat /\ K + 1 > t
      BY <1>0, <1>1
    <3> QED BY <1>0, <3>1, EscapedStep
  <2>4. CharAt(r, K + 1, "\\") <=> c = "\\"
    BY <1>0 DEF CharAt
  <2> QED BY <1>0, <1>2, <1>3, <2>2, <2>3, <2>4
<1> QED BY <1>5, <1>6, <1>7 DEF r
(* Before anything is read no token has started. *)
LEMMA NothingRead == <<>> \in Words /\ InToken(<<>>, 1, 0) /\ ~EndsInLua(<<>>, TokenStarts(<<>>))
<1>1. <<>> \in Words /\ Len(<<>>) = 0 /\ DOMAIN <<>> = {}
  BY DEF Words
<1>2. Settled(<<>>, 1)
  <2>1. \A i \in 1 .. 1 : i = 1
    OBVIOUS
  <2> QED BY <1>1, <2>1, BoundaryType DEF Settled
<1>3. \A c : Braces(<<>>, 1, c) = {}
  BY <1>1 DEF Braces, CharAt
<1>4. Balanced(<<>>, 1, 0)
  <2>1. Cardinality({}) = 0
    BY FS_EmptySet
  <2>2. Cardinality(Braces(<<>>, 1, OpenBrace)) = 0 + Cardinality(Braces(<<>>, 1, CloseBrace))
    <3>1. Braces(<<>>, 1, OpenBrace) = {} /\ Braces(<<>>, 1, CloseBrace) = {}
      BY <1>3
    <3>2. Cardinality(Braces(<<>>, 1, OpenBrace)) = Cardinality({})
          /\ Cardinality(Braces(<<>>, 1, CloseBrace)) = Cardinality({})
      BY <3>1, Zenon
    <3> QED BY <2>1, <3>2
  <2> QED BY <1>1, <2>2 DEF Balanced, CharAt
<1>5. InToken(<<>>, 1, 0)
  BY <1>1, <1>2, <1>4 DEF InToken
<1> QED BY <1>1, <1>5 DEF EndsInLua, TokenStarts

(* What is poisoned stays so. *)
LEMMA PoisonStays ==
  ASSUME NEW s \in Words, NEW c \in Alphabet, Poisoned(s)
  PROVE  Poisoned(Append(s, c))
<1> DEFINE r == Append(s, c)
<1>0. r \in Words /\ Len(r) = Len(s) + 1 /\ Extends(r, s) /\ Len(s) \in Nat
  BY Appended, WordType
<1> HIDE DEF r
<1>1. PICK t \in 1 .. Len(s) :
        Settled(s, t) /\ \A w \in Words : Extends(w, s) => BrokenString(w, t) \/ SharedCloser(w, t)
  BY DEF Poisoned
<1>2. \A w \in Words : Extends(w, r) => Extends(w, s)
  BY <1>0, ExtendsOrder
<1>3. \A w \in Words : Extends(w, r) => BrokenString(w, t) \/ SharedCloser(w, t)
  BY <1>1, <1>2
<1>4. Settled(r, t)
  BY <1>0, <1>1, <1>2 DEF Settled
<1> QED BY <1>0, <1>1, <1>3, <1>4 DEF Poisoned, r

(* The invariant holds before anything is read. *)
LEMMA InitLexInv == LexInit => LexInv
<1> SUFFICES ASSUME LexInit PROVE LexInv
  OBVIOUS
<1>1. LexTypeInv
  BY NothingRead DEF LexInit, LexTypeInv, Places
<1>2. PlaceInv(src, lexer, depth, level, layer, quote)
  BY DEF LexInit, PlaceInv
<1> QED BY <1>1, <1>2 DEF LexInv

(* The counters are numbers, and what is read are characters of the inputs. *)
LEMMA StepLexType ==
  ASSUME LexTypeInv, ~LexDone, NEW c \in Alphabet, Read(c)
  PROVE  LexTypeInv'
<1>1. input' \in Inputs /\ src' \in Words
  <2>1. Append(src, c) \in Words
    BY Appended DEF LexTypeInv
  <2> QED BY <2>1 DEF Read, LexTypeInv
<1>2. ASSUME NEW x, Goto(x), x \in Places
      PROVE  lexer' \in Places /\ depth' \in Nat /\ level' \in Nat /\ layer' \in Nat
  BY <1>2 DEF Goto, LexTypeInv
<1>3. ASSUME ReadCode(c)
      PROVE  lexer' \in Places /\ depth' \in Nat /\ level' \in Nat /\ layer' \in Nat
  BY <1>3 DEF ReadCode, Goto, Open, LexTypeInv, Places
<1>4. ASSUME ReadComment(c)
      PROVE  lexer' \in Places /\ depth' \in Nat /\ level' \in Nat /\ layer' \in Nat
  BY <1>4 DEF ReadComment, Goto, LexTypeInv, Places
<1>5. ASSUME ReadLong(c)
      PROVE  lexer' \in Places /\ depth' \in Nat /\ level' \in Nat /\ layer' \in Nat
  BY <1>5 DEF ReadLong, Open, Goto, LexTypeInv, Places
<1>6. lexer' \in Places /\ depth' \in Nat /\ level' \in Nat /\ layer' \in Nat
  <2>1. CASE lexer = "name"
    BY <1>2, <2>1 DEF Read, ReadName, Places
  <2>2. CASE lexer = "code"
    BY <1>3, <2>2 DEF Read
  <2>3. CASE lexer = "dash"
    BY <1>2, <1>3, <2>3 DEF Read, ReadDash, Places
  <2>4. CASE lexer = "comment?"
    BY <1>4, <2>4 DEF Read, ReadCommentStart, Open, LexTypeInv, Places
  <2>5. CASE lexer \in {"bracket", "commentBracket"}
    <3>1. ReadBracket(c)
      BY <2>5 DEF Read
    <3> QED BY <1>3, <1>4, <3>1 DEF ReadBracket, LexTypeInv, Places
  <2>6. CASE lexer = "comment"
    BY <1>4, <2>6 DEF Read
  <2>7. CASE lexer = "long"
    BY <1>5, <2>7 DEF Read
  <2>8. CASE lexer = "closer"
    BY <1>5, <2>8 DEF Read, ReadCloser, Goto, LexTypeInv, Places
  <2>9. CASE lexer = "string"
    BY <2>9 DEF Read, ReadString, Goto, LexTypeInv, Places
  <2>10. CASE lexer = "escape"
    BY <1>2, <2>10 DEF Read, Places
  <2>11. lexer \notin {"closed", "failed"}
    BY DEF LexDone
  <2> QED BY <2>1, <2>2, <2>3, <2>4, <2>5, <2>6, <2>7, <2>8, <2>9, <2>10, <2>11
        DEF LexTypeInv, Places
<1> QED BY <1>1, <1>6 DEF LexTypeInv
(* What the character c says of a bracket that may open a long one. *)
LEMMA BracketStep ==
  ASSUME NEW s \in Words, NEW c \in Alphabet, NEW l \in Nat, EndsWith(s, Len(s) - l, "[")
  PROVE  LET r == Append(s, c)
             b == Len(s) - l
         IN  /\ b \in 1 .. Len(s) /\ CharAt(r, b, "[") /\ \A j \in b + 1 .. Len(s) : CharAt(r, j, "=")
             /\ c = "[" => /\ BracketAt(r, b, "[", l) /\ Closers(r, b) = {}
                           /\ MayClose(r, b, l, Len(r) + 1)
             /\ c = "=" => EndsWith(r, Len(r) - (l + 1), "[") /\ Len(r) - (l + 1) = b
<1> DEFINE r == Append(s, c)
           K == Len(s)
           b == K - l
<1>0. /\ r \in Words /\ Len(r) = K + 1 /\ Extends(r, s) /\ r[K + 1] = c
      /\ K \in Nat /\ DOMAIN s = 1 .. K /\ DOMAIN r = 1 .. K + 1
  BY Appended, WordType
<1>1. b \in 1 .. K /\ s[b] = "[" /\ \A j \in b + 1 .. K : s[j] = "="
  BY DEF EndsWith
<1> HIDE DEF r
<1>2. b \in Nat /\ b + l = K /\ b + l + 1 = K + 1 /\ b + l + 2 = K + 2 /\ (K + 1) - (l + 1) = b
  BY <1>0, <1>1
<1> HIDE DEF b
<1>3. r[b] = "[" /\ (\A j \in b + 1 .. K : r[j] = "=" /\ j \in 1 .. K + 1) /\ b \in 1 .. K + 1
  <2>1. \A i \in 1 .. K : r[i] = s[i]
    BY <1>0, ExtendsChars
  <2> QED BY <1>0, <1>1, <1>2, <2>1
<1>4. CharAt(r, b, "[") /\ \A j \in b + 1 .. K : CharAt(r, j, "=")
  BY <1>0, <1>3 DEF CharAt
<1>5. ASSUME c = "["
      PROVE  BracketAt(r, b, "[", l) /\ Closers(r, b) = {} /\ MayClose(r, b, l, Len(r) + 1)
  <2>1. BracketAt(r, b, "[", l)
    <3>1. CharAt(r, K + 1, "[")
      BY <1>0, <1>5 DEF CharAt
    <3> QED BY <1>2, <1>4, <3>1 DEF BracketAt
  <2>2. LevelAt(r, b) = l
    BY <1>0, <1>2, <2>1, LongToken
  <2>3. b + l + 2 .. Len(r) = {} /\ Len(r) + 1 \in Nat /\ Len(r) + 1 >= b + l + 2
    BY <1>0, <1>2
  <2>4. Closers(r, b) = {}
    BY <2>2, <2>3 DEF Closers
  <2> QED BY <2>1, <2>3, <2>4 DEF MayClose
<1>6. ASSUME c = "=" PROVE EndsWith(r, Len(r) - (l + 1), "[") /\ Len(r) - (l + 1) = b
  <2>1. \A j \in b + 1 .. K + 1 : r[j] = "="
    <3> TAKE j \in b + 1 .. K + 1
    <3>1. j = K + 1 \/ j \in b + 1 .. K
      BY <1>0, <1>2
    <3> QED BY <1>0, <1>3, <1>6, <3>1
  <2>2. Len(r) - (l + 1) = b
    BY <1>0, <1>2
  <2> QED BY <1>0, <1>3, <2>1, <2>2 DEF EndsWith
<1> QED BY <1>0, <1>1, <1>4, <1>5, <1>6 DEF b, r

(* Where a closer may begin after one more character. *)
LEMMA CloserStep ==
  ASSUME NEW s \in Words, NEW c \in Alphabet, NEW b \in Nat, NEW n \in Nat, NEW e \in Nat,
         MayClose(s, b, n, e), b + n + 1 <= Len(s)
  PROVE  LET r == Append(s, c) IN
         /\ c = "=" => MayClose(r, b, n, e)
         /\ c = "]" => MayClose(r, b, n, Len(r)) /\ EndsWith(r, Len(r), "]")
         /\ c # "]" /\ (e = Len(s) + 1 \/ c # "=") => MayClose(r, b, n, Len(r) + 1)
<1> DEFINE r == Append(s, c)
           K == Len(s)
<1>0. /\ r \in Words /\ Len(r) = K + 1 /\ Extends(r, s) /\ r[K + 1] = c
      /\ K \in Nat /\ DOMAIN s = 1 .. K /\ DOMAIN r = 1 .. K + 1
  BY Appended, WordType
<1> HIDE DEF r
<1>1. \A i \in 1 .. K : r[i] = s[i]
  BY <1>0, ExtendsChars
<1>2. /\ e >= b + n + 2
      /\ \A i \in b + n + 2 .. K : i # e /\ EndsWith(s, i, "]") => Spent(s, b, n, i)
  BY DEF MayClose
<1>3. ASSUME NEW i, EndsWith(r, i, "]")
      PROVE  /\ i \in Nat /\ i \in 1 .. K + 1
             /\ i = K + 1 => c = "]"
             /\ i # K + 1 => c = "=" /\ EndsWith(s, i, "]")
  <2>1. i \in 1 .. K + 1 /\ r[i] = "]" /\ \A j \in i + 1 .. K + 1 : r[j] = "="
    BY <1>0, <1>3 DEF EndsWith
  <2>2. CASE i = K + 1
    BY <1>0, <2>1, <2>2
  <2>3. CASE i # K + 1
    <3>1. i \in 1 .. K /\ K + 1 \in i + 1 .. K + 1
      BY <1>0, <2>1, <2>3
    <3>2. \A j \in i + 1 .. K : j \in i + 1 .. K + 1 /\ j \in 1 .. K
      BY <1>0, <3>1
    <3> QED BY <1>0, <1>1, <2>1, <3>1, <3>2 DEF EndsWith
  <2> QED BY <1>0, <2>1, <2>2, <2>3
<1>4. ASSUME NEW i \in Nat, Spent(s, b, n, i), i <= K PROVE Spent(r, b, n, i)
  <2>1. PICK m \in Nat \ {n} : i - m - 1 >= b + n + 2 /\ BracketAt(s, i - m - 1, "]", m)
    BY <1>4 DEF Spent
  <2> DEFINE o == i - m - 1
  <2>2. o \in Int /\ o + m + 1 = i /\ o <= K
    BY <1>0, <1>4, <2>1
  <2>3. BracketAt(s, o, "]", m)
    BY <2>1
  <2> HIDE DEF o
  <2>4. BracketAt(r, o, "]", m)
    <3>1. \A x : \A j \in Int : j <= K => (CharAt(r, j, x) <=> CharAt(s, j, x))
      BY <1>0, ExtendsChars
    <3> QED BY <1>0, <1>4, <2>2, <2>3, <3>1 DEF BracketAt
  <2> QED BY <2>1, <2>4 DEF o, Spent
<1>5. ASSUME c = "=" PROVE MayClose(r, b, n, e)
  <2> SUFFICES ASSUME NEW i \in b + n + 2 .. K + 1, i # e, EndsWith(r, i, "]") PROVE Spent(r, b, n, i)
    BY <1>0, <1>2 DEF MayClose
  <2>1. i # K + 1 /\ EndsWith(s, i, "]") /\ i \in Nat /\ i \in b + n + 2 .. K /\ i <= K
    BY <1>0, <1>3, <1>5
  <2> QED BY <1>2, <1>4, <2>1
<1>6. ASSUME c = "]" PROVE MayClose(r, b, n, Len(r)) /\ EndsWith(r, Len(r), "]")
  <2>1. \A i : ~(i # Len(r) /\ EndsWith(r, i, "]"))
    BY <1>0, <1>3, <1>6
  <2>2. EndsWith(r, Len(r), "]")
    BY <1>0, <1>6 DEF EndsWith
  <2> QED BY <1>0, <2>1, <2>2 DEF MayClose
<1>7. ASSUME c # "]", e = K + 1 \/ c # "=" PROVE MayClose(r, b, n, Len(r) + 1)
  <2>1. ASSUME NEW i \in b + n + 2 .. K + 1, EndsWith(r, i, "]") PROVE Spent(r, b, n, i)
    <3>1. i # K + 1 /\ c = "=" /\ EndsWith(s, i, "]") /\ i \in Nat /\ i \in b + n + 2 .. K /\ i <= K
      BY <1>0, <1>3, <1>7, <2>1
    <3>2. i # e
      BY <1>0, <1>7, <3>1
    <3> QED BY <1>2, <1>4, <3>1, <3>2
  <2>2. Len(r) + 1 \in Nat /\ Len(r) + 1 >= b + n + 2 /\ Len(r) = K + 1
    BY <1>0
  <2> QED BY <2>1, <2>2 DEF MayClose
<1> QED BY <1>5, <1>6, <1>7 DEF r
(* A character is read, wherever the lexer is. *)
LEMMA ReadStep ==
  ASSUME LexTypeInv, PlaceInv(src, lexer, depth, level, layer, quote), ~LexDone,
         NEW c \in Alphabet, Read(c)
  PROVE  Placed(src')
<1> DEFINE r == Append(src, c)
           K == Len(src)
<1>0. /\ src \in Words /\ lexer \in Places /\ depth \in Nat /\ level \in Nat /\ layer \in Nat
      /\ lexer \notin {"closed", "failed"}
  BY DEF LexTypeInv, LexDone
<1>1. /\ r \in Words /\ Len(r) = K + 1 /\ Extends(r, src) /\ r[K + 1] = c /\ r # <<>>
      /\ K \in Nat /\ DOMAIN src = 1 .. K /\ DOMAIN r = 1 .. K + 1
      /\ \A i \in 1 .. K : r[i] = src[i]
  <2>1. Extends(r, src) /\ r \in Words /\ Len(r) = K + 1 /\ r[K + 1] = c
    BY <1>0, Appended
  <2>2. \A i \in 1 .. K : r[i] = src[i]
    BY <1>0, <2>1, ExtendsChars
  <2>3. r # <<>>
    <3>1. Len(r) # 0 /\ Len(<<>>) = 0
      BY <1>0, <2>1, WordType
    <3> HIDE DEF r
    <3> QED BY <3>1
  <2> QED BY <1>0, <2>1, <2>2, <2>3, WordType
<1>2. src' = IF lexer = "name" THEN src ELSE r
  BY DEF Read
<1> HIDE DEF r
<1>3. CASE lexer = "name"
  <2>1. src' = <<>> /\ depth = 0
    BY <1>2, <1>3 DEF PlaceInv
  <2>2. ReadName(c)
    BY <1>3 DEF Read
  <2>3. depth' = 0 /\ lexer' \in {"name", "code", "failed"}
    BY <2>1, <2>2 DEF ReadName, Goto
  <2>4. InToken(<<>>, 0 + 1, 0) /\ Len(<<>>) = 0
    BY NothingRead
  <2> QED BY <2>1, <2>3, <2>4 DEF Placed, PlaceInv
<1>4. CASE lexer = "code"
  <2>1. InToken(src, K + 1, depth) /\ ReadCode(c)
    BY <1>4 DEF PlaceInv, Read
  <2>2. InToken(r, K + 1, depth)
    BY <1>0, <1>1, <2>1, ExtendToken
  <2>3. Placed(r)
    BY <1>0, <1>1, <2>1, <2>2, CodeStep
  <2> QED BY <1>2, <1>4, <2>3
<1>5. CASE lexer = "dash"
  <2>1. EndsWith(src, K, "-") /\ InToken(src, K, depth) /\ ReadDash(c)
    BY <1>5 DEF PlaceInv, Read
  <2>2. InToken(r, K, depth) /\ K \in 1 .. K + 1 /\ r[K] = "-"
    BY <1>0, <1>1, <2>1, ExtendToken DEF EndsWith
  <2>3. CASE c = "-"
    <3>1. lexer' = "comment?" /\ depth' = depth
      BY <2>1, <2>3 DEF ReadDash, Goto
    <3>2. InComment(r, Len(r) - 1, depth)
      <4>1. Len(r) - 1 = K /\ Commented(r, K)
        BY <1>1, <2>2, <2>3 DEF Commented, CharAt
      <4> QED BY <1>1, <2>2, <4>1 DEF InComment
    <3> QED BY <1>2, <1>5, <3>1, <3>2 DEF Placed, PlaceInv
  <2>4. CASE c # "-"
    <3>1. ReadCode(c)
      BY <2>1, <2>4 DEF ReadDash
    <3>2. ASSUME NEW w \in Words, Extends(w, r) PROVE AfterToken(w, K) = K + 1
      <4>1. K \in 1 .. Len(w) /\ w[K] = "-" /\ w[K + 1] = c
        <5>1. K + 1 \in 1 .. Len(r) /\ K \in 1 .. Len(r)
          BY <1>1, <2>2
        <5> QED BY <1>1, <2>2, <3>2, <5>1, ExtendsChars
      <4>2. ~Commented(w, K) /\ ~OpensLong(w, K) /\ w[K] \notin Quotes
        BY <2>4, <4>1, LongBegins, Characters DEF Commented, CharAt
      <4> QED BY <4>1, <4>2, SimpleToken
    <3>3. InToken(r, K + 1, depth)
      <4>1. Depth(r[K], depth) = depth /\ r[K] # CloseBrace
        BY <2>2, Characters DEF Depth
      <4>2. K \in 1 .. Len(r) /\ K + 1 \in 1 .. Len(r) + 1 /\ K < K + 1
        BY <1>1, <2>2
      <4> QED BY <1>0, <1>1, <2>2, <3>2, <4>1, <4>2, NextToken
    <3>4. Placed(r)
      BY <1>0, <1>1, <3>1, <3>3, CodeStep
    <3> QED BY <1>2, <1>5, <3>4
  <2> QED BY <2>3, <2>4
<1>6. CASE lexer = "comment?"
  <2> DEFINE t == K - 1
  <2>1. InComment(src, t, depth) /\ ReadCommentStart(c)
    BY <1>6 DEF PlaceInv, Read
  <2>2. InComment(r, t, depth) /\ t \in Nat /\ t + 2 = K + 1
    <3>1. t \in Nat /\ Commented(src, t) /\ t + 1 <= K
      BY <1>0, <1>1, <2>1 DEF InComment
    <3>2. InToken(r, t, depth)
      BY <1>0, <1>1, <2>1, ExtendToken DEF InComment
    <3>3. Commented(r, t)
      BY <1>0, <1>1, <3>1, ExtendsChars DEF Commented
    <3> QED BY <1>1, <3>1, <3>2, <3>3 DEF InComment
  <2> HIDE DEF t
  <2>3. CASE c = "["
    <3>1. lexer' = "commentBracket" /\ layer' = 0 /\ depth' = depth
      BY <2>1, <2>3 DEF ReadCommentStart, Open
    <3>2. EndsWith(r, Len(r) - 0, "[") /\ (Len(r) - 0) - 2 = t
      <4>1. K + 1 \in 1 .. K + 1 /\ (K + 1) - 0 = K + 1 /\ (K + 1) + 1 .. K + 1 = {} /\ (K + 1) - 2 = t
        <5>1. K \in Nat /\ t \in Nat /\ t + 2 = K + 1
          BY <1>1, <2>2
        <5> HIDE DEF K
        <5> QED BY <5>1
      <4> QED BY <1>1, <2>3, <4>1 DEF EndsWith
    <3> QED BY <1>2, <1>6, <2>2, <3>1, <3>2 DEF Placed, PlaceInv
  <2>4. CASE c # "["
    <3>1. ReadComment(c)
      BY <2>1, <2>4 DEF ReadCommentStart
    <3>2. ASSUME NEW w \in Words, Extends(w, r) PROVE ~OpensLong(w, t + 2)
      <4>1. w[K + 1] = c
        <5>1. K + 1 \in 1 .. Len(r)
          BY <1>1
        <5> QED BY <1>1, <3>2, <5>1, ExtendsChars
      <4> QED BY <2>2, <2>4, <4>1, LongBegins DEF CharAt
    <3>3. \A j \in t + 2 .. Len(r) - 1 : r[j] # "\n"
      BY <1>1, <2>2
    <3>4. t + 2 <= Len(r)
      BY <1>1, <2>2
    <3>5. Placed(r)
      BY <1>0, <1>1, <2>2, <3>1, <3>2, <3>3, <3>4, CommentStep
    <3> QED BY <1>2, <1>6, <3>5
  <2> QED BY <2>3, <2>4
<1>7. CASE lexer = "comment"
  <2>1. PICK t \in Nat : InLine(src, t, depth)
    BY <1>7 DEF PlaceInv
  <2>2. ReadComment(c)
    BY <1>7 DEF Read
  <2>3. InComment(r, t, depth) /\ t + 2 <= Len(r)
    <3>1. Commented(src, t) /\ t + 1 <= K
      BY <1>0, <1>1, <2>1 DEF InLine, InComment, Commented, CharAt
    <3>2. InToken(r, t, depth)
      BY <1>0, <1>1, <2>1, ExtendToken DEF InLine, InComment
    <3>3. Commented(r, t)
      BY <1>0, <1>1, <3>1, ExtendsChars DEF Commented
    <3> QED BY <1>1, <3>1, <3>2, <3>3 DEF InComment
  <2>4. \A w \in Words : Extends(w, r) => ~OpensLong(w, t + 2)
    BY <1>0, <1>1, <2>1, ExtendsOrder DEF InLine
  <2>5. \A j \in t + 2 .. Len(r) - 1 : r[j] # "\n"
    <3> TAKE j \in t + 2 .. Len(r) - 1
    <3>1. j \in t + 2 .. K /\ j \in 1 .. K
      BY <1>1
    <3> QED BY <1>1, <2>1, <3>1 DEF InLine
  <2>6. Placed(r)
    BY <1>0, <1>1, <2>2, <2>3, <2>4, <2>5, CommentStep
  <2> QED BY <1>2, <1>7, <2>6
<1>8. CASE lexer \in {"bracket", "commentBracket"}
  <2> DEFINE b == K - layer
  <2>1. EndsWith(src, b, "[") /\ ReadBracket(c)
    BY <1>8 DEF PlaceInv, Read
  <2>2. /\ b \in 1 .. K /\ CharAt(r, b, "[") /\ \A j \in b + 1 .. K : CharAt(r, j, "=")
        /\ c = "[" => /\ BracketAt(r, b, "[", layer) /\ Closers(r, b) = {}
                      /\ MayClose(r, b, layer, Len(r) + 1)
        /\ c = "=" => EndsWith(r, Len(r) - (layer + 1), "[") /\ Len(r) - (layer + 1) = b
    BY <1>0, <2>1, BracketStep DEF r
  <2>3. b \in Nat /\ b < K + 1 /\ b + layer = K
    BY <1>0, <1>1, <2>2
  <2> HIDE DEF b
  <2>4. /\ lexer = "bracket" => InToken(r, b, depth)
        /\ lexer = "commentBracket" => InComment(r, b - 2, depth) /\ b - 2 \in Nat
    <3>1. CASE lexer = "bracket"
      <4>1. InToken(src, b, depth)
        BY <3>1 DEF PlaceInv, b
      <4> QED BY <1>0, <1>1, <3>1, <4>1, ExtendToken
    <3>2. CASE lexer = "commentBracket"
      <4>1. InComment(src, b - 2, depth)
        BY <3>2 DEF PlaceInv, b
      <4>2. b - 2 \in Nat /\ (b - 2) + 1 <= K /\ Commented(src, b - 2) /\ InToken(src, b - 2, depth)
        BY <1>1, <2>2, <4>1 DEF InComment
      <4>3. Commented(r, b - 2) /\ InToken(r, b - 2, depth)
        BY <1>0, <1>1, <4>2, ExtendsChars, ExtendToken DEF Commented
      <4> QED BY <3>2, <4>2, <4>3 DEF InComment
    <3> QED BY <1>8, <3>1, <3>2
  <2>5. CASE c = "["
    <3>1. lexer' = "long" /\ level' = layer /\ depth' = depth
      BY <2>1, <2>5 DEF ReadBracket
    <3>2. CASE lexer = "bracket"
      <4>1. LongAt(r, b, b, depth, layer)
        <5>1. b \in 1 .. Len(r)
          BY <1>1, <2>2
        <5> QED BY <2>2, <2>3, <2>4, <2>5, <3>2, <5>1 DEF LongAt
      <4>2. InLong(r, depth, layer, Len(r) + 1)
        BY <2>2, <2>3, <2>5, <4>1 DEF InLong
      <4> QED BY <1>2, <1>8, <3>1, <4>2 DEF Placed, PlaceInv
    <3>3. CASE lexer = "commentBracket"
      <4>1. LongAt(r, b - 2, b, depth, layer)
        <5>1. b - 2 \in 1 .. Len(r) /\ b = (b - 2) + 2
          <6>1. b - 2 \in 1 .. Len(r) + 1
            BY <2>4, <3>3 DEF InComment, InToken
          <6> QED BY <1>1, <2>2, <2>3, <6>1
        <5> QED BY <2>2, <2>3, <2>4, <2>5, <3>3, <5>1 DEF LongAt, InComment
      <4>2. InLong(r, depth, layer, Len(r) + 1)
        BY <2>2, <2>3, <2>4, <2>5, <3>3, <4>1 DEF InLong
      <4> QED BY <1>2, <1>8, <3>1, <4>2 DEF Placed, PlaceInv
    <3> QED BY <1>8, <3>2, <3>3
  <2>6. CASE c = "="
    <3>1. lexer' = lexer /\ layer' = layer + 1 /\ depth' = depth
      BY <2>1, <2>6 DEF ReadBracket
    <3>2. EndsWith(r, Len(r) - layer', "[") /\ Len(r) - layer' = b
      BY <2>2, <2>6, <3>1
    <3> QED BY <1>2, <1>8, <2>4, <3>1, <3>2 DEF Placed, PlaceInv
  <2>7. CASE c \notin {"[", "="} /\ lexer = "bracket"
    <3>1. ReadCode(c)
      BY <2>1, <2>7 DEF ReadBracket
    <3>2. InToken(r, Len(r), depth)
      <4>1. b < Len(r) /\ r[Len(r)] \notin {"[", "="} /\ \A j \in b + 1 .. Len(r) - 1 : CharAt(r, j, "=")
        BY <1>1, <2>2, <2>3, <2>7
      <4> QED BY <1>0, <1>1, <2>2, <2>3, <2>4, <2>7, <4>1, BracketRun
    <3>3. Placed(r)
      BY <1>0, <1>1, <3>1, <3>2, CodeStep
    <3> QED BY <1>2, <1>8, <3>3
  <2>8. CASE c \notin {"[", "="} /\ lexer = "commentBracket"
    <3>1. ReadComment(c)
      BY <2>1, <2>8 DEF ReadBracket
    <3> DEFINE t == b - 2
    <3>2. t \in Nat /\ InComment(r, t, depth) /\ t + 2 = b /\ t + 2 <= Len(r)
      BY <1>1, <2>3, <2>4, <2>8
    <3>3. ASSUME NEW w \in Words, Extends(w, r) PROVE ~OpensLong(w, b)
      <4>1. /\ K + 1 <= Len(w) /\ w[K + 1] = c
            /\ \A j \in b + 1 .. (K + 1) - 1 : CharAt(w, j, "=")
        <5>1. K + 1 \in 1 .. Len(r)
          BY <1>1
        <5>2. Len(w) >= K + 1 /\ w[K + 1] = c
          BY <1>1, <3>3, <5>1, ExtendsChars
        <5>3. \A j \in b + 1 .. (K + 1) - 1 : j \in b + 1 .. K /\ j \in Int /\ j <= Len(r)
          BY <1>1, <2>3
        <5> QED BY <1>1, <2>2, <3>3, <5>2, <5>3, ExtendsChars
      <4>2. K + 1 \in Nat
        BY <1>1
      <4> QED BY <2>3, <2>8, <4>1, <4>2, BrokenBracket
    <3>4. \A j \in t + 2 .. Len(r) - 1 : r[j] # "\n"
      <4> TAKE j \in t + 2 .. Len(r) - 1
      <4>1. j = b \/ j \in b + 1 .. K
        BY <1>1, <2>3
      <4> QED BY <2>2, <4>1 DEF CharAt
    <3> HIDE DEF t
    <3>5. Placed(r)
      BY <1>0, <1>1, <3>1, <3>2, <3>3, <3>4, CommentStep
    <3> QED BY <1>2, <1>8, <3>5
  <2> QED BY <1>8, <2>5, <2>6, <2>7, <2>8
<1>9. CASE lexer \in {"long", "closer"}
  <2> DEFINE e == IF lexer = "long" THEN K + 1 ELSE K - layer
  <2>1. PICK t, b \in Nat : LongAt(src, t, b, depth, level) /\ MayClose(src, b, level, e)
    BY <1>9 DEF PlaceInv, InLong
  <2>2. lexer = "closer" => EndsWith(src, K - layer, "]")
    BY <1>9 DEF PlaceInv
  <2>3. /\ lexer = "long" => ReadLong(c)
        /\ lexer = "closer" => ReadCloser(c)
    BY <1>9 DEF Read
  <2>4. e \in Nat /\ b + level + 1 <= K
    BY <1>1, <2>1 DEF MayClose, LongAt, BracketAt, CharAt
  <2> HIDE DEF e
  <2>5. \/ Poisoned(r)
        \/ LongAt(r, t, b, depth, level) /\ ~(e = K - level /\ c = "]" /\ EndsWith(src, e, "]"))
        \/ /\ e = K - level /\ c = "]" /\ EndsWith(src, e, "]")
           /\ InToken(r, Len(r) + 1, depth)
    BY <1>0, <2>1, LongStep DEF r
  <2>6. /\ c = "=" => MayClose(r, b, level, e)
        /\ c = "]" => MayClose(r, b, level, Len(r)) /\ EndsWith(r, Len(r), "]")
        /\ c # "]" /\ (e = K + 1 \/ c # "=") => MayClose(r, b, level, Len(r) + 1)
    BY <1>0, <2>1, <2>4, CloserStep DEF r
  <2>7. CASE Poisoned(r)
    BY <1>2, <1>9, <2>7 DEF Placed
  <2>8. CASE e = K - level /\ c = "]" /\ EndsWith(src, e, "]") /\ InToken(r, Len(r) + 1, depth)
    <3>1. lexer = "closer" /\ layer = level
      <4>1. e <= K
        BY <1>0, <1>1, <2>8
      <4>2. lexer = "closer" /\ e = K - layer
        BY <1>1, <1>9, <4>1 DEF e
      <4>3. K \in Nat /\ K - layer = K - level
        BY <1>1, <2>8, <4>2
      <4> HIDE DEF K
      <4> QED BY <1>0, <4>2, <4>3
    <3>2. lexer' = "code" /\ depth' = depth
      BY <2>3, <2>8, <3>1 DEF ReadCloser, Goto
    <3> QED BY <1>2, <1>9, <2>8, <3>2 DEF Placed, PlaceInv
  <2>9. CASE LongAt(r, t, b, depth, level) /\ ~(e = K - level /\ c = "]" /\ EndsWith(src, e, "]"))
    <3>1. CASE lexer = "long" /\ c = "]"
      <4>1. lexer' = "closer" /\ layer' = 0 /\ depth' = depth /\ level' = level
        BY <2>3, <3>1 DEF ReadLong, Open
      <4>2. Len(r) - 0 = Len(r)
        BY <1>1
      <4>3. EndsWith(r, Len(r), "]") /\ InLong(r, depth, level, Len(r))
        BY <2>6, <2>9, <3>1 DEF InLong
      <4> QED BY <1>2, <1>9, <4>1, <4>2, <4>3 DEF Placed, PlaceInv
    <3>2. CASE c # "]" /\ ~(lexer = "closer" /\ c = "=")
      <4>1. lexer' = "long" /\ depth' = depth /\ level' = level
        BY <1>9, <2>3, <3>2 DEF ReadLong, ReadCloser, Goto
      <4>2. e = K + 1 \/ c # "="
        BY <1>9, <3>2 DEF e
      <4>3. InLong(r, depth, level, Len(r) + 1)
        BY <2>6, <2>9, <3>2, <4>2 DEF InLong
      <4> QED BY <1>2, <1>9, <4>1, <4>3 DEF Placed, PlaceInv
    <3>3. CASE lexer = "closer" /\ c = "="
      <4>1. lexer' = "closer" /\ layer' = layer + 1 /\ depth' = depth /\ level' = level
        BY <2>3, <3>3 DEF ReadCloser
      <4>2. e = K - layer /\ Len(r) - (layer + 1) = e
        BY <1>0, <1>1, <3>3 DEF e
      <4>3. InLong(r, depth, level, e)
        BY <2>6, <2>9, <3>3 DEF InLong
      <4>4. EndsWith(r, e, "]")
        <5>1. e \in 1 .. K /\ src[e] = "]" /\ \A j \in e + 1 .. K : src[j] = "="
          BY <2>2, <3>3, <4>2 DEF EndsWith
        <5>2. e \in 1 .. K + 1 /\ \A j \in e + 1 .. K + 1 : j \in e + 1 .. K \/ j = K + 1
          BY <1>1, <5>1
        <5>3. \A j \in e + 1 .. K : j \in 1 .. K
          BY <1>1, <5>1
        <5> QED BY <1>1, <3>3, <5>1, <5>2, <5>3 DEF EndsWith
      <4> QED BY <1>2, <1>9, <4>1, <4>2, <4>3, <4>4 DEF Placed, PlaceInv
    <3>4. CASE lexer = "closer" /\ c = "]"
      <4>1. e = K - layer /\ EndsWith(src, e, "]") /\ layer # level
        BY <1>0, <1>1, <2>2, <2>9, <3>4 DEF e
      <4>2. lexer' = "long" /\ depth' = depth /\ level' = level
        BY <2>3, <3>4, <4>1 DEF ReadCloser, Goto
      <4>3. Spent(r, b, level, K + 1)
        <5>1. e >= b + level + 2 /\ (K + 1) - layer - 1 = e /\ e + layer + 1 = K + 1 /\ e + layer = K
          <6>1. K \in Nat /\ e >= b + level + 2 /\ e = K - layer
            BY <1>1, <2>1, <4>1 DEF MayClose
          <6> HIDE DEF K
          <6> QED BY <1>0, <6>1
        <5>2. BracketAt(r, e, "]", layer)
          <6>1. e \in 1 .. K /\ src[e] = "]" /\ \A j \in e + 1 .. K : src[j] = "="
            BY <4>1 DEF EndsWith
          <6>2. e \in 1 .. K + 1 /\ K + 1 \in 1 .. K + 1 /\ \A j \in e + 1 .. K : j \in 1 .. K /\ j \in 1 .. K + 1
            BY <1>1, <6>1
          <6> QED BY <1>1, <3>4, <5>1, <6>1, <6>2 DEF BracketAt, CharAt
        <5> QED BY <1>0, <4>1, <5>1, <5>2 DEF Spent
      <4>4. MayClose(r, b, level, Len(r) + 1)
        <5>1. \A i \in b + level + 2 .. Len(r) : i # Len(r) /\ EndsWith(r, i, "]") => Spent(r, b, level, i)
          BY <2>6, <3>4 DEF MayClose
        <5>2. Len(r) + 1 \in Nat /\ Len(r) + 1 >= b + level + 2
          BY <1>0, <1>1, <2>4
        <5> QED BY <1>1, <4>3, <5>1, <5>2 DEF MayClose
      <4>5. InLong(r, depth, level, Len(r) + 1)
        BY <2>9, <4>4 DEF InLong
      <4> QED BY <1>2, <1>9, <4>2, <4>5 DEF Placed, PlaceInv
    <3> QED BY <1>9, <3>1, <3>2, <3>3, <3>4
  <2> QED BY <2>5, <2>7, <2>8, <2>9
<1>10. CASE lexer \in {"string", "escape"}
  <2>1. PICK t \in Nat : StringAt(src, t, depth, quote) /\ (Escaped(src, K + 1, t) <=> lexer = "escape")
    BY <1>10 DEF PlaceInv
  <2> DEFINE escaped == Escaped(src, K + 1, t)
  <2>2. /\ ~escaped /\ c = "\n" => Poisoned(r)
        /\ ~escaped /\ c = quote => InToken(r, Len(r) + 1, depth)
        /\ escaped \/ c \notin {quote, "\n"} =>
             /\ StringAt(r, t, depth, quote)
             /\ Escaped(r, Len(r) + 1, t) <=> c = "\\" /\ ~escaped
    BY <1>0, <2>1, StringStep DEF r
  <2> HIDE DEF escaped
  <2>3. CASE ~escaped /\ c = "\n"
    BY <1>2, <1>10, <2>2, <2>3 DEF Placed
  <2>4. CASE ~escaped /\ c # "\n"
    <3>1. lexer = "string" /\ ReadString(c) /\ quote \in Quotes
      BY <1>10, <2>1, <2>4 DEF Read, StringAt, escaped
    <3>2. CASE c = quote
      <4>1. lexer' = "code" /\ depth' = depth
        BY <2>4, <3>1, <3>2, Characters DEF ReadString, Goto
      <4> QED BY <1>2, <1>10, <2>2, <2>4, <3>2, <4>1 DEF Placed, PlaceInv
    <3>3. CASE c # quote /\ c = "\\"
      <4>1. lexer' = "escape" /\ depth' = depth /\ quote' = quote
        BY <2>4, <3>1, <3>3 DEF ReadString, Goto
      <4> QED BY <1>2, <1>10, <2>2, <2>4, <3>3, <4>1 DEF Placed, PlaceInv
    <3>4. CASE c # quote /\ c # "\\"
      <4>1. lexer' = "string" /\ depth' = depth /\ quote' = quote
        BY <2>4, <3>1, <3>4 DEF ReadString, Goto
      <4> QED BY <1>2, <1>10, <2>2, <2>4, <3>4, <4>1 DEF Placed, PlaceInv
    <3> QED BY <3>2, <3>3, <3>4
  <2>5. CASE escaped
    <3>1. lexer = "escape"
      BY <2>1, <2>5 DEF escaped
    <3>2. lexer' = "string" /\ depth' = depth /\ quote' = quote
      BY <3>1 DEF Read, Goto
    <3> QED BY <1>2, <1>10, <2>2, <2>5, <3>2 DEF Placed, PlaceInv
  <2> QED BY <2>3, <2>4, <2>5
<1> QED BY <1>0, <1>3, <1>4, <1>5, <1>6, <1>7, <1>8, <1>9, <1>10 DEF Places

(* Every step preserves it. *)
LEMMA StepLexInv == LexInv /\ [LexNext]_lexVars => LexInv'
<1> SUFFICES ASSUME LexInv, [LexNext]_lexVars PROVE LexInv'
  OBVIOUS
<1>1. CASE UNCHANGED lexVars
  BY <1>1 DEF LexInv, LexTypeInv, lexVars
<1>2. CASE LexNext
  <2>1. ~LexDone /\ LexTypeInv
    BY <1>2 DEF LexNext, LexInv
  <2>2. PICK c \in Alphabet : Read(c)
    <3>1. PICK c \in input.chars \cup IF lexer = "name" THEN {OpenBrace} ELSE {} : Read(c)
      BY <1>2 DEF LexNext
    <3>2. input \in Inputs /\ (c \in input.chars \/ c = OpenBrace)
      BY <3>1 DEF LexInv, LexTypeInv
    <3>3. c \in Alphabet
      <4>1. input.chars \in {i.chars : i \in Inputs}
        BY <3>2
      <4> QED BY <3>2, <4>1 DEF Alphabet
    <3> QED BY <3>1, <3>3
  <2>3. LexTypeInv'
    BY <2>1, <2>2, StepLexType
  <2>4. Placed(src')
    <3>1. CASE Poisoned(src)
      <4>1. src' = src \/ src' = Append(src, c)
        BY <2>2 DEF Read
      <4>2. Poisoned(src')
        BY <2>1, <3>1, <4>1, PoisonStays DEF LexTypeInv
      <4> QED BY <4>2 DEF Placed
    <3>2. CASE PlaceInv(src, lexer, depth, level, layer, quote)
      BY <2>1, <2>2, <3>2, ReadStep
    <3> QED BY <3>1, <3>2 DEF LexInv
  <2> QED BY <2>3, <2>4 DEF LexInv, Placed
<1> QED BY <1>1, <1>2
(* No token that closes a brace has started from t on, as none has ended.     *)
LEMMA NothingAfter ==
  ASSUME NEW s \in Words, NEW t \in Nat, NEW d \in Nat, InToken(s, t, d),
         t <= Len(s) => s[t] # CloseBrace /\ AfterToken(s, t) > Len(s)
  PROVE  ~EndsInLua(s, TokenStarts(s))
<1>0. t \in Boundaries(s) /\ Len(s) \in Nat
  BY ExtendsOrder, WordType DEF InToken, Settled
<1>1. ASSUME NEW i \in TokenStarts(s), i >= t PROVE s[i] # CloseBrace
  <2>1. i \in Boundaries(s) /\ i \in Nat /\ i <= Len(s)
    BY WordType DEF TokenStarts
  <2>2. CASE i = t
    BY <2>1, <2>2
  <2>3. CASE i > t
    <3>1. i >= AfterToken(s, t)
      BY <1>0, <2>1, <2>3, Gap
    <3>2. t \in 1 .. Len(s)
      BY <1>0, <2>1, <2>3, BoundaryType
    <3>3. AfterToken(s, t) \in Nat
      BY <3>2, TokenHasLength
    <3> QED BY <1>0, <2>1, <2>3, <3>1, <3>3
  <2> QED BY <1>1, <2>1, <2>2, <2>3
<1> QED BY <1>1, NotOver

(* The invariant says when the script is over. *)
LEMMA LexInvEnds == LexInv => ScriptEndsWhereLuaSays
<1> SUFFICES ASSUME LexInv,
                    \A i \in TokenStarts(src) : ~SharedCloser(src, i) /\ ~BrokenString(src, i)
             PROVE  lexer = "closed" <=> EndsInLua(src, TokenStarts(src))
  BY DEF ScriptEndsWhereLuaSays
<1> DEFINE K == Len(src)
<1>0. /\ src \in Words /\ lexer \in Places /\ depth \in Nat /\ level \in Nat /\ layer \in Nat
      /\ K \in Nat /\ DOMAIN src = 1 .. K /\ Extends(src, src)
  BY WordType, ExtendsOrder DEF LexInv, LexTypeInv
<1>1. PlaceInv(src, lexer, depth, level, layer, quote)
  <2>1. ASSUME Poisoned(src) PROVE FALSE
    <3>1. PICK t \in 1 .. K : t \in Boundaries(src) /\ (BrokenString(src, t) \/ SharedCloser(src, t))
      BY <1>0, <2>1 DEF Poisoned, Settled
    <3>2. t \in TokenStarts(src)
      BY <1>0, <3>1 DEF TokenStarts
    <3> QED BY <3>1, <3>2
  <2> QED BY <2>1 DEF LexInv
<1>2. CASE lexer = "closed"
  BY <1>1, <1>2 DEF PlaceInv
<1>3. CASE lexer \in {"name", "failed"}
  BY <1>1, <1>3, NothingRead DEF PlaceInv
<1>4. CASE lexer = "code"
  <2>1. InToken(src, K + 1, depth) /\ K + 1 \in Nat /\ ~(K + 1 <= K)
    BY <1>0, <1>1, <1>4 DEF PlaceInv
  <2> QED BY <1>0, <1>4, <2>1, NothingAfter
<1>5. CASE lexer = "dash"
  <2>1. InToken(src, K, depth) /\ K \in 1 .. K /\ src[K] = "-"
    BY <1>1, <1>5 DEF PlaceInv, EndsWith
  <2>2. AfterToken(src, K) > K
    BY <1>0, <2>1, TokenHasLength
  <2>3. src[K] # CloseBrace
    BY <2>1, Characters
  <2> QED BY <1>0, <1>5, <2>1, <2>2, <2>3, NothingAfter
<1>6. ASSUME NEW t \in Nat, InComment(src, t, depth), ~OpensLong(src, t + 2),
             \A j \in t + 2 .. K : src[j] # "\n"
      PROVE  ~EndsInLua(src, TokenStarts(src))
  <2>1. AfterToken(src, t) = K + 2
    BY <1>0, <1>6, LineToken DEF InComment
  <2>2. src[t] # CloseBrace
    BY <1>6, Characters DEF InComment, Commented, CharAt
  <2>3. InToken(src, t, depth) /\ AfterToken(src, t) > K
    BY <1>0, <1>6, <2>1 DEF InComment
  <2> QED BY <1>0, <2>2, <2>3, NothingAfter
<1>7. CASE lexer = "comment?"
  <2>1. InComment(src, K - 1, depth) /\ K - 1 \in Nat
    BY <1>1, <1>7 DEF PlaceInv, InComment
  <2>2. ~OpensLong(src, (K - 1) + 2)
    <3>1. ~((K - 1) + 2 \in DOMAIN src)
      BY <1>0
    <3> QED BY <1>0, <3>1, LongBegins DEF CharAt
  <2>3. (K - 1) + 2 .. K = {}
    BY <1>0
  <2> QED BY <1>6, <1>7, <2>1, <2>2, <2>3
<1>8. CASE lexer = "comment"
  <2>1. PICK t \in Nat : InLine(src, t, depth)
    BY <1>1, <1>8 DEF PlaceInv
  <2> QED BY <1>0, <1>6, <1>8, <2>1 DEF InLine
<1>9. CASE lexer \in {"bracket", "commentBracket"}
  <2> DEFINE b == K - layer
  <2>1. EndsWith(src, b, "[")
    BY <1>1, <1>9 DEF PlaceInv
  <2> HIDE DEF b
  <2>2. b \in 1 .. K /\ src[b] = "[" /\ (\A j \in b + 1 .. K : src[j] = "=") /\ b \in Nat
    BY <1>0, <2>1 DEF EndsWith
  <2>3. CASE lexer = "bracket"
    <3>1. InToken(src, b, depth)
      BY <1>1, <2>3 DEF PlaceInv, b
    <3>2. ASSUME NEW i \in TokenStarts(src), i >= b PROVE src[i] # CloseBrace
      <4>1. i = b \/ i \in b + 1 .. K
        BY <1>0, <2>2, <3>2 DEF TokenStarts
      <4> QED BY <2>2, <4>1, Characters
    <3> QED BY <1>0, <2>3, <3>1, <3>2, NotOver
  <2>4. CASE lexer = "commentBracket"
    <3>1. InComment(src, b - 2, depth) /\ b - 2 \in Nat
      BY <1>1, <2>4 DEF PlaceInv, InComment, b
    <3>2. ~OpensLong(src, b)
      <4> SUFFICES ASSUME NEW n \in 0 .. Len(src), BracketAt(src, b, "[", n) PROVE FALSE
        BY DEF OpensLong
      <4>1. b + n + 1 \in 1 .. K /\ src[b + n + 1] = "["
        BY <1>0 DEF BracketAt, CharAt
      <4>2. b + n + 1 \in b + 1 .. K
        BY <1>0, <2>2, <4>1
      <4> QED BY <2>2, <4>1, <4>2
    <3>3. (b - 2) + 2 = b /\ \A j \in b .. K : src[j] # "\n"
      <4>1. \A j \in b .. K : j = b \/ j \in b + 1 .. K
        BY <1>0, <2>2
      <4> QED BY <2>2, <4>1
    <3> QED BY <1>6, <2>4, <3>1, <3>2, <3>3
  <2> QED BY <1>9, <2>3, <2>4
<1>10. CASE lexer \in {"long", "closer"}
  <2>1. PICK t, b \in Nat : LongAt(src, t, b, depth, level)
    BY <1>1, <1>10 DEF PlaceInv, InLong
  <2>2. AfterLong(src, b) = K + 1 /\ OpensLong(src, b)
    BY <1>0, <2>1, LongToken DEF LongAt
  <2>3. CharAt(src, t, "[") \/ Commented(src, t)
    BY <2>1 DEF LongAt, BracketAt
  <2>4. CASE b = t /\ ~Commented(src, t)
    <3>1. AfterToken(src, t) = K + 1 /\ src[t] # CloseBrace
      BY <2>2, <2>3, <2>4, Characters DEF AfterToken, CharAt
    <3> QED BY <1>0, <1>10, <2>1, <3>1, NothingAfter DEF LongAt
  <2>5. CASE b = t + 2 /\ Commented(src, t)
    <3>1. AfterToken(src, t) = K + 1 /\ src[t] # CloseBrace
      BY <2>2, <2>5, Characters DEF AfterToken, Commented, CharAt
    <3> QED BY <1>0, <1>10, <2>1, <3>1, NothingAfter DEF LongAt
  <2>6. CASE b = t /\ Commented(src, t)
    BY <2>1, <2>6 DEF LongAt, BracketAt, Commented, CharAt
  <2> QED BY <2>1, <2>4, <2>5, <2>6 DEF LongAt
<1>11. CASE lexer \in {"string", "escape"}
  <2>1. PICK t \in Nat : StringAt(src, t, depth, quote)
    BY <1>1, <1>11 DEF PlaceInv
  <2>2. /\ t \in 1 .. K /\ InToken(src, t, depth) /\ src[t] \in Quotes
        /\ \A i \in t + 1 .. K : src[i] \in {src[t], "\n"} => Escaped(src, i, t)
    BY <2>1 DEF StringAt
  <2>3. AfterToken(src, t) = K + 2 /\ src[t] # CloseBrace
    BY <1>0, <2>2, StringToken, Characters
  <2> QED BY <1>0, <1>11, <2>2, <2>3, NothingAfter
<1> QED BY <1>0, <1>2, <1>3, <1>4, <1>5, <1>7, <1>8, <1>9, <1>10, <1>11 DEF Places

(* Scripts end where Lua says, whatever they contain and however long they are. *)
THEOREM ScriptEnds == LexSpec => []ScriptEndsWhereLuaSays
<1>1. LexSpec => []LexInv
  BY InitLexInv, StepLexInv, PTL DEF LexSpec
<1> QED BY <1>1, LexInvEnds, PTL

-----------------------------------------------------------------------------
(* Environments. *)

SameSteps(N, f, h) ==
  h[0] = f[0] /\ \A n \in 1 .. N : h[n - 1] = f[n - 1] => h[n] = f[n]

(* Two computations agree if each step of one is the other's. *)
LEMMA SameComputation ==
  ASSUME NEW N \in Nat, NEW f, NEW h, SameSteps(N, f, h)
  PROVE  \A n \in 0 .. N : h[n] = f[n]
<1>0. h[0] = f[0] /\ \A n \in 1 .. N : h[n - 1] = f[n - 1] => h[n] = f[n]
  BY DEF SameSteps
<1> DEFINE S == {n \in Nat : n <= N => h[n] = f[n]}
<1>1. 0 \in S
  BY <1>0
<1>2. \A n \in Nat : n \in S => n + 1 \in S
  <2> SUFFICES ASSUME NEW n \in Nat, n \in S, n + 1 <= N PROVE h[n + 1] = f[n + 1]
    OBVIOUS
  <2>1. n + 1 \in 1 .. N /\ (n + 1) - 1 = n /\ h[n] = f[n]
    OBVIOUS
  <2> QED BY <1>0, <2>1
<1> HIDE DEF S
<1>3. Nat \subseteq S
  BY <1>1, <1>2, NatSetInduction
<1> QED BY <1>3 DEF S

(* f is what a loop computes as in Follows, but for its values: the n-th one  *)
(* is in W[n].                                                                *)
Computes(f, W, b, N, g) ==
  /\ f = [n \in 0 .. N |-> f[n]] /\ \A n \in 0 .. N : f[n] \in W[n]
  /\ f[0] = b /\ \A n \in 1 .. N : f[n] = g[n][f[n - 1]]

Steps(W, N, g) == \A n \in 1 .. N : g[n] \in [W[n - 1] -> W[n]]

(* There is such a computation. *)
LEMMA ComputationExists ==
  ASSUME NEW N \in Nat, NEW W, NEW b \in W[0], NEW g, Steps(W, N, g)
  PROVE  \E f : Computes(f, W, b, N, g)
<1>0. \A n \in 1 .. N : g[n] \in [W[n - 1] -> W[n]]
  BY DEF Steps
<1> DEFINE Good(f, m) == /\ \A n \in 0 .. m : f[n] \in W[n]
                         /\ f[0] = b /\ \A n \in 1 .. m : f[n] = g[n][f[n - 1]]
           S == {m \in Nat : m <= N => \E f : Good(f, m)}
<1>1. 0 \in S
  <2> DEFINE f == [n \in 0 .. 0 |-> b]
  <2>1. f[0] = b /\ 1 .. 0 = {} /\ \A n \in 0 .. 0 : n = 0
    OBVIOUS
  <2>2. Good(f, 0)
    <3> HIDE DEF f
    <3> QED BY <2>1
  <2> HIDE DEF Good
  <2> QED BY <2>2
<1>2. \A m \in Nat : m \in S => m + 1 \in S
  <2> SUFFICES ASSUME NEW m \in Nat, m \in S, m + 1 <= N PROVE \E f : Good(f, m + 1)
    <3> HIDE DEF Good
    <3> QED OBVIOUS
  <2>1. PICK f : Good(f, m)
    <3> HIDE DEF Good
    <3> QED OBVIOUS
  <2> DEFINE h == [n \in 0 .. m + 1 |-> IF n <= m THEN f[n] ELSE g[m + 1][f[m]]]
  <2>2. (\A n \in 0 .. m : h[n] = f[n]) /\ h[m + 1] = g[m + 1][f[m]]
    OBVIOUS
  <2>3. f[m] \in W[m] /\ m + 1 \in 1 .. N /\ (m + 1) - 1 = m
    BY <2>1
  <2>4. g[m + 1][f[m]] \in W[m + 1]
    <3>1. g[m + 1] \in [W[m] -> W[m + 1]]
      BY <1>0, <2>3
    <3> QED BY <2>3, <3>1
  <2> HIDE DEF h
  <2>5. \A n \in 0 .. m + 1 : h[n] \in W[n]
    BY <2>1, <2>2, <2>4
  <2>6. \A n \in 1 .. m + 1 : h[n] = g[n][h[n - 1]]
    <3> TAKE n \in 1 .. m + 1
    <3>1. CASE n <= m
      <4>1. n \in 1 .. m /\ n \in 0 .. m /\ n - 1 \in 0 .. m
        BY <3>1
      <4> QED BY <2>1, <2>2, <4>1
    <3>2. CASE n = m + 1
      <4>1. n - 1 = m /\ m \in 0 .. m
        BY <3>2
      <4> QED BY <2>2, <3>2, <4>1
    <3> QED BY <3>1, <3>2
  <2>7. h[0] = b
    BY <2>1, <2>2
  <2>8. Good(h, m + 1)
    BY <2>5, <2>6, <2>7
  <2> HIDE DEF Good
  <2> QED BY <2>8
<1>3. N \in S
  <2> HIDE DEF S
  <2> QED BY <1>1, <1>2, NatSetInduction
<1>4. PICK f : Good(f, N)
  BY <1>3
<1> DEFINE h == [n \in 0 .. N |-> f[n]]
<1>5. \A n \in 0 .. N : h[n] = f[n]
  OBVIOUS
<1>6. h = [n \in 0 .. N |-> h[n]]
  OBVIOUS
<1> HIDE DEF h
<1>7. \A n \in 1 .. N : n \in 0 .. N /\ n - 1 \in 0 .. N
  OBVIOUS
<1>8. Good(h, N)
  BY <1>4, <1>5, <1>7
<1> QED BY <1>6, <1>8 DEF Computes

(* What Values says of values with more objects within each other. *)
Deeper(values) == [leaf : Leaves] \cup {NoValue} \cup [map : [Keys -> values]]

Flat == [leaf : Leaves] \cup {NoValue}

(* Values are what its definition says. *)
LEMMA ValuesDef ==
  Values[0] = Flat /\ \A n \in 1 .. Nesting : Values[n] = Deeper(Values[n - 1])
<1> DEFINE Is(f, m) == f = [n \in 0 .. m |-> [leaf : Leaves] \cup {NoValue} \cup
                                   IF n = 0 THEN {} ELSE [map : [Keys -> f[n - 1]]]]
           S == {m \in Nat : \E f : Is(f, m)}
<1>0. Nesting \in Nat
  BY EnvAssumption
<1>1. 0 \in S
  <2> DEFINE f == [n \in 0 .. 0 |-> Flat]
  <2>1. Is(f, 0)
    BY DEF Flat
  <2> HIDE DEF Is
  <2> QED BY <2>1
<1>2. \A m \in Nat : m \in S => m + 1 \in S
  <2> SUFFICES ASSUME NEW m \in Nat, m \in S PROVE \E f : Is(f, m + 1)
    <3> HIDE DEF Is
    <3> QED OBVIOUS
  <2>1. PICK f : Is(f, m)
    <3> HIDE DEF Is
    <3> QED OBVIOUS
  <2> DEFINE h == [n \in 0 .. m + 1 |-> IF n <= m THEN f[n] ELSE Deeper(f[m])]
  <2>2. (\A n \in 0 .. m : h[n] = f[n]) /\ h[m + 1] = Deeper(f[m])
    OBVIOUS
  <2>3. \A n \in 0 .. m + 1 : h[n] = [leaf : Leaves] \cup {NoValue} \cup
                                   IF n = 0 THEN {} ELSE [map : [Keys -> h[n - 1]]]
    <3> HIDE DEF h
    <3> TAKE n \in 0 .. m + 1
    <3>1. CASE n <= m
      <4>1. n \in 0 .. m /\ (n # 0 => n - 1 \in 0 .. m)
        BY <3>1
      <4>2. f[n] = [leaf : Leaves] \cup {NoValue} \cup
                     IF n = 0 THEN {} ELSE [map : [Keys -> f[n - 1]]]
        BY <2>1, <4>1
      <4> QED BY <2>2, <4>1, <4>2
    <3>2. CASE n = m + 1
      <4>1. n - 1 = m /\ m \in 0 .. m /\ n # 0
        BY <3>2
      <4> QED BY <2>2, <3>2, <4>1 DEF Deeper
    <3> QED BY <3>1, <3>2
  <2>4. h = [n \in 0 .. m + 1 |-> h[n]]
    OBVIOUS
  <2>5. Is(h, m + 1)
    <3> HIDE DEF h
    <3> QED BY <2>3, <2>4
  <2> HIDE DEF Is
  <2> QED BY <2>5
<1>3. \E f : Is(f, Nesting)
  <2>1. Nesting \in S
    <3> HIDE DEF S
    <3> QED BY <1>0, <1>1, <1>2, NatSetInduction
  <2> HIDE DEF Is
  <2> QED BY <2>1
<1>4. Is(Values, Nesting)
  BY <1>3 DEF Values
<1>5. \A n \in 0 .. Nesting : Values[n] = [leaf : Leaves] \cup {NoValue} \cup
                                   IF n = 0 THEN {} ELSE [map : [Keys -> Values[n - 1]]]
  <2> HIDE DEF S
  <2> QED BY <1>4
<1> HIDE DEF Is
<1>6. Values[0] = Flat
  BY <1>0, <1>5 DEF Flat
<1>7. \A n \in 1 .. Nesting : Values[n] = Deeper(Values[n - 1])
  BY <1>0, <1>5 DEF Deeper
<1> QED BY <1>6, <1>7

(* A value is one of three. *)
LEMMA Kinds ==
  ASSUME NEW n \in 0 .. Nesting, NEW v \in Values[n]
  PROVE  /\ IsMap(v) => n # 0 /\ v = [map |-> v.map] /\ v.map \in Objects(n - 1)
         /\ IsMap(v) => v # NoValue
<1>0. Nesting \in Nat
  BY EnvAssumption
<1>1. \A w \in Flat : ~IsMap(w)
  BY DEF Flat, IsMap, NoValue
<1>2. CASE n = 0
  BY <1>1, <1>2, ValuesDef
<1>3. CASE n # 0
  <2>1. n \in 1 .. Nesting /\ v \in Deeper(Values[n - 1])
    BY <1>0, <1>3, ValuesDef
  <2>2. CASE v \in Flat
    BY <1>1, <2>2
  <2>3. CASE v \in [map : [Keys -> Values[n - 1]]]
    BY <1>3, <2>3 DEF Objects, NoValue
  <2> QED BY <2>1, <2>2, <2>3 DEF Deeper, Flat
<1> QED BY <1>2, <1>3

(* The object f as a value. *)
LEMMA MapOf ==
  ASSUME NEW f
  PROVE  IsMap([map |-> f]) /\ [map |-> f].map = f /\ [map |-> f] # NoValue /\ ~IsMap(NoValue)
BY DEF IsMap, NoValue

(* An object of objects is a value. *)
LEMMA MapValue ==
  ASSUME NEW n \in 0 .. Nesting, n # 0, NEW f \in Objects(n - 1)
  PROVE  [map |-> f] \in Values[n]
<1>1. n \in 1 .. Nesting
  BY EnvAssumption
<1> QED BY <1>1, ValuesDef DEF Deeper, Objects

(* Nothing is a value, and no object of none. *)
LEMMA NothingValue ==
  ASSUME NEW n \in 0 .. Nesting
  PROVE  NoValue \in Values[n] /\ NoFields \in Objects(n)
<1>1. NoValue \in Values[n]
  <2>1. n = 0 \/ n \in 1 .. Nesting
    BY EnvAssumption
  <2> QED BY <2>1, ValuesDef DEF Flat, Deeper
<1> QED BY <1>1 DEF NoFields, Objects

(* Objects that are nested less are values too. *)
LEMMA ValuesGrow ==
  ASSUME NEW n \in 0 .. Nesting, NEW m \in n .. Nesting
  PROVE  Values[n] \subseteq Values[m] /\ Objects(n) \subseteq Objects(m)
<1>0. Nesting \in Nat
  BY EnvAssumption
<1> DEFINE S == {k \in Nat : k + 1 <= Nesting => Values[k] \subseteq Values[k + 1]}
<1>1. 0 \in S
  BY ValuesDef DEF Flat, Deeper
<1>2. \A k \in Nat : k \in S => k + 1 \in S
  <2> SUFFICES ASSUME NEW k \in Nat, k \in S, k + 2 <= Nesting
               PROVE  Values[k + 1] \subseteq Values[k + 2]
    BY <1>0
  <2>1. Values[k] \subseteq Values[k + 1]
    BY <1>0
  <2>2. Values[k + 1] = Deeper(Values[k]) /\ Values[k + 2] = Deeper(Values[k + 1])
    <3>1. /\ k + 1 \in 1 .. Nesting /\ (k + 1) - 1 = k
          /\ k + 2 \in 1 .. Nesting /\ (k + 2) - 1 = k + 1
      BY <1>0
    <3> QED BY <3>1, ValuesDef
  <2>3. [Keys -> Values[k]] \subseteq [Keys -> Values[k + 1]]
    BY <2>1
  <2>4. [map : [Keys -> Values[k]]] \subseteq [map : [Keys -> Values[k + 1]]]
    BY <2>3
  <2> QED BY <2>2, <2>4 DEF Deeper
<1> HIDE DEF S
<1>3. Nat \subseteq S
  BY <1>1, <1>2, NatSetInduction
<1> DEFINE T == {d \in Nat : n + d <= Nesting => Values[n] \subseteq Values[n + d]}
<1>4. 0 \in T
  OBVIOUS
<1>5. \A d \in Nat : d \in T => d + 1 \in T
  <2> SUFFICES ASSUME NEW d \in Nat, d \in T, n + (d + 1) <= Nesting
               PROVE  Values[n] \subseteq Values[n + (d + 1)]
    OBVIOUS
  <2>1. n + d \in S /\ n + d \in Nat /\ (n + d) + 1 = n + (d + 1) /\ n + d <= Nesting
    BY <1>0, <1>3
  <2>2. Values[n + d] \subseteq Values[n + (d + 1)]
    BY <2>1 DEF S
  <2>3. Values[n] \subseteq Values[n + d]
    BY <2>1
  <2> QED BY <2>2, <2>3
<1> HIDE DEF T
<1>6. m - n \in T /\ n + (m - n) = m /\ m <= Nesting
  BY <1>0, <1>4, <1>5, NatSetInduction
<1>7. Values[n] \subseteq Values[m]
  BY <1>6 DEF T
<1> QED BY <1>7 DEF Objects

(* What merge computes one object further up, in the definition of DeepMerge. *)
MergeStep(n, inner) ==
  [m \in Objects(n) |-> [i \in Objects(n) |->
     [k \in Keys |->
        IF i[k] = NoValue THEN m[k]
        ELSE IF IsMap(m[k]) /\ IsMap(i[k])
             THEN [map |-> inner[m[k].map][i[k].map]]
             ELSE i[k]]]]

IsMerge(f) == f = [n \in 0 .. Nesting |-> MergeStep(n, f[n - 1])]

merge == CHOOSE f : IsMerge(f)

Merges(n) == [Objects(n) -> [Objects(n) -> Objects(n)]]

(* Without objects in the fields nothing further down is asked.               *)
LEMMA MergeFlat ==
  ASSUME NEW f, NEW h
  PROVE  MergeStep(0, f) = MergeStep(0, h) /\ MergeStep(0, f) \in Merges(0)
<1>0. 0 \in 0 .. Nesting
  BY EnvAssumption
<1>1. \A m \in Objects(0), k \in Keys : m[k] \in Values[0] /\ ~IsMap(m[k])
  <2> TAKE m \in Objects(0), k \in Keys
  <2>1. m[k] \in Values[0]
    BY DEF Objects
  <2> QED BY <1>0, <2>1, Kinds
<1> DEFINE flat == [m \in Objects(0) |-> [i \in Objects(0) |->
                      [k \in Keys |-> IF i[k] = NoValue THEN m[k] ELSE i[k]]]]
<1>2. \A g : MergeStep(0, g) = flat
  BY <1>1 DEF MergeStep
<1>3. flat \in Merges(0)
  <2>1. \A m, i \in Objects(0) : [k \in Keys |-> IF i[k] = NoValue THEN m[k] ELSE i[k]] \in Objects(0)
    BY <1>1 DEF Objects
  <2> QED BY <2>1 DEF Merges
<1> QED BY <1>2, <1>3

(* Merging objects of objects gives one. *)
LEMMA MergeStepType ==
  ASSUME NEW n \in 1 .. Nesting, NEW f \in Merges(n - 1)
  PROVE  MergeStep(n, f) \in Merges(n)
<1>0. n \in 0 .. Nesting /\ n # 0
  BY EnvAssumption
<1>1. ASSUME NEW m \in Objects(n), NEW i \in Objects(n), NEW k \in Keys
      PROVE  (IF i[k] = NoValue THEN m[k]
              ELSE IF IsMap(m[k]) /\ IsMap(i[k])
                   THEN [map |-> f[m[k].map][i[k].map]]
                   ELSE i[k]) \in Values[n]
  <2>1. m[k] \in Values[n] /\ i[k] \in Values[n]
    BY DEF Objects
  <2>2. CASE IsMap(m[k]) /\ IsMap(i[k])
    <3>1. m[k].map \in Objects(n - 1) /\ i[k].map \in Objects(n - 1) /\ i[k] # NoValue
      BY <1>0, <2>1, <2>2, Kinds
    <3>2. f[m[k].map][i[k].map] \in Objects(n - 1)
      BY <3>1 DEF Merges
    <3>3. [map |-> f[m[k].map][i[k].map]] \in Values[n]
      BY <1>0, <3>2, MapValue
    <3> QED BY <2>2, <3>1, <3>3
  <2> QED BY <2>1, <2>2
<1>2. \A m, i \in Objects(n) :
        [k \in Keys |-> IF i[k] = NoValue THEN m[k]
                        ELSE IF IsMap(m[k]) /\ IsMap(i[k])
                             THEN [map |-> f[m[k].map][i[k].map]]
                             ELSE i[k]] \in Objects(n)
  BY <1>1 DEF Objects
<1> QED BY <1>2 DEF Merges, MergeStep

(* There is a merge, as its definition says. *)
LEMMA MergeDef ==
  /\ \A n \in 0 .. Nesting : merge[n] = MergeStep(n, merge[n - 1]) /\ merge[n] \in Merges(n)
  /\ \A m, i : DeepMerge(m, i) = merge[Nesting][m][i]
<1>0. Nesting \in Nat
  BY EnvAssumption
<1> DEFINE W == [n \in 0 .. Nesting |-> Merges(n)]
           b == MergeStep(0, <<>>)
           g == [n \in 1 .. Nesting |-> [f \in Merges(n - 1) |-> MergeStep(n, f)]]
<1>1. \A n \in 1 .. Nesting : g[n] \in [W[n - 1] -> W[n]]
  <2> TAKE n \in 1 .. Nesting
  <2>1. n - 1 \in 0 .. Nesting /\ n \in 0 .. Nesting
    BY <1>0
  <2>2. W[n - 1] = Merges(n - 1) /\ W[n] = Merges(n)
    BY <2>1
  <2>3. g[n] = [f \in Merges(n - 1) |-> MergeStep(n, f)]
    OBVIOUS
  <2>4. \A f \in Merges(n - 1) : MergeStep(n, f) \in Merges(n)
    BY MergeStepType
  <2> HIDE DEF W, g
  <2> QED BY <2>2, <2>3, <2>4
<1>2. b \in W[0]
  BY <1>0, MergeFlat
<1>3. PICK f : Computes(f, W, b, Nesting, g)
  <2> HIDE DEF W, b, g
  <2> QED BY <1>0, <1>1, <1>2, ComputationExists DEF Steps
<1>4. \A n \in 0 .. Nesting : f[n] = MergeStep(n, f[n - 1])
  <2> TAKE n \in 0 .. Nesting
  <2>1. CASE n = 0
    BY <1>3, <2>1, MergeFlat DEF Computes
  <2>2. CASE n # 0
    <3>1. n \in 1 .. Nesting /\ n - 1 \in 0 .. Nesting
      BY <1>0, <2>2
    <3>2. f[n - 1] \in Merges(n - 1) /\ f[n] = g[n][f[n - 1]]
      <4>1. f[n - 1] \in W[n - 1] /\ f[n] = g[n][f[n - 1]]
        <5> HIDE DEF W, b, g
        <5> QED BY <1>3, <3>1 DEF Computes
      <4> QED BY <3>1, <4>1
    <3>3. g[n] = [h \in Merges(n - 1) |-> MergeStep(n, h)]
      BY <3>1
    <3> HIDE DEF g
    <3> QED BY <3>2, <3>3
  <2> QED BY <2>1, <2>2
<1>5. IsMerge(f)
  <2> HIDE DEF W, b, g
  <2>1. [n \in 0 .. Nesting |-> f[n]] = [n \in 0 .. Nesting |-> MergeStep(n, f[n - 1])]
    BY <1>4
  <2> QED BY <1>3, <2>1 DEF IsMerge, Computes
<1>6. IsMerge(merge)
  BY <1>5 DEF merge
<1>7. \A n \in 0 .. Nesting : merge[n] = MergeStep(n, merge[n - 1])
  BY <1>6 DEF IsMerge
<1>8. \A n \in 0 .. Nesting : merge[n] \in Merges(n)
  <2> DEFINE S == {n \in Nat : n <= Nesting => merge[n] \in Merges(n)}
  <2>1. 0 \in S
    BY <1>0, <1>7, MergeFlat
  <2>2. \A n \in Nat : n \in S => n + 1 \in S
    <3> SUFFICES ASSUME NEW n \in Nat, n \in S, n + 1 <= Nesting
                 PROVE  merge[n + 1] \in Merges(n + 1)
      OBVIOUS
    <3>1. n + 1 \in 1 .. Nesting /\ n + 1 \in 0 .. Nesting /\ (n + 1) - 1 = n /\ merge[n] \in Merges(n)
      BY <1>0
    <3>2. merge[n + 1] = MergeStep(n + 1, merge[n])
      BY <1>7, <3>1
    <3> QED BY <3>1, <3>2, MergeStepType
  <2> HIDE DEF S
  <2>3. Nat \subseteq S
    BY <2>1, <2>2, NatSetInduction
  <2> QED BY <1>0, <2>3 DEF S
<1>9. \A m, i : DeepMerge(m, i) = merge[Nesting][m][i]
  BY DEF DeepMerge, merge, IsMerge, MergeStep
<1> QED BY <1>7, <1>8, <1>9

(* How deep the objects may be nested makes no difference to their merge. *)
LEMMA MergeLevels ==
  ASSUME NEW n \in 0 .. Nesting
  PROVE  \A e \in n .. Nesting : \A m, i \in Objects(n) : merge[e][m][i] = merge[n][m][i]
<1>0. Nesting \in Nat
  BY EnvAssumption
<1> DEFINE Same(d) == \A e \in d .. Nesting : \A m, i \in Objects(d) : merge[e][m][i] = merge[d][m][i]
           S == {d \in Nat : d <= Nesting => Same(d)}
           Field(f, m, i, k) == IF i[k] = NoValue THEN m[k]
                                ELSE IF IsMap(m[k]) /\ IsMap(i[k])
                                     THEN [map |-> f[m[k].map][i[k].map]]
                                     ELSE i[k]
<1>1. ASSUME NEW e \in 0 .. Nesting, NEW d \in 0 .. e, NEW m \in Objects(d), NEW i \in Objects(d)
      PROVE  merge[e][m][i] = [k \in Keys |-> Field(merge[e - 1], m, i, k)]
  <2>1. m \in Objects(e) /\ i \in Objects(e)
    <3>1. d \in 0 .. Nesting /\ e \in d .. Nesting
      BY <1>0
    <3> QED BY <3>1, ValuesGrow
  <2>2. merge[e] = MergeStep(e, merge[e - 1])
    BY MergeDef
  <2> QED BY <2>1, <2>2 DEF MergeStep
<1>2. 0 \in S
  <2> SUFFICES ASSUME NEW e \in 0 .. Nesting, NEW m \in Objects(0), NEW i \in Objects(0)
               PROVE  merge[e][m][i] = merge[0][m][i]
    OBVIOUS
  <2>1. \A k \in Keys : ~IsMap(m[k])
    <3> TAKE k \in Keys
    <3>1. m[k] \in Values[0] /\ 0 \in 0 .. Nesting
      BY <1>0 DEF Objects
    <3> QED BY <3>1, Kinds
  <2>2. \A k \in Keys : Field(merge[e - 1], m, i, k) = Field(merge[0 - 1], m, i, k)
    BY <2>1
  <2>3. 0 \in 0 .. Nesting /\ 0 \in 0 .. 0 /\ 0 \in 0 .. e
    BY <1>0
  <2>4. /\ merge[e][m][i] = [k \in Keys |-> Field(merge[e - 1], m, i, k)]
        /\ merge[0][m][i] = [k \in Keys |-> Field(merge[0 - 1], m, i, k)]
    <3> HIDE DEF Field
    <3> QED BY <1>1, <2>3
  <2> HIDE DEF Field
  <2> QED BY <2>2, <2>4
<1>3. \A d \in Nat : d \in S => d + 1 \in S
  <2> SUFFICES ASSUME NEW d \in Nat, d \in S, d + 1 <= Nesting,
                      NEW e \in d + 1 .. Nesting, NEW m \in Objects(d + 1), NEW i \in Objects(d + 1)
               PROVE  merge[e][m][i] = merge[d + 1][m][i]
    OBVIOUS
  <2>1. ASSUME NEW k \in Keys, IsMap(m[k]), IsMap(i[k])
        PROVE  merge[e - 1][m[k].map][i[k].map] = merge[d][m[k].map][i[k].map]
    <3>1. m[k] \in Values[d + 1] /\ i[k] \in Values[d + 1] /\ d + 1 \in 0 .. Nesting /\ (d + 1) - 1 = d
      BY <1>0 DEF Objects
    <3>2. m[k].map \in Objects(d) /\ i[k].map \in Objects(d)
      BY <2>1, <3>1, Kinds
    <3>3. Same(d) /\ e - 1 \in d .. Nesting
      BY <1>0
    <3> QED BY <3>2, <3>3
  <2>2. \A k \in Keys : Field(merge[e - 1], m, i, k) = Field(merge[(d + 1) - 1], m, i, k)
    <3>1. (d + 1) - 1 = d
      OBVIOUS
    <3> QED BY <2>1, <3>1
  <2>3. d + 1 \in 0 .. Nesting /\ d + 1 \in 0 .. d + 1 /\ d + 1 \in 0 .. e /\ e \in 0 .. Nesting
    BY <1>0
  <2>4. merge[e][m][i] = [k \in Keys |-> Field(merge[e - 1], m, i, k)]
    <3> HIDE DEF Field
    <3> QED BY <1>1, <2>3
  <2>5. merge[d + 1][m][i] = [k \in Keys |-> Field(merge[(d + 1) - 1], m, i, k)]
    <3> HIDE DEF Field
    <3> QED BY <1>1, <2>3
  <2> HIDE DEF Field
  <2> QED BY <2>2, <2>4, <2>5
<1>4. n \in S
  <2> HIDE DEF S
  <2>1. Nat \subseteq S
    BY <1>2, <1>3, NatSetInduction
  <2> QED BY <1>0, <2>1
<1> HIDE DEF Same
<1>5. Same(n)
  BY <1>0, <1>4
<1> QED BY <1>5 DEF Same

(* The field of the merge of two objects whose fields are m and i.            *)
MergeValue(m, i) ==
  IF i = NoValue THEN m
  ELSE IF IsMap(m) /\ IsMap(i) THEN [map |-> DeepMerge(m.map, i.map)] ELSE i

(* DeepMerge is a merge of the fields. *)
LEMMA DeepMergeFields ==
  ASSUME NEW n \in 0 .. Nesting, NEW m \in Objects(n), NEW i \in Objects(n)
  PROVE  /\ DeepMerge(m, i) \in Objects(n)
         /\ \A k \in Keys : DeepMerge(m, i)[k] = MergeValue(m[k], i[k])
<1>0. Nesting \in Nat /\ Nesting \in n .. Nesting /\ Nesting \in 0 .. Nesting
  BY EnvAssumption
<1>1. DeepMerge(m, i) = merge[n][m][i] /\ merge[n] \in Merges(n)
  BY <1>0, MergeDef, MergeLevels
<1>2. ASSUME NEW k \in Keys PROVE DeepMerge(m, i)[k] = MergeValue(m[k], i[k])
  <2>1. m[k] \in Values[n] /\ i[k] \in Values[n]
    BY DEF Objects
  <2>2. merge[n][m][i][k] = IF i[k] = NoValue THEN m[k]
                            ELSE IF IsMap(m[k]) /\ IsMap(i[k])
                                 THEN [map |-> merge[n - 1][m[k].map][i[k].map]]
                                 ELSE i[k]
    <3>1. merge[n] = MergeStep(n, merge[n - 1])
      BY MergeDef
    <3> QED BY <3>1 DEF MergeStep
  <2>3. CASE IsMap(m[k]) /\ IsMap(i[k])
    <3>1. m[k].map \in Objects(n - 1) /\ i[k].map \in Objects(n - 1) /\ n # 0
      BY <2>1, <2>3, Kinds
    <3>2. n - 1 \in 0 .. Nesting /\ Nesting \in n - 1 .. Nesting
      BY <1>0, <3>1
    <3>3. DeepMerge(m[k].map, i[k].map) = merge[n - 1][m[k].map][i[k].map]
      BY <3>1, <3>2, MergeDef, MergeLevels
    <3> QED BY <1>1, <2>2, <2>3, <3>3 DEF MergeValue
  <2> QED BY <1>1, <2>2, <2>3 DEF MergeValue
<1>3. merge[n][m][i] \in Objects(n)
  BY <1>1 DEF Merges
<1> QED BY <1>1, <1>2, <1>3

-----------------------------------------------------------------------------
(* What is where. *)

AllObjects == Objects(Nesting)
AllValues == Values[Nesting] \cup [map : AllObjects]

Below(v, k) == IF IsMap(v) THEN v.map[k] ELSE NoValue

Seen(v) == IF IsMap(v) THEN AnObject ELSE v

(* h has what is at the end of the first 0 .. Len(p) keys of p.               *)
Descends(h, f, p) ==
  /\ h \in [0 .. Len(p) -> AllValues] /\ h[0] = [map |-> f]
  /\ \A n \in 1 .. Len(p) : h[n] = Below(h[n - 1], p[n])

(* What is in an object of any depth, and where it is. *)
LEMMA AnyValue ==
  /\ \A f \in AllObjects : [map |-> f] \in AllValues /\ \A k \in Keys : f[k] \in AllValues
  /\ NoFields \in AllObjects /\ NoValue \in AllValues
  /\ \A v \in AllValues : IsMap(v) => v = [map |-> v.map] /\ v.map \in AllObjects
<1>0. Nesting \in Nat /\ Nesting \in 0 .. Nesting
  BY EnvAssumption
<1>1. \A f \in AllObjects : \A k \in Keys : f[k] \in Values[Nesting]
  BY DEF AllObjects, Objects
<1>2. \A v \in Values[Nesting] : IsMap(v) => v = [map |-> v.map] /\ v.map \in AllObjects
  <2> SUFFICES ASSUME NEW v \in Values[Nesting], IsMap(v)
               PROVE  v = [map |-> v.map] /\ v.map \in AllObjects
    OBVIOUS
  <2>1. Nesting # 0 /\ v = [map |-> v.map] /\ v.map \in Objects(Nesting - 1)
    BY <1>0, Kinds
  <2>2. Nesting - 1 \in 0 .. Nesting /\ Nesting \in Nesting - 1 .. Nesting
    BY <1>0, <2>1
  <2> QED BY <2>1, <2>2, ValuesGrow DEF AllObjects
<1>3. \A v \in [map : AllObjects] : v = [map |-> v.map] /\ v.map \in AllObjects
  OBVIOUS
<1>4. \A f \in AllObjects : [map |-> f] \in [map : AllObjects]
  OBVIOUS
<1>5. NoValue \in Values[Nesting] /\ NoFields \in AllObjects
  BY <1>0, NothingValue DEF AllObjects
<1> QED BY <1>1, <1>2, <1>3, <1>4, <1>5 DEF AllValues

(* One key further is a value again. *)
LEMMA BelowType ==
  ASSUME NEW v \in AllValues, NEW k \in Keys
  PROVE  Below(v, k) \in AllValues
BY AnyValue DEF Below

(* There is one way down. *)
LEMMA DescendsExists ==
  ASSUME NEW f \in AllObjects, NEW p \in Seq(Keys)
  PROVE  \E h : Descends(h, f, p)
<1> DEFINE g == [n \in 1 .. Len(p) |-> [v \in AllValues |-> Below(v, p[n])]]
           W == [n \in 0 .. Len(p) |-> AllValues]
<1>0. Len(p) \in Nat /\ [map |-> f] \in AllValues
  BY AnyValue
<1>1. Steps(W, Len(p), g)
  <2>1. ASSUME NEW n \in 1 .. Len(p) PROVE g[n] \in [W[n - 1] -> W[n]]
    <3>1. W[n - 1] = AllValues /\ W[n] = AllValues
      BY <1>0
    <3>2. g[n] = [v \in AllValues |-> Below(v, p[n])] /\ p[n] \in Keys
      OBVIOUS
    <3> HIDE DEF g, W
    <3> QED BY <3>1, <3>2, BelowType
  <2> HIDE DEF g, W
  <2> QED BY <2>1 DEF Steps
<1>2. [map |-> f] \in W[0]
  BY <1>0
<1>3. PICK h : Computes(h, W, [map |-> f], Len(p), g)
  <2> HIDE DEF W, g
  <2> QED BY <1>0, <1>1, <1>2, ComputationExists
<1>4. \A n \in 0 .. Len(p) : h[n] \in AllValues
  BY <1>0, <1>3 DEF Computes
<1>5. \A n \in 1 .. Len(p) : h[n] = Below(h[n - 1], p[n])
  <2> TAKE n \in 1 .. Len(p)
  <2>1. h[n] = g[n][h[n - 1]]
    <3> HIDE DEF W, g
    <3> QED BY <1>3 DEF Computes
  <2>2. h[n - 1] \in AllValues
    BY <1>0, <1>4
  <2> QED BY <2>1, <2>2
<1>6. h \in [0 .. Len(p) -> AllValues]
  <2> HIDE DEF W, g
  <2> QED BY <1>3, <1>4 DEF Computes
<1> QED
  <2> HIDE DEF W, g
  <2> QED BY <1>3, <1>5, <1>6 DEF Computes, Descends

(* ValueAt is what is there in the end. *)
LEMMA ValueAtDef ==
  ASSUME NEW f \in AllObjects, NEW p \in Seq(Keys), NEW h, Descends(h, f, p)
  PROVE  ValueAt(f, p) = Seen(h[Len(p)])
<1> DEFINE N == Len(p)
           Is(at) == at = [n \in 0 .. N |->
                       IF n = 0 THEN [map |-> f]
                       ELSE IF IsMap(at[n - 1]) THEN at[n - 1].map[p[n]] ELSE NoValue]
<1>0. N \in Nat
  OBVIOUS
<1>1. Is(h)
  <2>1. h = [n \in 0 .. N |-> h[n]]
    BY DEF Descends
  <2>2. \A n \in 0 .. N : h[n] = IF n = 0 THEN [map |-> f]
                                 ELSE IF IsMap(h[n - 1]) THEN h[n - 1].map[p[n]] ELSE NoValue
    <3> TAKE n \in 0 .. N
    <3>1. n # 0 => n \in 1 .. Len(p)
      OBVIOUS
    <3> HIDE DEF N
    <3> QED BY <3>1 DEF Descends, Below
  <2> HIDE DEF N
  <2> QED BY <2>1, <2>2
<1>2. PICK at : Is(at) /\ ValueAt(f, p) = IF IsMap(at[N]) THEN AnObject ELSE at[N]
  BY <1>1 DEF ValueAt
<1>3. at[0] = h[0]
  BY <1>0, <1>2 DEF Descends
<1>4. \A n \in 1 .. N : at[n - 1] = h[n - 1] => at[n] = h[n]
  <2> TAKE n \in 1 .. N
  <2>1. n \in 0 .. N /\ n # 0
    BY <1>0
  <2>2. at[n] = IF IsMap(at[n - 1]) THEN at[n - 1].map[p[n]] ELSE NoValue
    <3> HIDE DEF N
    <3> QED BY <1>2, <2>1
  <2> QED BY <2>2 DEF Descends, Below
<1>5. at[N] = h[N]
  <2> HIDE DEF N, Is
  <2>1. SameSteps(N, h, at)
    BY <1>3, <1>4 DEF SameSteps
  <2>2. \A n \in 0 .. N : at[n] = h[n]
    BY <1>0, <2>1, SameComputation
  <2> QED BY <1>0, <2>2
<1> QED BY <1>2, <1>5 DEF Seen

(* The way down the beginning of a path is the beginning of the way. *)
LEMMA ValueBefore ==
  ASSUME NEW f \in AllObjects, NEW p \in Seq(Keys), NEW h, Descends(h, f, p),
         NEW n \in 1 .. Len(p)
  PROVE  ValueAt(f, SubSeq(p, 1, n)) = Seen(h[n])
<1> DEFINE q == SubSeq(p, 1, n)
           t == [m \in 0 .. n |-> h[m]]
<1>1. q \in Seq(Keys) /\ Len(q) = n /\ \A m \in 1 .. n : q[m] = p[m]
  OBVIOUS
<1>2. t \in [0 .. n -> AllValues] /\ \A m \in 0 .. n : t[m] = h[m]
  BY DEF Descends
<1>3. Descends(t, f, q)
  <2>1. \A m \in 1 .. n : t[m] = Below(t[m - 1], q[m])
    <3> TAKE m \in 1 .. n
    <3>1. m \in 1 .. Len(p) /\ m \in 0 .. n /\ m - 1 \in 0 .. n
      OBVIOUS
    <3> HIDE DEF t, q
    <3> QED BY <1>1, <1>2, <3>1 DEF Descends
  <2>2. t[0] = [map |-> f]
    <3> HIDE DEF t
    <3> QED BY <1>2 DEF Descends
  <2> HIDE DEF t, q
  <2> QED BY <1>1, <1>2, <2>1, <2>2 DEF Descends
<1> HIDE DEF t, q
<1>4. ValueAt(f, q) = Seen(t[n])
  BY <1>1, <1>3, ValueAtDef
<1> QED BY <1>2, <1>4 DEF q

(* h has a value other than an object before n. *)
Blocked(h, n) == \E m \in 1 .. n - 1 : h[m] # NoValue /\ ~IsMap(h[m])

(* Decides is about the way down. *)
LEMMA DecidesDef ==
  ASSUME NEW f \in AllObjects, NEW p \in Seq(Keys), p # <<>>, NEW h, Descends(h, f, p)
  PROVE  Decides(f, p) <=> h[Len(p)] # NoValue \/ Blocked(h, Len(p))
<1>0. \A v : Seen(v) = NoValue <=> v = NoValue
  BY MapOf DEF Seen, AnObject
<1>1. \A v : Seen(v) \notin {NoValue, AnObject} => v # NoValue /\ ~IsMap(v)
  BY MapOf DEF Seen
<1>2. \A v : v # NoValue /\ ~IsMap(v) => Seen(v) \notin {NoValue, AnObject}
  BY MapOf DEF Seen, AnObject
<1>3. ValueAt(f, p) = Seen(h[Len(p)])
  BY ValueAtDef
<1>4. \A n \in 1 .. Len(p) - 1 : ValueAt(f, SubSeq(p, 1, n)) = Seen(h[n])
  <2> TAKE n \in 1 .. Len(p) - 1
  <2>1. n \in 1 .. Len(p)
    OBVIOUS
  <2> QED BY <2>1, ValueBefore
<1> QED BY <1>0, <1>1, <1>2, <1>3, <1>4 DEF Decides, Blocked

(* At the end of every path of a merge is what the second object says, if it  *)
(* says anything, and otherwise what the first one says. *)
LEMMA Merged ==
  ASSUME NEW m \in AllObjects, NEW i \in AllObjects, NEW p \in Seq(Keys), p # <<>>
  PROVE  ValueAt(DeepMerge(m, i), p) = IF Decides(i, p) THEN ValueAt(i, p) ELSE ValueAt(m, p)
<1> DEFINE N == Len(p)
<1>0. N \in Nat /\ N # 0
  OBVIOUS
<1>1. \A f, g \in AllObjects : /\ DeepMerge(f, g) \in AllObjects
                               /\ \A k \in Keys : DeepMerge(f, g)[k] = MergeValue(f[k], g[k])
  <2>1. Nesting \in 0 .. Nesting
    BY EnvAssumption
  <2> QED BY <2>1, DeepMergeFields DEF AllObjects
<1>2. PICK hm : Descends(hm, m, p)
  BY DescendsExists
<1>3. PICK hi : Descends(hi, i, p)
  BY DescendsExists
<1>4. PICK h : Descends(h, DeepMerge(m, i), p)
  BY <1>1, DescendsExists
<1> DEFINE Inv(n) == IF Blocked(hi, n) THEN hi[n] = NoValue /\ h[n] = NoValue
                     ELSE h[n] = MergeValue(hm[n], hi[n])
           S == {n \in Nat : n <= N => Inv(n)}
<1>5. 0 \in S
  <2>1. ~Blocked(hi, 0)
    BY DEF Blocked
  <2>2. h[0] = [map |-> DeepMerge(m, i)] /\ hm[0] = [map |-> m] /\ hi[0] = [map |-> i]
    BY <1>2, <1>3, <1>4 DEF Descends
  <2>3. h[0] = MergeValue(hm[0], hi[0])
    BY <2>2, MapOf DEF MergeValue
  <2> QED BY <2>1, <2>3
<1>6. \A n \in Nat : n \in S => n + 1 \in S
  <2> SUFFICES ASSUME NEW n \in Nat, n \in S, n + 1 <= N PROVE Inv(n + 1)
    <3> HIDE DEF Inv
    <3> QED OBVIOUS
  <2>0. /\ n + 1 \in 1 .. Len(p) /\ (n + 1) - 1 = n /\ n \in 0 .. Len(p) /\ p[n + 1] \in Keys
        /\ Inv(n)
    OBVIOUS
  <2> DEFINE k == p[n + 1]
  <2>1. h[n + 1] = Below(h[n], k) /\ hm[n + 1] = Below(hm[n], k) /\ hi[n + 1] = Below(hi[n], k)
    BY <1>2, <1>3, <1>4, <2>0 DEF Descends
  <2>2. hm[n] \in AllValues /\ hi[n] \in AllValues
    BY <1>2, <1>3, <2>0 DEF Descends
  <2>3. Blocked(hi, n + 1) <=> Blocked(hi, n) \/ (n # 0 /\ hi[n] # NoValue /\ ~IsMap(hi[n]))
    <3>1. \A j : j \in 1 .. (n + 1) - 1 <=> j \in 1 .. n - 1 \/ (j = n /\ n # 0)
      BY <2>0
    <3> QED BY <3>1 DEF Blocked
  <2>4. hi[0] = [map |-> i]
    BY <1>3 DEF Descends
  <2>5. \A v : Below(NoValue, v) = NoValue
    BY MapOf DEF Below
  <2>6. \A v : MergeValue(NoValue, v) = v /\ MergeValue(v, NoValue) = v
    BY MapOf DEF MergeValue
  <2> HIDE DEF k, Inv
  <2>7. CASE Blocked(hi, n)
    <3>1. hi[n] = NoValue /\ h[n] = NoValue
      BY <2>0, <2>7 DEF Inv
    <3> QED BY <2>1, <2>3, <2>5, <2>7, <3>1 DEF Inv
  <2>8. CASE ~Blocked(hi, n) /\ hi[n] = NoValue
    <3>1. h[n] = hm[n]
      BY <2>0, <2>6, <2>8 DEF Inv
    <3>2. hi[n + 1] = NoValue /\ h[n + 1] = hm[n + 1] /\ ~Blocked(hi, n + 1)
      BY <2>1, <2>3, <2>5, <2>8, <3>1
    <3> QED BY <2>6, <3>2 DEF Inv
  <2>9. CASE ~Blocked(hi, n) /\ hi[n] # NoValue /\ ~IsMap(hi[n])
    <3>1. h[n] = hi[n]
      BY <2>0, <2>9 DEF Inv, MergeValue
    <3>2. n # 0
      BY <2>4, <2>9, MapOf
    <3>3. hi[n + 1] = NoValue /\ h[n + 1] = NoValue /\ Blocked(hi, n + 1)
      BY <2>1, <2>3, <2>9, <3>1, <3>2 DEF Below
    <3> QED BY <3>3 DEF Inv
  <2>10. CASE ~Blocked(hi, n) /\ IsMap(hi[n]) /\ ~IsMap(hm[n])
    <3>1. h[n] = hi[n] /\ hm[n + 1] = NoValue /\ ~Blocked(hi, n + 1)
      BY <2>0, <2>1, <2>3, <2>10, MapOf DEF Inv, MergeValue, Below
    <3> QED BY <2>1, <2>6, <3>1 DEF Inv
  <2>11. CASE ~Blocked(hi, n) /\ IsMap(hi[n]) /\ IsMap(hm[n])
    <3>1. h[n] = [map |-> DeepMerge(hm[n].map, hi[n].map)]
      BY <2>0, <2>11, MapOf DEF Inv, MergeValue
    <3>2. hm[n].map \in AllObjects /\ hi[n].map \in AllObjects /\ ~Blocked(hi, n + 1)
      BY <2>2, <2>3, <2>11, AnyValue
    <3>3. h[n + 1] = DeepMerge(hm[n].map, hi[n].map)[k]
      BY <2>1, <3>1, MapOf DEF Below
    <3>4. hm[n + 1] = hm[n].map[k] /\ hi[n + 1] = hi[n].map[k] /\ k \in Keys
      BY <2>0, <2>1, <2>11 DEF Below, k
    <3>5. h[n + 1] = MergeValue(hm[n + 1], hi[n + 1])
      BY <1>1, <3>2, <3>3, <3>4
    <3> QED BY <3>2, <3>5 DEF Inv
  <2> QED BY <2>7, <2>8, <2>9, <2>10, <2>11
<1>7. Inv(N)
  <2>1. N \in S
    <3> HIDE DEF S, N
    <3> QED BY <1>0, <1>5, <1>6, NatSetInduction
  <2> HIDE DEF Inv
  <2> QED BY <2>1
<1>8. /\ ValueAt(DeepMerge(m, i), p) = Seen(h[N]) /\ ValueAt(i, p) = Seen(hi[N])
      /\ ValueAt(m, p) = Seen(hm[N])
  BY <1>1, <1>2, <1>3, <1>4, ValueAtDef
<1>9. Decides(i, p) <=> hi[N] # NoValue \/ Blocked(hi, N)
  BY <1>3, DecidesDef
<1> HIDE DEF N
<1>10. CASE Blocked(hi, N)
  BY <1>7, <1>8, <1>9, <1>10
<1>11. CASE ~Blocked(hi, N)
  BY <1>7, <1>8, <1>9, <1>11, MapOf DEF MergeValue, Seen
<1> QED BY <1>10, <1>11

(* A layer that is merged in decides what it says something about, and leaves *)
(* the rest to the layers before it.                                          *)
LEMMA LayerAdded ==
  ASSUME NEW f \in AllObjects, NEW x \in AllObjects, NEW all \in Seq(AllObjects),
         NEW p \in Seq(Keys), p # <<>>, LastDecides(f, all, p)
  PROVE  LastDecides(DeepMerge(f, x), Append(all, x), p)
<1> DEFINE more == Append(all, x)
           N == Len(all)
           before == {i \in DOMAIN all : Decides(all[i], p)}
           now == {i \in DOMAIN more : Decides(more[i], p)}
           last(D) == CHOOSE i \in D : \A j \in D : j <= i
<1>0. /\ N \in Nat /\ DOMAIN all = 1 .. N /\ DOMAIN more = 1 .. N + 1
      /\ more[N + 1] = x /\ \A i \in 1 .. N : more[i] = all[i]
  OBVIOUS
<1>1. ValueAt(DeepMerge(f, x), p) = IF Decides(x, p) THEN ValueAt(x, p) ELSE ValueAt(f, p)
  BY Merged
<1>2. ValueAt(f, p) = IF before = {} THEN NoValue ELSE ValueAt(all[last(before)], p)
  BY DEF LastDecides
<1>3. SUFFICES ValueAt(DeepMerge(f, x), p) =
                 IF now = {} THEN NoValue ELSE ValueAt(more[last(now)], p)
  BY DEF LastDecides
<1> HIDE DEF more, N
<1>4. CASE Decides(x, p)
  <2>1. N + 1 \in now /\ \A j \in now : j <= N + 1 /\ j \in Nat
    BY <1>0, <1>4
  <2>2. last(now) = N + 1
    <3> HIDE DEF now
    <3>1. \A i \in now : (\A j \in now : j <= i) => i = N + 1
      BY <1>0, <2>1
    <3> QED BY <2>1, <3>1
  <2> HIDE DEF now, last
  <2> QED BY <1>0, <1>1, <1>4, <2>1, <2>2
<1>5. CASE ~Decides(x, p)
  <2>1. now = before
    <3>1. \A i \in now : i # N + 1
      BY <1>0, <1>5
    <3>2. \A i \in now : i \in 1 .. N
      BY <1>0, <3>1
    <3> QED BY <1>0, <3>2
  <2>2. before # {} => last(before) \in before
    <3> SUFFICES ASSUME before # {} PROVE last(before) \in before
      OBVIOUS
    <3> DEFINE T == {N - a : a \in before}
    <3>1. before \subseteq 1 .. N
      BY <1>0
    <3> HIDE DEF before
    <3>2. PICK i \in before : \A j \in before : j <= i
      <4>1. T \in SUBSET Nat /\ T # {}
        <5>1. PICK a \in before : a \in 1 .. N
          BY <3>1
        <5>2. N - a \in T
          OBVIOUS
        <5>3. \A j \in before : N - j \in Nat
          BY <1>0, <3>1
        <5> QED BY <5>2, <5>3
      <4>2. Min(T) \in T /\ \A t \in T : Min(T) <= t
        <5> HIDE DEF T
        <5> QED BY <4>1, MinOf
      <4>3. PICK a \in before : Min(T) = N - a
        BY <4>2
      <4>4. \A j \in before : N - a <= N - j
        BY <4>2, <4>3
      <4> QED BY <1>0, <3>1, <4>4
    <3> QED BY <3>2
  <2>3. before # {} => more[last(before)] = all[last(before)]
    <3> HIDE DEF last
    <3> QED BY <1>0, <2>2
  <2> HIDE DEF now, before, last
  <2> QED BY <1>1, <1>2, <1>5, <2>1, <2>3
<1> QED BY <1>4, <1>5

(* Without layers there is nothing anywhere. *)
LEMMA NoLayers ==
  ASSUME NEW p \in Seq(Keys), p # <<>>
  PROVE  LastDecides(NoFields, <<>>, p)
<1> DEFINE N == Len(p)
<1>0. N \in Nat /\ N # 0
  OBVIOUS
<1>1. PICK h : Descends(h, NoFields, p)
  BY AnyValue, DescendsExists
<1> DEFINE S == {n \in Nat : n + 1 <= N => h[n + 1] = NoValue}
<1>2. 0 \in S
  <2>1. 1 \in 1 .. Len(p) /\ p[1] \in Keys /\ 1 - 1 = 0
    OBVIOUS
  <2>2. h[1] = Below(h[0], p[1]) /\ h[0] = [map |-> NoFields]
    BY <1>1, <2>1 DEF Descends
  <2>3. h[1] = NoValue
    BY <2>1, <2>2, MapOf DEF Below, NoFields
  <2> QED BY <2>3
<1>3. \A n \in Nat : n \in S => n + 1 \in S
  <2> SUFFICES ASSUME NEW n \in Nat, n \in S, n + 2 <= N PROVE h[n + 2] = NoValue
    OBVIOUS
  <2>1. n + 2 \in 1 .. Len(p) /\ (n + 2) - 1 = n + 1 /\ h[n + 1] = NoValue
    OBVIOUS
  <2> QED BY <1>1, <2>1, MapOf DEF Descends, Below
<1>4. h[N] = NoValue
  <2>1. Nat \subseteq S
    <3> HIDE DEF S
    <3> QED BY <1>2, <1>3, NatSetInduction
  <2>2. N - 1 \in Nat /\ N - 1 \in S /\ (N - 1) + 1 = N
    <3> HIDE DEF S, N
    <3> QED BY <1>0, <2>1
  <2> QED BY <2>2
<1>5. ValueAt(NoFields, p) = NoValue
  BY <1>1, <1>4, AnyValue, ValueAtDef, MapOf DEF Seen
<1> QED BY <1>5 DEF LastDecides

-----------------------------------------------------------------------------
(* Settings. *)

(* Target after n keys, in the definition of parseKeyVal.                     *)
NextTarget(o, k) == IF IsMap(o[k]) THEN o[k].map ELSE NoFields

Targets(t, f, p) ==
  /\ t = [n \in 0 .. Len(p) - 1 |-> t[n]]
  /\ \A n \in 0 .. Len(p) - 1 : t[n] \in Objects(Nesting - n)
  /\ t[0] = f /\ \A n \in 1 .. Len(p) - 1 : t[n] = NextTarget(t[n - 1], p[n])

(* The next target is an object with one less within each other. *)
LEMMA TargetType ==
  ASSUME NEW n \in 1 .. Nesting, NEW o \in Objects(n), NEW k \in Keys
  PROVE  NextTarget(o, k) \in Objects(n - 1)
<1>1. n \in 0 .. Nesting /\ n - 1 \in 0 .. Nesting /\ o[k] \in Values[n]
  BY EnvAssumption DEF Objects
<1> QED BY <1>1, Kinds, NothingValue DEF NextTarget

(* There is one way down for a setting. *)
LEMMA TargetsExist ==
  ASSUME NEW f \in AllObjects, NEW p \in Seq(Keys), Len(p) \in 1 .. Nesting + 1
  PROVE  \E t : Targets(t, f, p)
<1> DEFINE N == Len(p) - 1
           W == [n \in 0 .. N |-> Objects(Nesting - n)]
           g == [n \in 1 .. N |-> [o \in Objects(Nesting - (n - 1)) |-> NextTarget(o, p[n])]]
<1>0. Nesting \in Nat /\ N \in 0 .. Nesting /\ N \in Nat
  BY EnvAssumption
<1>1. Steps(W, N, g)
  <2>1. ASSUME NEW n \in 1 .. N PROVE g[n] \in [W[n - 1] -> W[n]]
    <3>1. W[n - 1] = Objects(Nesting - (n - 1)) /\ W[n] = Objects(Nesting - n)
      BY <1>0
    <3>2. /\ g[n] = [o \in Objects(Nesting - (n - 1)) |-> NextTarget(o, p[n])]
          /\ p[n] \in Keys
      BY <1>0
    <3>3. Nesting - (n - 1) \in 1 .. Nesting /\ (Nesting - (n - 1)) - 1 = Nesting - n
      BY <1>0
    <3>4. \A o \in Objects(Nesting - (n - 1)) : NextTarget(o, p[n]) \in Objects(Nesting - n)
      BY <3>2, <3>3, TargetType
    <3> HIDE DEF g, W
    <3> QED BY <3>1, <3>2, <3>4
  <2> HIDE DEF g, W
  <2> QED BY <2>1 DEF Steps
<1>2. f \in W[0]
  BY <1>0 DEF AllObjects
<1>3. PICK t : Computes(t, W, f, N, g)
  <2> HIDE DEF W, g, N
  <2> QED BY <1>0, <1>1, <1>2, ComputationExists
<1>4. \A n \in 0 .. N : t[n] \in Objects(Nesting - n)
  BY <1>3 DEF Computes
<1>5. \A n \in 1 .. N : t[n] = NextTarget(t[n - 1], p[n])
  <2> TAKE n \in 1 .. N
  <2>1. t[n] = g[n][t[n - 1]]
    <3> HIDE DEF W, g, N
    <3> QED BY <1>3 DEF Computes
  <2>2. t[n - 1] \in Objects(Nesting - (n - 1))
    <3>1. n - 1 \in 0 .. N
      BY <1>0
    <3> HIDE DEF N
    <3> QED BY <1>4, <3>1
  <2> QED BY <2>1, <2>2
<1> QED
  <2> HIDE DEF W, g
  <2> QED BY <1>3, <1>4, <1>5 DEF Computes, Targets

Only(k, v) == [NoFields EXCEPT ![k] = v]

(* s is the setting from its end, as an object from its n-th last key on.     *)
Builds(s, p, v) ==
  /\ s = [n \in 0 .. Len(p) - 1 |-> s[n]]
  /\ \A n \in 0 .. Len(p) - 1 : s[n] \in Values[Nesting + 1 - Len(p) + n]
  /\ s[0] = v
  /\ \A n \in 1 .. Len(p) - 1 : s[n] = [map |-> Only(p[Len(p) - n + 1], s[n - 1])]

(* An object with one field. *)
LEMMA OnlyType ==
  ASSUME NEW n \in 0 .. Nesting, NEW k \in Keys, NEW v \in Values[n]
  PROVE  Only(k, v) \in Objects(n) /\ \A j \in Keys : Only(k, v)[j] = IF j = k THEN v ELSE NoValue
<1>1. NoValue \in Values[n]
  BY NothingValue
<1> QED BY <1>1 DEF Only, NoFields, Objects

(* A setting as an object of its own can be built. *)
LEMMA BuildsExist ==
  ASSUME NEW p \in Seq(Keys), Len(p) \in 1 .. Nesting + 1,
         NEW v \in Values[Nesting + 1 - Len(p)]
  PROVE  \E s : Builds(s, p, v)
<1> DEFINE N == Len(p) - 1
           D == Nesting + 1 - Len(p)
           W == [n \in 0 .. N |-> Values[D + n]]
           Put(x, n) == [map |-> Only(p[Len(p) - n + 1], x)]
           g == [n \in 1 .. N |-> [x \in Values[D + (n - 1)] |-> Put(x, n)]]
<1>0. Nesting \in Nat /\ N \in Nat /\ D \in Nat /\ D + N = Nesting
  BY EnvAssumption
<1>1. Steps(W, N, g)
  <2>1. ASSUME NEW n \in 1 .. N PROVE g[n] \in [W[n - 1] -> W[n]]
    <3>1. W[n - 1] = Values[D + (n - 1)] /\ W[n] = Values[D + n]
      BY <1>0
    <3>2. g[n] = [x \in Values[D + (n - 1)] |-> Put(x, n)]
      OBVIOUS
    <3>3. ASSUME NEW x \in Values[D + (n - 1)] PROVE Put(x, n) \in Values[D + n]
      <4>1. /\ D + (n - 1) \in 0 .. Nesting /\ D + n \in 0 .. Nesting /\ D + n # 0
            /\ (D + n) - 1 = D + (n - 1)
        <5> HIDE DEF D, N
        <5> QED BY <1>0
      <4>2. p[Len(p) - n + 1] \in Keys
        OBVIOUS
      <4> HIDE DEF D, N
      <4> QED BY <4>1, <4>2, OnlyType, MapValue
    <3> HIDE DEF g, W, D, Put
    <3> QED BY <3>1, <3>2, <3>3
  <2> HIDE DEF g, W
  <2> QED BY <2>1 DEF Steps
<1>2. v \in W[0]
  BY <1>0
<1>3. PICK s : Computes(s, W, v, N, g)
  <2> HIDE DEF W, g, N
  <2> QED BY <1>0, <1>1, <1>2, ComputationExists
<1>4. \A n \in 0 .. N : s[n] \in Values[D + n]
  <2> HIDE DEF g, D
  <2> QED BY <1>3 DEF Computes
<1>5. \A n \in 1 .. N : s[n] = Put(s[n - 1], n)
  <2> TAKE n \in 1 .. N
  <2>1. s[n] = g[n][s[n - 1]]
    <3> HIDE DEF W, g, N
    <3> QED BY <1>3 DEF Computes
  <2>2. s[n - 1] \in Values[D + (n - 1)]
    <3>1. n - 1 \in 0 .. N
      BY <1>0
    <3> HIDE DEF N, D
    <3> QED BY <1>4, <3>1
  <2> HIDE DEF Put, D
  <2> QED BY <2>1, <2>2
<1>6. \A n \in 0 .. N : D + n = Nesting + 1 - Len(p) + n
  OBVIOUS
<1> QED
  <2> HIDE DEF W, g
  <2> QED BY <1>3, <1>4, <1>5, <1>6 DEF Computes, Builds

(* Nested is what is built in the end. *)
LEMMA NestedDef ==
  ASSUME NEW p \in Seq(Keys), Len(p) \in 1 .. Nesting + 1,
         NEW v \in Values[Nesting + 1 - Len(p)], NEW s, Builds(s, p, v)
  PROVE  Nested(p, v) = Only(p[1], s[Len(p) - 1])
<1> DEFINE N == Len(p) - 1
           Is(h) == h = [n \in 0 .. N |->
                      IF n = 0 THEN v
                      ELSE [map |-> [NoFields EXCEPT ![p[Len(p) - n + 1]] = h[n - 1]]]]
<1>0. N \in Nat
  BY EnvAssumption
<1>1. Is(s)
  <2>1. s = [n \in 0 .. N |-> s[n]]
    BY DEF Builds
  <2>2. \A n \in 0 .. N : s[n] = IF n = 0 THEN v
                      ELSE [map |-> [NoFields EXCEPT ![p[Len(p) - n + 1]] = s[n - 1]]]
    <3> TAKE n \in 0 .. N
    <3>1. n # 0 => n \in 1 .. Len(p) - 1
      OBVIOUS
    <3> HIDE DEF N
    <3> QED BY <3>1 DEF Builds, Only
  <2> HIDE DEF N
  <2> QED BY <2>1, <2>2
<1>2. PICK h : Is(h) /\ Nested(p, v) = Only(p[1], h[N])
  BY <1>1 DEF Nested, Only
<1>3. h[0] = s[0]
  BY <1>0, <1>2 DEF Builds
<1>4. \A n \in 1 .. N : h[n - 1] = s[n - 1] => h[n] = s[n]
  <2> TAKE n \in 1 .. N
  <2>1. n \in 0 .. N /\ n # 0
    BY <1>0
  <2>2. h[n] = [map |-> [NoFields EXCEPT ![p[Len(p) - n + 1]] = h[n - 1]]]
    <3> HIDE DEF N
    <3> QED BY <1>2, <2>1
  <2> QED BY <2>2 DEF Builds, Only
<1>5. h[N] = s[N]
  <2> HIDE DEF N, Is
  <2>1. SameSteps(N, s, h)
    BY <1>3, <1>4 DEF SameSteps
  <2>2. \A n \in 0 .. N : h[n] = s[n]
    BY <1>0, <2>1, SameComputation
  <2> QED BY <1>0, <2>2
<1> QED BY <1>2, <1>5

(* parseKeyVal merges the setting as an object of its own. *)
LEMMA ParseIsMerge ==
  ASSUME NEW f \in AllObjects, NEW p \in Seq(Keys), Len(p) \in 1 .. Nesting + 1,
         NEW v \in Values[Nesting + 1 - Len(p)], v # NoValue
  PROVE  /\ Nested(p, v) \in AllObjects
         /\ parseKeyVal(f, p, v) = DeepMerge(f, Nested(p, v))
<1> DEFINE L == Len(p)
           IsT(o) == o = [n \in 0 .. L - 1 |->
                       IF n = 0 THEN f
                       ELSE IF IsMap(o[n - 1][p[n]]) THEN o[n - 1][p[n]].map ELSE NoFields]
           Final(o) == IF IsMap(v) /\ IsMap(o[L - 1][p[L]])
                      THEN [map |-> DeepMerge(o[L - 1][p[L]].map, v.map)] ELSE v
           IsC(o, c) == c = [n \in 0 .. L - 1 |->
                          IF n = 0 THEN Final(o)
                          ELSE [map |-> [o[L - n] EXCEPT ![p[L - n + 1]] = c[n - 1]]]]
           o0 == CHOOSE o : IsT(o)
           c0 == CHOOSE c : IsC(o0, c)
<1>0. /\ Nesting \in Nat /\ L \in 1 .. Nesting + 1 /\ L - 1 \in Nat /\ 1 \in 1 .. L
      /\ \A n \in 1 .. L : p[n] \in Keys
  BY EnvAssumption
<1>1. PICK t : Targets(t, f, p)
  BY TargetsExist
<1>2. PICK s : Builds(s, p, v)
  BY BuildsExist
<1>3. parseKeyVal(f, p, v) = [f EXCEPT ![p[1]] = c0[L - 1]]
  BY DEF parseKeyVal
<1> HIDE DEF L
<1>4. IsT(t)
  <2>1. \A n \in 0 .. L - 1 : t[n] = IF n = 0 THEN f
               ELSE IF IsMap(t[n - 1][p[n]]) THEN t[n - 1][p[n]].map ELSE NoFields
    <3> TAKE n \in 0 .. L - 1
    <3>1. n # 0 => n \in 1 .. L - 1
      BY <1>0
    <3> QED BY <1>1, <3>1 DEF Targets, NextTarget, L
  <2>2. t = [n \in 0 .. L - 1 |-> t[n]]
    BY <1>1 DEF Targets, L
  <2> QED BY <2>1, <2>2
<1>5. IsT(o0)
  BY <1>4
<1> HIDE DEF o0
<1>6. \A n \in 0 .. L - 1 : o0[n] = t[n]
  <2>1. o0[0] = t[0]
    BY <1>0, <1>4, <1>5
  <2>2. \A n \in 1 .. L - 1 : o0[n - 1] = t[n - 1] => o0[n] = t[n]
    <3> TAKE n \in 1 .. L - 1
    <3>1. n \in 0 .. L - 1 /\ n # 0
      BY <1>0
    <3>2. o0[n] = IF IsMap(o0[n - 1][p[n]]) THEN o0[n - 1][p[n]].map ELSE NoFields
      BY <1>5, <3>1
    <3>3. t[n] = IF IsMap(t[n - 1][p[n]]) THEN t[n - 1][p[n]].map ELSE NoFields
      BY <1>4, <3>1
    <3> QED BY <3>2, <3>3
  <2> DEFINE N == L - 1
  <2>3. N \in Nat /\ \A n \in 1 .. N : o0[n - 1] = t[n - 1] => o0[n] = t[n]
    BY <1>0, <2>2
  <2>4. \A n \in 0 .. N : o0[n] = t[n]
    <3>1. SameSteps(N, t, o0)
      <4> HIDE DEF IsT, N
      <4> QED BY <2>1, <2>3 DEF SameSteps
    <3> HIDE DEF IsT, N
    <3> QED BY <2>3, <3>1, SameComputation
  <2> QED BY <2>4
<1> DEFINE At(n) == t[L - n - 1][p[L - n]]
           r == [n \in 0 .. L - 1 |-> MergeValue(At(n), s[n])]
           D(n) == Nesting + 1 - L + n
<1>7. ASSUME NEW n \in 0 .. L - 1
      PROVE  /\ D(n) \in 0 .. Nesting /\ t[L - n - 1] \in Objects(D(n)) /\ p[L - n] \in Keys
             /\ At(n) \in Values[D(n)] /\ s[n] \in Values[D(n)]
  <2>1. L - n - 1 \in 0 .. L - 1 /\ Nesting - (L - n - 1) = D(n) /\ L - n \in 1 .. L /\ D(n) \in 0 .. Nesting
    BY <1>0
  <2>2. t[L - n - 1] \in Objects(D(n)) /\ p[L - n] \in Keys
    <3> HIDE DEF D
    <3> QED BY <1>0, <1>1, <2>1 DEF Targets, L
  <2>3. At(n) \in Values[D(n)]
    <3> HIDE DEF D
    <3> QED BY <2>2 DEF Objects
  <2>4. s[n] \in Values[D(n)]
    BY <1>2 DEF Builds, L
  <2> QED BY <2>1, <2>2, <2>3, <2>4
<1>8. r[0] = Final(o0)
  <2>1. /\ 0 \in 0 .. L - 1 /\ L - 0 - 1 = L - 1 /\ L - 0 = L /\ L - 1 \in 0 .. L - 1
        /\ r[0] = MergeValue(At(0), s[0]) /\ At(0) = t[L - 1][p[L]]
    BY <1>0
  <2>2. s[0] = v /\ o0[L - 1] = t[L - 1]
    BY <1>2, <1>6, <2>1 DEF Builds
  <2> HIDE DEF r, At
  <2> QED BY <2>1, <2>2 DEF MergeValue
<1>9. \A n \in 1 .. L - 1 : r[n] = [map |-> [o0[L - n] EXCEPT ![p[L - n + 1]] = r[n - 1]]]
  <2> TAKE n \in 1 .. L - 1
  <2> DEFINE o == o0[L - n]
             k == p[L - n + 1]
             x == At(n)
  <2>1. /\ n \in 0 .. L - 1 /\ n - 1 \in 0 .. L - 1 /\ L - n \in 1 .. L - 1 /\ L - n \in 0 .. L - 1
        /\ L - (n - 1) - 1 = L - n /\ L - (n - 1) = L - n + 1 /\ D(n) # 0 /\ D(n) - 1 = D(n - 1)
    BY <1>0
  <2>2. r[n] = MergeValue(x, s[n]) /\ r[n - 1] = MergeValue(o[k], s[n - 1])
    <3>1. o0[L - n] = t[L - n]
      BY <1>6, <2>1
    <3> QED BY <2>1, <3>1
  <2>3. s[n] = [map |-> Only(k, s[n - 1])]
    BY <1>2, <2>1 DEF Builds, L
  <2>4. o = IF IsMap(x) THEN x.map ELSE NoFields
    <3>1. o0[L - n] = t[L - n] /\ t[L - n] = NextTarget(t[L - n - 1], p[L - n])
      BY <1>1, <1>6, <2>1 DEF Targets, L
    <3> QED BY <3>1 DEF NextTarget
  <2>5. /\ o \in Objects(D(n - 1)) /\ k \in Keys /\ s[n - 1] \in Values[D(n - 1)]
        /\ D(n - 1) \in 0 .. Nesting
    <3>1. o0[L - n] = t[L - n]
      BY <1>6, <2>1
    <3> HIDE DEF D
    <3> QED BY <1>7, <2>1, <3>1
  <2> HIDE DEF r, x, o, k, At, D
  <2>6. /\ Only(k, s[n - 1]) \in Objects(D(n - 1))
        /\ \A j \in Keys : Only(k, s[n - 1])[j] = IF j = k THEN s[n - 1] ELSE NoValue
    BY <2>5, OnlyType
  <2>7. CASE IsMap(x)
    <3>1. r[n] = [map |-> DeepMerge(o, Only(k, s[n - 1]))]
      BY <2>2, <2>3, <2>4, <2>7, MapOf DEF MergeValue
    <3>2. /\ DeepMerge(o, Only(k, s[n - 1])) \in Objects(D(n - 1))
          /\ \A j \in Keys : DeepMerge(o, Only(k, s[n - 1]))[j] = MergeValue(o[j], Only(k, s[n - 1])[j])
      BY <2>5, <2>6, DeepMergeFields
    <3>3. \A j \in Keys : DeepMerge(o, Only(k, s[n - 1]))[j] = IF j = k THEN r[n - 1] ELSE o[j]
      BY <2>2, <2>6, <3>2 DEF MergeValue
    <3>4. DeepMerge(o, Only(k, s[n - 1])) = [o EXCEPT ![k] = r[n - 1]]
      <4> HIDE DEF D
      <4> QED BY <2>5, <3>2, <3>3 DEF Objects
    <3> QED BY <3>1, <3>4 DEF o, k
  <2>8. CASE ~IsMap(x)
    <3>1. r[n] = [map |-> Only(k, s[n - 1])]
      BY <2>2, <2>3, <2>8, MapOf DEF MergeValue
    <3>2. o = NoFields /\ o[k] = NoValue
      BY <2>4, <2>5, <2>8 DEF NoFields
    <3>3. r[n - 1] = s[n - 1]
      BY <2>2, <3>2, MapOf DEF MergeValue
    <3> QED BY <3>1, <3>2, <3>3 DEF Only, o, k
  <2> QED BY <2>7, <2>8
<1>10. IsC(o0, r)
  <2>1. r = [n \in 0 .. L - 1 |-> r[n]]
    OBVIOUS
  <2> HIDE DEF r, Final
  <2>2. \A n \in 0 .. L - 1 : r[n] = IF n = 0 THEN Final(o0)
               ELSE [map |-> [o0[L - n] EXCEPT ![p[L - n + 1]] = r[n - 1]]]
    <3> TAKE n \in 0 .. L - 1
    <3>1. n # 0 => n \in 1 .. L - 1
      BY <1>0
    <3> QED BY <1>8, <1>9, <3>1
  <2> QED BY <2>1, <2>2
<1>11. IsC(o0, c0)
  <2> HIDE DEF IsC, r
  <2> QED BY <1>10
<1> HIDE DEF c0, r, Final
<1>12. c0[L - 1] = r[L - 1]
  <2>1. c0[0] = r[0]
    BY <1>0, <1>10, <1>11
  <2>2. \A n \in 1 .. L - 1 : c0[n - 1] = r[n - 1] => c0[n] = r[n]
    <3> TAKE n \in 1 .. L - 1
    <3>1. n \in 0 .. L - 1 /\ n # 0
      BY <1>0
    <3>2. c0[n] = [map |-> [o0[L - n] EXCEPT ![p[L - n + 1]] = c0[n - 1]]]
      BY <1>11, <3>1
    <3> QED BY <1>9, <3>2
  <2> DEFINE N == L - 1
  <2>3. N \in Nat /\ \A n \in 1 .. N : c0[n - 1] = r[n - 1] => c0[n] = r[n]
    BY <1>0, <2>2
  <2>4. \A n \in 0 .. N : c0[n] = r[n]
    <3>1. SameSteps(N, r, c0)
      <4> HIDE DEF IsC, N
      <4> QED BY <2>1, <2>3 DEF SameSteps
    <3> HIDE DEF IsC, N
    <3> QED BY <2>3, <3>1, SameComputation
  <2> QED BY <1>0, <2>4
<1>13. /\ r[L - 1] = MergeValue(f[p[1]], s[L - 1]) /\ s[L - 1] \in Values[Nesting]
       /\ Nesting \in 0 .. Nesting /\ p[1] \in Keys
  <2>1. /\ L - 1 \in 0 .. L - 1 /\ L - (L - 1) - 1 = 0 /\ L - (L - 1) = 1 /\ D(L - 1) = Nesting
        /\ Nesting \in 0 .. Nesting
    BY <1>0
  <2>2. t[0] = f
    BY <1>1 DEF Targets
  <2>3. s[L - 1] \in Values[D(L - 1)]
    <3> HIDE DEF D
    <3> QED BY <1>7, <2>1
  <2>4. r[L - 1] = MergeValue(At(L - 1), s[L - 1])
    BY <2>1 DEF r
  <2> QED BY <1>0, <2>1, <2>2, <2>3, <2>4
<1>14. Nested(p, v) = Only(p[1], s[L - 1])
  BY <1>2, NestedDef DEF L
<1> DEFINE k == p[1]
           w == s[L - 1]
<1> HIDE DEF k, w, At, D
<1>15. k \in Keys /\ w \in Values[Nesting] /\ Nested(p, v) = Only(k, w)
       /\ parseKeyVal(f, p, v) = [f EXCEPT ![k] = MergeValue(f[k], w)]
  BY <1>3, <1>12, <1>13, <1>14 DEF k, w
<1>16. /\ Only(k, w) \in AllObjects
       /\ \A j \in Keys : Only(k, w)[j] = IF j = k THEN w ELSE NoValue
  BY <1>13, <1>15, OnlyType DEF AllObjects
<1>17. /\ DeepMerge(f, Only(k, w)) \in AllObjects
       /\ \A j \in Keys : DeepMerge(f, Only(k, w))[j] = MergeValue(f[j], Only(k, w)[j])
  BY <1>13, <1>16, DeepMergeFields DEF AllObjects
<1>18. \A j \in Keys : DeepMerge(f, Only(k, w))[j] = IF j = k THEN MergeValue(f[k], w) ELSE f[j]
  BY <1>16, <1>17 DEF MergeValue
<1>19. DeepMerge(f, Only(k, w)) = [f EXCEPT ![k] = MergeValue(f[k], w)]
  BY <1>15, <1>17, <1>18 DEF AllObjects, Objects
<1> QED BY <1>15, <1>16, <1>19

-----------------------------------------------------------------------------
(* The settings so far, each as an object. *)
Asked == [i \in DOMAIN settings |-> Nested(settings[i].path, settings[i].value)]

(* Environments and layers are objects, and the last writer wins so far.      *)
EnvInv ==
  /\ settings \in Seq(Settings) /\ cli \in AllObjects
  /\ env \in AllObjects /\ layers \in Seq(AllObjects)
  /\ LastWriterWins

(* A setting is one that parseKeyVal can merge. *)
LEMMA SettingObject ==
  ASSUME NEW s \in Settings
  PROVE  /\ Nested(s.path, s.value) \in AllObjects
         /\ \A f \in AllObjects : parseKeyVal(f, s.path, s.value) = DeepMerge(f, Nested(s.path, s.value))
<1>1. /\ s.path \in Seq(Keys) /\ Len(s.path) \in 1 .. Nesting + 1
      /\ s.value \in Values[Nesting + 1 - Len(s.path)] /\ s.value # NoValue
  BY EnvAssumption
<1>2. NoFields \in AllObjects
  BY AnyValue
<1> QED BY <1>1, <1>2, ParseIsMerge

(* Nothing has been written. *)
LEMMA InitEnvInv == EnvInit => EnvInv
<1> SUFFICES ASSUME EnvInit PROVE EnvInv
  OBVIOUS
<1>1. settings = <<>> /\ cli = NoFields /\ env = NoFields /\ layers = <<>>
  BY DEF EnvInit
<1>2. Asked = <<>>
  BY <1>1 DEF Asked
<1>3. \A path \in Paths : LastDecides(cli, Asked, path) /\ LastDecides(env, layers, path)
  BY <1>1, <1>2, NoLayers, PathAssumption
<1> QED BY <1>1, <1>3, AnyValue DEF EnvInv, LastWriterWins, Asked

(* A merge into the environment is a layer. *)
LEMMA MergeInv ==
  ASSUME EnvInv, NEW x \in AllObjects, Merge(x)
  PROVE  EnvInv'
<1>1. /\ env' = DeepMerge(env, x) /\ layers' = Append(layers, x)
      /\ settings' = settings /\ cli' = cli
  BY DEF Merge
<1>2. env' \in AllObjects /\ layers' \in Seq(AllObjects)
  <2>1. DeepMerge(env, x) \in AllObjects
    <3>1. Nesting \in 0 .. Nesting
      BY EnvAssumption
    <3> QED BY <3>1, DeepMergeFields DEF EnvInv, AllObjects
  <2> QED BY <1>1, <2>1 DEF EnvInv
<1>3. ASSUME NEW path \in Paths
      PROVE  LastDecides(cli', Asked', path) /\ LastDecides(env', layers', path)
  <2>1. path \in Seq(Keys) /\ path # <<>>
    BY PathAssumption
  <2>2. LastDecides(cli, Asked, path) /\ LastDecides(env, layers, path)
    BY DEF EnvInv, LastWriterWins, Asked
  <2>3. Asked' = Asked
    BY <1>1 DEF Asked
  <2>4. LastDecides(DeepMerge(env, x), Append(layers, x), path)
    BY <2>1, <2>2, LayerAdded DEF EnvInv
  <2> QED BY <1>1, <2>2, <2>3, <2>4
<1> QED BY <1>1, <1>2, <1>3 DEF EnvInv, LastWriterWins, Asked

(* A setting is a layer of the command line. *)
LEMMA SettingInv ==
  ASSUME EnvInv, NEW s \in Settings, ParseSetting(s)
  PROVE  EnvInv'
<1> DEFINE x == Nested(s.path, s.value)
<1>1. /\ settings' = Append(settings, s) /\ cli' = parseKeyVal(cli, s.path, s.value)
      /\ env' = env /\ layers' = layers
  BY DEF ParseSetting
<1>2. x \in AllObjects /\ cli' = DeepMerge(cli, x)
  BY <1>1, SettingObject DEF EnvInv
<1>3. Asked \in Seq(AllObjects) /\ Asked' = Append(Asked, x)
  <2>1. settings \in Seq(Settings)
    BY DEF EnvInv
  <2>2. \A i \in 1 .. Len(settings) : Nested(settings[i].path, settings[i].value) \in AllObjects
    BY <2>1, SettingObject
  <2>3. Asked = [i \in 1 .. Len(settings) |-> Nested(settings[i].path, settings[i].value)]
    BY <2>1 DEF Asked
  <2>4. Asked \in Seq(AllObjects) /\ Len(Asked) = Len(settings)
    BY <2>1, <2>2, <2>3
  <2>5. Asked' = [i \in 1 .. Len(settings) + 1 |->
                    Nested(Append(settings, s)[i].path, Append(settings, s)[i].value)]
    BY <1>1, <2>1 DEF Asked
  <2>6. Append(Asked, x) = [i \in 1 .. Len(settings) + 1 |->
                              IF i = Len(settings) + 1 THEN x ELSE Asked[i]]
    BY <2>4
  <2>7. \A i \in 1 .. Len(settings) + 1 :
          Nested(Append(settings, s)[i].path, Append(settings, s)[i].value) =
            IF i = Len(settings) + 1 THEN x ELSE Asked[i]
    BY <2>1, <2>3
  <2> QED BY <2>4, <2>5, <2>6, <2>7
<1> HIDE DEF x
<1>4. cli' \in AllObjects /\ settings' \in Seq(Settings)
  <2>1. DeepMerge(cli, x) \in AllObjects
    <3>1. Nesting \in 0 .. Nesting
      BY EnvAssumption
    <3> QED BY <1>2, <3>1, DeepMergeFields DEF EnvInv, AllObjects
  <2> QED BY <1>1, <1>2, <2>1 DEF EnvInv
<1>5. ASSUME NEW path \in Paths
      PROVE  LastDecides(cli', Asked', path) /\ LastDecides(env', layers', path)
  <2>1. path \in Seq(Keys) /\ path # <<>>
    BY PathAssumption
  <2>2. LastDecides(cli, Asked, path) /\ LastDecides(env, layers, path)
    BY DEF EnvInv, LastWriterWins, Asked
  <2>3. LastDecides(DeepMerge(cli, x), Append(Asked, x), path)
    BY <1>2, <1>3, <2>1, <2>2, LayerAdded DEF EnvInv
  <2> QED BY <1>1, <1>2, <1>3, <2>2, <2>3
<1> QED BY <1>1, <1>4, <1>5 DEF EnvInv, LastWriterWins, Asked

(* Every step is a layer of one of the two, or none. *)
LEMMA StepEnvInv == EnvInv /\ [EnvNext]_envVars => EnvInv'
<1> SUFFICES ASSUME EnvInv, [EnvNext]_envVars PROVE EnvInv'
  OBVIOUS
<1>0. \A fields \in EnvFiles : fields \in AllObjects
  BY EnvAssumption DEF AllObjects
<1>1. ASSUME NEW s \in Settings, ParseSetting(s) PROVE EnvInv'
  BY <1>1, SettingInv
<1>2. CASE UNCHANGED <<settings, cli, env, layers>>
  BY <1>2 DEF EnvInv, LastWriterWins
<1>3. ASSUME NEW fields \in EnvFiles, ReadFile(fields) \/ TakeLabel(fields) PROVE EnvInv'
  BY <1>0, <1>3, MergeInv DEF ReadFile, TakeLabel
<1>4. CASE FilesRead
  BY <1>4, MergeInv DEF FilesRead, EnvInv
<1> QED BY <1>1, <1>2, <1>3, <1>4 DEF EnvNext, ReadFiles, RunVariant, envVars

(* The last writer of a field wins, whatever the objects are and however many *)
(* of them are merged.                                                        *)
THEOREM LastWriter == EnvSpec => []LastWriterWins
<1>1. EnvSpec => []EnvInv
  BY InitEnvInv, StepEnvInv, PTL DEF EnvSpec
<1>2. EnvInv => LastWriterWins
  BY DEF EnvInv
<1> QED BY <1>1, <1>2, PTL
=============================================================================
