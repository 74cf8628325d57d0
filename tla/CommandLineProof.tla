--------------------------- MODULE CommandLineProof -------------------------
(* What the CLI announces, sends, reports and exits with fits together, for   *)
(* any scenarios, matrices, filters and --count: the five invariants of the   *)
(* command_line run.                                                          *)
(*                                                                            *)
(* The numbers of bundles are sums and products over sequences, so the proof  *)
(* starts with induction.  The library's induction theorem takes an operator; *)
(* here the statement is a set of numbers, and its least counterexample comes *)
(* from WFMin.                                                                *)
EXTENDS CommandLine, TLAPS, FiniteSetTheorems, WellFoundedInduction

(* A set of numbers with 0 and every successor has all numbers.               *)
LEMMA NatSetInduction ==
  ASSUME NEW S, 0 \in S, \A n \in Nat : n \in S => n + 1 \in S
  PROVE  Nat \subseteq S
<1> DEFINE T == Nat \ S
<1>1. SUFFICES ASSUME T # {} PROVE FALSE
  OBVIOUS
<1>2. PICK x \in T : \A y \in T : ~(<<y, x>> \in OpToRel(<, Nat))
  <2>1. IsWellFoundedOn(OpToRel(<, Nat), Nat)
    BY NatLessThanWellFounded
  <2>2. T \subseteq Nat
    OBVIOUS
  <2> HIDE DEF T
  <2> QED BY <1>1, <2>1, <2>2, WFMin
<1>3. \A y \in T : ~(y < x)
  <2> SUFFICES ASSUME NEW y \in T, y < x PROVE FALSE
    OBVIOUS
  <2>1. <<y, x>> \in OpToRel(<, Nat)
    BY DEF OpToRel
  <2> QED BY <1>2, <2>1
<1>4. x # 0 /\ x \in Nat
  OBVIOUS
<1>5. x - 1 \in Nat /\ x - 1 < x
  BY <1>4
<1>6. x - 1 \in S
  BY <1>3, <1>5
<1> QED BY <1>5, <1>6, <1>4

(* f is what a loop computes that starts with b and does step g[n] for n = 1 .. N. *)
Follows(f, V, b, N, g) ==
  f \in [0 .. N -> V] /\ f[0] = b /\ \A n \in 1 .. N : f[n] = g[n][f[n - 1]]

(* There is such a computation. *)
LEMMA RecursionExists ==
  ASSUME NEW V, NEW b \in V, NEW N \in Nat, NEW g \in [1 .. N -> [V -> V]]
  PROVE  \E f : Follows(f, V, b, N, g)
<1> DEFINE Good(m) == \E f \in [0 .. m -> V] :
                        f[0] = b /\ \A n \in 1 .. m : f[n] = g[n][f[n - 1]]
           S == {m \in Nat : m <= N => Good(m)}
<1>1. 0 \in S
  <2> DEFINE f == [n \in 0 .. 0 |-> b]
  <2>1. f[0] = b /\ f \in [0 .. 0 -> V] /\ 1 .. 0 = {}
    OBVIOUS
  <2>2. Good(0)
    BY <2>1
  <2> HIDE DEF Good
  <2> QED BY <2>2
<1>2. \A m \in Nat : m \in S => m + 1 \in S
  <2> SUFFICES ASSUME NEW m \in Nat, m \in S, m + 1 <= N PROVE Good(m + 1)
    <3> HIDE DEF Good
    <3> QED OBVIOUS
  <2>1. PICK f \in [0 .. m -> V] : f[0] = b /\ \A n \in 1 .. m : f[n] = g[n][f[n - 1]]
    OBVIOUS
  <2> DEFINE h == [n \in 0 .. m + 1 |-> IF n <= m THEN f[n] ELSE g[m + 1][f[m]]]
  <2>2. g[m + 1][f[m]] \in V
    OBVIOUS
  <2>3. h \in [0 .. m + 1 -> V]
    BY <2>2
  <2>4. h[0] = b
    BY <2>1
  <2>5. \A n \in 1 .. m + 1 : h[n] = g[n][h[n - 1]]
    <3> TAKE n \in 1 .. m + 1
    <3>1. CASE n <= m
      <4>1. n \in 1 .. m /\ n \in 0 .. m + 1 /\ n - 1 \in 0 .. m + 1 /\ n - 1 <= m
        BY <3>1
      <4>2. h[n] = f[n] /\ h[n - 1] = f[n - 1]
        BY <3>1, <4>1
      <4> HIDE DEF h
      <4> QED BY <2>1, <4>1, <4>2
    <3>2. CASE n = m + 1
      <4>1. h[m + 1] = g[m + 1][f[m]] /\ h[m] = f[m] /\ (m + 1) - 1 = m
        OBVIOUS
      <4> HIDE DEF h
      <4> QED BY <3>2, <4>1
    <3> QED BY <3>1, <3>2
  <2> HIDE DEF h
  <2> QED BY <2>3, <2>4, <2>5
<1> HIDE DEF S
<1>3. N \in S
  BY <1>1, <1>2, NatSetInduction
<1> QED BY <1>3 DEF S, Follows
(* f holds the sums of the first 0 .. N numbers of w. *)
PrefixSums(f, N, w) ==
  f \in [0 .. N -> Nat] /\ f[0] = 0 /\ \A n \in 1 .. N : f[n] = f[n - 1] + w[n]

(* Total is the last of the prefix sums. *)
LEMMA TotalDef ==
  ASSUME NEW w \in Seq(Nat)
  PROVE  \E f : PrefixSums(f, Len(w), w) /\ Total(w) = f[Len(w)]
<1> DEFINE N == Len(w)
           g == [n \in 1 .. N |-> [v \in Nat |-> v + w[n]]]
           Is(f) == f = [n \in 0 .. N |-> IF n = 0 THEN 0 ELSE f[n - 1] + w[n]]
<1>1. N \in Nat /\ 0 \in Nat /\ g \in [1 .. N -> [Nat -> Nat]]
  OBVIOUS
<1>2. PICK f : Follows(f, Nat, 0, N, g)
  <2> HIDE DEF N, g
  <2> QED BY <1>1, RecursionExists
<1>3. \A n \in 1 .. N : f[n] = f[n - 1] + w[n]
  <2> TAKE n \in 1 .. N
  <2>1. n \in 1 .. N /\ n - 1 \in 0 .. N
    BY <1>1
  <2>2. f[n - 1] \in Nat /\ f[n] = g[n][f[n - 1]]
    <3> HIDE DEF N, g
    <3> QED BY <1>2, <2>1 DEF Follows
  <2> QED BY <2>2
<1>4. Is(f)
  <2> HIDE DEF N
  <2>1. f = [n \in 0 .. N |-> f[n]]
    BY <1>2 DEF Follows
  <2>2. \A n \in 0 .. N : f[n] = IF n = 0 THEN 0 ELSE f[n - 1] + w[n]
    BY <1>1, <1>2, <1>3 DEF Follows
  <2> QED BY <2>1, <2>2
<1>5. PICK h : Is(h) /\ Total(w) = h[N]
  BY <1>4 DEF Total
<1>6. \A n \in 0 .. N : h[n] = f[n]
  <2> DEFINE S == {n \in Nat : n <= N => h[n] = f[n]}
  <2> HIDE DEF N
  <2>1. 0 \in S
    BY <1>1, <1>2, <1>5 DEF Follows
  <2>2. \A n \in Nat : n \in S => n + 1 \in S
    <3> SUFFICES ASSUME NEW n \in Nat, n \in S, n + 1 <= N PROVE h[n + 1] = f[n + 1]
      OBVIOUS
    <3>1. n + 1 \in 1 .. N /\ n + 1 \in 0 .. N /\ h[n] = f[n] /\ n + 1 # 0 /\ (n + 1) - 1 = n
      BY <1>1
    <3>2. h[n + 1] = h[n] + w[n + 1]
      BY <1>5, <3>1
    <3>3. f[n + 1] = f[n] + w[n + 1]
      BY <1>3, <3>1
    <3> QED BY <3>1, <3>2, <3>3
  <2> HIDE DEF S
  <2>3. Nat \subseteq S
    BY <2>1, <2>2, NatSetInduction
  <2> QED BY <1>1, <2>3 DEF S
<1>7. Total(w) = f[N]
  <2> HIDE DEF N
  <2> QED BY <1>1, <1>5, <1>6
<1> HIDE DEF g
<1> QED BY <1>2, <1>3, <1>7 DEF Follows, PrefixSums

(* The prefix sums of two sequences that agree up to n agree up to n. *)
LEMMA SumsAgree ==
  ASSUME NEW N \in Nat, NEW f, NEW h, NEW w, NEW v,
         PrefixSums(f, N, w), PrefixSums(h, N, v),
         \A n \in 1 .. N : w[n] = v[n]
  PROVE  \A n \in 0 .. N : f[n] = h[n]
<1> DEFINE S == {n \in Nat : n <= N => f[n] = h[n]}
<1>1. 0 \in S
  BY DEF PrefixSums
<1>2. \A n \in Nat : n \in S => n + 1 \in S
  <2> SUFFICES ASSUME NEW n \in Nat, n \in S, n + 1 <= N PROVE f[n + 1] = h[n + 1]
    OBVIOUS
  <2>1. n + 1 \in 1 .. N /\ (n + 1) - 1 = n /\ f[n] = h[n]
    OBVIOUS
  <2>2. f[n + 1] = f[n] + w[n + 1] /\ h[n + 1] = h[n] + v[n + 1]
    BY <2>1 DEF PrefixSums
  <2> QED BY <2>1, <2>2
<1> HIDE DEF S
<1>3. Nat \subseteq S
  BY <1>1, <1>2, NatSetInduction
<1> QED BY <1>3 DEF S

(* A sum of numbers is a number. *)
LEMMA TotalType ==
  ASSUME NEW w \in Seq(Nat)
  PROVE  Total(w) \in Nat
<1>1. PICK f : PrefixSums(f, Len(w), w) /\ Total(w) = f[Len(w)]
  BY TotalDef
<1>2. Len(w) \in 0 .. Len(w)
  OBVIOUS
<1> QED BY <1>1, <1>2 DEF PrefixSums

(* The empty sum. *)
LEMMA TotalEmpty == Total(<<>>) = 0
<1>1. <<>> \in Seq(Nat) /\ Len(<<>>) = 0
  OBVIOUS
<1> QED BY <1>1, TotalDef DEF PrefixSums

(* One number more. *)
LEMMA TotalAppend ==
  ASSUME NEW w \in Seq(Nat), NEW x \in Nat
  PROVE  Total(Append(w, x)) = Total(w) + x
<1> DEFINE v == Append(w, x)
<1>1. v \in Seq(Nat) /\ Len(v) = Len(w) + 1 /\ v[Len(w) + 1] = x
  OBVIOUS
<1>2. \A n \in 1 .. Len(w) : v[n] = w[n]
  OBVIOUS
<1> HIDE DEF v
<1>3. PICK f : PrefixSums(f, Len(w), w) /\ Total(w) = f[Len(w)]
  BY TotalDef
<1>4. PICK h : PrefixSums(h, Len(v), v) /\ Total(v) = h[Len(v)]
  BY <1>1, TotalDef
<1>5. PrefixSums([n \in 0 .. Len(w) |-> h[n]], Len(w), v)
  BY <1>1, <1>4 DEF PrefixSums
<1>6. h[Len(w)] = f[Len(w)]
  <2>1. Len(w) \in Nat
    OBVIOUS
  <2>2. \A n \in 0 .. Len(w) : f[n] = [k \in 0 .. Len(w) |-> h[k]][n]
    BY <1>2, <1>3, <1>5, <2>1, SumsAgree
  <2> QED BY <2>1, <2>2
<1>7. h[Len(w) + 1] = h[Len(w)] + x
  <2>1. Len(w) + 1 \in 1 .. Len(v) /\ (Len(w) + 1) - 1 = Len(w)
    BY <1>1
  <2> QED BY <1>1, <1>4, <2>1 DEF PrefixSums
<1> QED BY <1>1, <1>3, <1>4, <1>6, <1>7 DEF v

(* Two sums in a row. *)
LEMMA TotalConcat ==
  ASSUME NEW v \in Seq(Nat), NEW w \in Seq(Nat)
  PROVE  Total(v \o w) = Total(v) + Total(w)
<1> DEFINE Part(n) == SubSeq(w, 1, n)
           S == {n \in Nat : n <= Len(w) => Total(v \o Part(n)) = Total(v) + Total(Part(n))}
<1>0. Len(w) \in Nat /\ \A n \in 0 .. Len(w) : Part(n) \in Seq(Nat)
  OBVIOUS
<1>1. 0 \in S
  <2>1. Part(0) = <<>> /\ v \o <<>> = v
    OBVIOUS
  <2>2. Total(v) + 0 = Total(v)
    BY TotalType
  <2>3. Total(v \o Part(0)) = Total(v) + Total(Part(0))
    <3> HIDE DEF Front
    <3> QED BY <2>1, <2>2, TotalEmpty
  <2> QED BY <2>3
<1>2. \A n \in Nat : n \in S => n + 1 \in S
  <2> SUFFICES ASSUME NEW n \in Nat, n \in S, n + 1 <= Len(w)
               PROVE  Total(v \o Part(n + 1)) = Total(v) + Total(Part(n + 1))
    OBVIOUS
  <2>1. Part(n) \in Seq(Nat) /\ v \o Part(n) \in Seq(Nat) /\ w[n + 1] \in Nat
    OBVIOUS
  <2>2. Part(n + 1) = Append(Part(n), w[n + 1])
    OBVIOUS
  <2>3. v \o Part(n + 1) = Append(v \o Part(n), w[n + 1])
    BY <2>1, <2>2
  <2>4. Total(v \o Part(n)) = Total(v) + Total(Part(n))
    OBVIOUS
  <2> HIDE DEF Front
  <2>5. Total(Part(n + 1)) = Total(Part(n)) + w[n + 1]
    BY <2>1, <2>2, TotalAppend
  <2>6. Total(v \o Part(n + 1)) = Total(v \o Part(n)) + w[n + 1]
    BY <2>1, <2>3, TotalAppend
  <2>7. Total(v) \in Nat /\ Total(Part(n)) \in Nat
    BY <2>1, TotalType
  <2> QED BY <2>1, <2>4, <2>5, <2>6, <2>7
<1> HIDE DEF S
<1>3. Nat \subseteq S
  BY <1>1, <1>2, NatSetInduction
<1>4. Total(v \o Part(Len(w))) = Total(v) + Total(Part(Len(w)))
  BY <1>0, <1>3 DEF S
<1>5. Part(Len(w)) = w
  OBVIOUS
<1> QED BY <1>4, <1>5

(* The elements of a concatenation. *)
LEMMA Concatenated ==
  ASSUME NEW S, NEW v \in Seq(S), NEW w \in Seq(S)
  PROVE  /\ v \o w \in Seq(S) /\ Len(v \o w) = Len(v) + Len(w)
         /\ \A i \in 1 .. Len(v) + Len(w) :
              (v \o w)[i] = IF i <= Len(v) THEN v[i] ELSE w[i - Len(v)]
OBVIOUS

(* P holds the numbers of variants of the first 0 .. N axes of m. *)
Products(P, N, m) ==
  P \in [0 .. N -> Nat \ {0}] /\ P[0] = 1 /\ \A n \in 1 .. N : P[n] = P[n - 1] * Len(m[n])

(* An axis has labels. *)
LEMMA AxisLength ==
  ASSUME NEW m \in Seq(Axes), NEW j \in 1 .. Len(m)
  PROVE  m[j] \in Axes /\ Len(m[j]) \in Nat \ {0} /\ DOMAIN m[j] = 1 .. Len(m[j])
<1>1. m[j] \in Axes
  OBVIOUS
<1>2. m[j] \in Seq(Labels) /\ m[j] # <<>>
  BY <1>1 DEF Axes
<1> QED BY <1>1, <1>2

(* CountVariants is the last of these numbers. *)
LEMMA CountVariantsDef ==
  ASSUME NEW m \in Seq(Axes)
  PROVE  \E P : Products(P, Len(m), m) /\ CountVariants(m) = P[Len(m)]
<1> DEFINE N == Len(m)
           V == Nat \ {0}
           g == [n \in 1 .. N |-> [v \in V |-> v * Len(m[n])]]
           Is(f) == f = [n \in 0 .. N |-> IF n = 0 THEN 1 ELSE f[n - 1] * Len(m[n])]
<1>1. \A n \in 1 .. N : Len(m[n]) \in V
  BY AxisLength
<1>2. N \in Nat /\ 1 \in V /\ g \in [1 .. N -> [V -> V]]
  <2>1. \A a, b \in V : a * b \in V
    OBVIOUS
  <2>2. \A n \in 1 .. N : [v \in V |-> v * Len(m[n])] \in [V -> V]
    BY <1>1, <2>1
  <2> HIDE DEF V
  <2>3. g \in [1 .. N -> [V -> V]]
    BY <2>2
  <2> QED BY <2>3 DEF V
<1>3. PICK f : Follows(f, V, 1, N, g)
  <2> HIDE DEF N, g, V
  <2> QED BY <1>2, RecursionExists
<1>4. \A n \in 1 .. N : f[n] = f[n - 1] * Len(m[n])
  <2> TAKE n \in 1 .. N
  <2>1. n \in 1 .. N /\ n - 1 \in 0 .. N
    BY <1>2
  <2>2. f[n - 1] \in V /\ f[n] = g[n][f[n - 1]]
    <3> HIDE DEF N, g, V
    <3> QED BY <1>3, <2>1 DEF Follows
  <2> QED BY <2>2
<1>5. Is(f)
  <2> HIDE DEF N
  <2>1. f = [n \in 0 .. N |-> f[n]]
    BY <1>3 DEF Follows
  <2>2. \A n \in 0 .. N : f[n] = IF n = 0 THEN 1 ELSE f[n - 1] * Len(m[n])
    BY <1>2, <1>3, <1>4 DEF Follows
  <2> QED BY <2>1, <2>2
<1>6. PICK h : Is(h) /\ CountVariants(m) = h[N]
  BY <1>5 DEF CountVariants
<1>7. \A n \in 0 .. N : h[n] = f[n]
  <2> DEFINE S == {n \in Nat : n <= N => h[n] = f[n]}
  <2> HIDE DEF N
  <2>1. 0 \in S
    BY <1>2, <1>3, <1>6 DEF Follows
  <2>2. \A n \in Nat : n \in S => n + 1 \in S
    <3> SUFFICES ASSUME NEW n \in Nat, n \in S, n + 1 <= N PROVE h[n + 1] = f[n + 1]
      OBVIOUS
    <3>1. n + 1 \in 1 .. N /\ n + 1 \in 0 .. N /\ h[n] = f[n] /\ n + 1 # 0 /\ (n + 1) - 1 = n
      BY <1>2
    <3>2. h[n + 1] = h[n] * Len(m[n + 1])
      BY <1>6, <3>1
    <3>3. f[n + 1] = f[n] * Len(m[n + 1])
      BY <1>4, <3>1
    <3> QED BY <3>1, <3>2, <3>3
  <2> HIDE DEF S
  <2>3. Nat \subseteq S
    BY <2>1, <2>2, NatSetInduction
  <2> QED BY <1>2, <2>3 DEF S
<1>8. CountVariants(m) = f[N]
  <2> HIDE DEF N
  <2> QED BY <1>2, <1>6, <1>7
<1> HIDE DEF g
<1> QED BY <1>3, <1>4, <1>8 DEF Follows, Products

(* A scenario has variants. *)
LEMMA CountVariantsPositive ==
  ASSUME NEW m \in Seq(Axes)
  PROVE  CountVariants(m) \in Nat \ {0}
<1>1. PICK P : Products(P, Len(m), m) /\ CountVariants(m) = P[Len(m)]
  BY CountVariantsDef
<1>2. Len(m) \in 0 .. Len(m)
  OBVIOUS
<1> QED BY <1>1, <1>2 DEF Products

(* What is left of path number p when takePath comes to axis j. *)
Rests(rest, p, m) ==
  /\ rest \in [1 .. Len(m) -> Nat]
  /\ Len(m) > 0 => rest[Len(m)] = p
  /\ \A j \in 1 .. Len(m) - 1 : rest[j] = rest[j + 1] \div Len(m[j + 1])

(* takePath indexes every axis with what is left of path, modulo its length. *)
LEMMA TakePathDef ==
  ASSUME NEW m \in Seq(Axes), NEW p \in Nat
  PROVE  \E rest : /\ Rests(rest, p, m)
                   /\ TakePath(p, m) = [j \in 1 .. Len(m) |-> m[j][(rest[j] % Len(m[j])) + 1]]
<1> DEFINE N == Len(m)
           L(j) == Len(m[j])
           g == [n \in 1 .. N |-> [v \in Nat |-> v \div Len(m[N - n + 1])]]
           Is(r) == r = [j \in DOMAIN m |-> IF j = Len(m) THEN p ELSE r[j + 1] \div Len(m[j + 1])]
<1>1. \A j \in 1 .. N : Len(m[j]) \in Nat \ {0}
  BY AxisLength
<1>2. N \in Nat /\ DOMAIN m = 1 .. N
  OBVIOUS
<1>3. g \in [1 .. N -> [Nat -> Nat]]
  <2>1. \A n \in 1 .. N : [v \in Nat |-> v \div Len(m[N - n + 1])] \in [Nat -> Nat]
    <3> TAKE n \in 1 .. N
    <3>1. N - n + 1 \in 1 .. N
      BY <1>2
    <3>2. Len(m[N - n + 1]) \in Nat \ {0}
      BY <1>1, <3>1
    <3>3. \A v \in Nat, l \in Nat \ {0} : v \div l \in Nat
      OBVIOUS
    <3>4. \A v \in Nat : v \div Len(m[N - n + 1]) \in Nat
      BY <3>2, <3>3
    <3> QED BY <3>4
  <2> QED BY <2>1
<1>4. PICK f : Follows(f, Nat, p, N, g)
  <2> HIDE DEF N, g
  <2> QED BY <1>2, <1>3, RecursionExists
<1>5. f \in [0 .. N -> Nat] /\ f[0] = p
  BY <1>4 DEF Follows
<1>6. \A n \in 1 .. N : f[n] = f[n - 1] \div Len(m[N - n + 1])
  <2> TAKE n \in 1 .. N
  <2>1. n \in 1 .. N /\ n - 1 \in 0 .. N
    BY <1>2
  <2>2. f[n - 1] \in Nat /\ f[n] = g[n][f[n - 1]]
    <3> HIDE DEF N, g
    <3> QED BY <1>4, <2>1 DEF Follows
  <2> QED BY <2>2
<1> HIDE DEF N, g
<1> DEFINE r == [j \in 1 .. N |-> f[N - j]]
<1>7. \A j \in 1 .. N : r[j] = f[N - j] /\ r[j] \in Nat
  BY <1>2, <1>5
<1>8. \A j \in 1 .. N : r[j] = IF j = N THEN p ELSE r[j + 1] \div Len(m[j + 1])
  <2> TAKE j \in 1 .. N
  <2>1. CASE j = N
    BY <1>2, <1>5, <1>7, <2>1
  <2>2. CASE j # N
    <3>1. /\ N - j \in 1 .. N /\ j + 1 \in 1 .. N /\ N - (j + 1) = (N - j) - 1
          /\ N - (N - j) + 1 = j + 1
      BY <1>2, <2>2
    <3>2. f[N - j] = f[(N - j) - 1] \div Len(m[N - (N - j) + 1])
      BY <1>6, <3>1
    <3>3. r[j] = f[N - j] /\ r[j + 1] = f[N - (j + 1)]
      BY <1>7, <3>1
    <3> QED BY <2>2, <3>1, <3>2, <3>3
  <2> QED BY <2>1, <2>2
<1>9. Is(r)
  BY <1>2, <1>8 DEF N
<1>10. PICK h : /\ Is(h)
                /\ TakePath(p, m) = [j \in DOMAIN m |-> m[j][(h[j] % Len(m[j])) + 1]]
  <2> HIDE DEF r
  <2> QED BY <1>9 DEF TakePath
<1>11. \A j \in 1 .. N : h[j] = IF j = N THEN p ELSE h[j + 1] \div Len(m[j + 1])
  BY <1>2, <1>10 DEF N
<1>12. \A j \in 1 .. N : h[j] = r[j]
  <2> DEFINE S == {n \in Nat : n < N => h[N - n] = r[N - n]}
  <2> HIDE DEF r
  <2>1. 0 \in S
    BY <1>2, <1>8, <1>11
  <2>2. \A n \in Nat : n \in S => n + 1 \in S
    <3> SUFFICES ASSUME NEW n \in Nat, n \in S, n + 1 < N
                 PROVE  h[N - (n + 1)] = r[N - (n + 1)]
      OBVIOUS
    <3> DEFINE j == N - (n + 1)
    <3>1. j \in 1 .. N /\ j # N /\ j + 1 = N - n /\ h[j + 1] = r[j + 1]
      BY <1>2
    <3> HIDE DEF j
    <3>2. h[j] = h[j + 1] \div Len(m[j + 1]) /\ r[j] = r[j + 1] \div Len(m[j + 1])
      BY <1>8, <1>11, <3>1
    <3> QED BY <3>1, <3>2 DEF j
  <2> HIDE DEF S
  <2>3. Nat \subseteq S
    BY <2>1, <2>2, NatSetInduction
  <2> TAKE j \in 1 .. N
  <2>4. N - j \in Nat /\ N - j < N /\ N - (N - j) = j
    BY <1>2
  <2> QED BY <2>3, <2>4 DEF S
<1>13. Rests(r, p, m)
  <2> HIDE DEF r
  <2>1. r \in [1 .. N -> Nat]
    BY <1>7, <1>9, <1>2
  <2>2. N > 0 => r[N] = p
    BY <1>2, <1>8
  <2>3. \A j \in 1 .. N - 1 : r[j] = r[j + 1] \div Len(m[j + 1])
    BY <1>2, <1>8
  <2> QED BY <2>1, <2>2, <2>3 DEF Rests, N
<1>14. TakePath(p, m) = [j \in 1 .. N |-> m[j][(r[j] % Len(m[j])) + 1]]
  <2> HIDE DEF r
  <2> QED BY <1>2, <1>10, <1>12
<1> HIDE DEF r
<1> QED BY <1>13, <1>14 DEF N

(* The rest at axis j is the number of a path through the axes up to j. *)
LEMMA RestBound ==
  ASSUME NEW m \in Seq(Axes), NEW p \in Nat, NEW r, NEW P,
         Rests(r, p, m), Products(P, Len(m), m), p < P[Len(m)]
  PROVE  \A j \in 1 .. Len(m) : r[j] < P[j]
<1> DEFINE N == Len(m)
           S == {n \in Nat : n < N => r[N - n] < P[N - n]}
<1>0. N \in Nat
  OBVIOUS
<1>1. 0 \in S
  BY DEF Rests
<1>2. \A n \in Nat : n \in S => n + 1 \in S
  <2> HIDE DEF N
  <2> SUFFICES ASSUME NEW n \in Nat, n \in S, n + 1 < N
               PROVE  r[N - (n + 1)] < P[N - (n + 1)]
    OBVIOUS
  <2> DEFINE j == N - (n + 1)
  <2>1. j \in 1 .. N /\ j \in 1 .. N - 1 /\ j + 1 = N - n /\ (j + 1) - 1 = j /\ j + 1 \in 1 .. N
    BY <1>0
  <2>2. r[j + 1] < P[j + 1]
    BY <1>0, <2>1
  <2> HIDE DEF j
  <2>3. Len(m[j + 1]) \in Nat \ {0}
    BY <2>1, AxisLength DEF N
  <2>4. r[j + 1] \in Nat /\ r[j] = r[j + 1] \div Len(m[j + 1])
    BY <2>1 DEF Rests, N
  <2>5. P[j] \in Nat /\ P[j + 1] = P[j] * Len(m[j + 1])
    <3>1. j \in 0 .. N
      BY <2>1, <1>0
    <3>2. P[j] \in Nat
      BY <3>1 DEF Products, N
    <3>3. P[j + 1] = P[(j + 1) - 1] * Len(m[j + 1])
      BY <2>1 DEF Products, N
    <3> QED BY <2>1, <3>2, <3>3
  <2>6. \A x, a \in Nat, l \in Nat \ {0} : x < a * l => x \div l < a
    OBVIOUS
  <2>7. r[j] < P[j]
    BY <2>2, <2>3, <2>4, <2>5, <2>6
  <2> QED BY <2>7 DEF j
<1> HIDE DEF S
<1>3. Nat \subseteq S
  BY <1>1, <1>2, NatSetInduction
<1> TAKE j \in 1 .. N
<1>4. N - j \in Nat /\ N - j < N /\ N - (N - j) = j
  BY <1>0
<1> QED BY <1>3, <1>4 DEF S

(* Every path number gives a combination of labels. *)
LEMMA TakePathCombines ==
  ASSUME NEW m \in Seq(Axes), NEW p \in Nat
  PROVE  TakePath(p, m) \in Combinations(m)
<1>1. PICK r : /\ Rests(r, p, m)
               /\ TakePath(p, m) = [j \in 1 .. Len(m) |-> m[j][(r[j] % Len(m[j])) + 1]]
  BY TakePathDef
<1>2. DOMAIN m = 1 .. Len(m)
  OBVIOUS
<1> DEFINE c == TakePath(p, m)
<1>3. \A j \in 1 .. Len(m) : c[j] \in ToSet(m[j])
  <2> TAKE j \in 1 .. Len(m)
  <2>1. Len(m[j]) \in Nat \ {0} /\ DOMAIN m[j] = 1 .. Len(m[j])
    BY AxisLength
  <2>2. r[j] \in Nat
    BY <1>1 DEF Rests
  <2>3. \A x \in Nat, l \in Nat \ {0} : (x % l) + 1 \in 1 .. l
    OBVIOUS
  <2>4. (r[j] % Len(m[j])) + 1 \in DOMAIN m[j]
    BY <2>1, <2>2, <2>3
  <2>5. c[j] = m[j][(r[j] % Len(m[j])) + 1]
    BY <1>1
  <2> QED BY <2>4, <2>5 DEF ToSet
<1>4. c \in [DOMAIN m -> UNION {ToSet(m[j]) : j \in DOMAIN m}]
  <2>1. c = [j \in DOMAIN m |-> c[j]]
    BY <1>1, <1>2
  <2>2. \A j \in DOMAIN m : c[j] \in UNION {ToSet(m[k]) : k \in DOMAIN m}
    BY <1>2, <1>3
  <2> HIDE DEF c
  <2> QED BY <2>1, <2>2
<1> QED BY <1>2, <1>3, <1>4 DEF Combinations

(* Different path numbers give different combinations. *)
LEMMA TakePathInjective ==
  ASSUME NEW m \in Seq(Axes), NEW p \in Nat, NEW q \in Nat,
         p < CountVariants(m), q < CountVariants(m), TakePath(p, m) = TakePath(q, m)
  PROVE  p = q
<1> DEFINE N == Len(m)
<1>0. N \in Nat
  OBVIOUS
<1>1. PICK r : /\ Rests(r, p, m)
               /\ TakePath(p, m) = [j \in 1 .. N |-> m[j][(r[j] % Len(m[j])) + 1]]
  BY TakePathDef
<1>2. PICK s : /\ Rests(s, q, m)
               /\ TakePath(q, m) = [j \in 1 .. N |-> m[j][(s[j] % Len(m[j])) + 1]]
  BY TakePathDef
<1>3. PICK P : Products(P, N, m) /\ CountVariants(m) = P[N]
  BY CountVariantsDef
<1>4. \A j \in 1 .. N : r[j] < P[j] /\ s[j] < P[j]
  BY <1>1, <1>2, <1>3, RestBound
<1>5. \A j \in 1 .. N : r[j] \in Nat /\ s[j] \in Nat /\ Len(m[j]) \in Nat \ {0}
  BY <1>1, <1>2, AxisLength DEF Rests
<1>6. \A j \in 1 .. N : r[j] % Len(m[j]) = s[j] % Len(m[j])
  <2> TAKE j \in 1 .. N
  <2>1. m[j][(r[j] % Len(m[j])) + 1] = m[j][(s[j] % Len(m[j])) + 1]
    <3> HIDE DEF N
    <3>1. TakePath(p, m)[j] = m[j][(r[j] % Len(m[j])) + 1]
      BY <1>1
    <3>2. TakePath(q, m)[j] = m[j][(s[j] % Len(m[j])) + 1]
      BY <1>2
    <3> QED BY <3>1, <3>2
  <2>2. \A x \in Nat, l \in Nat \ {0} : (x % l) + 1 \in 1 .. l /\ x % l \in Nat
    OBVIOUS
  <2>3. m[j] \in Axes /\ DOMAIN m[j] = 1 .. Len(m[j])
    BY AxisLength
  <2>4. (r[j] % Len(m[j])) + 1 \in DOMAIN m[j] /\ (s[j] % Len(m[j])) + 1 \in DOMAIN m[j]
    BY <1>5, <2>2, <2>3
  <2>5. (r[j] % Len(m[j])) + 1 = (s[j] % Len(m[j])) + 1
    BY <2>1, <2>3, <2>4 DEF Axes
  <2>6. r[j] % Len(m[j]) \in Nat /\ s[j] % Len(m[j]) \in Nat
    BY <1>5, <2>2
  <2> QED BY <2>5, <2>6
<1> HIDE DEF N
<1>7. \A j \in 1 .. N : r[j] = s[j]
  <2> DEFINE S == {n \in Nat : n + 1 <= N => r[n + 1] = s[n + 1]}
  <2>1. 0 \in S
    <3> SUFFICES ASSUME 1 <= N PROVE r[1] = s[1]
      OBVIOUS
    <3>1. 1 \in 1 .. N
      BY <1>0
    <3>2. P[0] = 1 /\ P[1] = P[1 - 1] * Len(m[1])
      BY <1>3, <3>1 DEF Products
    <3>3. P[1] = Len(m[1])
      BY <1>5, <3>1, <3>2
    <3>4. r[1] < Len(m[1]) /\ s[1] < Len(m[1])
      BY <1>4, <3>1, <3>3
    <3>5. \A x \in Nat, l \in Nat \ {0} : x < l => x % l = x
      OBVIOUS
    <3> QED BY <1>5, <1>6, <3>1, <3>4, <3>5
  <2>2. \A n \in Nat : n \in S => n + 1 \in S
    <3> SUFFICES ASSUME NEW n \in Nat, n \in S, (n + 1) + 1 <= N
                 PROVE  r[(n + 1) + 1] = s[(n + 1) + 1]
      OBVIOUS
    <3> DEFINE j == n + 1
    <3>1. j \in 1 .. N /\ j \in 1 .. N - 1 /\ j + 1 \in 1 .. N /\ r[j] = s[j]
      BY <1>0
    <3> HIDE DEF j
    <3>2. r[j] = r[j + 1] \div Len(m[j + 1]) /\ s[j] = s[j + 1] \div Len(m[j + 1])
      BY <1>1, <1>2, <3>1 DEF Rests, N
    <3>3. r[j + 1] % Len(m[j + 1]) = s[j + 1] % Len(m[j + 1])
      BY <1>6, <3>1
    <3>4. \A x, y \in Nat, l \in Nat \ {0} : x \div l = y \div l /\ x % l = y % l => x = y
      OBVIOUS
    <3>5. r[j + 1] = s[j + 1]
      BY <1>5, <3>1, <3>2, <3>3, <3>4
    <3> QED BY <3>5 DEF j
  <2> HIDE DEF S
  <2>3. Nat \subseteq S
    BY <2>1, <2>2, NatSetInduction
  <2> TAKE j \in 1 .. N
  <2>4. j - 1 \in Nat /\ (j - 1) + 1 = j /\ j <= N
    BY <1>0
  <2> QED BY <2>3, <2>4 DEF S
<1>8. CASE N = 0
  BY <1>3, <1>8 DEF Products
<1>9. CASE N # 0
  <2>1. N \in 1 .. N
    BY <1>0, <1>9
  <2>2. r[N] = p /\ s[N] = q
    BY <1>0, <1>1, <1>2, <1>9 DEF Rests, N
  <2> QED BY <1>7, <2>1, <2>2
<1> QED BY <1>8, <1>9

(* Every combination has a path number. *)
LEMMA TakePathSurjective ==
  ASSUME NEW m \in Seq(Axes), NEW c \in Combinations(m)
  PROVE  \E p \in Nat : p < CountVariants(m) /\ TakePath(p, m) = c
<1> DEFINE N == Len(m)
<1>0. N \in Nat /\ DOMAIN m = 1 .. N
  OBVIOUS
<1>1. /\ c = [j \in 1 .. N |-> c[j]]
      /\ \A j \in 1 .. N : \E i \in 1 .. Len(m[j]) : c[j] = m[j][i]
  <2>1. \A j \in 1 .. N : c[j] \in ToSet(m[j])
    BY <1>0 DEF Combinations
  <2>2. \A j \in 1 .. N : DOMAIN m[j] = 1 .. Len(m[j])
    BY AxisLength
  <2>3. c = [j \in 1 .. N |-> c[j]]
    BY <1>0 DEF Combinations
  <2> QED BY <2>1, <2>2, <2>3 DEF ToSet
<1>2. \A j \in 1 .. N : Len(m[j]) \in Nat \ {0}
  BY AxisLength
<1> DEFINE d == [j \in 1 .. N |-> CHOOSE i \in 1 .. Len(m[j]) : c[j] = m[j][i]]
<1>3. \A j \in 1 .. N : d[j] \in 1 .. Len(m[j]) /\ c[j] = m[j][d[j]]
  BY <1>1
<1> HIDE DEF d
<1>4. PICK P : Products(P, N, m) /\ CountVariants(m) = P[N]
  BY CountVariantsDef
<1> HIDE DEF N
<1> DEFINE g == [n \in 1 .. N |-> [v \in Nat |-> v * Len(m[n]) + (d[n] - 1)]]
<1>5. g \in [1 .. N -> [Nat -> Nat]]
  <2>1. \A v \in Nat, l \in Nat \ {0}, i \in Nat : i \in 1 .. l => v * l + (i - 1) \in Nat
    OBVIOUS
  <2>2. \A n \in 1 .. N : d[n] \in Nat
    BY <1>2, <1>3
  <2>3. \A n \in 1 .. N, v \in Nat : v * Len(m[n]) + (d[n] - 1) \in Nat
    BY <1>2, <1>3, <2>1, <2>2
  <2> QED BY <2>3
<1>6. PICK f : Follows(f, Nat, 0, N, g)
  <2> HIDE DEF g
  <2>1. 0 \in Nat
    OBVIOUS
  <2> QED BY <1>0, <1>5, <2>1, RecursionExists
<1>7. f \in [0 .. N -> Nat] /\ f[0] = 0
  BY <1>6 DEF Follows
<1>8. \A n \in 1 .. N : f[n] = f[n - 1] * Len(m[n]) + (d[n] - 1)
  <2> TAKE n \in 1 .. N
  <2>1. n \in 1 .. N /\ n - 1 \in 0 .. N
    BY <1>0
  <2>2. f[n - 1] \in Nat /\ f[n] = g[n][f[n - 1]]
    <3> HIDE DEF g
    <3> QED BY <1>6, <2>1 DEF Follows
  <2> QED BY <2>2
<1> HIDE DEF g
<1>9. \A n \in 0 .. N : f[n] < P[n]
  <2> DEFINE S == {n \in Nat : n <= N => f[n] < P[n]}
  <2>1. 0 \in S
    BY <1>4, <1>7 DEF Products
  <2>2. \A n \in Nat : n \in S => n + 1 \in S
    <3> SUFFICES ASSUME NEW n \in Nat, n \in S, n + 1 <= N PROVE f[n + 1] < P[n + 1]
      OBVIOUS
    <3>1. n \in 0 .. N /\ n + 1 \in 1 .. N /\ (n + 1) - 1 = n /\ f[n] < P[n]
      BY <1>0
    <3>2. f[n + 1] = f[n] * Len(m[n + 1]) + (d[n + 1] - 1)
      BY <1>8, <3>1
    <3>3. P[n + 1] = P[n] * Len(m[n + 1]) /\ P[n] \in Nat
      BY <1>4, <3>1 DEF Products
    <3>4. \A a, b \in Nat, l \in Nat \ {0}, i \in Nat :
            a < b /\ i \in 1 .. l => a * l + (i - 1) < b * l
      OBVIOUS
    <3>5. f[n] \in Nat /\ d[n + 1] \in Nat /\ d[n + 1] \in 1 .. Len(m[n + 1])
      BY <1>2, <1>3, <1>7, <3>1
    <3> QED BY <1>2, <3>1, <3>2, <3>3, <3>4, <3>5
  <2> HIDE DEF S
  <2>3. Nat \subseteq S
    BY <2>1, <2>2, NatSetInduction
  <2> QED BY <1>0, <2>3 DEF S
<1> DEFINE p == f[N]
<1>10. p \in Nat /\ p < CountVariants(m)
  BY <1>0, <1>4, <1>7, <1>9
<1>11. PICK r : /\ Rests(r, p, m)
                /\ TakePath(p, m) = [j \in 1 .. N |-> m[j][(r[j] % Len(m[j])) + 1]]
  <2> HIDE DEF p
  <2> QED BY <1>10, TakePathDef DEF N
<1>12. \A j \in 1 .. N : f[j] \div Len(m[j]) = f[j - 1] /\ (f[j] % Len(m[j])) + 1 = d[j]
  <2> TAKE j \in 1 .. N
  <2>1. \A a \in Nat, l \in Nat \ {0}, i \in Nat :
          i \in 1 .. l => /\ (a * l + (i - 1)) \div l = a
                         /\ ((a * l + (i - 1)) % l) + 1 = i
    OBVIOUS
  <2>2. f[j - 1] \in Nat /\ d[j] \in Nat /\ d[j] \in 1 .. Len(m[j])
    BY <1>0, <1>2, <1>3, <1>7
  <2> DEFINE a == f[j - 1]
             l == Len(m[j])
             i == d[j]
  <2>3. a \in Nat /\ l \in Nat \ {0} /\ i \in Nat /\ i \in 1 .. l /\ f[j] = a * l + (i - 1)
    BY <1>2, <1>8, <2>2
  <2> HIDE DEF a, l, i
  <2>4. f[j] \div l = a /\ (f[j] % l) + 1 = i
    BY <2>1, <2>3
  <2> QED BY <2>4 DEF a, l, i
<1>13. \A j \in 1 .. N : r[j] = f[j]
  <2> DEFINE S == {n \in Nat : n < N => r[N - n] = f[N - n]}
  <2>1. 0 \in S
    BY <1>0, <1>11 DEF Rests, N
  <2>2. \A n \in Nat : n \in S => n + 1 \in S
    <3> SUFFICES ASSUME NEW n \in Nat, n \in S, n + 1 < N
                 PROVE  r[N - (n + 1)] = f[N - (n + 1)]
      OBVIOUS
    <3> DEFINE j == N - (n + 1)
    <3>1. j \in 1 .. N - 1 /\ j + 1 \in 1 .. N /\ j + 1 = N - n /\ (j + 1) - 1 = j
      BY <1>0
    <3>2. r[j + 1] = f[j + 1]
      BY <1>0, <3>1
    <3> HIDE DEF j
    <3>3. r[j] = r[j + 1] \div Len(m[j + 1])
      BY <1>11, <3>1 DEF Rests, N
    <3>4. f[j + 1] \div Len(m[j + 1]) = f[j]
      BY <1>12, <3>1
    <3>5. r[j] = f[j]
      BY <3>2, <3>3, <3>4
    <3> QED BY <3>5 DEF j
  <2> HIDE DEF S
  <2>3. Nat \subseteq S
    BY <2>1, <2>2, NatSetInduction
  <2> TAKE j \in 1 .. N
  <2>4. N - j \in Nat /\ N - j < N /\ N - (N - j) = j
    BY <1>0
  <2> QED BY <2>3, <2>4 DEF S
<1>14. \A j \in 1 .. N : m[j][(r[j] % Len(m[j])) + 1] = c[j]
  BY <1>3, <1>12, <1>13
<1>15. TakePath(p, m) = c
  BY <1>1, <1>11, <1>14
<1> HIDE DEF p
<1> QED BY <1>10, <1>15
-----------------------------------------------------------------------------
ScenarioRecords == [matrix : Seq(Axes), included : BOOLEAN]
BundleRecords == [scenario : Nat \ {0}, labels : UNION {Combinations(m) : m \in Seq(Axes)},
                  run : BOOLEAN]
Results == Endings \cup {Passed, Skipped}

(* How many bundles scenario s takes, and the scenarios before n + 1. *)
Sends(s) == CountVariants(scenarios[s].matrix) * Repetitions(scenarios[s], count)
Due(n) == Total([s \in 1 .. n |-> Sends(s)])

TypeInv ==
  /\ phase \in {"flags", "paths", "run", "left"} /\ exit \in {0, 1, None}
  /\ listing \in BOOLEAN /\ interrupted \in BOOLEAN /\ unread \in Nat
  /\ scenarios \in Seq(ScenarioRecords) /\ count \in Nat /\ size \in Nat
  /\ at \in Nat \ {0} /\ path \in Nat /\ rep \in Nat /\ emitted \in Seq(BundleRecords)
  /\ seen \subseteq Results /\ lost \in BOOLEAN /\ success \in BOOLEAN /\ counted \in Nat
  /\ tally \in [total : Nat, ran : Nat, successful : Nat, aborted : Nat]
  /\ junit \in [tests : Nat, failures : Nat, errors : Nat]

(* What has not begun to run has sent and reported nothing. *)
FreshInv ==
  phase \in {"flags", "paths"} =>
    /\ at = 1 /\ path = 0 /\ rep = 0 /\ emitted = <<>>
    /\ seen = {} /\ ~lost

(* The announced size is the one of the scenarios read so far. *)
SizeInv == size = ScenarioCount(scenarios, count)

(* Where the data source is, and how much it has sent by then. *)
PositionInv ==
  /\ at <= Len(scenarios) + 1
  /\ IF at <= Len(scenarios)
     THEN /\ path < CountVariants(Current.matrix) /\ rep < Repetitions(Current, count)
          /\ Len(emitted) = Due(at - 1) + path * Repetitions(Current, count) + rep
     ELSE path = 0 /\ rep = 0 /\ Len(emitted) = Due(at - 1)

(* The bundles of scenario s and path p that have been sent: all, some or none. *)
SendsOf(s, c) == {i \in DOMAIN emitted : emitted[i].scenario = s /\ emitted[i].labels = c}

VariantInv ==
  /\ \A i \in DOMAIN emitted :
       /\ emitted[i].scenario <= Len(scenarios)
       /\ emitted[i].labels \in Combinations(scenarios[emitted[i].scenario].matrix)
       /\ emitted[i].run = (BundleCount(scenarios[emitted[i].scenario], count) > 0)
  /\ \A s \in 1 .. Len(scenarios), p \in Nat :
       p < CountVariants(scenarios[s].matrix) =>
         Cardinality(SendsOf(s, TakePath(p, scenarios[s].matrix))) =
           IF s < at \/ (s = at /\ p < path) THEN Repetitions(scenarios[s], count)
           ELSE IF s = at /\ p = path THEN rep
           ELSE 0

(* A result is missing if a worker gave it up or nobody sent its bundle, and  *)
(* only an interrupt does that.                                               *)
LostInv ==
  /\ tally.total <= Len(emitted)
  /\ tally.total < Len(emitted) => lost
  /\ lost => tally.total < Len(emitted) \/ (phase = "left" /\ ~Sent)
  /\ lost => interrupted

SeenWith(S) == \E r \in seen : r.status \in S

(* The three reporters have seen the same results. *)
ResultInv ==
  /\ success => counted = tally.total
  /\ success <=> ~SeenWith(Bad)
  /\ tally.successful + tally.aborted <= tally.ran /\ tally.ran <= tally.total
  /\ tally.total > 0 <=> seen # {}
  /\ tally.ran < tally.total <=> SeenWith({"Unset"})
  /\ tally.successful > 0 <=> SeenWith({"Success"})
  /\ tally.aborted > 0 <=> SeenWith({"Aborted"})
  /\ tally.successful + tally.aborted < tally.ran <=> SeenWith({"Failure", "Error"})
  /\ SeenWith({"Aborted"}) => interrupted
  /\ count = 0 => seen \subseteq {Skipped}

JUnitInv ==
  /\ junit.failures > 0 <=> \E r \in seen : \E i \in DOMAIN r.requests : r.requests[i].failed
  /\ junit.errors > 0 <=> \E r \in seen : Among(r, {"Error", "Aborted"})

(* Of a scenario that is to run and whose bundles have been sent something    *)
(* has been reported, unless something is lost.                               *)
CoverInv ==
  count >= 1 => \A s \in 1 .. at - 1 :
    scenarios[s].included => lost \/ SeenWith({"Success"} \cup Bad)

(* Who left without a run has no result; a run that ended says so. *)
ExitInv ==
  phase = "left" =>
    \/ seen = {} /\ ~lost
    \/ /\ lost \/ Sent
       /\ exit = IF success /\ counted = size THEN 0 ELSE 1

IInv == /\ TypeInv /\ FreshInv /\ SizeInv /\ PositionInv /\ VariantInv
        /\ LostInv /\ ResultInv /\ JUnitInv /\ CoverInv /\ ExitInv
-----------------------------------------------------------------------------
(* A scenario takes a positive number of bundles. *)
LEMMA SendsType ==
  ASSUME TypeInv, NEW s \in 1 .. Len(scenarios)
  PROVE  /\ scenarios[s] \in ScenarioRecords
         /\ CountVariants(scenarios[s].matrix) \in Nat \ {0}
         /\ Repetitions(scenarios[s], count) \in Nat \ {0}
         /\ Sends(s) \in Nat \ {0}
<1>1. scenarios[s] \in ScenarioRecords
  BY DEF TypeInv
<1>2. CountVariants(scenarios[s].matrix) \in Nat \ {0}
  BY <1>1, CountVariantsPositive DEF ScenarioRecords
<1>3. Repetitions(scenarios[s], count) \in Nat \ {0}
  BY <1>1 DEF TypeInv, ScenarioRecords, Repetitions, BundleCount
<1>4. \A a, b \in Nat \ {0} : a * b \in Nat \ {0}
  OBVIOUS
<1>5. Sends(s) \in Nat \ {0}
  BY <1>2, <1>3, <1>4 DEF Sends
<1> QED BY <1>1, <1>2, <1>3, <1>5

(* Before the first scenario nothing is sent. *)
LEMMA DueZero == Due(0) = 0
<1>1. [s \in 1 .. 0 |-> Sends(s)] = <<>>
  OBVIOUS
<1> QED BY <1>1, TotalEmpty DEF Due

(* Every scenario adds its own. *)
LEMMA DueStep ==
  ASSUME TypeInv, NEW n \in 1 .. Len(scenarios)
  PROVE  Due(n - 1) \in Nat /\ Due(n) = Due(n - 1) + Sends(n)
<1> DEFINE front == [s \in 1 .. n - 1 |-> Sends(s)]
           all == [s \in 1 .. n |-> Sends(s)]
<1>1. \A s \in 1 .. n : Sends(s) \in Nat
  <2> TAKE s \in 1 .. n
  <2>1. s \in 1 .. Len(scenarios)
    OBVIOUS
  <2> QED BY <2>1, SendsType
<1>2. front \in Seq(Nat) /\ Len(front) = n - 1 /\ all \in Seq(Nat) /\ Len(all) = n
  <2> HIDE DEF Sends
  <2> QED BY <1>1
<1>3. \A s \in 1 .. n - 1 : front[s] = Sends(s)
  OBVIOUS
<1>4. \A s \in 1 .. n : all[s] = Sends(s)
  OBVIOUS
<1> HIDE DEF front, all
<1>5. all = Append(front, Sends(n))
  BY <1>1, <1>2, <1>3, <1>4
<1>6. Total(all) = Total(front) + Sends(n) /\ Total(front) \in Nat
  BY <1>1, <1>2, <1>5, TotalAppend, TotalType
<1> QED BY <1>6 DEF Due, front, all

(* What is due up to a scenario is part of what is due in the end. *)
LEMMA DueMonotone ==
  ASSUME TypeInv, NEW n \in 0 .. Len(scenarios)
  PROVE  Due(n) \in Nat /\ Due(n) <= Due(Len(scenarios)) /\ Due(Len(scenarios)) \in Nat
<1> DEFINE N == Len(scenarios)
           S == {k \in Nat : k <= N => Due(N - k) \in Nat /\ Due(N) \in Nat /\ Due(N - k) <= Due(N)}
<1>0. N \in Nat
  BY DEF TypeInv
<1>1. 0 \in S
  <2>1. CASE N = 0
    BY <2>1, DueZero
  <2>2. CASE N # 0
    <3>1. N \in 1 .. N
      BY <1>0, <2>2
    <3>2. Due(N - 1) \in Nat /\ Due(N) = Due(N - 1) + Sends(N)
      BY <3>1, DueStep
    <3>3. Sends(N) \in Nat
      BY <3>1, SendsType
    <3> HIDE DEF N
    <3>4. Due(N) \in Nat
      BY <3>2, <3>3
    <3> QED BY <1>0, <3>4
  <2> QED BY <2>1, <2>2
<1>2. \A k \in Nat : k \in S => k + 1 \in S
  <2> SUFFICES ASSUME NEW k \in Nat, k \in S, k + 1 <= N
               PROVE  Due(N - (k + 1)) \in Nat /\ Due(N) \in Nat /\ Due(N - (k + 1)) <= Due(N)
    OBVIOUS
  <2>1. N - k \in 1 .. N /\ (N - k) - 1 = N - (k + 1)
    BY <1>0
  <2>2. Due(N - (k + 1)) \in Nat /\ Due(N - k) = Due(N - (k + 1)) + Sends(N - k)
    BY <2>1, DueStep
  <2>3. Sends(N - k) \in Nat
    BY <2>1, SendsType
  <2>4. Due(N - k) <= Due(N) /\ Due(N) \in Nat
    BY <1>0
  <2> HIDE DEF N
  <2> QED BY <2>2, <2>3, <2>4
<1> HIDE DEF S
<1>3. Nat \subseteq S
  BY <1>1, <1>2, NatSetInduction
<1>4. N - n \in Nat /\ N - n <= N /\ N - (N - n) = n
  BY <1>0
<1> QED BY <1>3, <1>4 DEF S

(* What the CLI announces is what is due, unless --count is 0. *)
LEMMA AnnouncedIsDue ==
  ASSUME TypeInv, count >= 1
  PROVE  ScenarioCount(scenarios, count) = Due(Len(scenarios))
<1>1. DOMAIN scenarios = 1 .. Len(scenarios)
  BY DEF TypeInv
<1>2. \A s \in 1 .. Len(scenarios) :
        CountVariants(scenarios[s].matrix) * (IF scenarios[s].included THEN count ELSE 1)
          = Sends(s)
  <2> TAKE s \in 1 .. Len(scenarios)
  <2>1. scenarios[s].included \in BOOLEAN
    BY SendsType DEF ScenarioRecords
  <2>2. (IF scenarios[s].included THEN count ELSE 1) = Repetitions(scenarios[s], count)
    BY <2>1 DEF Repetitions, BundleCount, TypeInv
  <2> QED BY <2>2 DEF Sends
<1> QED BY <1>1, <1>2 DEF ScenarioCount, Due

(* The announcements of two groups of scenarios add up. *)
LEMMA AnnouncedConcat ==
  ASSUME NEW s \in Seq(ScenarioRecords), NEW t \in Seq(ScenarioRecords), NEW c \in Nat
  PROVE  /\ ScenarioCount(s, c) \in Nat /\ ScenarioCount(t, c) \in Nat
         /\ ScenarioCount(s \o t, c) = ScenarioCount(s, c) + ScenarioCount(t, c)
<1> DEFINE W(sc) == CountVariants(sc.matrix) * (IF sc.included THEN c ELSE 1)
           v == [i \in DOMAIN s |-> W(s[i])]
           w == [i \in DOMAIN t |-> W(t[i])]
           u == [i \in DOMAIN (s \o t) |-> W((s \o t)[i])]
<1>1. \A sc \in ScenarioRecords : W(sc) \in Nat
  <2> TAKE sc \in ScenarioRecords
  <2>1. CountVariants(sc.matrix) \in Nat
    BY CountVariantsPositive DEF ScenarioRecords
  <2>2. \A a, b \in Nat : a * b \in Nat
    OBVIOUS
  <2> QED BY <2>1, <2>2
<1> HIDE DEF W
<1>2. v \in Seq(Nat) /\ Len(v) = Len(s) /\ w \in Seq(Nat) /\ Len(w) = Len(t)
  BY <1>1
<1>3. u \in Seq(Nat) /\ Len(u) = Len(s) + Len(t)
  BY <1>1
<1>4. /\ \A i \in 1 .. Len(s) : v[i] = W(s[i])
      /\ \A i \in 1 .. Len(t) : w[i] = W(t[i])
      /\ \A i \in 1 .. Len(s) + Len(t) :
           u[i] = IF i <= Len(s) THEN W(s[i]) ELSE W(t[i - Len(s)])
  OBVIOUS
<1> HIDE DEF u, v, w
<1>5. u = v \o w
  <2>1. /\ v \o w \in Seq(Nat) /\ Len(v \o w) = Len(v) + Len(w)
        /\ \A i \in 1 .. Len(v) + Len(w) : (v \o w)[i] = IF i <= Len(v) THEN v[i] ELSE w[i - Len(v)]
    BY <1>2, Concatenated
  <2>2. \A i \in 1 .. Len(s) + Len(t) : u[i] = (v \o w)[i]
    <3> TAKE i \in 1 .. Len(s) + Len(t)
    <3>1. CASE i <= Len(s)
      BY <1>2, <1>4, <2>1, <3>1
    <3>2. CASE ~(i <= Len(s))
      <4>1. i - Len(s) \in 1 .. Len(t)
        BY <3>2
      <4> QED BY <1>2, <1>4, <2>1, <3>2, <4>1
    <3> QED BY <3>1, <3>2
  <2>3. u = [i \in 1 .. Len(s) + Len(t) |-> u[i]]
    BY <1>3
  <2> DEFINE x == v \o w
  <2>4. x \in Seq(Nat) /\ Len(x) = Len(s) + Len(t)
    BY <1>2, <2>1
  <2> HIDE DEF x
  <2>5. x = [i \in 1 .. Len(s) + Len(t) |-> x[i]]
    BY <2>4
  <2> QED BY <2>2, <2>3, <2>5 DEF x
<1>6. Total(u) = Total(v) + Total(w) /\ Total(v) \in Nat /\ Total(w) \in Nat
  <2> QED BY <1>2, <1>5, TotalConcat, TotalType
<1>7. /\ ScenarioCount(s, c) = Total(v) /\ ScenarioCount(t, c) = Total(w)
      /\ ScenarioCount(s \o t, c) = Total(u)
  BY DEF ScenarioCount, W, u, v, w
<1> QED BY <1>6, <1>7
-----------------------------------------------------------------------------
(* Nothing has been read, sent or reported. *)
LEMMA InitIInv == CliInit => IInv
<1> SUFFICES ASSUME CliInit PROVE IInv
  OBVIOUS
<1> USE DEF CliInit, SendInit
<1>1. TypeInv
  <2>1. count \in Nat /\ unread \in Nat
    BY PlanAssumption
  <2>2. scenarios \in Seq(ScenarioRecords) /\ emitted \in Seq(BundleRecords)
    OBVIOUS
  <2>3. tally \in [total : Nat, ran : Nat, successful : Nat, aborted : Nat]
    OBVIOUS
  <2>4. junit \in [tests : Nat, failures : Nat, errors : Nat]
    OBVIOUS
  <2>5. /\ listing \in BOOLEAN /\ interrupted \in BOOLEAN
        /\ lost \in BOOLEAN /\ success \in BOOLEAN
    BY Zenon
  <2>6. size \in Nat /\ at \in Nat \ {0} /\ path \in Nat /\ rep \in Nat /\ counted \in Nat
    OBVIOUS
  <2>7. /\ phase \in {"flags", "paths", "run", "left"} /\ exit \in {0, 1, None}
        /\ seen \subseteq Results
    BY Zenon
  <2> QED BY <2>1, <2>2, <2>3, <2>4, <2>5, <2>6, <2>7 DEF TypeInv
<1>2. Len(scenarios) = 0 /\ Len(emitted) = 0
  OBVIOUS
<1>3. FreshInv /\ ExitInv /\ LostInv /\ JUnitInv
  BY <1>2 DEF FreshInv, ExitInv, LostInv, JUnitInv
<1>4. SizeInv
  BY TotalEmpty DEF SizeInv, ScenarioCount
<1>5. PositionInv
  BY <1>2, DueZero DEF PositionInv
<1>6. VariantInv
  BY <1>2 DEF VariantInv
<1>7. ResultInv
  BY DEF ResultInv, SeenWith
<1>8. CoverInv
  BY DEF CoverInv
<1> QED BY <1>1, <1>3, <1>4, <1>5, <1>6, <1>7, <1>8 DEF IInv

(* Invariants about the bundles hold as long as nothing is sent or read. *)
LEMMA SendingUnchanged ==
  ASSUME SizeInv, PositionInv, VariantInv, UNCHANGED <<planVars, sendVars>>
  PROVE  SizeInv' /\ PositionInv' /\ VariantInv'
<1>1. /\ scenarios' = scenarios /\ count' = count /\ size' = size
      /\ at' = at /\ path' = path /\ rep' = rep /\ emitted' = emitted
  BY DEF planVars, sendVars
<1>2. SizeInv'
  BY <1>1 DEF SizeInv
<1>3. Due(at - 1)' = Due(at - 1) /\ Current' = Current
  BY <1>1 DEF Due, Sends, Current
<1>4. PositionInv'
  BY <1>1, <1>3 DEF PositionInv
<1>5. \A s, c : SendsOf(s, c)' = SendsOf(s, c)
  BY <1>1 DEF SendsOf
<1>6. VariantInv'
  BY <1>1, <1>5 DEF VariantInv
<1> QED BY <1>2, <1>4, <1>6

(* ... and those about the results as long as nothing is reported. *)
LEMMA ReportsUnchanged ==
  ASSUME ResultInv, JUnitInv, count' = count, UNCHANGED <<seen, success, counted, tally, junit>>,
         interrupted => interrupted'
  PROVE  ResultInv' /\ JUnitInv'
BY DEF ResultInv, JUnitInv, SeenWith, Among

(* The bundle that is sent. *)
LEMMA BundleType ==
  ASSUME TypeInv, PositionInv, at <= Len(scenarios)
  PROVE  /\ at \in 1 .. Len(scenarios) /\ Current \in ScenarioRecords
         /\ TakePath(path, Current.matrix) \in Combinations(Current.matrix)
         /\ Bundle \in BundleRecords
<1>1. at \in 1 .. Len(scenarios)
  BY DEF TypeInv
<1>2. Current \in ScenarioRecords
  BY <1>1, SendsType DEF Current
<1>3. TakePath(path, Current.matrix) \in Combinations(Current.matrix)
  BY <1>2, TakePathCombines DEF TypeInv, ScenarioRecords
<1>4. Bundle \in BundleRecords
  BY <1>1, <1>2, <1>3 DEF Bundle, BundleRecords, ScenarioRecords
<1> QED BY <1>1, <1>2, <1>3, <1>4

(* One bundle is sent, and the data source goes on to the next. *)
LEMMA SendPosition ==
  ASSUME TypeInv, PositionInv, Send
  PROVE  /\ at' \in Nat \ {0} /\ path' \in Nat /\ rep' \in Nat
         /\ emitted' \in Seq(BundleRecords) /\ Len(emitted') = Len(emitted) + 1
         /\ PositionInv'
<1>1. at <= Len(scenarios) /\ at \in 1 .. Len(scenarios) /\ Len(scenarios) \in Nat
  BY BundleType DEF Send, TypeInv
<1>2. emitted' \in Seq(BundleRecords) /\ Len(emitted') = Len(emitted) + 1
  BY <1>1, BundleType DEF Send, TypeInv
<1> DEFINE R == Repetitions(Current, count)
           C == CountVariants(Current.matrix)
<1>3. R \in Nat \ {0} /\ C \in Nat \ {0} /\ Sends(at) = C * R
  BY <1>1, SendsType DEF Current, Sends
<1>4. /\ path < C /\ rep < R /\ path \in Nat /\ rep \in Nat /\ at \in Nat
      /\ Len(emitted) = Due(at - 1) + path * R + rep
  BY <1>1 DEF PositionInv, TypeInv
<1>5. Due(at - 1) \in Nat /\ Due(at) = Due(at - 1) + C * R
  BY <1>1, <1>3, DueStep
<1>6. scenarios' = scenarios /\ count' = count /\ \A n : Due(n)' = Due(n)
  BY DEF Send, Due, Sends
<1>7. /\ at' \in Nat \ {0} /\ path' \in Nat /\ rep' \in Nat
  <2>1. /\ rep' = rep + 1 \/ rep' = 0
        /\ path' = path \/ path' = path + 1 \/ path' = 0
        /\ at' = at \/ at' = at + 1
    BY DEF Send
  <2>2. at # 0
    BY <1>1
  <2> QED BY <1>4, <2>1, <2>2
<1>8. PositionInv'
  <2>1. CASE rep + 1 < R
    <3>1. at' = at /\ path' = path /\ rep' = rep + 1
      BY <2>1 DEF Send
    <3>2. Current' = Current
      BY <3>1, <1>6 DEF Current
    <3>3. Len(emitted') = Due(at - 1) + path * R + (rep + 1)
      <4>1. path * R \in Nat
        BY <1>3, <1>4
      <4> HIDE DEF R, C
      <4> QED BY <1>2, <1>4, <1>5, <4>1
    <3>4. Due(at - 1)' = Due(at - 1)
      BY <1>6, <3>1
    <3> QED BY <1>1, <1>4, <1>6, <2>1, <3>1, <3>2, <3>3, <3>4 DEF PositionInv
  <2>2. CASE ~(rep + 1 < R) /\ path + 1 < C
    <3>1. at' = at /\ path' = path + 1 /\ rep' = 0
      BY <2>2 DEF Send
    <3>2. Current' = Current
      BY <3>1, <1>6 DEF Current
    <3>3. \A p, r, k \in Nat : k < r /\ ~(k + 1 < r) => p * r + k + 1 = (p + 1) * r
      OBVIOUS
    <3>4. path * R + rep + 1 = (path + 1) * R
      BY <1>3, <1>4, <2>2, <3>3
    <3>5. path * R \in Nat /\ (path + 1) * R \in Nat
      BY <1>3, <1>4
    <3> HIDE DEF R, C
    <3>6. Len(emitted') = Due(at - 1) + (path + 1) * R + 0
      BY <1>2, <1>4, <1>5, <3>4, <3>5
    <3>7. Due(at - 1)' = Due(at - 1)
      BY <1>6, <3>1
    <3> QED BY <1>1, <1>3, <1>4, <1>6, <2>2, <3>1, <3>2, <3>6, <3>7 DEF PositionInv, R, C
  <2>3. CASE ~(rep + 1 < R) /\ ~(path + 1 < C)
    <3>1. at' = at + 1 /\ path' = 0 /\ rep' = 0
      BY <2>3 DEF Send
    <3>2. \A p, r, k, c \in Nat : k < r /\ ~(k + 1 < r) /\ p < c /\ ~(p + 1 < c)
            => p * r + k + 1 = c * r
      <4> SUFFICES ASSUME NEW p \in Nat, NEW r \in Nat, NEW k \in Nat, NEW c \in Nat,
                          k < r, ~(k + 1 < r), p < c, ~(p + 1 < c)
                   PROVE  p * r + k + 1 = c * r
        OBVIOUS
      <4>1. c = p + 1 /\ r = k + 1
        OBVIOUS
      <4>2. (p + 1) * (k + 1) = p * (k + 1) + k + 1
        OBVIOUS
      <4> QED BY <4>1, <4>2
    <3>3. path * R + rep + 1 = C * R
      BY <1>3, <1>4, <2>3, <3>2
    <3>4. path * R \in Nat /\ C * R \in Nat
      BY <1>3, <1>4
    <3> HIDE DEF R, C
    <3>5. Len(emitted') = Due(at)
      BY <1>2, <1>4, <1>5, <3>3, <3>4
    <3>6. (at + 1) - 1 = at /\ at + 1 <= Len(scenarios) + 1
      BY <1>1
    <3>7. Due(at - 1)' = Due(at)
      <4>1. at' - 1 = at
        BY <3>1, <3>6
      <4> QED BY <1>6, <4>1 DEF Due, Sends
    <3>8. CASE at + 1 <= Len(scenarios)
      <4>1. at + 1 \in 1 .. Len(scenarios)
        BY <1>1, <3>8
      <4>2. /\ CountVariants(scenarios[at + 1].matrix) \in Nat \ {0}
            /\ Repetitions(scenarios[at + 1], count) \in Nat \ {0}
        BY <4>1, SendsType
      <4>3. Current' = scenarios[at + 1]
        BY <1>6, <3>1 DEF Current
      <4>4. /\ 0 < CountVariants(Current'.matrix) /\ 0 < Repetitions(Current', count')
            /\ 0 * Repetitions(Current', count') = 0
        BY <4>2, <4>3, <1>6
      <4>5. Due(at) \in Nat
        BY <1>5, <3>4
      <4>6. Len(emitted') = Due(at) + 0 * Repetitions(Current', count') + 0
        BY <3>5, <4>4, <4>5
      <4> QED BY <1>6, <3>1, <3>6, <3>7, <3>8, <4>4, <4>6 DEF PositionInv
    <3>9. CASE ~(at + 1 <= Len(scenarios))
      BY <1>6, <3>1, <3>5, <3>6, <3>7, <3>9 DEF PositionInv
    <3> QED BY <3>8, <3>9
  <2> QED BY <2>1, <2>2, <2>3
<1> QED BY <1>2, <1>7, <1>8

(* The bundle that is sent is the next of its variant, and no other's.        *)
LEMMA SendVariant ==
  ASSUME TypeInv, PositionInv, VariantInv, Send
  PROVE  VariantInv'
<1>1. /\ at <= Len(scenarios) /\ at \in 1 .. Len(scenarios) /\ Len(scenarios) \in Nat
      /\ Current \in ScenarioRecords /\ Current.matrix \in Seq(Axes)
      /\ TakePath(path, Current.matrix) \in Combinations(Current.matrix)
  BY BundleType DEF Send, TypeInv, ScenarioRecords
<1>2. scenarios' = scenarios /\ count' = count /\ emitted' = Append(emitted, Bundle)
  BY DEF Send
<1> DEFINE k == Len(emitted) + 1
<1>3. /\ emitted \in Seq(BundleRecords) /\ Len(emitted) \in Nat
      /\ DOMAIN emitted = 1 .. Len(emitted) /\ DOMAIN emitted' = 1 .. k
      /\ \A i \in DOMAIN emitted : emitted'[i] = emitted[i]
      /\ emitted'[k] = Bundle
  BY <1>2 DEF TypeInv
<1>4. /\ Bundle.scenario = at /\ Bundle.labels = TakePath(path, Current.matrix)
      /\ Bundle.run = (BundleCount(Current, count) > 0)
  BY DEF Bundle
<1> DEFINE R == Repetitions(Current, count)
           C == CountVariants(Current.matrix)
<1>5. path < C /\ rep < R /\ path \in Nat /\ rep \in Nat /\ R \in Nat \ {0} /\ at \in Nat
  BY <1>1, SendsType DEF PositionInv, TypeInv, Current
<1>6. \A i \in DOMAIN emitted' :
        /\ emitted'[i].scenario <= Len(scenarios')
        /\ emitted'[i].labels \in Combinations(scenarios'[emitted'[i].scenario].matrix)
        /\ emitted'[i].run = (BundleCount(scenarios'[emitted'[i].scenario], count') > 0)
  <2> TAKE i \in DOMAIN emitted'
  <2>1. CASE i \in DOMAIN emitted
    BY <1>2, <1>3, <2>1 DEF VariantInv
  <2>2. CASE i = k
    BY <1>1, <1>2, <1>3, <1>4, <2>2 DEF Current
  <2> QED BY <1>3, <2>1, <2>2
<1>7. ASSUME NEW s \in 1 .. Len(scenarios), NEW p \in Nat, p < CountVariants(scenarios[s].matrix)
      PROVE  Cardinality(SendsOf(s, TakePath(p, scenarios[s].matrix))') =
               IF s < at' \/ (s = at' /\ p < path') THEN Repetitions(scenarios[s], count)
               ELSE IF s = at' /\ p = path' THEN rep'
               ELSE 0
  <2> DEFINE c == TakePath(p, scenarios[s].matrix)
             old == SendsOf(s, c)
             new == {i \in DOMAIN emitted' : emitted'[i].scenario = s /\ emitted'[i].labels = c}
  <2>0. SUFFICES Cardinality(new) =
                   IF s < at' \/ (s = at' /\ p < path') THEN Repetitions(scenarios[s], count)
                   ELSE IF s = at' /\ p = path' THEN rep'
                   ELSE 0
    BY <1>2 DEF SendsOf
  <2>1. IsFiniteSet(old)
    <3>1. old \subseteq 1 .. Len(emitted)
      BY <1>3 DEF SendsOf
    <3>2. IsFiniteSet(1 .. Len(emitted))
      BY <1>3, FS_Interval
    <3> QED BY <3>1, <3>2, FS_Subset
  <2>2. k \notin old
    BY <1>3 DEF SendsOf
  <2>3. Cardinality(old) = IF s < at \/ (s = at /\ p < path) THEN Repetitions(scenarios[s], count)
                           ELSE IF s = at /\ p = path THEN rep
                           ELSE 0
    BY <1>7 DEF VariantInv
  <2>4. CASE s = at /\ p = path
    <3>1. new = old \cup {k}
      BY <1>3, <1>4, <2>4 DEF SendsOf, Current
    <3>2. Cardinality(new) = Cardinality(old) + 1
      BY <2>1, <2>2, <3>1, FS_AddElement
    <3>3. Cardinality(old) = rep
      BY <1>5, <2>3, <2>4
    <3>4. Repetitions(scenarios[s], count) = R
      BY <2>4 DEF Current
    <3>5. CASE rep + 1 < R
      <4>1. at' = at /\ path' = path /\ rep' = rep + 1
        BY <3>5 DEF Send
      <4> QED BY <1>5, <2>4, <3>2, <3>3, <4>1
    <3>6. CASE ~(rep + 1 < R)
      <4>1. (at' = at /\ path' = path + 1) \/ at' = at + 1
        BY <3>6 DEF Send
      <4>2. rep + 1 = R
        BY <1>5, <3>6
      <4>3. s < at' \/ (s = at' /\ p < path')
        BY <1>5, <2>4, <4>1
      <4> HIDE DEF new, old, R, C
      <4> QED BY <3>2, <3>3, <3>4, <4>2, <4>3
    <3> QED BY <3>5, <3>6
  <2>5. CASE ~(s = at /\ p = path)
    <3>1. ~(at = s /\ TakePath(path, Current.matrix) = c)
      <4> SUFFICES ASSUME s = at, TakePath(path, Current.matrix) = c PROVE FALSE
        OBVIOUS
      <4>1. Current = scenarios[s] /\ p < C
        BY <1>7 DEF Current
      <4>2. p = path
        BY <1>1, <1>5, <4>1, TakePathInjective
      <4> QED BY <2>5, <4>2
    <3>2. new = old
      BY <1>3, <1>4, <3>1 DEF SendsOf
    <3>3. CASE rep + 1 < R
      <4>1. at' = at /\ path' = path /\ rep' = rep + 1
        BY <3>3 DEF Send
      <4> HIDE DEF new, old
      <4> QED BY <2>3, <2>5, <3>2, <4>1
    <3>4. CASE ~(rep + 1 < R) /\ path + 1 < C
      <4>1. at' = at /\ path' = path + 1 /\ rep' = 0
        BY <3>4 DEF Send
      <4>2. s = at => (p < path <=> p < path + 1 /\ p # path)
        BY <1>5
      <4> HIDE DEF new, old
      <4> QED BY <1>5, <2>3, <2>5, <3>2, <4>1, <4>2
    <3>5. CASE ~(rep + 1 < R) /\ ~(path + 1 < C)
      <4>1. at' = at + 1 /\ path' = 0 /\ rep' = 0
        BY <3>5 DEF Send
      <4>2. s = at => p < path
        <5> SUFFICES ASSUME s = at PROVE p < path
          OBVIOUS
        <5>1. p < C /\ C \in Nat
          BY <1>7, SendsType DEF Current
        <5> HIDE DEF C
        <5> QED BY <1>5, <2>5, <3>5, <5>1
      <4>3. s < at + 1 <=> s < at \/ s = at
        BY <1>5
      <4> HIDE DEF new, old
      <4> QED BY <1>5, <2>3, <2>5, <3>2, <4>1, <4>2, <4>3
    <3> QED BY <3>3, <3>4, <3>5
  <2> QED BY <1>2, <2>4, <2>5 DEF SendsOf
<1> QED BY <1>2, <1>6, <1>7 DEF VariantInv, SendsOf

(* What is left to send is at least the bundle at hand. *)
LEMMA NotSentYet ==
  ASSUME TypeInv, PositionInv, at <= Len(scenarios)
  PROVE  Len(emitted) < Due(Len(scenarios))
<1>1. at \in 1 .. Len(scenarios) /\ Len(scenarios) \in Nat /\ path \in Nat /\ rep \in Nat
  BY BundleType DEF TypeInv
<1> DEFINE R == Repetitions(Current, count)
           C == CountVariants(Current.matrix)
<1>2. R \in Nat \ {0} /\ C \in Nat \ {0} /\ Sends(at) = C * R
  BY <1>1, SendsType DEF Current, Sends
<1>3. Due(at - 1) \in Nat /\ Due(at) = Due(at - 1) + C * R
  BY <1>1, <1>2, DueStep
<1>4. path < C /\ rep < R /\ Len(emitted) = Due(at - 1) + path * R + rep
  BY DEF PositionInv
<1>5. at \in 0 .. Len(scenarios)
  BY <1>1
<1>6. Due(at) <= Due(Len(scenarios)) /\ Due(Len(scenarios)) \in Nat /\ Due(at) \in Nat
  BY <1>5, DueMonotone
<1>7. \A p, k, r, c \in Nat : p < c /\ k < r => p * r + k < c * r
  <2> SUFFICES ASSUME NEW p \in Nat, NEW k \in Nat, NEW r \in Nat, NEW c \in Nat, p < c, k < r
               PROVE  p * r + k < c * r
    OBVIOUS
  <2>1. c - p - 1 \in Nat /\ c = p + 1 + (c - p - 1)
    OBVIOUS
  <2>2. c * r = p * r + r + (c - p - 1) * r
    BY <2>1
  <2>3. (c - p - 1) * r \in Nat
    BY <2>1
  <2>4. p * r \in Nat
    OBVIOUS
  <2> QED BY <2>2, <2>3, <2>4
<1>8. path * R + rep < C * R /\ path * R \in Nat /\ C * R \in Nat
  BY <1>1, <1>2, <1>4, <1>7
<1> HIDE DEF R, C
<1> QED BY <1>1, <1>3, <1>4, <1>6, <1>8

(* No more is sent than is due. *)
LEMMA SentIsDue ==
  ASSUME TypeInv, PositionInv
  PROVE  /\ Len(emitted) <= Due(Len(scenarios))
         /\ Sent <=> Len(emitted) = Due(Len(scenarios))
<1>1. Len(scenarios) \in Nat /\ at \in Nat /\ Len(emitted) \in Nat
  BY DEF TypeInv
<1>2. CASE at <= Len(scenarios)
  <2>1. Len(emitted) < Due(Len(scenarios)) /\ ~Sent
    BY <1>1, <1>2, NotSentYet DEF Sent
  <2>2. Due(Len(scenarios)) \in Nat
    BY <1>1, DueMonotone
  <2> QED BY <1>1, <2>1, <2>2
<1>3. CASE ~(at <= Len(scenarios))
  <2>1. at - 1 = Len(scenarios)
    BY <1>1, <1>3 DEF PositionInv
  <2> QED BY <1>1, <1>3, <2>1 DEF PositionInv, Sent
<1> QED BY <1>2, <1>3

(* Announced is what is sent in the end. *)
LEMMA AnnouncedIsSentInv == IInv => AnnouncedIsSent
<1> SUFFICES ASSUME IInv, Sent, count >= 1 PROVE Len(emitted) = ScenarioCount(scenarios, count)
  BY DEF AnnouncedIsSent
<1> QED BY SentIsDue, AnnouncedIsDue DEF IInv

(* The sends of a variant are counted path by path. *)
LEMMA EveryVariantSentInv == IInv => EveryVariantSent
<1> SUFFICES ASSUME IInv, Sent, NEW s \in DOMAIN scenarios
             PROVE  /\ \A c \in Combinations(scenarios[s].matrix) :
                         Cardinality(SendsOf(s, c)) =
                           IF scenarios[s].included /\ count > 0 THEN count ELSE 1
                    /\ \A i \in DOMAIN emitted : emitted[i].scenario = s =>
                         /\ emitted[i].labels \in Combinations(scenarios[s].matrix)
                         /\ emitted[i].run = (scenarios[s].included /\ count > 0)
  BY DEF EveryVariantSent, SendsOf
<1> USE DEF IInv
<1>1. s \in 1 .. Len(scenarios) /\ s < at /\ scenarios[s] \in ScenarioRecords
  BY DEF TypeInv, Sent
<1>2. count \in Nat /\ scenarios[s].included \in BOOLEAN /\ scenarios[s].matrix \in Seq(Axes)
  BY <1>1 DEF TypeInv, ScenarioRecords
<1>3. Repetitions(scenarios[s], count) = IF scenarios[s].included /\ count > 0 THEN count ELSE 1
  BY <1>2 DEF Repetitions, BundleCount
<1>4. (BundleCount(scenarios[s], count) > 0) = (scenarios[s].included /\ count > 0)
  BY <1>2 DEF BundleCount
<1>5. ASSUME NEW c \in Combinations(scenarios[s].matrix)
      PROVE  Cardinality(SendsOf(s, c)) = Repetitions(scenarios[s], count)
  <2>1. PICK p \in Nat : /\ p < CountVariants(scenarios[s].matrix)
                         /\ TakePath(p, scenarios[s].matrix) = c
    BY <1>2, TakePathSurjective
  <2> QED BY <1>1, <2>1 DEF VariantInv
<1>6. ASSUME NEW i \in DOMAIN emitted, emitted[i].scenario = s
      PROVE  /\ emitted[i].labels \in Combinations(scenarios[s].matrix)
             /\ emitted[i].run = (scenarios[s].included /\ count > 0)
  BY <1>4, <1>6 DEF VariantInv
<1> QED BY <1>3, <1>5, <1>6
-----------------------------------------------------------------------------
(* What may be reported: a scenario that did not run, or one that ended well  *)
(* or badly, and its requests tell which.                                     *)
LEMMA ResultShape ==
  ASSUME NEW r \in Results
  PROVE  /\ r.status \in {"Unset", "Success"} \cup Bad
         /\ r.status = "Unset" <=> r = Skipped
         /\ r.requests \in Seq([status : Statuses, failed : BOOLEAN])
         /\ r.status \notin Bad => /\ ~Among(r, Bad)
                                   /\ \A i \in DOMAIN r.requests : ~r.requests[i].failed
<1>1. CASE r \in Endings
  <2>1. r.status \in {"Success", "Failure", "Error", "Aborted"}
    BY <1>1, EndingsAssumption
  <2>2. r.requests \in Seq([status : Statuses, failed : BOOLEAN])
    BY <1>1, EndingsAssumption
  <2>3. r.status = "Success" =>
          \A i \in DOMAIN r.requests : r.requests[i].status \notin Bad /\ ~r.requests[i].failed
    BY <1>1, EndingsAssumption
  <2> QED BY <2>1, <2>2, <2>3 DEF Bad, Among, Skipped
<1>2. CASE r = Passed \/ r = Skipped
  <2>1. /\ Len(r.requests) = 1 /\ r.requests[1].status \in {"Success", "Unset"}
        /\ r.requests[1].failed = FALSE /\ DOMAIN r.requests = {1}
        /\ r.requests \in Seq([status : Statuses, failed : BOOLEAN])
    <3>1. PICK q \in [status : Statuses, failed : BOOLEAN] :
            r.requests = <<q>> /\ q.status \in {"Success", "Unset"} /\ q.failed = FALSE
      <4>1. CASE r = Passed
        <5> DEFINE q == [status |-> "Success", failed |-> FALSE]
        <5>1. q \in [status : Statuses, failed : BOOLEAN]
          BY DEF Statuses
        <5>2. r.requests = <<q>> /\ q.status = "Success" /\ q.failed = FALSE
          BY <4>1 DEF Passed
        <5> QED BY <5>1, <5>2
      <4>2. CASE r = Skipped
        <5> DEFINE q == [status |-> "Unset", failed |-> FALSE]
        <5>1. q \in [status : Statuses, failed : BOOLEAN]
          BY DEF Statuses
        <5>2. r.requests = <<q>> /\ q.status = "Unset" /\ q.failed = FALSE
          BY <4>2 DEF Skipped
        <5> QED BY <5>1, <5>2
      <4> QED BY <1>2, <4>1, <4>2
    <3>2. <<q>> \in Seq([status : Statuses, failed : BOOLEAN]) /\ Len(<<q>>) = 1 /\ <<q>>[1] = q
      OBVIOUS
    <3> QED BY <3>1, <3>2
  <2>2. r.status \in {"Unset", "Success"} /\ (r.status = "Unset" <=> r = Skipped)
    BY <1>2 DEF Passed, Skipped
  <2> QED BY <2>1, <2>2 DEF Bad, Among
<1> QED BY <1>1, <1>2 DEF Results

(* A number of requests is positive if there is such a request. *)
LEMMA CountsRequests ==
  ASSUME NEW r \in Results, NEW S, S \subseteq DOMAIN r.requests
  PROVE  Cardinality(S) \in Nat /\ (Cardinality(S) > 0 <=> S # {})
<1>1. DOMAIN r.requests = 1 .. Len(r.requests) /\ Len(r.requests) \in Nat
  BY ResultShape
<1>2. IsFiniteSet(1 .. Len(r.requests))
  BY <1>1, FS_Interval
<1>3. IsFiniteSet(S)
  BY <1>1, <1>2, FS_Subset
<1>4. Cardinality(S) \in Nat /\ (Cardinality(S) = 0 <=> S = {})
  BY <1>3, FS_CardinalityType, FS_EmptySet
<1> QED BY <1>4

(* The totals of the junit report. *)
LEMMA JUnitStep ==
  ASSUME TypeInv, JUnitInv, NEW r \in Results, junit' = JUnit(r), seen' = seen \cup {r}
  PROVE  junit' \in [tests : Nat, failures : Nat, errors : Nat] /\ JUnitInv'
<1> DEFINE F == {i \in DOMAIN r.requests : r.requests[i].failed}
           E == {i \in DOMAIN r.requests : r.requests[i].status \in {"Error", "Aborted"}}
<1>1. junit' = [tests |-> junit.tests + Len(r.requests),
                failures |-> junit.failures + Cardinality(F),
                errors |-> junit.errors + Cardinality(E)]
  BY DEF JUnit, Requests
<1>2. /\ Cardinality(F) \in Nat /\ (Cardinality(F) > 0 <=> F # {})
      /\ Cardinality(E) \in Nat /\ (Cardinality(E) > 0 <=> E # {})
  <2>1. F \subseteq DOMAIN r.requests /\ E \subseteq DOMAIN r.requests
    OBVIOUS
  <2> HIDE DEF F, E
  <2> QED BY <2>1, CountsRequests
<1>3. Len(r.requests) \in Nat
  BY ResultShape
<1>4. junit.tests \in Nat /\ junit.failures \in Nat /\ junit.errors \in Nat
  BY DEF TypeInv
<1>5. /\ F # {} <=> \E i \in DOMAIN r.requests : r.requests[i].failed
      /\ E # {} <=> Among(r, {"Error", "Aborted"})
  BY DEF Among
<1> HIDE DEF F, E
<1>6. junit' \in [tests : Nat, failures : Nat, errors : Nat]
  BY <1>1, <1>2, <1>3, <1>4
<1>7. /\ junit'.failures > 0 <=> junit.failures > 0 \/ F # {}
      /\ junit'.errors > 0 <=> junit.errors > 0 \/ E # {}
  BY <1>1, <1>2, <1>4
<1>8. /\ (\E q \in seen' : \E i \in DOMAIN q.requests : q.requests[i].failed)
           <=> (\E q \in seen : \E i \in DOMAIN q.requests : q.requests[i].failed) \/ F # {}
      /\ (\E q \in seen' : Among(q, {"Error", "Aborted"}))
           <=> (\E q \in seen : Among(q, {"Error", "Aborted"})) \/ E # {}
  BY <1>5
<1>9. JUnitInv'
  <2>1. \A q, S : Among(q, S)' = Among(q, S)
    BY DEF Among
  <2> QED BY <1>7, <1>8, <2>1 DEF JUnitInv
<1> QED BY <1>6, <1>9

(* The exit code and the numbers of the summary. *)
LEMMA ResultStep ==
  ASSUME TypeInv, ResultInv, NEW r \in Results, CountResult(r), tally' = Tally(r),
         seen' = seen \cup {r}, count' = count, interrupted' = interrupted,
         r.status = "Aborted" => interrupted, count = 0 => r = Skipped
  PROVE  /\ tally' \in [total : Nat, ran : Nat, successful : Nat, aborted : Nat]
         /\ tally'.total = tally.total + 1
         /\ success' \in BOOLEAN /\ counted' \in Nat /\ seen' \subseteq Results
         /\ ResultInv'
<1> DEFINE ran == One(r.status \notin {"Unset", "Skipped"})
           good == One(r.status = "Success")
           cut == One(r.status = "Aborted")
<1>1. tally' = [total |-> tally.total + 1, ran |-> tally.ran + ran,
                successful |-> tally.successful + good, aborted |-> tally.aborted + cut]
  BY DEF Tally
<1>2. /\ tally.total \in Nat /\ tally.ran \in Nat /\ tally.successful \in Nat
      /\ tally.aborted \in Nat /\ counted \in Nat /\ success \in BOOLEAN /\ seen \subseteq Results
  BY DEF TypeInv
<1>3. /\ r.status \in {"Unset", "Success"} \cup Bad /\ (r.status = "Unset" <=> r = Skipped)
      /\ (r.status \notin Bad => ~Among(r, Bad))
  BY ResultShape
<1>4. /\ ran \in {0, 1} /\ good \in {0, 1} /\ cut \in {0, 1}
      /\ ran = 0 <=> r.status = "Unset"
      /\ good = 1 <=> r.status = "Success"
      /\ cut = 1 <=> r.status = "Aborted"
      /\ r.status \in {"Failure", "Error"} <=> ran = 1 /\ good = 0 /\ cut = 0
      /\ good + cut <= ran
  BY <1>3 DEF One, Bad
<1> HIDE DEF ran, good, cut
<1>5. \A S : SeenWith(S)' <=> SeenWith(S) \/ r.status \in S
  BY DEF SeenWith
<1>6. /\ tally'.total = tally.total + 1 /\ tally'.ran = tally.ran + ran
      /\ tally'.successful = tally.successful + good /\ tally'.aborted = tally.aborted + cut
  BY <1>1
<1>7. tally' \in [total : Nat, ran : Nat, successful : Nat, aborted : Nat]
  BY <1>1, <1>2, <1>4
<1>8. success' = (success /\ r.status \notin Bad)
  BY <1>3 DEF CountResult
<1>9. success' \in BOOLEAN /\ counted' \in Nat /\ seen' \subseteq Results
  <2>1. counted' = counted \/ counted' = counted + 1
    BY DEF CountResult
  <2> QED BY <1>2, <1>8, <2>1
<1>10. (success => counted = tally.total) /\ (success <=> ~SeenWith(Bad))
  BY DEF ResultInv
<1>11. success' => counted' = tally'.total
  <2> SUFFICES ASSUME success' PROVE counted' = tally'.total
    OBVIOUS
  <2>1. success /\ r.status \notin Bad
    BY <1>8
  <2>2. counted' = counted + 1
    BY <2>1 DEF CountResult
  <2> QED BY <1>6, <1>10, <2>1, <2>2
<1>12. success' <=> ~SeenWith(Bad)'
  BY <1>5, <1>8, <1>10
<1>13. /\ tally.successful + tally.aborted <= tally.ran /\ tally.ran <= tally.total
       /\ (tally.total > 0 <=> seen # {})
       /\ (tally.ran < tally.total <=> SeenWith({"Unset"}))
       /\ (tally.successful > 0 <=> SeenWith({"Success"}))
       /\ (tally.aborted > 0 <=> SeenWith({"Aborted"}))
       /\ (tally.successful + tally.aborted < tally.ran <=> SeenWith({"Failure", "Error"}))
       /\ (SeenWith({"Aborted"}) => interrupted)
       /\ (count = 0 => seen \subseteq {Skipped})
  BY DEF ResultInv
<1>14. /\ tally'.successful + tally'.aborted <= tally'.ran /\ tally'.ran <= tally'.total
       /\ tally'.total > 0
  BY <1>2, <1>4, <1>6, <1>13
<1>15. tally'.ran < tally'.total <=> SeenWith({"Unset"})'
  BY <1>2, <1>4, <1>5, <1>6, <1>13
<1>16. tally'.successful > 0 <=> SeenWith({"Success"})'
  BY <1>2, <1>4, <1>5, <1>6, <1>13
<1>17. tally'.aborted > 0 <=> SeenWith({"Aborted"})'
  BY <1>2, <1>4, <1>5, <1>6, <1>13
<1>18. tally'.successful + tally'.aborted < tally'.ran <=> SeenWith({"Failure", "Error"})'
  BY <1>2, <1>4, <1>5, <1>6, <1>13
<1>19. SeenWith({"Aborted"})' => interrupted'
  BY <1>5, <1>13
<1>20. count' = 0 => seen' \subseteq {Skipped}
  BY <1>13
<1>21. ResultInv'
  BY <1>11, <1>12, <1>14, <1>15, <1>16, <1>17, <1>18, <1>19, <1>20 DEF ResultInv
<1> QED BY <1>6, <1>7, <1>9, <1>21

(* A bundle is sent and its result reported. *)
LEMMA ReportStep ==
  ASSUME IInv, NEW r \in Results, Report(r)
  PROVE  IInv'
<1> USE DEF IInv
<1>1. /\ phase = "run" /\ Send /\ count' = count /\ interrupted' = interrupted
      /\ scenarios' = scenarios /\ size' = size /\ lost' = lost /\ phase' = "run"
      /\ listing' = listing /\ unread' = unread /\ exit' = exit
      /\ seen' = seen \cup {r} /\ tally' = Tally(r) /\ junit' = JUnit(r) /\ CountResult(r)
      /\ r.status = "Aborted" => interrupted
      /\ IF Bundle.run THEN r \in Endings \cup {Passed} ELSE r = Skipped
  BY DEF Report, Send
<1>2. at <= Len(scenarios) /\ at \in 1 .. Len(scenarios) /\ Current \in ScenarioRecords
  BY <1>1, BundleType DEF Send
<1>3. count = 0 => r = Skipped
  <2> SUFFICES ASSUME count = 0 PROVE r = Skipped
    OBVIOUS
  <2>1. Bundle.run = (BundleCount(Current, count) > 0)
    BY DEF Bundle
  <2>2. BundleCount(Current, count) = 0
    BY DEF BundleCount
  <2>3. (BundleCount(Current, count) > 0) = FALSE
    BY <2>2
  <2>4. Bundle.run = FALSE
    BY <2>1, <2>3, Zenon
  <2>5. IF Bundle.run THEN r \in Endings \cup {Passed} ELSE r = Skipped
    BY <1>1
  <2> HIDE DEF IInv
  <2> QED BY <2>4, <2>5, Zenon
<1>4. /\ at' \in Nat \ {0} /\ path' \in Nat /\ rep' \in Nat
      /\ emitted' \in Seq(BundleRecords) /\ Len(emitted') = Len(emitted) + 1 /\ PositionInv'
  BY <1>1, SendPosition
<1>5. VariantInv'
  BY <1>1, SendVariant
<1>6. junit' \in [tests : Nat, failures : Nat, errors : Nat] /\ JUnitInv'
  BY <1>1, JUnitStep
<1>7. /\ tally' \in [total : Nat, ran : Nat, successful : Nat, aborted : Nat]
      /\ tally'.total = tally.total + 1
      /\ success' \in BOOLEAN /\ counted' \in Nat /\ seen' \subseteq Results /\ ResultInv'
  BY <1>1, <1>3, ResultStep
<1>8. TypeInv'
  BY <1>1, <1>4, <1>6, <1>7 DEF TypeInv
<1>9. FreshInv' /\ ExitInv'
  BY <1>1 DEF FreshInv, ExitInv
<1>10. SizeInv'
  BY <1>1 DEF SizeInv
<1>11. LostInv'
  <2>1. Len(emitted) \in Nat /\ tally.total \in Nat
    BY DEF TypeInv
  <2> QED BY <1>1, <1>4, <1>7, <2>1 DEF LostInv
<1>12. CoverInv'
  <2> SUFFICES ASSUME count >= 1, NEW s \in 1 .. at' - 1, scenarios[s].included
               PROVE  lost \/ SeenWith({"Success"} \cup Bad)'
    BY <1>1 DEF CoverInv
  <2>1. SeenWith({"Success"} \cup Bad) => SeenWith({"Success"} \cup Bad)'
    BY <1>1 DEF SeenWith
  <2>2. s \in 1 .. at - 1 \/ s = at
    BY <1>1, <1>2 DEF Send, TypeInv
  <2>3. CASE s \in 1 .. at - 1
    BY <2>1, <2>3 DEF CoverInv
  <2>4. CASE s = at
    <3>1. Bundle.run = (BundleCount(Current, count) > 0)
      BY DEF Bundle
    <3>2. BundleCount(Current, count) = count
      BY <2>4 DEF BundleCount, Current
    <3>3. r \in Endings \cup {Passed}
      <4>1. (BundleCount(Current, count) > 0) = TRUE
        BY <3>2 DEF TypeInv
      <4>2. Bundle.run = TRUE
        BY <3>1, <4>1, Zenon
      <4>3. IF Bundle.run THEN r \in Endings \cup {Passed} ELSE r = Skipped
        BY <1>1
      <4> HIDE DEF IInv
      <4> QED BY <4>2, <4>3, Zenon
    <3>4. r.status \in {"Success"} \cup Bad
      BY <3>3, EndingsAssumption DEF Passed, Bad
    <3> QED BY <1>1, <3>4 DEF SeenWith
  <2> QED BY <2>2, <2>3, <2>4
<1> QED BY <1>4, <1>5, <1>6, <1>7, <1>8, <1>9, <1>10, <1>11, <1>12

(* A bundle is sent whose result nobody reports. *)
LEMMA LoseStep ==
  ASSUME IInv, Lose
  PROVE  IInv'
<1> USE DEF IInv
<1>1. /\ phase = "run" /\ interrupted /\ Send /\ lost' = TRUE
      /\ count' = count /\ scenarios' = scenarios
      /\ size' = size /\ seen' = seen /\ success' = success /\ counted' = counted
      /\ tally' = tally /\ junit' = junit /\ phase' = phase /\ listing' = listing
      /\ unread' = unread /\ interrupted' = interrupted /\ exit' = exit
  BY DEF Lose, Send
<1>2. /\ at' \in Nat \ {0} /\ path' \in Nat /\ rep' \in Nat
      /\ emitted' \in Seq(BundleRecords) /\ Len(emitted') = Len(emitted) + 1 /\ PositionInv'
  BY <1>1, SendPosition
<1>3. VariantInv'
  BY <1>1, SendVariant
<1>4. TypeInv'
  BY <1>1, <1>2 DEF TypeInv
<1>5. ResultInv' /\ JUnitInv'
  BY <1>1, ReportsUnchanged
<1>6. FreshInv' /\ ExitInv' /\ SizeInv' /\ CoverInv'
  BY <1>1 DEF FreshInv, ExitInv, SizeInv, CoverInv
<1>7. LostInv'
  <2>1. Len(emitted) \in Nat /\ tally.total \in Nat
    BY DEF TypeInv
  <2> QED BY <1>1, <1>2, <2>1 DEF LostInv
<1> QED BY <1>2, <1>3, <1>4, <1>5, <1>6, <1>7

(* A path is read, and its scenarios are announced. *)
LEMMA ReadStep ==
  ASSUME IInv, NEW found \in parseFilePath, ReadPath(found)
  PROVE  IInv'
<1> USE DEF IInv
<1>1. /\ phase = "paths" /\ unread > 0 /\ unread' = unread - 1
      /\ count' = count /\ at' = at /\ path' = path /\ rep' = rep /\ emitted' = emitted
      /\ seen' = seen /\ lost' = lost /\ success' = success /\ counted' = counted
      /\ tally' = tally /\ junit' = junit /\ listing' = listing /\ interrupted' = interrupted
  BY DEF ReadPath, sendVars, reportVars
<1>2. unread' \in Nat
  BY <1>1 DEF TypeInv
<1>3. /\ at = 1 /\ path = 0 /\ rep = 0 /\ emitted = <<>> /\ seen = {} /\ ~lost
  BY <1>1 DEF FreshInv
<1>4. ResultInv' /\ JUnitInv'
  BY <1>1, ReportsUnchanged
<1>5. CASE interrupted
  <2>1. phase' = "left" /\ exit' = 1 /\ scenarios' = scenarios /\ size' = size
    BY <1>5 DEF ReadPath, Leave
  <2>2. TypeInv'
    BY <1>1, <1>2, <2>1 DEF TypeInv
  <2>3. FreshInv' /\ ExitInv' /\ CoverInv' /\ LostInv'
    BY <1>1, <1>3, <2>1 DEF FreshInv, ExitInv, CoverInv, LostInv
  <2>4. SizeInv' /\ PositionInv' /\ VariantInv'
    <3>1. SizeInv'
      BY <1>1, <2>1 DEF SizeInv
    <3>2. Due(at - 1)' = Due(at - 1) /\ Current' = Current
      BY <1>1, <2>1 DEF Due, Sends, Current
    <3>3. PositionInv'
      BY <1>1, <2>1, <3>2 DEF PositionInv
    <3>4. \A s, c : SendsOf(s, c)' = SendsOf(s, c)
      BY <1>1 DEF SendsOf
    <3>5. VariantInv'
      BY <1>1, <2>1, <3>4 DEF VariantInv
    <3> QED BY <3>1, <3>3, <3>5
  <2> QED BY <1>4, <2>2, <2>3, <2>4
<1>6. CASE ~interrupted
  <2> DEFINE more == [i \in DOMAIN found |-> AsScenario(found[i])]
  <2>1. /\ scenarios' = scenarios \o more /\ size' = size + ScenarioCount(more, count)
        /\ phase' = phase /\ exit' = exit
    BY <1>6 DEF ReadPath
  <2>2. scenarios \in Seq(ScenarioRecords) /\ count \in Nat /\ size \in Nat
    BY DEF TypeInv
  <2>3. more \in Seq(ScenarioRecords)
    <3>1. PICK n \in Nat : found \in [1 .. n -> Found]
      BY <2>2, PlanAssumption DEF parseFilePath, BoundedSeq, SeqOf
    <3>2. \A i \in 1 .. n : AsScenario(found[i]) \in ScenarioRecords
      BY <3>1, PlanAssumption DEF AsScenario, ScenarioRecords, ShouldInclude
    <3> QED BY <3>1, <3>2
  <2> HIDE DEF more
  <2>4. scenarios' \in Seq(ScenarioRecords) /\ Len(scenarios') \in Nat
    BY <2>1, <2>2, <2>3
  <2>5. SizeInv' /\ size' \in Nat
    <3>1. /\ ScenarioCount(more, count) \in Nat
          /\ ScenarioCount(scenarios \o more, count) =
               ScenarioCount(scenarios, count) + ScenarioCount(more, count)
      BY <2>2, <2>3, AnnouncedConcat
    <3> QED BY <1>1, <2>1, <2>2, <3>1 DEF SizeInv
  <2>6. TypeInv'
    BY <1>1, <1>2, <2>1, <2>4, <2>5 DEF TypeInv
  <2>7. FreshInv' /\ ExitInv' /\ LostInv' /\ CoverInv'
    BY <1>1, <1>3, <2>1 DEF FreshInv, ExitInv, LostInv, CoverInv
  <2>8. PositionInv'
    <3>1. Len(emitted) = 0
      BY <1>3
    <3>2. (Due(at - 1))' = 0
      <4>1. at' - 1 = 0 /\ [s \in 1 .. 0 |-> Sends(s)'] = <<>>
        BY <1>1, <1>3
      <4> QED BY <4>1, TotalEmpty DEF Due
    <3>3. CASE 1 <= Len(scenarios')
      <4>1. Current' = scenarios'[1] /\ scenarios'[1] \in ScenarioRecords
        BY <1>1, <1>3, <2>4, <3>3 DEF Current
      <4>2. CountVariants(Current'.matrix) \in Nat \ {0}
        BY <4>1, CountVariantsPositive DEF ScenarioRecords
      <4>3. Repetitions(Current', count') \in Nat \ {0}
        BY <1>1, <2>2, <4>1 DEF Repetitions, BundleCount, ScenarioRecords
      <4>4. 0 * Repetitions(Current', count') = 0
        BY <4>3
      <4> QED BY <1>1, <1>3, <2>4, <3>1, <3>2, <3>3, <4>2, <4>3, <4>4 DEF PositionInv
    <3>4. CASE ~(1 <= Len(scenarios'))
      BY <1>1, <1>3, <2>4, <3>1, <3>2, <3>4 DEF PositionInv
    <3> QED BY <3>3, <3>4
  <2>9. VariantInv'
    <3>1. DOMAIN emitted' = {}
      BY <1>1, <1>3
    <3>2. \A s, c : SendsOf(s, c)' = {}
      BY <3>1 DEF SendsOf
    <3>3. Cardinality({}) = 0
      BY FS_EmptySet
    <3>4. \A s \in 1 .. Len(scenarios'), p \in Nat : ~(s < at' \/ (s = at' /\ p < path'))
      BY <1>1, <1>3, <2>4
    <3>5. rep' = 0
      BY <1>1, <1>3
    <3> QED BY <3>1, <3>2, <3>3, <3>4, <3>5 DEF VariantInv
  <2> QED BY <1>4, <2>5, <2>6, <2>7, <2>8, <2>9
<1> QED BY <1>5, <1>6

(* The run is over: the exit code comes from success and the count. *)
LEMMA FinishStep ==
  ASSUME IInv, Finish
  PROVE  IInv'
<1> USE DEF IInv
<1>1. /\ phase = "run" /\ (Sent \/ interrupted)
      /\ phase' = "left" /\ exit' = (IF success /\ counted = size THEN 0 ELSE 1)
      /\ lost' = (lost \/ ~Sent)
      /\ UNCHANGED <<planVars, sendVars>>
      /\ count' = count /\ scenarios' = scenarios /\ size' = size
      /\ at' = at /\ path' = path /\ rep' = rep /\ emitted' = emitted
      /\ listing' = listing /\ unread' = unread /\ interrupted' = interrupted
      /\ seen' = seen /\ success' = success /\ counted' = counted /\ tally' = tally
      /\ junit' = junit
  BY DEF Finish, Leave, planVars, sendVars
<1>2. SizeInv' /\ PositionInv' /\ VariantInv'
  BY <1>1, SendingUnchanged
<1>3. ResultInv' /\ JUnitInv'
  BY <1>1, ReportsUnchanged
<1>4. lost' \in BOOLEAN /\ exit' \in {0, 1, None}
  BY <1>1 DEF TypeInv
<1>5. TypeInv'
  BY <1>1, <1>4 DEF TypeInv
<1>6. Sent' = Sent
  BY <1>1 DEF Sent
<1>7. FreshInv' /\ ExitInv' /\ LostInv'
  BY <1>1, <1>6 DEF FreshInv, ExitInv, LostInv
<1>8. CoverInv'
  BY <1>1 DEF CoverInv, SeenWith
<1> QED BY <1>2, <1>3, <1>5, <1>7, <1>8

(* Interrupts, flags, --list and the end of the program leave plan and        *)
(* reports alone.                                                             *)
LEMMA OtherSteps ==
  ASSUME IInv, Interrupt \/ LeaveEarly \/ SetUp \/ PathsRead \/ UNCHANGED cliVars
  PROVE  IInv'
<1> USE DEF IInv
<1>1. /\ UNCHANGED <<planVars, sendVars>> /\ UNCHANGED reportVars
      /\ listing' = listing /\ unread' = unread
      /\ (interrupted => interrupted') /\ interrupted' \in BOOLEAN
  BY DEF Interrupt, LeaveEarly, SetUp, PathsRead, cliVars, TypeInv
<1>2. /\ count' = count /\ scenarios' = scenarios /\ size' = size
      /\ at' = at /\ path' = path /\ rep' = rep /\ emitted' = emitted
      /\ seen' = seen /\ lost' = lost /\ success' = success /\ counted' = counted
      /\ tally' = tally /\ junit' = junit
  BY <1>1 DEF planVars, sendVars, reportVars
<1>3. /\ phase' \in {"flags", "paths", "run", "left"} /\ exit' \in {0, 1, None}
      /\ \/ phase' = phase /\ exit' = exit
         \/ phase \in {"flags", "paths"} /\ phase' \in {"paths", "left", "run"}
  <2>1. CASE Interrupt
    BY <2>1 DEF Interrupt, TypeInv
  <2>2. CASE LeaveEarly
    BY <2>2 DEF LeaveEarly, Leave
  <2>3. CASE SetUp
    BY <2>3 DEF SetUp, TypeInv
  <2>4. CASE PathsRead
    BY <2>4 DEF PathsRead, Leave, TypeInv
  <2>5. CASE UNCHANGED cliVars
    BY <2>5 DEF cliVars, TypeInv
  <2> QED BY <2>1, <2>2, <2>3, <2>4, <2>5
<1>4. SizeInv' /\ PositionInv' /\ VariantInv'
  BY <1>1, SendingUnchanged
<1>5. ResultInv' /\ JUnitInv'
  BY <1>1, <1>2, ReportsUnchanged
<1>6. TypeInv'
  BY <1>1, <1>2, <1>3 DEF TypeInv
<1>7. FreshInv' /\ ExitInv'
  BY <1>2, <1>3 DEF FreshInv, ExitInv, Sent
<1>8. LostInv'
  BY <1>1, <1>2, <1>3 DEF LostInv, FreshInv, Sent
<1>9. CoverInv'
  BY <1>2 DEF CoverInv, SeenWith
<1> QED BY <1>4, <1>5, <1>6, <1>7, <1>8, <1>9

(* One step per action. *)
LEMMA StepIInv == IInv /\ [CliNext]_cliVars => IInv'
<1> SUFFICES ASSUME IInv, [CliNext]_cliVars PROVE IInv'
  OBVIOUS
<1>1. CASE Interrupt \/ LeaveEarly \/ SetUp \/ PathsRead \/ Left \/ UNCHANGED cliVars
  BY <1>1, OtherSteps DEF Left
<1>2. CASE \E found \in parseFilePath : ReadPath(found)
  BY <1>2, ReadStep
<1>3. CASE \E r \in Endings \cup {Passed, Skipped} : Report(r)
  BY <1>3, ReportStep DEF Results
<1>4. CASE Lose
  BY <1>4, LoseStep
<1>5. CASE Finish
  BY <1>5, FinishStep
<1> QED BY <1>1, <1>2, <1>3, <1>4, <1>5 DEF CliNext

-----------------------------------------------------------------------------
(* A run that ended: its exit code, and whether results are missing.          *)
LEMMA WhenRunEnded ==
  ASSUME IInv, RunEnded
  PROVE  /\ exit = IF success /\ tally.total = size THEN 0 ELSE 1
         /\ count >= 1 => /\ tally.total <= size /\ (lost <=> tally.total < size)
                          /\ ~lost => Sent /\ Len(emitted) = size
<1>1. /\ tally.total \in Nat /\ size \in Nat /\ Len(emitted) \in Nat /\ count \in Nat
      /\ Len(scenarios) \in Nat
  BY DEF IInv, TypeInv
<1>2. (lost \/ Sent) /\ exit = IF success /\ counted = size THEN 0 ELSE 1
  BY DEF IInv, ExitInv, RunEnded
<1>3. success => counted = tally.total
  BY DEF IInv, ResultInv
<1>4. ASSUME count >= 1
      PROVE  /\ tally.total <= size /\ (lost <=> tally.total < size)
             /\ ~lost => Sent /\ Len(emitted) = size
  <2>1. size = Due(Len(scenarios))
    BY <1>4, AnnouncedIsDue DEF IInv, SizeInv
  <2>2. Len(emitted) <= size /\ (Sent <=> Len(emitted) = size)
    BY <2>1, SentIsDue DEF IInv
  <2>3. /\ tally.total <= Len(emitted) /\ (tally.total < Len(emitted) => lost)
        /\ lost => tally.total < Len(emitted) \/ ~Sent
    BY DEF IInv, LostInv
  <2> QED BY <1>1, <1>2, <2>2, <2>3
<1> QED BY <1>2, <1>3, <1>4

(* What the results of a run are, by the counts of the summary.               *)
LEMMA WhatWasSeen ==
  ASSUME IInv
  PROVE  /\ success <=> ~SeenWith({"Aborted"}) /\ ~SeenWith({"Failure", "Error"})
         /\ \A r \in seen : /\ r.status \in {"Unset", "Success"} \cup Bad
                            /\ r.status = "Unset" <=> r = Skipped
         /\ success <=> \A r \in seen : r.status \in {"Success", "Unset"}
<1>1. seen \subseteq Results /\ success \in BOOLEAN
  BY DEF IInv, TypeInv
<1>2. \A r \in seen : /\ r.status \in {"Unset", "Success"} \cup Bad
                      /\ r.status = "Unset" <=> r = Skipped
  BY <1>1, ResultShape
<1>3. success <=> ~SeenWith(Bad)
  BY DEF IInv, ResultInv
<1>4. SeenWith(Bad) <=> SeenWith({"Aborted"}) \/ SeenWith({"Failure", "Error"})
  BY DEF SeenWith, Bad
<1>5. ~SeenWith(Bad) <=> \A r \in seen : r.status \in {"Success", "Unset"}
  BY <1>2 DEF SeenWith, Bad
<1> QED BY <1>2, <1>3, <1>4, <1>5

(* The word of the summary and the exit code agree. *)
LEMMA VerdictTellsExitInv == IInv => VerdictTellsExit
<1> SUFFICES ASSUME IInv, RunEnded
             PROVE  /\ exit = 0 <=> Verdict \in {"PASSED", "SKIPPED"}
                    /\ count >= 1 =>
                         /\ Verdict = "ABORTED" => interrupted
                         /\ Verdict = "FAILED" =>
                              /\ \E r \in seen : r.status \in {"Failure", "Error"}
                              /\ ~lost /\ \A r \in seen : r.status # "Aborted"
                         /\ Verdict = "SKIPPED" => seen = {Skipped} /\ ~lost
  BY DEF VerdictTellsExit
<1>1. /\ tally.total \in Nat /\ tally.ran \in Nat /\ tally.successful \in Nat
      /\ tally.aborted \in Nat /\ size \in Nat /\ count \in Nat /\ size > 0
  BY DEF IInv, TypeInv, RunEnded
<1>2. /\ tally.successful + tally.aborted <= tally.ran /\ tally.ran <= tally.total
      /\ tally.successful > 0 <=> SeenWith({"Success"})
      /\ tally.aborted > 0 <=> SeenWith({"Aborted"})
      /\ tally.successful + tally.aborted < tally.ran <=> SeenWith({"Failure", "Error"})
      /\ SeenWith({"Aborted"}) => interrupted
      /\ count = 0 => seen \subseteq {Skipped}
      /\ lost => interrupted
  BY DEF IInv, ResultInv, LostInv
<1>3. /\ exit = IF success /\ tally.total = size THEN 0 ELSE 1
      /\ count >= 1 => /\ tally.total <= size /\ (lost <=> tally.total < size)
                       /\ ~lost => Sent /\ Len(emitted) = size
  BY WhenRunEnded
<1>4. success <=> ~SeenWith({"Aborted"}) /\ ~SeenWith({"Failure", "Error"})
  BY WhatWasSeen
<1>5. NotRun = tally.total - tally.ran
  BY <1>1 DEF NotRun, Missing
<1>6. CASE count = 0
  <2>1. \A r \in seen : r.status = "Unset"
    BY <1>2, <1>6 DEF Skipped
  <2>2. ~SeenWith({"Aborted"}) /\ ~SeenWith({"Failure", "Error"}) /\ ~SeenWith({"Success"})
    BY <2>1 DEF SeenWith
  <2>3. tally.ran = 0 /\ tally.aborted = 0 /\ tally.successful = 0 /\ success
    BY <1>1, <1>2, <1>4, <2>2
  <2>4. Verdict = IF tally.total = size THEN "SKIPPED" ELSE "ABORTED"
    <3>1. NotRun = tally.total /\ Aborted = size - tally.total
      BY <1>1, <1>5, <2>3 DEF Aborted, Missing
    <3>2. size - tally.total = 0 <=> tally.total = size
      BY <1>1
    <3> QED BY <3>1, <3>2 DEF Verdict
  <2> QED BY <1>3, <1>6, <2>3, <2>4
<1>7. CASE count >= 1
  <2>1. /\ tally.total <= size /\ (lost <=> tally.total < size)
    BY <1>3, <1>7
  <2>2. CASE tally.total = size /\ tally.ran = 0
    <3>1. Verdict = "SKIPPED" /\ tally.aborted = 0 /\ tally.successful = 0
      BY <1>1, <1>2, <1>5, <2>2 DEF Verdict
    <3>2. ~SeenWith({"Aborted"}) /\ ~SeenWith({"Failure", "Error"}) /\ ~SeenWith({"Success"})
      BY <1>1, <1>2, <2>2, <3>1
    <3>3. success /\ exit = 0 /\ ~lost
      BY <1>1, <1>3, <1>4, <2>1, <2>2, <3>2
    <3>4. \A r \in seen : r = Skipped
      BY <3>2, WhatWasSeen DEF SeenWith, Bad
    <3>5. seen # {}
      BY <3>3 DEF RunEnded
    <3> QED BY <3>1, <3>3, <3>4, <3>5
  <2>3. CASE ~(tally.total = size /\ tally.ran = 0) /\ tally.aborted + (size - tally.total) # 0
    <3>1. Verdict = "ABORTED"
      BY <1>1, <1>2, <1>5, <2>1, <2>3 DEF Verdict, Aborted, Missing
    <3>2. tally.aborted > 0 \/ tally.total < size
      BY <1>1, <2>1, <2>3
    <3>3. exit = 1 /\ interrupted
      BY <1>1, <1>2, <1>3, <1>4, <2>1, <3>2
    <3> QED BY <3>1, <3>3
  <2>4. CASE ~(tally.total = size /\ tally.ran = 0) /\ tally.aborted + (size - tally.total) = 0
    <3>1. tally.aborted = 0 /\ tally.total = size /\ tally.ran # 0 /\ ~lost /\ ~SeenWith({"Aborted"})
      BY <1>1, <1>2, <2>1, <2>4
    <3>2. \A r \in seen : r.status # "Aborted"
      BY <3>1 DEF SeenWith
    <3>3. Verdict = IF tally.ran - tally.successful # 0 THEN "FAILED" ELSE "PASSED"
      BY <1>1, <1>2, <1>5, <3>1 DEF Verdict, Aborted, Missing, Failed
    <3>4. tally.ran - tally.successful # 0 <=> SeenWith({"Failure", "Error"})
      BY <1>1, <1>2, <3>1
    <3>5. exit = 0 <=> ~SeenWith({"Failure", "Error"})
      BY <1>3, <1>4, <3>1
    <3> QED BY <3>1, <3>2, <3>3, <3>4, <3>5 DEF SeenWith
  <2> QED BY <2>2, <2>3, <2>4
<1> QED BY <1>1, <1>6, <1>7

(* The junit report and the exit code agree. *)
LEMMA JUnitTellsExitInv == IInv => JUnitTellsExit
<1> SUFFICES ASSUME IInv, RunEnded, count >= 1
             PROVE  /\ exit = 0 => junit.failures = 0 /\ junit.errors = 0
                    /\ exit = 1 => \/ junit.failures + junit.errors > 0
                                   \/ lost \/ \E r \in seen : Unexplained(r)
  BY DEF JUnitTellsExit
<1>1. /\ junit.failures \in Nat /\ junit.errors \in Nat /\ seen \subseteq Results
      /\ tally.total \in Nat /\ size \in Nat
  BY DEF IInv, TypeInv
<1>2. /\ junit.failures > 0 <=> \E r \in seen : \E i \in DOMAIN r.requests : r.requests[i].failed
      /\ junit.errors > 0 <=> \E r \in seen : Among(r, {"Error", "Aborted"})
  BY DEF IInv, JUnitInv
<1>3. /\ exit = IF success /\ tally.total = size THEN 0 ELSE 1
      /\ tally.total <= size /\ (lost <=> tally.total < size)
  BY WhenRunEnded
<1>4. success <=> \A r \in seen : r.status \in {"Success", "Unset"}
  BY WhatWasSeen
<1>5. ASSUME exit = 0 PROVE junit.failures = 0 /\ junit.errors = 0
  <2>1. \A r \in seen : r.status \notin Bad
    BY <1>3, <1>4, <1>5 DEF Bad
  <2>2. \A r \in seen : /\ ~Among(r, Bad)
                        /\ \A i \in DOMAIN r.requests : ~r.requests[i].failed
    BY <1>1, <2>1, ResultShape
  <2>3. \A r \in seen : ~Among(r, {"Error", "Aborted"})
    BY <2>2 DEF Among, Bad
  <2> QED BY <1>1, <1>2, <2>2, <2>3
<1>6. ASSUME exit = 1, ~lost
      PROVE  junit.failures + junit.errors > 0 \/ \E r \in seen : Unexplained(r)
  <2>1. ~success
    BY <1>1, <1>3, <1>6
  <2>2. PICK r \in seen : r.status \notin {"Success", "Unset"}
    BY <1>4, <2>1
  <2>3. r \in Endings
    BY <1>1, <2>2 DEF Results, Passed, Skipped
  <2>4. /\ r.status \in Bad
        /\ \/ Unexplained(r)
           \/ \E i \in DOMAIN r.requests :
                \/ r.requests[i].status = r.status
                \/ r.status = "Failure" /\ r.requests[i].failed
        /\ \A i \in DOMAIN r.requests : r.requests[i].status = "Failure" => r.requests[i].failed
    BY <2>2, <2>3, EndingsAssumption DEF Bad
  <2>5. CASE Unexplained(r)
    BY <2>5
  <2>6. ASSUME NEW i \in DOMAIN r.requests, r.requests[i].failed
        PROVE  junit.failures > 0
    BY <1>2, <2>6
  <2>7. ASSUME NEW i \in DOMAIN r.requests, r.requests[i].status \in {"Error", "Aborted"}
        PROVE  junit.errors > 0
    BY <1>2, <2>7 DEF Among
  <2> QED BY <1>1, <2>4, <2>5, <2>6, <2>7 DEF Bad
<1> QED BY <1>5, <1>6

(* Exit code 0 stands for the whole plan. *)
LEMMA ExitZeroInv == IInv => ExitZeroCoversThePlan
<1> SUFFICES ASSUME IInv, RunEnded, exit = 0, count >= 1
             PROVE  /\ Sent /\ ~lost /\ Len(emitted) = size
                    /\ \A r \in seen : r.status \in {"Success", "Unset"}
                    /\ (\E s \in DOMAIN scenarios : scenarios[s].included) =>
                         \E r \in seen : r.status = "Success"
  BY DEF ExitZeroCoversThePlan
<1>1. success /\ tally.total = size /\ tally.total \in Nat
  BY WhenRunEnded DEF IInv, TypeInv
<1>2. Sent /\ ~lost /\ Len(emitted) = size
  BY <1>1, WhenRunEnded
<1>3. \A r \in seen : r.status \in {"Success", "Unset"}
  BY <1>1, WhatWasSeen
<1>4. ASSUME NEW s \in DOMAIN scenarios, scenarios[s].included
      PROVE  \E r \in seen : r.status = "Success"
  <2>1. s \in 1 .. at - 1
    BY <1>2 DEF Sent, IInv, TypeInv, PositionInv
  <2>2. SeenWith({"Success"} \cup Bad)
    BY <1>2, <1>4, <2>1 DEF IInv, CoverInv
  <2> QED BY <1>3, <2>2 DEF SeenWith, Bad
<1> QED BY <1>2, <1>3, <1>4

-----------------------------------------------------------------------------
(* The invariant of a call of sinq: the announced number of results, the      *)
(* position of the data source, the bundles of every variant and the three    *)
(* counts of the results stay in step (sinq(), startDataSource, the Reports). *)
THEOREM Invariant == CliSpec => []IInv
<1>1. CliInit => IInv
  BY InitIInv
<1>2. IInv /\ [CliNext]_cliVars => IInv'
  BY StepIInv
<1> QED BY <1>1, <1>2, PTL DEF CliSpec

(* handleReporting's scenarioCount is the number of bundles startDataSource   *)
(* sends, for any plan and any --count but 0.                                 *)
THEOREM Announced == CliSpec => []AnnouncedIsSent
<1> QED BY Invariant, AnnouncedIsSentInv, PTL

(* startDataSource sends every combination of labels of every matrix equally  *)
(* often, and takePath yields no other.                                       *)
THEOREM EveryVariant == CliSpec => []EveryVariantSent
<1> QED BY Invariant, EveryVariantSentInv, PTL

(* The exit code (ResultReporter) and the word of the summary (reportEnd)     *)
(* agree however a run ends.                                                  *)
THEOREM VerdictAgrees == CliSpec => []VerdictTellsExit
<1> QED BY Invariant, VerdictTellsExitInv, PTL

(* The exit code and the totals of the junit report (JUnitReporter) agree.    *)
THEOREM JUnitAgrees == CliSpec => []JUnitTellsExit
<1> QED BY Invariant, JUnitTellsExitInv, PTL

(* Exit code 0 means that the whole plan was sent, reported and successful.   *)
THEOREM ExitZeroIsComplete == CliSpec => []ExitZeroCoversThePlan
<1> QED BY Invariant, ExitZeroInv, PTL
=============================================================================
