--------------------------- MODULE TreewalkerProof --------------------------
(* A walk through a file tree, for any tree, any number of workers and of     *)
(* failures: no failure is lost on its way to the caller of ParseFiletree,    *)
(* and none is made up; a scenario is built of nothing but the files on the   *)
(* way to its leaf; and a walk that nothing disturbs yields the scenarios of  *)
(* the tree.                                                                  *)
EXTENDS Treewalker, TLAPS, FiniteSetTheorems, WellFoundedInduction

-----------------------------------------------------------------------------
(* Trees and file lists.  The functions of Treewalker are recursive along the *)
(* path to a directory, so what is known of them is proved by induction.      *)

(* A set of numbers with 0 and every successor has all numbers: otherwise its *)
(* complement has a least element, which is no successor (WFMin).             *)
LEMMA NatSetInduction ==
  ASSUME NEW S, 0 \in S, \A n \in Nat : n \in S => n + 1 \in S
  PROVE  Nat \subseteq S
<1> DEFINE T == Nat \ S
<1>1. SUFFICES ASSUME T # {} PROVE FALSE
  OBVIOUS
<1>2. PICK x \in T : \A y \in T : ~(<<y, x>> \in OpToRel(<, Nat))
  <2>1. IsWellFoundedOn(OpToRel(<, Nat), Nat)
    BY NatLessThanWellFounded
  <2>2. T \subseteq Nat
    OBVIOUS
  <2> HIDE DEF T
  <2> QED BY <1>1, <2>1, <2>2, WFMin
<1>3. \A y \in T : ~(y < x)
  <2> SUFFICES ASSUME NEW y \in T, y < x PROVE FALSE
    OBVIOUS
  <2>1. <<y, x>> \in OpToRel(<, Nat)
    BY DEF OpToRel
  <2> QED BY <1>2, <2>1
<1>4. x # 0 /\ x \in Nat
  OBVIOUS
<1>5. x - 1 \in Nat /\ x - 1 < x
  BY <1>4
<1>6. x - 1 \in S
  BY <1>3, <1>5
<1> QED BY <1>4, <1>5, <1>6

(* The directories are numbers, and a parent comes before its children. *)
LEMMA Numbered ==
  /\ Len(Parent) \in Nat \ {0} /\ Dirs = 1 .. Len(Parent) /\ 1 \in Dirs
  /\ \A d \in Dirs : d # 1 => Parent[d] \in Dirs /\ Parent[d] < d
  /\ \A d \in Dirs : Files[d] \in Seq(AllFiles)
<1>1. Parent \in Seq(Nat) /\ Parent # <<>>
  BY TreeAssumption
<1>2. Len(Parent) \in Nat \ {0} /\ Dirs = 1 .. Len(Parent)
  BY <1>1 DEF Dirs
<1>3. \A d \in Dirs : d # 1 => Parent[d] \in 1 .. d - 1
  BY TreeAssumption
<1> QED BY <1>2, <1>3, TreeAssumption

(* f is computed from the root: b there, and a step of g below. *)
Grown(f, n, V, b, g) ==
  f \in [1 .. n -> V] /\ \A d \in 1 .. n : f[d] = IF d = 1 THEN b ELSE g[d][f[Parent[d]]]

(* There is such a function. *)
LEMMA TreeRecursion ==
  ASSUME NEW V, NEW b \in V, NEW g \in [Dirs -> [V -> V]]
  PROVE  \E f : Grown(f, Len(Parent), V, b, g)
<1> DEFINE N == Len(Parent)
           S == {n \in Nat : n <= N => \E f : Grown(f, n, V, b, g)}
<1>1. N \in Nat /\ Dirs = 1 .. N /\ \A d \in Dirs : d # 1 => Parent[d] \in Dirs /\ Parent[d] < d
  BY Numbered
<1> HIDE DEF N
<1>2. 0 \in S
  <2>1. [d \in 1 .. 0 |-> b] \in [1 .. 0 -> V] /\ 1 .. 0 = {}
    OBVIOUS
  <2>2. Grown([d \in 1 .. 0 |-> b], 0, V, b, g)
    BY <2>1 DEF Grown
  <2> QED BY <2>2
<1>3. \A n \in Nat : n \in S => n + 1 \in S
  <2> SUFFICES ASSUME NEW n \in Nat, n \in S, n + 1 <= N
               PROVE  \E f : Grown(f, n + 1, V, b, g)
    OBVIOUS
  <2>1. PICK f : Grown(f, n, V, b, g)
    BY <1>1
  <2> DEFINE top == IF n + 1 = 1 THEN b ELSE g[n + 1][f[Parent[n + 1]]]
             h == [d \in 1 .. n + 1 |-> IF d <= n THEN f[d] ELSE top]
  <2>2. f \in [1 .. n -> V] /\ \A d \in 1 .. n : f[d] = IF d = 1 THEN b ELSE g[d][f[Parent[d]]]
    BY <2>1 DEF Grown
  <2>3. n + 1 # 1 => Parent[n + 1] \in 1 .. n
    BY <1>1
  <2>4. n + 1 \in Dirs /\ 1 .. n \subseteq Dirs
    BY <1>1
  <2>5. top \in V
    <3>1. CASE n + 1 = 1
      BY <3>1
    <3>2. CASE n + 1 # 1
      <4>1. f[Parent[n + 1]] \in V
        BY <2>2, <2>3, <3>2
      <4>2. g[n + 1] \in [V -> V]
        BY <2>4
      <4> QED BY <3>2, <4>1, <4>2
    <3> QED BY <3>1, <3>2
  <2> HIDE DEF top
  <2>6. h \in [1 .. n + 1 -> V]
    BY <2>2, <2>5
  <2>7. (\A d \in 1 .. n : h[d] = f[d]) /\ h[n + 1] = top
    OBVIOUS
  <2> HIDE DEF h
  <2>8. \A d \in 1 .. n + 1 : h[d] = IF d = 1 THEN b ELSE g[d][h[Parent[d]]]
    <3> TAKE d \in 1 .. n + 1
    <3>1. CASE d \in 1 .. n
      <4>1. d # 1 => Parent[d] \in 1 .. n
        BY <1>1, <2>4, <3>1
      <4> QED BY <2>2, <2>7, <3>1, <4>1
    <3>2. CASE d = n + 1
      <4>1. n + 1 # 1 => h[Parent[n + 1]] = f[Parent[n + 1]]
        BY <2>3, <2>7
      <4> QED BY <2>7, <3>2, <4>1 DEF top
    <3> QED BY <3>1, <3>2
  <2>9. Grown(h, n + 1, V, b, g)
    BY <2>6, <2>8 DEF Grown
  <2> QED BY <2>9
<1> HIDE DEF S
<1>4. Nat \subseteq S
  BY <1>2, <1>3, NatSetInduction
<1> QED BY <1>1, <1>4 DEF S, N

(* exploreFS's toPrepend is well defined. *)
LEMMA TaskFilesDef ==
  /\ TaskFiles \in [Dirs -> Seq(AllFiles)]
  /\ \A d \in Dirs :
       TaskFiles[d] = IF d = 1 THEN Files[d] ELSE TaskFiles[Parent[d]] \o Files[d]
<1> DEFINE V == Seq(AllFiles)
           g == [d \in Dirs |-> [v \in V |-> v \o Files[d]]]
           Is(t) == t = [d \in Dirs |-> IF d = 1 THEN Files[d] ELSE t[Parent[d]] \o Files[d]]
<1>1. /\ Len(Parent) \in Nat \ {0} /\ Dirs = 1 .. Len(Parent) /\ 1 \in Dirs
      /\ \A d \in Dirs : d # 1 => Parent[d] \in Dirs
      /\ \A d \in Dirs : Files[d] \in V
  BY Numbered
<1>2. g \in [Dirs -> [V -> V]]
  <2>1. \A d \in Dirs : [v \in V |-> v \o Files[d]] \in [V -> V]
    <3> TAKE d \in Dirs
    <3>1. Files[d] \in Seq(AllFiles)
      BY <1>1
    <3>2. \A v \in Seq(AllFiles) : v \o Files[d] \in Seq(AllFiles)
      BY <3>1
    <3> QED BY <3>2
  <2> QED BY <2>1
<1>3. PICK f : Grown(f, Len(Parent), V, Files[1], g)
  <2>1. Files[1] \in V
    BY <1>1
  <2> HIDE DEF V, g
  <2> QED BY <1>2, <2>1, TreeRecursion
<1>4. f \in [Dirs -> V]
  BY <1>1, <1>3 DEF Grown
<1>5. \A d \in Dirs : f[d] = IF d = 1 THEN Files[d] ELSE f[Parent[d]] \o Files[d]
  <2> TAKE d \in Dirs
  <2>1. f[d] = IF d = 1 THEN Files[1] ELSE g[d][f[Parent[d]]]
    <3> HIDE DEF g, V
    <3> QED BY <1>1, <1>3 DEF Grown
  <2>2. d # 1 => f[Parent[d]] \in V
    <3> HIDE DEF V
    <3> QED BY <1>1, <1>4
  <2>3. d # 1 => g[d][f[Parent[d]]] = f[Parent[d]] \o Files[d]
    <3> HIDE DEF V
    <3> QED BY <2>2
  <2> QED BY <2>1, <2>3
<1>6. Is(f)
  <2> HIDE DEF V
  <2> QED BY <1>4, <1>5
<1>7. Is(TaskFiles)
  <2> HIDE DEF g, V
  <2>1. TaskFiles = CHOOSE t : Is(t)
    BY DEF TaskFiles
  <2> HIDE DEF Is
  <2> QED BY <1>6, <2>1
<1>8. \A d \in Dirs :
        TaskFiles[d] = IF d = 1 THEN Files[d] ELSE TaskFiles[Parent[d]] \o Files[d]
  BY <1>7
<1>9. TaskFiles \in [Dirs -> V]
  <2> DEFINE S == {n \in Nat : \A d \in Dirs : d <= n => TaskFiles[d] \in V}
  <2>1. 0 \in S
    BY <1>1
  <2>2. \A n \in Nat : n \in S => n + 1 \in S
    <3> SUFFICES ASSUME NEW n \in Nat, n \in S, NEW d \in Dirs, d <= n + 1 PROVE TaskFiles[d] \in V
      OBVIOUS
    <3>1. CASE d = 1
      BY <1>1, <1>8, <3>1
    <3>2. CASE d # 1
      <4>1. Parent[d] \in Dirs /\ Parent[d] <= n
        BY <1>1, <3>2, Numbered
      <4>2. TaskFiles[Parent[d]] \in Seq(AllFiles) /\ Files[d] \in Seq(AllFiles)
        BY <1>1, <4>1
      <4>3. TaskFiles[Parent[d]] \o Files[d] \in Seq(AllFiles)
        BY <4>2
      <4> QED BY <1>8, <3>2, <4>3
    <3> QED BY <3>1, <3>2
  <2> HIDE DEF S
  <2>3. Nat \subseteq S
    BY <2>1, <2>2, NatSetInduction
  <2>4. \A d \in Dirs : d \in S
    BY <1>1, <2>3
  <2>5. \A d \in Dirs : TaskFiles[d] \in V
    BY <1>1, <2>4 DEF S
  <2> QED BY <1>7, <2>5
<1> QED BY <1>8, <1>9

(* Inside holds the directories on the way to one. *)
LEMMA InsideDef ==
  \A d \in Dirs : Inside[d] = IF d = 1 THEN {1} ELSE Inside[Parent[d]] \cup {d}
<1> DEFINE V == SUBSET Dirs
           g == [d \in Dirs |-> [v \in V |-> v \cup {d}]]
           Is(t) == t = [d \in Dirs |-> IF d = 1 THEN {1} ELSE t[Parent[d]] \cup {d}]
<1>1. /\ Dirs = 1 .. Len(Parent) /\ 1 \in Dirs
      /\ \A d \in Dirs : d # 1 => Parent[d] \in Dirs
  BY Numbered
<1>2. g \in [Dirs -> [V -> V]]
  OBVIOUS
<1>3. PICK f : Grown(f, Len(Parent), V, {1}, g)
  <2>1. {1} \in V
    BY <1>1
  <2> HIDE DEF V, g
  <2> QED BY <1>2, <2>1, TreeRecursion
<1>4. f \in [Dirs -> V]
  BY <1>1, <1>3 DEF Grown
<1>5. \A d \in Dirs : f[d] = IF d = 1 THEN {1} ELSE f[Parent[d]] \cup {d}
  <2> TAKE d \in Dirs
  <2>1. f[d] = IF d = 1 THEN {1} ELSE g[d][f[Parent[d]]]
    <3> HIDE DEF g, V
    <3> QED BY <1>1, <1>3 DEF Grown
  <2>2. d # 1 => f[Parent[d]] \in V
    <3> HIDE DEF V
    <3> QED BY <1>1, <1>4
  <2>3. d # 1 => g[d][f[Parent[d]]] = f[Parent[d]] \cup {d}
    <3> HIDE DEF V
    <3> QED BY <2>2
  <2> QED BY <2>1, <2>3
<1>6. Is(f)
  <2> HIDE DEF V
  <2> QED BY <1>4, <1>5
<1>7. Is(Inside)
  <2> HIDE DEF g, V
  <2>1. Inside = CHOOSE t : Is(t)
    BY DEF Inside
  <2> HIDE DEF Is
  <2> QED BY <1>6, <2>1
<1> QED BY <1>7

(* Below a leaf there is nothing. *)
LEMMA InsideLeaf ==
  ASSUME NEW d \in Dirs, Leaf(d), NEW x \in Dirs, d \in Inside[x]
  PROVE  x = d
<1> DEFINE S == {n \in Nat : \A y \in Dirs : y <= n /\ d \in Inside[y] => y = d}
<1>1. /\ Dirs = 1 .. Len(Parent) /\ Len(Parent) \in Nat
      /\ \A y \in Dirs : y # 1 => Parent[y] \in Dirs /\ Parent[y] < y
  BY Numbered
<1>2. 0 \in S
  BY <1>1
<1>3. \A n \in Nat : n \in S => n + 1 \in S
  <2> SUFFICES ASSUME NEW n \in Nat, n \in S, NEW y \in Dirs, y <= n + 1, d \in Inside[y]
               PROVE  y = d
    OBVIOUS
  <2>0. Inside[y] = IF y = 1 THEN {1} ELSE Inside[Parent[y]] \cup {y}
    BY InsideDef
  <2>1. CASE y = 1
    BY <2>0, <2>1
  <2>2. CASE y # 1 /\ y # d
    <3>1. d \in Inside[Parent[y]]
      BY <2>0, <2>2
    <3>2. Parent[y] \in Dirs /\ Parent[y] <= n
      BY <1>1, <2>2
    <3>3. Parent[y] = d
      BY <3>1, <3>2
    <3> QED BY <3>3 DEF Leaf
  <2> QED BY <2>1, <2>2
<1> HIDE DEF S
<1>4. Nat \subseteq S
  BY <1>2, <1>3, NatSetInduction
<1> QED BY <1>1, <1>4 DEF S

(* Where the exploration may go on. *)
After(d, e) ==
  /\ e \in d + 1 .. Len(Parent) + 1
  /\ e \in Dirs => d \notin Inside[e]
  /\ \A f \in d + 1 .. e - 1 : d \in Inside[f]

(* The exploration moves forward, or has come to its end. *)
LEMMA PastDef ==
  ASSUME NEW d \in Dirs
  PROVE  After(d, Past(d))
<1> DEFINE N == Len(Parent)
           S == {n \in Nat : d + n <= N + 1 => \A f \in d + 1 .. d + n : f \in Dirs /\ d \in Inside[f]}
<1>1. N \in Nat /\ Dirs = 1 .. N
  BY Numbered
<1> HIDE DEF N
<1>2. SUFFICES ASSUME \A e \in d + 1 .. N + 1 : ~After(d, e) PROVE FALSE
  <2>1. \E e \in d + 1 .. N + 1 : After(d, e)
    BY <1>2
  <2>2. Past(d) = CHOOSE e \in d + 1 .. N + 1 : After(d, e)
    BY DEF Past, After, N
  <2> QED BY <2>1, <2>2
<1>3. 0 \in S
  BY <1>1
<1>4. \A n \in Nat : n \in S => n + 1 \in S
  <2> SUFFICES ASSUME NEW n \in Nat, n \in S, d + (n + 1) <= N + 1,
                      NEW f \in d + 1 .. d + (n + 1)
               PROVE  f \in Dirs /\ d \in Inside[f]
    OBVIOUS
  <2>1. \A e \in d + 1 .. d + n : e \in Dirs /\ d \in Inside[e]
    BY <1>1
  <2>2. CASE f \in d + 1 .. d + n
    BY <2>1, <2>2
  <2>3. CASE f = d + (n + 1)
    <3>1. f \in d + 1 .. N + 1 /\ f - 1 = d + n
      BY <1>1, <2>3
    <3>2. ~After(d, f)
      BY <1>2, <3>1
    <3>3. \A e \in d + 1 .. f - 1 : d \in Inside[e]
      BY <2>1, <3>1
    <3> QED BY <3>1, <3>2, <3>3 DEF After, N
  <2> QED BY <1>1, <2>2, <2>3
<1> HIDE DEF S
<1>5. Nat \subseteq S
  BY <1>3, <1>4, NatSetInduction
<1>6. N + 1 - d \in Nat /\ d + (N + 1 - d) = N + 1 /\ N + 1 \in d + 1 .. d + (N + 1 - d)
  BY <1>1
<1>7. N + 1 \in Dirs
  BY <1>5, <1>6 DEF S
<1> QED BY <1>1, <1>7

(* After a leaf comes the next directory. *)
LEMMA PastLeaf ==
  ASSUME NEW d \in Dirs, Leaf(d)
  PROVE  Past(d) = d + 1
<1>1. Past(d) \in d + 1 .. Len(Parent) + 1 /\ \A f \in d + 1 .. Past(d) - 1 : d \in Inside[f]
  BY PastDef DEF After
<1>2. Len(Parent) \in Nat /\ Dirs = 1 .. Len(Parent)
  BY Numbered
<1>3. CASE Past(d) # d + 1
  <2>1. d + 1 \in d + 1 .. Past(d) - 1 /\ d + 1 \in Dirs
    BY <1>1, <1>2, <1>3
  <2>2. d + 1 = d
    BY <1>1, <2>1, InsideLeaf
  <2> QED BY <1>2, <2>2
<1> QED BY <1>3

(* A file of a task is a file of one directory on the way, and the task       *)
(* begins like the one of that directory.                                     *)
Home(d, k, e, j) ==
  /\ e \in Dirs /\ j \in DOMAIN Files[e] /\ TaskFiles[d][k] = Files[e][j]
  /\ k = Len(TaskFiles[e]) - Len(Files[e]) + j
  /\ k <= Len(TaskFiles[e]) /\ Len(TaskFiles[e]) <= Len(TaskFiles[d])
  /\ \A i \in 1 .. Len(TaskFiles[e]) : TaskFiles[d][i] = TaskFiles[e][i]

(* There is such a directory. *)
LEMMA HasHome ==
  \A d \in Dirs : \A k \in 1 .. Len(TaskFiles[d]) : \E e, j : Home(d, k, e, j)
<1> DEFINE Good(d) == \A k \in 1 .. Len(TaskFiles[d]) : \E e, j : Home(d, k, e, j)
           S == {n \in Nat : \A d \in Dirs : d <= n => Good(d)}
<1>1. /\ Dirs = 1 .. Len(Parent) /\ Len(Parent) \in Nat
      /\ \A y \in Dirs : y # 1 => Parent[y] \in Dirs /\ Parent[y] < y
      /\ \A y \in Dirs : Files[y] \in Seq(AllFiles)
  BY Numbered
<1>2. \A d \in Dirs : TaskFiles[d] \in Seq(AllFiles)
  BY TaskFilesDef
<1>3. 0 \in S
  BY <1>1
<1>4. ASSUME NEW n \in Nat, n \in S, NEW d \in Dirs, d <= n + 1,
             NEW k \in 1 .. Len(TaskFiles[d])
      PROVE  \E e, j : Home(d, k, e, j)
  <2> DEFINE F == Files[d]
             T == TaskFiles[d]
  <2>1. F \in Seq(AllFiles) /\ T \in Seq(AllFiles) /\ Len(F) \in Nat /\ Len(T) \in Nat
    BY <1>1, <1>2
  <2>2. CASE d = 1
    <3>1. T = F
      BY <2>2, TaskFilesDef
    <3>2. Home(d, k, d, k)
      BY <2>1, <3>1 DEF Home
    <3> QED BY <3>2
  <2>3. CASE d # 1
    <3> DEFINE P == TaskFiles[Parent[d]]
    <3>1. Parent[d] \in Dirs /\ Parent[d] <= n /\ P \in Seq(AllFiles) /\ T = P \o F
      <4>1. Parent[d] \in Dirs /\ Parent[d] < d
        BY <1>1, <2>3
      <4>2. Parent[d] <= n
        BY <1>1, <1>4, <4>1
      <4>3. T = P \o F
        BY <2>3, TaskFilesDef
      <4> QED BY <1>2, <4>1, <4>2, <4>3
    <3> HIDE DEF F, P, T
    <3>2. /\ Len(P) \in Nat /\ Len(T) = Len(P) + Len(F)
          /\ \A i \in 1 .. Len(P) : T[i] = P[i]
          /\ \A i \in 1 .. Len(F) : T[Len(P) + i] = F[i]
      BY <2>1, <3>1
    <3>3. CASE k <= Len(P)
      <4>1. k \in 1 .. Len(P)
        BY <3>2, <3>3 DEF T
      <4>2. PICK e, j : Home(Parent[d], k, e, j)
        <5>1. Good(Parent[d])
          BY <1>4, <3>1
        <5> QED BY <4>1, <5>1 DEF P
      <4>3. e \in Dirs /\ Len(TaskFiles[e]) \in Nat
        BY <1>2, <4>2 DEF Home
      <4>4. Len(TaskFiles[e]) <= Len(P) /\ \A i \in 1 .. Len(TaskFiles[e]) : P[i] = TaskFiles[e][i]
        BY <4>2 DEF Home, P
      <4>5. Len(TaskFiles[e]) <= Len(T) /\ \A i \in 1 .. Len(TaskFiles[e]) : T[i] = TaskFiles[e][i]
        <5>1. Len(TaskFiles[e]) <= Len(T)
          BY <2>1, <3>2, <4>3, <4>4
        <5>2. ASSUME NEW i \in 1 .. Len(TaskFiles[e]) PROVE T[i] = TaskFiles[e][i]
          <6>1. i \in 1 .. Len(P)
            BY <3>2, <4>3, <4>4
          <6>2. T[i] = P[i]
            BY <3>2, <6>1
          <6> QED BY <4>4, <6>2
        <5> QED BY <5>1, <5>2
      <4>6. Home(d, k, e, j)
        BY <3>2, <4>1, <4>2, <4>5 DEF Home, T, P
      <4> QED BY <4>6
    <3>4. CASE ~(k <= Len(P))
      <4>1. k - Len(P) \in 1 .. Len(F) /\ T[Len(P) + (k - Len(P))] = F[k - Len(P)]
        BY <2>1, <3>2, <3>4 DEF T
      <4>2. k \in Nat /\ k <= Len(T) /\ Len(P) + (k - Len(P)) = k /\ k = Len(T) - Len(F) + (k - Len(P))
        BY <2>1, <3>2 DEF T
      <4>3. DOMAIN F = 1 .. Len(F)
        BY <2>1
      <4>4. T[k] = F[k - Len(P)] /\ k - Len(P) \in DOMAIN F
        BY <4>1, <4>2, <4>3
      <4>5. /\ k <= Len(T) /\ Len(T) <= Len(T)
            /\ k = Len(T) - Len(F) + (k - Len(P))
        BY <2>1, <4>2
      <4>6. Home(d, k, d, k - Len(P))
        BY <4>4, <4>5 DEF Home, T, F
      <4> QED BY <4>6
    <3> QED BY <3>3, <3>4
  <2> QED BY <2>2, <2>3
<1>5. \A n \in Nat : n \in S => n + 1 \in S
  <2> SUFFICES ASSUME NEW n \in Nat, n \in S, NEW d \in Dirs, d <= n + 1 PROVE Good(d)
    <3> HIDE DEF Good
    <3> QED OBVIOUS
  <2> HIDE DEF S
  <2> QED BY <1>4
<1> HIDE DEF S
<1>6. Nat \subseteq S
  BY <1>3, <1>5, NatSetInduction
<1>7. \A d \in Dirs : Good(d)
  <2> TAKE d \in Dirs
  <2>1. d \in Nat /\ d <= d
    BY <1>1
  <2>2. d \in S
    BY <1>6, <2>1
  <2> HIDE DEF Good
  <2> QED BY <2>1, <2>2 DEF S
<1> QED BY <1>7

(* Tasks that share a file have everything before it in common, which is why  *)
(* what one worker cached after that file is right for every other.           *)
LEMMA SamePrefix ==
  ASSUME NEW d \in Dirs, NEW e \in Dirs,
         NEW k \in 1 .. Len(TaskFiles[d]), NEW l \in 1 .. Len(TaskFiles[e]),
         TaskFiles[d][k] = TaskFiles[e][l]
  PROVE  k = l /\ \A i \in 1 .. k : TaskFiles[d][i] = TaskFiles[e][i]
<1>1. PICK x, i : Home(d, k, x, i)
  BY HasHome
<1>2. PICK y, j : Home(e, l, y, j)
  BY HasHome
<1>3. /\ x \in Dirs /\ y \in Dirs /\ i \in DOMAIN Files[x] /\ j \in DOMAIN Files[y]
      /\ Files[x][i] = Files[y][j]
  BY <1>1, <1>2 DEF Home
<1>4. x = y /\ i = j
  BY <1>3, TreeAssumption
<1>5. k = l
  BY <1>1, <1>2, <1>4 DEF Home
<1>6. Len(TaskFiles[x]) \in Nat
  BY <1>3, TaskFilesDef
<1>7. k <= Len(TaskFiles[x])
  BY <1>1 DEF Home
<1>8. /\ \A n \in 1 .. Len(TaskFiles[x]) : TaskFiles[d][n] = TaskFiles[x][n]
      /\ \A n \in 1 .. Len(TaskFiles[x]) : TaskFiles[e][n] = TaskFiles[x][n]
  BY <1>1, <1>2, <1>4 DEF Home
<1> QED BY <1>5, <1>6, <1>7, <1>8

(* The selections from the first 0 .. n files. *)
Selects(f, files, set, n) ==
  /\ f \in [0 .. n -> Seq(set)] /\ f[0] = <<>>
  /\ \A k \in 1 .. n :
       f[k] = IF files[k] \in set THEN Append(f[k - 1], files[k]) ELSE f[k - 1]

(* There is such a function. *)
LEMMA SelectsExists ==
  ASSUME NEW files, NEW set, NEW n \in Nat
  PROVE  \E f : Selects(f, files, set, n)
<1> DEFINE S == {m \in Nat : \E f : Selects(f, files, set, m)}
<1>1. 0 \in S
  <2>1. [k \in 0 .. 0 |-> <<>>] \in [0 .. 0 -> Seq(set)] /\ 1 .. 0 = {}
    OBVIOUS
  <2>2. Selects([k \in 0 .. 0 |-> <<>>], files, set, 0)
    BY <2>1 DEF Selects
  <2> QED BY <2>2
<1>2. \A m \in Nat : m \in S => m + 1 \in S
  <2> SUFFICES ASSUME NEW m \in Nat, m \in S PROVE \E f : Selects(f, files, set, m + 1)
    OBVIOUS
  <2>1. PICK f : Selects(f, files, set, m)
    OBVIOUS
  <2>2. /\ f \in [0 .. m -> Seq(set)] /\ f[0] = <<>>
        /\ \A k \in 1 .. m :
             f[k] = IF files[k] \in set THEN Append(f[k - 1], files[k]) ELSE f[k - 1]
    BY <2>1 DEF Selects
  <2> DEFINE top == IF files[m + 1] \in set THEN Append(f[m], files[m + 1]) ELSE f[m]
             h == [k \in 0 .. m + 1 |-> IF k <= m THEN f[k] ELSE top]
  <2>3. top \in Seq(set)
    <3>1. f[m] \in Seq(set)
      BY <2>2
    <3> QED BY <3>1
  <2> HIDE DEF top
  <2>4. h \in [0 .. m + 1 -> Seq(set)]
    BY <2>2, <2>3
  <2>5. (\A k \in 0 .. m : h[k] = f[k]) /\ h[m + 1] = top
    OBVIOUS
  <2> HIDE DEF h
  <2>6. \A k \in 1 .. m + 1 :
          h[k] = IF files[k] \in set THEN Append(h[k - 1], files[k]) ELSE h[k - 1]
    <3> TAKE k \in 1 .. m + 1
    <3>1. CASE k \in 1 .. m
      <4>1. k \in 0 .. m /\ k - 1 \in 0 .. m
        BY <3>1
      <4>2. h[k] = f[k] /\ h[k - 1] = f[k - 1]
        BY <2>5, <4>1
      <4> QED BY <2>2, <3>1, <4>2
    <3>2. CASE k = m + 1
      <4>1. k - 1 = m /\ m \in 0 .. m
        BY <3>2
      <4>2. h[k] = top /\ h[k - 1] = f[m]
        BY <2>5, <3>2, <4>1
      <4> QED BY <3>2, <4>2 DEF top
    <3> QED BY <3>1, <3>2
  <2>7. h[0] = <<>>
    BY <2>2, <2>5
  <2>8. Selects(h, files, set, m + 1)
    BY <2>4, <2>6, <2>7 DEF Selects
  <2> QED BY <2>8
<1> HIDE DEF S
<1>3. Nat \subseteq S
  BY <1>1, <1>2, NatSetInduction
<1> QED BY <1>3 DEF S

(* Kept is the last selection. *)
LEMMA KeptDef ==
  ASSUME NEW files, NEW set, NEW n \in Nat
  PROVE  \E f : Selects(f, files, set, n) /\ Kept(files, set, n) = f[n]
<1> DEFINE Is(f) == f = [k \in 0 .. n |->
                          IF k = 0 THEN <<>>
                          ELSE IF files[k] \in set THEN Append(f[k - 1], files[k]) ELSE f[k - 1]]
<1>1. PICK f : Selects(f, files, set, n)
  BY SelectsExists
<1>2. Is(f)
  <2>1. f \in [0 .. n -> Seq(set)]
    BY <1>1 DEF Selects
  <2>2. \A k \in 0 .. n :
          f[k] = IF k = 0 THEN <<>>
                 ELSE IF files[k] \in set THEN Append(f[k - 1], files[k]) ELSE f[k - 1]
    <3> TAKE k \in 0 .. n
    <3>1. CASE k = 0
      BY <1>1, <3>1 DEF Selects
    <3>2. CASE k \in 1 .. n
      BY <1>1, <3>2 DEF Selects
    <3> QED BY <3>1, <3>2
  <2> QED BY <2>1, <2>2
<1>3. PICK h : Is(h) /\ Kept(files, set, n) = h[n]
  BY <1>2 DEF Kept
<1>4. \A k \in 0 .. n :
        h[k] = IF k = 0 THEN <<>>
               ELSE IF files[k] \in set THEN Append(h[k - 1], files[k]) ELSE h[k - 1]
  BY <1>3
<1>5. \A k \in 0 .. n : h[k] = f[k]
  <2> DEFINE S == {m \in Nat : m <= n => h[m] = f[m]}
  <2>1. 0 \in S
    BY <1>1, <1>4 DEF Selects
  <2>2. \A m \in Nat : m \in S => m + 1 \in S
    <3> SUFFICES ASSUME NEW m \in Nat, m \in S, m + 1 <= n PROVE h[m + 1] = f[m + 1]
      OBVIOUS
    <3>1. h[m] = f[m] /\ m + 1 \in 1 .. n /\ m + 1 \in 0 .. n /\ m + 1 # 0 /\ (m + 1) - 1 = m
      OBVIOUS
    <3>2. f[m + 1] = IF files[m + 1] \in set THEN Append(f[m], files[m + 1]) ELSE f[m]
      BY <1>1, <3>1 DEF Selects
    <3> QED BY <1>4, <3>1, <3>2
  <2> HIDE DEF S
  <2>3. Nat \subseteq S
    BY <2>1, <2>2, NatSetInduction
  <2> QED BY <2>3 DEF S
<1>6. Kept(files, set, n) = f[n]
  BY <1>3, <1>5
<1> QED BY <1>1, <1>6

(* Selections from lists that begin alike, by sets that agree there, agree.   *)
LEMMA SelectsAgree ==
  ASSUME NEW a, NEW b, NEW A, NEW B, NEW n \in Nat, NEW m \in Nat, NEW f, NEW g,
         Selects(f, a, A, n), Selects(g, b, B, m), NEW j \in Nat, j <= n, j <= m,
         \A i \in 1 .. j : a[i] = b[i] /\ (a[i] \in A <=> b[i] \in B)
  PROVE  f[j] = g[j]
<1> DEFINE S == {k \in Nat : k <= j => f[k] = g[k]}
<1>1. 0 \in S
  BY DEF Selects
<1>2. \A k \in Nat : k \in S => k + 1 \in S
  <2> SUFFICES ASSUME NEW k \in Nat, k \in S, k + 1 <= j PROVE f[k + 1] = g[k + 1]
    OBVIOUS
  <2>1. /\ f[k] = g[k] /\ k + 1 \in 1 .. n /\ k + 1 \in 1 .. m /\ k + 1 \in 1 .. j
        /\ (k + 1) - 1 = k
    OBVIOUS
  <2>2. f[k + 1] = IF a[k + 1] \in A THEN Append(f[k], a[k + 1]) ELSE f[k]
    BY <2>1 DEF Selects
  <2>3. g[k + 1] = IF b[k + 1] \in B THEN Append(g[k], b[k + 1]) ELSE g[k]
    BY <2>1 DEF Selects
  <2> QED BY <2>1, <2>2, <2>3
<1> HIDE DEF S
<1>3. Nat \subseteq S
  BY <1>1, <1>2, NatSetInduction
<1> QED BY <1>3 DEF S

(* Kept, one file further. *)
LEMMA KeptStep ==
  ASSUME NEW files, NEW set, NEW n \in Nat
  PROVE  /\ Kept(files, set, 0) = <<>> /\ Kept(files, set, n) \in Seq(set)
         /\ files[n + 1] \in set =>
              Kept(files, set, n + 1) = Append(Kept(files, set, n), files[n + 1])
         /\ files[n + 1] \notin set => Kept(files, set, n + 1) = Kept(files, set, n)
<1>1. PICK f : Selects(f, files, set, n) /\ Kept(files, set, n) = f[n]
  BY KeptDef
<1>2. PICK g : Selects(g, files, set, n + 1) /\ Kept(files, set, n + 1) = g[n + 1]
  BY KeptDef
<1>3. PICK h : Selects(h, files, set, 0) /\ Kept(files, set, 0) = h[0]
  BY KeptDef
<1>4. f[n] = g[n]
  <2>1. n + 1 \in Nat /\ n <= n /\ n <= n + 1
    OBVIOUS
  <2>2. \A i \in 1 .. n : files[i] = files[i] /\ (files[i] \in set <=> files[i] \in set)
    OBVIOUS
  <2>3. Selects(f, files, set, n) /\ Selects(g, files, set, n + 1)
    BY <1>1, <1>2
  <2> QED BY <2>1, <2>2, <2>3, SelectsAgree
<1>5. g[n + 1] = IF files[n + 1] \in set THEN Append(g[n], files[n + 1]) ELSE g[n]
  BY <1>2 DEF Selects
<1>6. f[n] \in Seq(set) /\ h[0] = <<>>
  BY <1>1, <1>3 DEF Selects
<1> QED BY <1>1, <1>2, <1>3, <1>4, <1>5, <1>6

(* Kept looks at nothing but the first n files. *)
LEMMA KeptSame ==
  ASSUME NEW a, NEW b, NEW A, NEW B, NEW n \in Nat,
         \A i \in 1 .. n : a[i] = b[i] /\ (a[i] \in A <=> b[i] \in B)
  PROVE  Kept(a, A, n) = Kept(b, B, n)
<1>1. PICK f : Selects(f, a, A, n) /\ Kept(a, A, n) = f[n]
  BY KeptDef
<1>2. PICK g : Selects(g, b, B, n) /\ Kept(b, B, n) = g[n]
  BY KeptDef
<1> QED BY <1>1, <1>2, SelectsAgree

-----------------------------------------------------------------------------
(* Failures. *)

Shape ==
  /\ canceled \in BOOLEAN /\ gotError \in BOOLEAN
  /\ pc \in [Workers -> {"idle", "files", "parse", "report", "exited"}]
  /\ errorCh \in Nat /\ failures \in Nat

(* Where a failure is before the caller knows of it. *)
OnItsWay ==
  epc = "failing" \/ (\E w \in Workers : pc[w] = "report") \/ errorCh > 0 \/ gotError

(* Only the exploration gives an error up, and only once canceled.            *)
FailureInv == failures > 0 => OnItsWay \/ canceled

OriginInv == OnItsWay => failures > 0

(* The collector stops at the end of a channel that is closed only when no    *)
(* worker is left that could send to it.                                      *)
CloseInv == errorClosed => \A w \in Workers : pc[w] = "exited"

ReturnInv == NoErrorLost

IInv == Shape /\ FailureInv /\ OriginInv /\ CloseInv /\ ReturnInv
-----------------------------------------------------------------------------
(* Nothing has failed yet. *)
LEMMA InitIInv == Init => IInv
<1> SUFFICES ASSUME Init PROVE IInv
  OBVIOUS
<1>1. /\ failures = 0 /\ errorCh = 0 /\ epc = "enter" /\ outcome = "running"
      /\ gotError = FALSE /\ canceled = FALSE /\ errorClosed = FALSE
  BY DEF Init
<1>2. pc \in [Workers -> {"idle"}]
  BY DEF Init
<1>3. Shape /\ CloseInv
  BY <1>1, <1>2 DEF Shape, CloseInv
<1>4. ~OnItsWay
  BY <1>1, <1>2 DEF OnItsWay
<1> QED
  BY <1>1, <1>3, <1>4 DEF IInv, FailureInv, OriginInv, ReturnInv, NoErrorLost

(* One step per group of actions: the exploration, a worker, the coordinator. *)
LEMMA StepIInv == IInv /\ [Next]_vars => IInv'
<1> SUFFICES ASSUME IInv, [Next]_vars PROVE IInv'
  OBVIOUS
<1> USE DEF IInv, Shape, FailureInv, OriginInv, CloseInv, ReturnInv, NoErrorLost, OnItsWay,
            worker, ends, explorer
<1>1. CASE outcome = "running" /\ Cancel
  BY <1>1 DEF Cancel
<1>2. CASE outcome = "running" /\ Explore
  <2>1. CASE EnterDir \/ ReadDir \/ SendTask \/ DropTask \/ DropError \/ EndExploration
    BY <1>2, <2>1
    DEF EnterDir, ReadDir, SendTask, DropTask, DropError, EndExploration, ExploreOn
  <2>2. CASE ReadDirFails
    BY <1>2, <2>2 DEF ReadDirFails
  <2>3. CASE SendError
    BY <1>2, <2>3 DEF SendError, ExploreOn
  <2>4. CASE SendErrorClosed
    BY <1>2, <2>4 DEF SendErrorClosed
  <2> QED
    BY <1>2, <2>1, <2>2, <2>3, <2>4 DEF Explore
<1>3. CASE outcome = "running" /\ \E w \in Workers : Work(w)
  <2> PICK w \in Workers : Work(w)
    BY <1>3
  <2> USE <1>3
  <2>1. CASE TakeTask(w) \/ ExitWorker(w) \/ EndTask(w)
    BY <2>1 DEF TakeTask, ExitWorker, EndTask
  <2>2. CASE CacheHit(w) \/ CacheMiss(w) \/ ParseConfig(w) \/ ParseRequest(w)
    BY <2>2 DEF CacheHit, CacheMiss, ParseConfig, ParseRequest, NextFile
  <2>3. CASE ParseFails(w)
    BY <2>3 DEF ParseFails
  <2>4. CASE ReportError(w)
    BY <2>4 DEF ReportError, NextFile
  <2> QED
    BY <2>1, <2>2, <2>3, <2>4 DEF Work
<1>4. CASE outcome = "running" /\ Coordinate
  <2>1. CASE CollectError
    BY <1>4, <2>1 DEF CollectError
  <2>2. CASE CloseErrors \/ CloseResults
    BY <1>4, <2>2 DEF CloseErrors, CloseResults, WorkersLeft
  <2>3. CASE Return
    BY <1>4, <2>3 DEF Return
  <2> QED
    BY <1>4, <2>1, <2>2, <2>3 DEF Coordinate
<1>5. CASE UNCHANGED vars
  BY <1>5 DEF vars
<1> QED
  BY <1>1, <1>2, <1>3, <1>4, <1>5 DEF Next, Ended

(* Every failure is on its way to the caller, or the walk is canceled. *)
THEOREM Invariance == Spec => []IInv
  BY InitIInv, StepIInv, PTL DEF Spec

(* ParseFiletree returns an error if anything failed or the context ended     *)
(* while it worked, and only then: it returns when the channel of errors is   *)
(* closed and empty, and that is closed when no worker holds an error.        *)
THEOREM ErrorsReturned == Spec => []NoErrorLost
  BY Invariance, PTL DEF IInv, ReturnInv

-----------------------------------------------------------------------------
(* What is built. *)

Busy(w) == pc[w] \in {"files", "parse", "report"}

(* How many files of its task a worker has been through, and what a leaf      *)
(* takes from its first n files.                                              *)
Handled(w) ==
  Len(TaskFiles[task[w]]) - Len(todo[w]) + (IF pc[w] = "report" THEN 1 ELSE 0)

First(d, n) == {TaskFiles[d][i] : i \in 1 .. n}

BuiltFrom(q, d, n, S) == \E s \in SUBSET (S \cap First(d, n)) : q = Kept(TaskFiles[d], s, n)

Requests == AllFiles \ ConfigFiles

ExploreInv ==
  /\ epc \in {"reading", "sending", "failing"} => at \in Dirs
  /\ epc = "sending" => HasTask(at)
  /\ epc = "done" => at \notin Dirs
  /\ \A i \in DOMAIN taskCh : HasTask(taskCh[i])

(* A worker holds a selection of the files it has been through, in order, and *)
(* has the rest of them before it.                                            *)
WorkerInv(w) ==
  Busy(w) =>
    /\ task[w] \in Dirs /\ HasTask(task[w])
    /\ Len(todo[w]) <= Len(TaskFiles[task[w]])
    /\ \A i \in 1 .. Len(todo[w]) :
         todo[w][i] = TaskFiles[task[w]][Len(TaskFiles[task[w]]) - Len(todo[w]) + i]
    /\ pc[w] # "files" => todo[w] # <<>>
    /\ BuiltFrom(config[w], task[w], Handled(w), ConfigFiles)
    /\ BuiltFrom(requests[w], task[w], Handled(w), Requests)

WorkersInv == \A w \in Workers : WorkerInv(w)

(* A cached configuration is a selection of what comes before its file, in    *)
(* whichever task that is met.                                                *)
CacheInv ==
  \A d \in Dirs : \A n \in 1 .. Len(TaskFiles[d]) :
    TaskFiles[d][n] \in ConfigFiles /\ configCache[TaskFiles[d][n]] # None =>
      BuiltFrom(configCache[TaskFiles[d][n]], d, n, ConfigFiles)

(* While nothing has failed the selections are complete. *)
ExactWorker(w) ==
  Busy(w) =>
    /\ config[w] = Kept(TaskFiles[task[w]], ConfigFiles, Handled(w))
    /\ requests[w] = Kept(TaskFiles[task[w]], Requests, Handled(w))

ExactCache ==
  \A d \in Dirs : \A n \in 1 .. Len(TaskFiles[d]) :
    TaskFiles[d][n] \in ConfigFiles /\ configCache[TaskFiles[d][n]] # None =>
      configCache[TaskFiles[d][n]] = Kept(TaskFiles[d], ConfigFiles, n)

ExactInv ==
  failures = 0 =>
    /\ \A w \in Workers : ExactWorker(w)
    /\ ExactCache
    /\ results \subseteq Blueprints

(* Nobody leaves an undisturbed walk while there is work, and every leaf that *)
(* was passed is in the channel, in a worker's hands, or delivered.           *)
LeaveInv ==
  ~canceled /\ (\E w \in Workers : pc[w] = "exited") => taskCh = <<>> /\ epc = "done"

Covered(d) ==
  \/ \E i \in DOMAIN taskCh : taskCh[i] = d
  \/ \E w \in Workers : Busy(w) /\ task[w] = d
  \/ Blueprint(d).requests = <<>> \/ Blueprint(d) \in results

CoverInv ==
  failures = 0 /\ ~canceled => \A d \in Dirs : HasTask(d) /\ d < at => Covered(d)

WalkInv ==
  /\ TypeOK /\ ExploreInv /\ WorkersInv /\ CacheInv /\ SiblingsIsolated
  /\ ExactInv /\ LeaveInv /\ CoverInv /\ ExactWhenNoError

(* One more file is selected, or not. *)
LEMMA BuiltFurther ==
  ASSUME NEW d \in Dirs, NEW n \in Nat, n + 1 <= Len(TaskFiles[d]), NEW q, NEW S,
         BuiltFrom(q, d, n, S)
  PROVE  /\ BuiltFrom(q, d, n + 1, S)
         /\ TaskFiles[d][n + 1] \in S =>
              BuiltFrom(Append(q, TaskFiles[d][n + 1]), d, n + 1, S)
<1> DEFINE T == TaskFiles[d]
           f == T[n + 1]
<1>1. PICK s \in SUBSET (S \cap First(d, n)) : q = Kept(T, s, n)
  BY DEF BuiltFrom
<1>2. T \in Seq(AllFiles) /\ Len(T) \in Nat
  BY TaskFilesDef
<1>3. f \notin First(d, n)
  <2> SUFFICES ASSUME NEW i \in 1 .. n, T[i] = f PROVE FALSE
    BY DEF First
  <2>1. i \in 1 .. Len(T) /\ n + 1 \in 1 .. Len(T)
    BY <1>2
  <2>2. i = n + 1
    BY <2>1, SamePrefix
  <2> QED BY <2>2
<1>4. First(d, n) \subseteq First(d, n + 1) /\ f \in First(d, n + 1)
  BY DEF First
<1> HIDE DEF f, T
<1>5. Kept(T, s, n + 1) = q
  <2>1. f \notin s
    BY <1>3
  <2> QED BY <1>1, <2>1, KeptStep DEF f
<1>6. BuiltFrom(q, d, n + 1, S)
  <2>1. s \in SUBSET (S \cap First(d, n + 1))
    BY <1>4
  <2> QED BY <1>5, <2>1 DEF BuiltFrom, T
<1>7. ASSUME f \in S PROVE BuiltFrom(Append(q, f), d, n + 1, S)
  <2> DEFINE t == s \cup {f}
  <2>1. t \in SUBSET (S \cap First(d, n + 1)) /\ f \in t
    BY <1>4, <1>7
  <2>2. \A i \in 1 .. n : T[i] = T[i] /\ (T[i] \in s <=> T[i] \in t)
    BY <1>3 DEF First, T
  <2> HIDE DEF t
  <2>3. Kept(T, t, n) = q
    BY <1>1, <2>2, KeptSame
  <2>4. Kept(T, t, n + 1) = Append(q, f)
    BY <2>1, <2>3, KeptStep DEF f
  <2> QED BY <2>1, <2>4 DEF BuiltFrom, T
<1> QED BY <1>6, <1>7 DEF f, T

(* A selection up to a file is one for every task with the file. *)
LEMMA BuiltElsewhere ==
  ASSUME NEW d \in Dirs, NEW e \in Dirs,
         NEW k \in 1 .. Len(TaskFiles[d]), NEW l \in 1 .. Len(TaskFiles[e]),
         TaskFiles[d][k] = TaskFiles[e][l], NEW q, NEW S
  PROVE  /\ BuiltFrom(q, d, k, S) => BuiltFrom(q, e, l, S)
         /\ Kept(TaskFiles[d], S, k) = Kept(TaskFiles[e], S, l)
<1>1. k = l /\ k \in Nat /\ \A i \in 1 .. k : TaskFiles[d][i] = TaskFiles[e][i]
  BY SamePrefix
<1>2. First(d, k) = First(e, l)
  BY <1>1 DEF First
<1>3. \A s : Kept(TaskFiles[d], s, k) = Kept(TaskFiles[e], s, l)
  <2> TAKE s
  <2>1. \A i \in 1 .. k : TaskFiles[d][i] = TaskFiles[e][i]
                          /\ (TaskFiles[d][i] \in s <=> TaskFiles[e][i] \in s)
    BY <1>1
  <2> QED BY <1>1, <2>1, KeptSame
<1> QED BY <1>2, <1>3 DEF BuiltFrom

(* Where a worker is in its task, and what its next file is. *)
LEMMA Position ==
  ASSUME TypeOK, NEW w \in Workers, WorkerInv(w), Busy(w)
  PROVE  /\ task[w] \in Dirs /\ TaskFiles[task[w]] \in Seq(AllFiles)
         /\ Handled(w) \in Nat /\ Handled(w) <= Len(TaskFiles[task[w]])
         /\ todo[w] \in Seq(AllFiles)
         /\ pc[w] \in {"files", "parse"} /\ todo[w] # <<>> =>
              /\ Handled(w) + 1 \in 1 .. Len(TaskFiles[task[w]])
              /\ File(w) = TaskFiles[task[w]][Handled(w) + 1] /\ File(w) \in AllFiles
<1> DEFINE T == TaskFiles[task[w]]
           q == todo[w]
<1>1. /\ task[w] \in Dirs /\ Len(q) <= Len(T) /\ (pc[w] = "report" => q # <<>>)
      /\ \A i \in 1 .. Len(q) : q[i] = T[Len(T) - Len(q) + i]
  BY DEF WorkerInv
<1>2. T \in Seq(AllFiles)
  BY <1>1, TaskFilesDef
<1>3. q \in Seq(AllFiles)
  BY DEF TypeOK
<1>4. Handled(w) = Len(T) - Len(q) + (IF pc[w] = "report" THEN 1 ELSE 0)
  BY DEF Handled
<1>5. File(w) = Head(q)
  BY DEF File
<1> HIDE DEF T, q
<1>6. q # <<>> => Len(q) > 0 /\ Head(q) = q[1] /\ Head(q) \in AllFiles /\ 1 \in 1 .. Len(q)
  BY <1>3
<1>7. Len(T) \in Nat /\ Len(q) \in Nat
  BY <1>2, <1>3
<1>8. Handled(w) \in Nat /\ Handled(w) <= Len(T)
  BY <1>1, <1>4, <1>6, <1>7
<1>9. ASSUME pc[w] \in {"files", "parse"}, q # <<>>
      PROVE  /\ Handled(w) + 1 \in 1 .. Len(T) /\ File(w) = T[Handled(w) + 1]
             /\ File(w) \in AllFiles
  <2>1. Handled(w) = Len(T) - Len(q)
    BY <1>4, <1>7, <1>9
  <2> QED BY <1>1, <1>5, <1>6, <1>7, <1>9, <2>1
<1> QED BY <1>1, <1>2, <1>3, <1>8, <1>9 DEF T, q

(* What a worker's step leaves alone. *)
LEMMA WorkerFrame ==
  ASSUME NEW v, pc'[v] = pc[v], task'[v] = task[v], todo'[v] = todo[v],
         config'[v] = config[v], requests'[v] = requests[v]
  PROVE  /\ Busy(v)' <=> Busy(v)
         /\ WorkerInv(v) => WorkerInv(v)'
         /\ ExactWorker(v) => ExactWorker(v)'
<1>1. (Busy(v)' <=> Busy(v)) /\ Handled(v)' = Handled(v)
  BY DEF Busy, Handled
<1> QED BY <1>1 DEF WorkerInv, ExactWorker, BuiltFrom

(* A worker has been through one more file. *)
LEMMA Advance ==
  ASSUME TypeOK, NEW w \in Workers, WorkerInv(w), Busy(w), todo[w] # <<>>,
         pc'[w] = "files", task'[w] = task[w], todo'[w] = Tail(todo[w]),
         NEW n, n = Handled(w) + (IF pc[w] = "report" THEN 0 ELSE 1),
         BuiltFrom(config'[w], task[w], n, ConfigFiles),
         BuiltFrom(requests'[w], task[w], n, Requests)
  PROVE  WorkerInv(w)' /\ Handled(w)' = n /\ Busy(w)'
<1> DEFINE T == TaskFiles[task[w]]
           q == todo[w]
           r == Tail(q)
<1>1. /\ task[w] \in Dirs /\ HasTask(task[w]) /\ Len(q) <= Len(T)
      /\ \A i \in 1 .. Len(q) : q[i] = T[Len(T) - Len(q) + i]
  BY DEF WorkerInv
<1>2. T \in Seq(AllFiles) /\ q \in Seq(AllFiles) /\ q # <<>>
  BY <1>1, TaskFilesDef DEF TypeOK
<1>3. Handled(w) = Len(T) - Len(q) + (IF pc[w] = "report" THEN 1 ELSE 0)
  BY DEF Handled
<1>4. Handled(w)' = Len(T) - Len(r)
  BY DEF Handled
<1>5. todo'[w] = r
  OBVIOUS
<1> HIDE DEF T, q
<1>6. /\ Len(T) \in Nat /\ Len(q) \in Nat /\ Len(r) = Len(q) - 1 /\ r \in Seq(AllFiles)
      /\ \A i \in 1 .. Len(r) : r[i] = q[i + 1]
  BY <1>2
<1> HIDE DEF r
<1>7. Handled(w)' = n
  BY <1>3, <1>4, <1>6
<1>8. Len(r) <= Len(T) /\ \A i \in 1 .. Len(r) : r[i] = T[Len(T) - Len(r) + i]
  <2>1. \A i \in 1 .. Len(r) :
          i + 1 \in 1 .. Len(q) /\ Len(T) - Len(q) + (i + 1) = Len(T) - Len(r) + i
    BY <1>6
  <2>2. \A i \in 1 .. Len(r) : q[i + 1] = T[Len(T) - Len(q) + (i + 1)]
    BY <1>1, <2>1
  <2> QED BY <1>1, <1>6, <2>1, <2>2
<1>9. Busy(w)'
  BY DEF Busy
<1>10. WorkerInv(w)'
  <2>1. task'[w] = task[w] /\ todo'[w] = r /\ pc'[w] = "files"
    BY <1>5
  <2>2. /\ BuiltFrom(config[w], task[w], Handled(w), ConfigFiles)'
        /\ BuiltFrom(requests[w], task[w], Handled(w), Requests)'
    BY <1>7 DEF BuiltFrom
  <2>3. (Len(todo[w]) <= Len(TaskFiles[task[w]]))'
    BY <1>8, <2>1 DEF T
  <2>4. (\A i \in 1 .. Len(todo[w]) :
           todo[w][i] = TaskFiles[task[w]][Len(TaskFiles[task[w]]) - Len(todo[w]) + i])'
    BY <1>8, <2>1 DEF T
  <2> QED BY <1>1, <2>1, <2>2, <2>3, <2>4 DEF WorkerInv
<1> QED BY <1>7, <1>9, <1>10

(* Steps that do not touch workers, caches and results keep what is built.    *)
LEMMA NothingBuilt ==
  ASSUME WalkInv, worker' = worker, caches' = caches, results' = results,
         failures' = 0 => failures = 0
  PROVE  /\ WorkersInv' /\ CacheInv' /\ SiblingsIsolated' /\ ExactInv'
         /\ \A w \in Workers : Busy(w)' <=> Busy(w)
<1>1. /\ pc' = pc /\ task' = task /\ todo' = todo /\ config' = config /\ requests' = requests
      /\ configCache' = configCache
  BY DEF worker, caches
<1>2. \A v \in Workers : /\ Busy(v)' <=> Busy(v)
                         /\ WorkerInv(v) => WorkerInv(v)'
                         /\ ExactWorker(v) => ExactWorker(v)'
  <2> TAKE v \in Workers
  <2> QED BY <1>1, WorkerFrame
<1>3. WorkersInv'
  BY <1>2 DEF WalkInv, WorkersInv
<1>4. CacheInv' /\ (ExactCache => ExactCache')
  BY <1>1 DEF WalkInv, CacheInv, ExactCache
<1>5. SiblingsIsolated'
  BY DEF WalkInv, SiblingsIsolated
<1>6. ExactInv'
  BY <1>2, <1>4 DEF WalkInv, ExactInv
<1> QED BY <1>2, <1>3, <1>4, <1>5, <1>6

(* Nothing is built yet. *)
LEMMA InitWalkInv == Init => WalkInv
<1> SUFFICES ASSUME Init PROVE WalkInv
  OBVIOUS
<1>1. Capacity \in Nat
  BY TreeAssumption, FS_CardinalityType DEF Capacity
<1>2. Len(Parent) \in Nat \ {0} /\ Dirs = 1 .. Len(Parent) /\ 1 \in Dirs
  BY Numbered
<1>3. TypeOK
  <2>1. /\ at \in 1 .. Len(Parent) + 1 /\ taskCh \in Seq(Dirs) /\ Len(taskCh) <= Capacity
        /\ errorCh \in 0 .. Capacity /\ failures \in 0 .. MaxFailures
    BY <1>1, <1>2, TreeAssumption DEF Init
  <2>2. /\ pc \in [Workers -> {"idle", "files", "parse", "report", "exited"}]
        /\ task \in [Workers -> Dirs \cup {None}] /\ todo \in [Workers -> Seq(AllFiles)]
        /\ config \in [Workers -> Seq(ConfigFiles)]
        /\ requests \in [Workers -> Seq(AllFiles \ ConfigFiles)]
        /\ configCache \in [ConfigFiles -> Seq(ConfigFiles) \cup {None}]
    BY DEF Init
  <2>3. /\ canceled \in BOOLEAN /\ epc \in {"enter", "reading", "sending", "failing", "done"}
        /\ requestCache \subseteq AllFiles \ ConfigFiles
        /\ errorClosed \in BOOLEAN /\ resultClosed \in BOOLEAN /\ gotError \in BOOLEAN
        /\ results \subseteq Scenarios /\ outcome \in {"running", "ok", "error", "panic"}
    BY DEF Init
  <2> QED BY <2>1, <2>2, <2>3 DEF TypeOK
<1>4. \A w \in Workers : ~Busy(w) /\ pc[w] # "exited"
  BY DEF Init, Busy
<1>5. ExploreInv /\ LeaveInv
  BY <1>4 DEF Init, ExploreInv, LeaveInv
<1>6. \A f \in ConfigFiles : configCache[f] = None
  BY DEF Init
<1>7. WorkersInv /\ CacheInv /\ SiblingsIsolated
  BY <1>4, <1>6 DEF WorkersInv, WorkerInv, CacheInv, SiblingsIsolated, Init
<1>8. ExactInv
  BY <1>4, <1>6 DEF ExactInv, ExactWorker, ExactCache, Init
<1>9. CoverInv /\ ExactWhenNoError
  BY <1>2 DEF CoverInv, ExactWhenNoError, Init
<1> QED BY <1>3, <1>5, <1>7, <1>8, <1>9 DEF WalkInv

(* The exploration passes a leaf with files only after it sent the task,      *)
(* unless something failed or the walk is canceled.                           *)
LEMMA ExploreWalkInv ==
  ASSUME IInv, WalkInv, outcome = "running", Explore
  PROVE  WalkInv'
<1>1. /\ worker' = worker /\ caches' = caches /\ results' = results /\ canceled' = canceled
      /\ errorClosed' = errorClosed /\ resultClosed' = resultClosed /\ gotError' = gotError
  BY DEF Explore, EnterDir, ReadDir, ReadDirFails, SendTask, DropTask, SendError, DropError,
         SendErrorClosed, EndExploration, ends
<1>2. failures' = 0 => failures = 0
  BY DEF Explore, EnterDir, ReadDir, ReadDirFails, SendTask, DropTask, SendError, DropError,
         SendErrorClosed, EndExploration, WalkInv, TypeOK
<1>3. /\ pc' = pc /\ task' = task /\ todo' = todo /\ config' = config /\ requests' = requests
      /\ configCache' = configCache /\ requestCache' = requestCache
  BY <1>1 DEF worker, caches
<1>4. /\ WorkersInv' /\ CacheInv' /\ SiblingsIsolated' /\ ExactInv'
      /\ \A w \in Workers : Busy(w)' <=> Busy(w)
  BY <1>1, <1>2, NothingBuilt
<1>5. /\ Len(Parent) \in Nat \ {0} /\ Dirs = 1 .. Len(Parent) /\ Capacity \in Nat
      /\ MaxFailures \in Nat
  BY Numbered, TreeAssumption, FS_CardinalityType DEF Capacity
<1>6. epc # "done"
  BY DEF Explore, EnterDir, ReadDir, ReadDirFails, SendTask, DropTask, SendError, DropError,
         SendErrorClosed, EndExploration
<1>7. LeaveInv'
  BY <1>1, <1>3, <1>6 DEF LeaveInv, WalkInv
<1>8. ASSUME at \in Dirs
      PROVE  /\ Past(at) \in 1 .. Len(Parent) + 1 /\ at + 1 \in 1 .. Len(Parent) + 1
             /\ HasTask(at) => Past(at) = at + 1
  <2>1. Past(at) \in at + 1 .. Len(Parent) + 1
    BY <1>8, PastDef DEF After
  <2> QED BY <1>5, <1>8, <2>1, PastLeaf DEF HasTask
<1>9. epc = "failing" => failures > 0
  BY DEF IInv, OriginInv, OnItsWay
<1>10. /\ at' \in 1 .. Len(Parent) + 1
       /\ epc' \in {"enter", "reading", "sending", "failing", "done"}
       /\ taskCh' \in Seq(Dirs) /\ Len(taskCh') <= Capacity
       /\ errorCh' \in 0 .. Capacity /\ failures' \in 0 .. MaxFailures
       /\ outcome' \in {"running", "panic"} /\ ExploreInv'
  <2> USE <1>5, <1>8 DEF WalkInv, TypeOK, ExploreInv
  <2>1. CASE EnterDir
    BY <2>1 DEF EnterDir, ExploreOn
  <2>2. CASE ReadDir
    BY <2>2 DEF ReadDir, ExploreOn
  <2>3. CASE ReadDirFails
    BY <2>3 DEF ReadDirFails
  <2>4. CASE SendTask
    <3>1. /\ taskCh' = Append(taskCh, at) /\ at' = Past(at) /\ epc' = "enter"
          /\ at \in Dirs /\ HasTask(at) /\ Len(taskCh) < Capacity
          /\ errorCh' = errorCh /\ failures' = failures /\ outcome' = outcome
      BY <2>4 DEF SendTask, ExploreOn
    <3>2. taskCh' \in Seq(Dirs) /\ Len(taskCh') = Len(taskCh) + 1 /\ Len(taskCh) \in Nat
      BY <3>1
    <3>3. \A i \in DOMAIN taskCh' : HasTask(taskCh'[i])
      BY <3>1
    <3> QED BY <3>1, <3>2, <3>3
  <2>5. CASE DropTask
    BY <2>5 DEF DropTask, ExploreOn
  <2>6. CASE SendError
    BY <2>6 DEF SendError, ExploreOn
  <2>7. CASE DropError
    BY <2>7 DEF DropError, ExploreOn
  <2>8. CASE SendErrorClosed
    BY <2>8 DEF SendErrorClosed, explorer
  <2>9. CASE EndExploration
    BY <2>9 DEF EndExploration
  <2> QED BY <2>1, <2>2, <2>3, <2>4, <2>5, <2>6, <2>7, <2>8, <2>9 DEF Explore
<1>11. TypeOK'
  BY <1>1, <1>3, <1>10 DEF WalkInv, TypeOK
<1>12. CoverInv'
  <2> SUFFICES ASSUME failures' = 0, ~canceled, NEW d \in Dirs, HasTask(d), d < at'
               PROVE  Covered(d)'
    BY <1>1 DEF CoverInv
  <2>1. Covered(d) => Covered(d)'
    <3>1. \A i \in DOMAIN taskCh : i \in DOMAIN taskCh' /\ taskCh'[i] = taskCh[i]
      <4>1. taskCh' = taskCh \/ taskCh' = Append(taskCh, at)
        BY DEF Explore, EnterDir, ReadDir, ReadDirFails, SendTask, DropTask, SendError,
               DropError, SendErrorClosed, EndExploration
      <4>2. taskCh \in Seq(Dirs)
        BY DEF WalkInv, TypeOK
      <4> QED BY <4>1, <4>2
    <3> QED BY <1>1, <1>3, <1>4, <3>1 DEF Covered
  <2>2. CASE d < at
    BY <1>2, <2>1, <2>2 DEF WalkInv, CoverInv
  <2>3. CASE ~(d < at)
    <3>1. CASE SendTask
      <4>1. at \in Dirs /\ HasTask(at) /\ at' = at + 1 /\ taskCh' = Append(taskCh, at)
        BY <1>8, <3>1 DEF SendTask, ExploreOn, WalkInv, ExploreInv
      <4>2. d = at
        BY <1>5, <2>3, <4>1
      <4>3. Len(taskCh) + 1 \in DOMAIN taskCh' /\ taskCh'[Len(taskCh) + 1] = at
        BY <4>1 DEF WalkInv, TypeOK
      <4> QED BY <4>2, <4>3 DEF Covered
    <3>2. CASE ReadDir
      <4>1. at \in Dirs /\ (HasTask(at) => at' = at) /\ (~HasTask(at) => at' = at + 1)
        BY <3>2 DEF ReadDir, ExploreOn, WalkInv, ExploreInv
      <4> QED BY <1>5, <2>3, <4>1
    <3>3. CASE EnterDir \/ DropTask \/ EndExploration \/ SendErrorClosed
      <4>1. at' = at
        BY <3>3 DEF EnterDir, DropTask, EndExploration, SendErrorClosed, explorer
      <4> QED BY <2>3, <4>1
    <3>4. CASE ReadDirFails \/ SendError \/ DropError
      BY <1>2, <1>9, <3>4 DEF ReadDirFails, SendError, DropError, WalkInv, TypeOK
    <3> QED BY <3>1, <3>2, <3>3, <3>4 DEF Explore
  <2> QED BY <2>2, <2>3
<1>13. ExactWhenNoError'
  BY <1>10 DEF ExactWhenNoError
<1> QED BY <1>4, <1>7, <1>10, <1>11, <1>12, <1>13 DEF WalkInv

(* The collecting goroutines and the return. *)
LEMMA CoordinateWalkInv ==
  ASSUME IInv, IInv', WalkInv, outcome = "running", Coordinate
  PROVE  WalkInv'
<1>1. /\ worker' = worker /\ caches' = caches /\ results' = results /\ canceled' = canceled
      /\ failures' = failures /\ at' = at /\ epc' = epc /\ taskCh' = taskCh
  BY DEF Coordinate, CollectError, CloseErrors, CloseResults, Return, explorer
<1>2. /\ WorkersInv' /\ CacheInv' /\ SiblingsIsolated' /\ ExactInv'
      /\ \A w \in Workers : Busy(w)' <=> Busy(w)
  BY <1>1, NothingBuilt
<1>3. /\ pc' = pc /\ task' = task /\ todo' = todo /\ config' = config /\ requests' = requests
      /\ configCache' = configCache /\ requestCache' = requestCache
  BY <1>1 DEF worker, caches
<1>4. ExploreInv' /\ LeaveInv'
  BY <1>1, <1>3 DEF WalkInv, ExploreInv, LeaveInv
<1>5. CoverInv'
  <2>1. \A d \in Dirs : Covered(d) => Covered(d)'
    BY <1>1, <1>2, <1>3 DEF Covered
  <2> QED BY <1>1, <2>1 DEF WalkInv, CoverInv
<1>6. TypeOK'
  <2>1. Capacity \in Nat
    BY TreeAssumption, FS_CardinalityType DEF Capacity
  <2>2. /\ errorCh' \in 0 .. Capacity /\ gotError' \in BOOLEAN /\ errorClosed' \in BOOLEAN
        /\ resultClosed' \in BOOLEAN /\ outcome' \in {"running", "ok", "error", "panic"}
    <3> USE <2>1 DEF WalkInv, TypeOK
    <3>1. CASE CollectError
      BY <3>1 DEF CollectError, ends
    <3>2. CASE CloseErrors \/ CloseResults
      BY <3>2 DEF CloseErrors, CloseResults
    <3>3. CASE Return
      BY <3>3 DEF Return, ends
    <3> QED BY <3>1, <3>2, <3>3 DEF Coordinate
  <2> QED BY <1>1, <1>3, <2>2 DEF WalkInv, TypeOK
<1>7. ExactWhenNoError'
  <2> SUFFICES ASSUME outcome' = "ok" PROVE results = Blueprints
    BY <1>1 DEF ExactWhenNoError
  <2>1. Return
    BY DEF Coordinate, CollectError, CloseErrors, CloseResults
  <2>2. epc = "done" /\ errorClosed /\ ~canceled
    BY <2>1 DEF Return
  <2>3. failures = 0
    BY <1>1 DEF IInv, ReturnInv, NoErrorLost
  <2>4. \A w \in Workers : pc[w] = "exited" /\ ~Busy(w)
    BY <2>2 DEF IInv, CloseInv, Busy
  <2>5. taskCh = <<>>
    BY <2>2, <2>4, TreeAssumption DEF WalkInv, LeaveInv
  <2>6. \A d \in Dirs : d < at
    BY <2>2, Numbered DEF WalkInv, TypeOK, ExploreInv
  <2>7. \A d \in Dirs : HasTask(d) => Blueprint(d).requests = <<>> \/ Blueprint(d) \in results
    BY <2>2, <2>3, <2>4, <2>5, <2>6 DEF WalkInv, CoverInv, Covered
  <2>8. Blueprints \subseteq results
    BY <2>7 DEF Blueprints
  <2>9. results \subseteq Blueprints
    BY <2>3 DEF WalkInv, ExactInv
  <2> QED BY <2>8, <2>9
<1> QED BY <1>2, <1>4, <1>5, <1>6, <1>7 DEF WalkInv

(* A worker that another one's step does not concern. *)
Same(v) ==
  /\ pc'[v] = pc[v] /\ task'[v] = task[v] /\ todo'[v] = todo[v]
  /\ config'[v] = config[v] /\ requests'[v] = requests[v]

(* A step of a worker within its task. *)
LEMMA WithinTask ==
  ASSUME WalkInv, TypeOK', outcome = "running", NEW w \in Workers,
         \A v \in Workers \ {w} : Same(v), WorkerInv(w)',
         Busy(w), Busy(w)', task'[w] = task[w],
         failures' = 0 => failures = 0 /\ ExactWorker(w)' /\ ExactCache',
         UNCHANGED <<canceled, at, epc, taskCh, results, outcome>>, CacheInv'
  PROVE  WalkInv'
<1>1. \A v \in Workers \ {w} : /\ Busy(v)' <=> Busy(v)
                               /\ WorkerInv(v) => WorkerInv(v)'
                               /\ ExactWorker(v) => ExactWorker(v)'
  BY WorkerFrame DEF Same
<1>2. WorkersInv'
  BY <1>1 DEF WalkInv, WorkersInv
<1>3. ExploreInv' /\ SiblingsIsolated'
  BY DEF WalkInv, ExploreInv, SiblingsIsolated
<1>4. ExactInv'
  BY <1>1 DEF WalkInv, ExactInv
<1>5. LeaveInv'
  <2>1. pc'[w] # "exited"
    BY DEF Busy
  <2> QED BY <2>1 DEF WalkInv, LeaveInv, Same
<1>6. CoverInv'
  <2>1. \A d \in Dirs : Covered(d) => Covered(d)'
    BY <1>1 DEF Covered, Same
  <2> QED BY <2>1 DEF WalkInv, CoverInv
<1>7. ExactWhenNoError'
  BY DEF ExactWhenNoError
<1> QED BY <1>2, <1>3, <1>4, <1>5, <1>6, <1>7 DEF WalkInv

(* A file is taken from a cache: it was made of the same files before it.     *)
LEMMA CacheHitWalkInv ==
  ASSUME WalkInv, outcome = "running", NEW w \in Workers, CacheHit(w)
  PROVE  WalkInv'
<1> DEFINE d == task[w]
           T == TaskFiles[d]
           n == Handled(w)
           f == File(w)
<1>1. /\ pc[w] = "files" /\ todo[w] # <<>> /\ Busy(w) /\ WorkerInv(w)
      /\ todo' = [todo EXCEPT ![w] = Tail(@)] /\ pc' = [pc EXCEPT ![w] = "files"]
      /\ UNCHANGED <<canceled, at, epc, taskCh, task, configCache, requestCache, errorCh,
                     errorClosed, resultClosed, gotError, results, outcome, failures>>
  BY DEF CacheHit, NextFile, Busy, WalkInv, WorkersInv, explorer, caches, ends
<1>2. TypeOK
  BY DEF WalkInv
<1>3. /\ d \in Dirs /\ T \in Seq(AllFiles) /\ n \in Nat /\ n <= Len(T)
      /\ n + 1 \in 1 .. Len(T) /\ f = T[n + 1] /\ f \in AllFiles
  BY <1>1, <1>2, Position
<1>4. /\ BuiltFrom(config[w], d, n, ConfigFiles) /\ BuiltFrom(requests[w], d, n, Requests)
  BY <1>1 DEF WorkerInv
<1>5. failures = 0 => /\ config[w] = Kept(T, ConfigFiles, n) /\ requests[w] = Kept(T, Requests, n)
                      /\ ExactCache
  BY <1>1 DEF WalkInv, ExactInv, ExactWorker
<1> HIDE DEF d, T, n, f
<1>6. n + 1 <= Len(TaskFiles[d])
  BY <1>3 DEF T
<1>7. /\ config' \in [Workers -> Seq(ConfigFiles)] /\ requests' \in [Workers -> Seq(Requests)]
      /\ \A v \in Workers \ {w} : config'[v] = config[v] /\ requests'[v] = requests[v]
      /\ BuiltFrom(config'[w], d, n + 1, ConfigFiles)
      /\ BuiltFrom(requests'[w], d, n + 1, Requests)
      /\ failures = 0 => /\ config'[w] = Kept(T, ConfigFiles, n + 1)
                         /\ requests'[w] = Kept(T, Requests, n + 1)
  <2>0. config \in [Workers -> Seq(ConfigFiles)] /\ requests \in [Workers -> Seq(Requests)]
    BY <1>2 DEF TypeOK, Requests
  <2>1. CASE /\ f \in ConfigFiles /\ configCache[f] # None
             /\ config' = [config EXCEPT ![w] = configCache[f]] /\ requests' = requests
    <3>1. configCache[f] \in Seq(ConfigFiles)
      BY <1>2, <2>1 DEF TypeOK
    <3>2. BuiltFrom(configCache[f], d, n + 1, ConfigFiles)
      BY <1>3, <2>1 DEF WalkInv, CacheInv, T
    <3>3. f \notin Requests
      BY <2>1 DEF Requests
    <3>4. BuiltFrom(requests[w], d, n + 1, Requests)
      BY <1>3, <1>4, <1>6, BuiltFurther
    <3>5. failures = 0 => configCache[f] = Kept(T, ConfigFiles, n + 1)
      BY <1>3, <1>5, <2>1 DEF ExactCache, T
    <3>6. Kept(T, Requests, n + 1) = Kept(T, Requests, n)
      BY <1>3, <3>3, KeptStep
    <3> QED BY <1>5, <2>0, <2>1, <3>1, <3>2, <3>4, <3>5, <3>6
  <2>2. CASE /\ f \in requestCache
             /\ requests' = [requests EXCEPT ![w] = Append(@, f)] /\ config' = config
    <3>1. f \in Requests /\ f \notin ConfigFiles
      BY <1>2, <2>2 DEF TypeOK, Requests
    <3>2. BuiltFrom(Append(requests[w], f), d, n + 1, Requests)
      BY <1>3, <1>4, <1>6, <3>1, BuiltFurther DEF T
    <3>3. BuiltFrom(config[w], d, n + 1, ConfigFiles)
      BY <1>3, <1>4, <1>6, BuiltFurther
    <3>4. /\ Kept(T, Requests, n + 1) = Append(Kept(T, Requests, n), f)
          /\ Kept(T, ConfigFiles, n + 1) = Kept(T, ConfigFiles, n)
      BY <1>3, <3>1, KeptStep
    <3>5. Append(requests[w], f) \in Seq(Requests)
      BY <2>0, <3>1
    <3> QED BY <1>5, <2>0, <2>2, <3>2, <3>3, <3>4, <3>5
  <2> QED BY <2>1, <2>2 DEF CacheHit, f
<1>8. /\ pc'[w] = "files" /\ task'[w] = task[w] /\ todo'[w] = Tail(todo[w])
      /\ \A v \in Workers \ {w} : pc'[v] = pc[v] /\ todo'[v] = todo[v]
      /\ todo' \in [Workers -> Seq(AllFiles)]
      /\ pc' \in [Workers -> {"idle", "files", "parse", "report", "exited"}]
  BY <1>1, <1>2 DEF TypeOK
<1>9. WorkerInv(w)' /\ Handled(w)' = n + 1 /\ Busy(w)'
  <2>1. n + 1 = Handled(w) + (IF pc[w] = "report" THEN 0 ELSE 1)
    BY <1>1 DEF n
  <2> QED BY <1>1, <1>2, <1>7, <1>8, <2>1, Advance DEF d
<1>10. TypeOK'
  BY <1>1, <1>2, <1>7, <1>8 DEF TypeOK, Requests
<1>11. \A v \in Workers \ {w} : Same(v)
  BY <1>1, <1>7, <1>8 DEF Same
<1>12. CacheInv' /\ (ExactCache => ExactCache')
  BY <1>1 DEF WalkInv, CacheInv, ExactCache
<1>13. failures' = 0 => failures = 0 /\ ExactWorker(w)' /\ ExactCache'
  BY <1>1, <1>5, <1>7, <1>9, <1>12 DEF ExactWorker, T, d
<1> QED BY <1>1, <1>8, <1>9, <1>10, <1>11, <1>12, <1>13, WithinTask

(* A miss changes nothing but the state of the worker. *)
LEMMA CacheMissWalkInv ==
  ASSUME WalkInv, outcome = "running", NEW w \in Workers, CacheMiss(w)
  PROVE  WalkInv'
<1>1. /\ pc[w] = "files" /\ todo[w] # <<>> /\ Busy(w) /\ WorkerInv(w)
      /\ pc' = [pc EXCEPT ![w] = "parse"]
      /\ UNCHANGED <<canceled, at, epc, taskCh, task, todo, config, requests, configCache,
                     requestCache, errorCh, errorClosed, resultClosed, gotError, results,
                     outcome, failures>>
  BY DEF CacheMiss, Busy, WalkInv, WorkersInv, explorer, caches, ends
<1>2. TypeOK
  BY DEF WalkInv
<1>3. pc'[w] = "parse" /\ (\A v \in Workers \ {w} : pc'[v] = pc[v])
  BY <1>1, <1>2 DEF TypeOK
<1>4. TypeOK'
  BY <1>1, <1>2 DEF TypeOK
<1>5. Busy(w)' /\ Handled(w)' = Handled(w)
  BY <1>1, <1>3 DEF Busy, Handled
<1>6. WorkerInv(w)'
  BY <1>1, <1>3, <1>5 DEF WorkerInv, BuiltFrom
<1>7. CacheInv' /\ (ExactCache => ExactCache') /\ (ExactWorker(w) => ExactWorker(w)')
  BY <1>1, <1>5 DEF WalkInv, CacheInv, ExactCache, ExactWorker
<1>8. failures' = 0 => failures = 0 /\ ExactWorker(w)' /\ ExactCache'
  BY <1>1, <1>7 DEF WalkInv, ExactInv
<1>9. \A v \in Workers \ {w} : Same(v)
  BY <1>1, <1>3 DEF Same
<1> QED BY <1>1, <1>4, <1>5, <1>6, <1>7, <1>8, <1>9, WithinTask

(* A configuration file is merged, and cached with all before it.  Other      *)
(* tasks that meet this file have the same files before it (SamePrefix).      *)
LEMMA ParseConfigWalkInv ==
  ASSUME WalkInv, outcome = "running", NEW w \in Workers, ParseConfig(w)
  PROVE  WalkInv'
<1> DEFINE d == task[w]
           T == TaskFiles[d]
           n == Handled(w)
           f == File(w)
           c == Append(config[w], f)
<1>1. TypeOK /\ pc[w] = "parse" /\ Busy(w) /\ WorkerInv(w) /\ f \in ConfigFiles
  BY DEF ParseConfig, Busy, WalkInv, WorkersInv
<1>2. todo[w] # <<>>
  BY <1>1 DEF WorkerInv
<1>3. /\ todo' = [todo EXCEPT ![w] = Tail(@)] /\ pc' = [pc EXCEPT ![w] = "files"]
      /\ config' = [config EXCEPT ![w] = c] /\ configCache' = [configCache EXCEPT ![f] = config'[w]]
      /\ UNCHANGED <<canceled, at, epc, taskCh, task, requests, requestCache, errorCh,
                     errorClosed, resultClosed, gotError, results, outcome, failures>>
  BY DEF ParseConfig, NextFile, explorer, ends
<1>4. /\ d \in Dirs /\ T \in Seq(AllFiles) /\ n \in Nat /\ n <= Len(T)
      /\ n + 1 \in 1 .. Len(T) /\ f = T[n + 1] /\ f \in AllFiles
  BY <1>1, <1>2, Position
<1>5. /\ BuiltFrom(config[w], d, n, ConfigFiles) /\ BuiltFrom(requests[w], d, n, Requests)
  BY <1>1 DEF WorkerInv
<1>6. failures = 0 => /\ config[w] = Kept(T, ConfigFiles, n) /\ requests[w] = Kept(T, Requests, n)
                      /\ ExactCache
  BY <1>1 DEF WalkInv, ExactInv, ExactWorker
<1>7. config[w] \in Seq(ConfigFiles)
  BY <1>1 DEF TypeOK
<1> HIDE DEF d, T, n, f
<1>8. c \in Seq(ConfigFiles) /\ n + 1 <= Len(TaskFiles[d]) /\ f \notin Requests
  BY <1>1, <1>4, <1>7 DEF T, Requests
<1>9. /\ BuiltFrom(c, d, n + 1, ConfigFiles) /\ BuiltFrom(requests[w], d, n + 1, Requests)
  BY <1>1, <1>4, <1>5, <1>8, BuiltFurther DEF T
<1>10. failures = 0 => c = Kept(T, ConfigFiles, n + 1) /\ requests[w] = Kept(T, Requests, n + 1)
  <2>1. /\ Kept(T, ConfigFiles, n + 1) = Append(Kept(T, ConfigFiles, n), f)
        /\ Kept(T, Requests, n + 1) = Kept(T, Requests, n)
    BY <1>1, <1>4, <1>8, KeptStep
  <2> QED BY <1>6, <2>1
<1> HIDE DEF c
<1>11. /\ pc'[w] = "files" /\ task'[w] = task[w] /\ todo'[w] = Tail(todo[w]) /\ config'[w] = c
       /\ requests'[w] = requests[w]
       /\ \A v \in Workers \ {w} : pc'[v] = pc[v] /\ todo'[v] = todo[v] /\ config'[v] = config[v]
       /\ todo' \in [Workers -> Seq(AllFiles)] /\ config' \in [Workers -> Seq(ConfigFiles)]
       /\ pc' \in [Workers -> {"idle", "files", "parse", "report", "exited"}]
  <2>1. /\ pc'[w] = "files" /\ todo'[w] = Tail(todo[w])
        /\ \A v \in Workers \ {w} : pc'[v] = pc[v] /\ todo'[v] = todo[v]
        /\ todo' \in [Workers -> Seq(AllFiles)]
        /\ pc' \in [Workers -> {"idle", "files", "parse", "report", "exited"}]
    BY <1>1, <1>2, <1>3 DEF TypeOK
  <2>2. config \in [Workers -> Seq(ConfigFiles)]
    BY <1>1 DEF TypeOK
  <2>3. /\ config'[w] = c /\ \A v \in Workers \ {w} : config'[v] = config[v]
        /\ config' \in [Workers -> Seq(ConfigFiles)]
    BY <1>3, <1>8, <2>2
  <2> QED BY <1>3, <2>1, <2>3
<1>12. /\ configCache' \in [ConfigFiles -> Seq(ConfigFiles) \cup {None}] /\ configCache'[f] = c
       /\ \A g \in ConfigFiles : g # f => configCache'[g] = configCache[g]
  BY <1>1, <1>3, <1>8, <1>11 DEF TypeOK
<1>13. WorkerInv(w)' /\ Handled(w)' = n + 1 /\ Busy(w)'
  <2>1. n + 1 = Handled(w) + (IF pc[w] = "report" THEN 0 ELSE 1)
    BY <1>1 DEF n
  <2> QED BY <1>1, <1>2, <1>9, <1>11, <2>1, Advance DEF d
<1>14. TypeOK'
  BY <1>1, <1>3, <1>11, <1>12 DEF TypeOK
<1>15. \A v \in Workers \ {w} : Same(v)
  BY <1>3, <1>11 DEF Same
<1>16. \A e \in Dirs : \A k \in 1 .. Len(TaskFiles[e]) : TaskFiles[e][k] = f =>
         /\ BuiltFrom(c, e, k, ConfigFiles)
         /\ failures = 0 => c = Kept(TaskFiles[e], ConfigFiles, k)
  BY <1>4, <1>9, <1>10, BuiltElsewhere DEF T
<1>17. CacheInv'
  <2> SUFFICES ASSUME NEW e \in Dirs, NEW k \in 1 .. Len(TaskFiles[e]),
                      TaskFiles[e][k] \in ConfigFiles, configCache'[TaskFiles[e][k]] # None
               PROVE  BuiltFrom(configCache'[TaskFiles[e][k]], e, k, ConfigFiles)
    BY DEF CacheInv, BuiltFrom
  <2>1. CASE TaskFiles[e][k] = f
    BY <1>12, <1>16, <2>1
  <2>2. CASE TaskFiles[e][k] # f
    BY <1>12, <2>2 DEF WalkInv, CacheInv
  <2> QED BY <2>1, <2>2
<1>18. failures = 0 => ExactCache'
  <2> SUFFICES ASSUME failures = 0, NEW e \in Dirs, NEW k \in 1 .. Len(TaskFiles[e]),
                      TaskFiles[e][k] \in ConfigFiles, configCache'[TaskFiles[e][k]] # None
               PROVE  configCache'[TaskFiles[e][k]] = Kept(TaskFiles[e], ConfigFiles, k)
    BY DEF ExactCache
  <2>1. CASE TaskFiles[e][k] = f
    BY <1>12, <1>16, <2>1
  <2>2. CASE TaskFiles[e][k] # f
    BY <1>6, <1>12, <2>2 DEF ExactCache
  <2> QED BY <2>1, <2>2
<1>19. failures' = 0 => failures = 0 /\ ExactWorker(w)' /\ ExactCache'
  BY <1>3, <1>10, <1>11, <1>13, <1>18 DEF ExactWorker, T, d
<1> QED BY <1>1, <1>3, <1>11, <1>13, <1>14, <1>15, <1>17, <1>19, WithinTask

(* A request file is parsed and cached. *)
LEMMA ParseRequestWalkInv ==
  ASSUME WalkInv, outcome = "running", NEW w \in Workers, ParseRequest(w)
  PROVE  WalkInv'
<1> DEFINE d == task[w]
           T == TaskFiles[d]
           n == Handled(w)
           f == File(w)
           q == Append(requests[w], f)
<1>1. TypeOK /\ pc[w] = "parse" /\ Busy(w) /\ WorkerInv(w) /\ f \notin ConfigFiles
  BY DEF ParseRequest, Busy, WalkInv, WorkersInv
<1>2. todo[w] # <<>>
  BY <1>1 DEF WorkerInv
<1>3. /\ todo' = [todo EXCEPT ![w] = Tail(@)] /\ pc' = [pc EXCEPT ![w] = "files"]
      /\ requests' = [requests EXCEPT ![w] = q] /\ requestCache' = requestCache \cup {f}
      /\ UNCHANGED <<canceled, at, epc, taskCh, task, config, configCache, errorCh,
                     errorClosed, resultClosed, gotError, results, outcome, failures>>
  BY DEF ParseRequest, NextFile, explorer, ends
<1>4. /\ d \in Dirs /\ T \in Seq(AllFiles) /\ n \in Nat /\ n <= Len(T)
      /\ n + 1 \in 1 .. Len(T) /\ f = T[n + 1] /\ f \in AllFiles
  BY <1>1, <1>2, Position
<1>5. /\ BuiltFrom(config[w], d, n, ConfigFiles) /\ BuiltFrom(requests[w], d, n, Requests)
  BY <1>1 DEF WorkerInv
<1>6. failures = 0 => /\ config[w] = Kept(T, ConfigFiles, n) /\ requests[w] = Kept(T, Requests, n)
                      /\ ExactCache
  BY <1>1 DEF WalkInv, ExactInv, ExactWorker
<1>7. requests[w] \in Seq(Requests)
  BY <1>1 DEF TypeOK, Requests
<1> HIDE DEF d, T, n, f
<1>8. q \in Seq(Requests) /\ n + 1 <= Len(TaskFiles[d]) /\ f \in Requests
  BY <1>1, <1>4, <1>7 DEF T, Requests
<1>9. /\ BuiltFrom(config[w], d, n + 1, ConfigFiles) /\ BuiltFrom(q, d, n + 1, Requests)
  BY <1>1, <1>4, <1>5, <1>8, BuiltFurther DEF T
<1>10. failures = 0 => config[w] = Kept(T, ConfigFiles, n + 1) /\ q = Kept(T, Requests, n + 1)
  <2>1. /\ Kept(T, ConfigFiles, n + 1) = Kept(T, ConfigFiles, n)
        /\ Kept(T, Requests, n + 1) = Append(Kept(T, Requests, n), f)
    BY <1>1, <1>4, <1>8, KeptStep
  <2> QED BY <1>6, <2>1
<1> HIDE DEF q
<1>11. /\ pc'[w] = "files" /\ task'[w] = task[w] /\ todo'[w] = Tail(todo[w])
       /\ config'[w] = config[w] /\ requests'[w] = q
       /\ \A v \in Workers \ {w} : /\ pc'[v] = pc[v] /\ todo'[v] = todo[v]
                                   /\ requests'[v] = requests[v]
       /\ todo' \in [Workers -> Seq(AllFiles)] /\ requests' \in [Workers -> Seq(Requests)]
       /\ pc' \in [Workers -> {"idle", "files", "parse", "report", "exited"}]
  <2>1. /\ pc'[w] = "files" /\ todo'[w] = Tail(todo[w])
        /\ \A v \in Workers \ {w} : pc'[v] = pc[v] /\ todo'[v] = todo[v]
        /\ todo' \in [Workers -> Seq(AllFiles)]
        /\ pc' \in [Workers -> {"idle", "files", "parse", "report", "exited"}]
    BY <1>1, <1>2, <1>3 DEF TypeOK
  <2>2. requests \in [Workers -> Seq(Requests)]
    BY <1>1 DEF TypeOK, Requests
  <2>3. /\ requests'[w] = q /\ \A v \in Workers \ {w} : requests'[v] = requests[v]
        /\ requests' \in [Workers -> Seq(Requests)]
    BY <1>3, <1>8, <2>2
  <2> QED BY <1>3, <2>1, <2>3
<1>12. WorkerInv(w)' /\ Handled(w)' = n + 1 /\ Busy(w)'
  <2>1. n + 1 = Handled(w) + (IF pc[w] = "report" THEN 0 ELSE 1)
    BY <1>1 DEF n
  <2> QED BY <1>1, <1>2, <1>9, <1>11, <2>1, Advance DEF d
<1>13. TypeOK'
  <2>1. requestCache' \subseteq AllFiles \ ConfigFiles
    BY <1>1, <1>3, <1>8 DEF TypeOK, Requests
  <2> QED BY <1>1, <1>3, <1>11, <2>1 DEF TypeOK, Requests
<1>14. \A v \in Workers \ {w} : Same(v)
  BY <1>3, <1>11 DEF Same
<1>15. CacheInv' /\ (ExactCache => ExactCache')
  BY <1>3 DEF WalkInv, CacheInv, ExactCache
<1>16. failures' = 0 => failures = 0 /\ ExactWorker(w)' /\ ExactCache'
  BY <1>3, <1>6, <1>10, <1>11, <1>12, <1>15 DEF ExactWorker, T, d
<1> QED BY <1>1, <1>3, <1>11, <1>12, <1>13, <1>14, <1>15, <1>16, WithinTask


(* A file that cannot be read has been gone through as well: what was read of *)
(* a configuration stays or not.                                              *)
LEMMA ParseFailsWalkInv ==
  ASSUME WalkInv, outcome = "running", NEW w \in Workers, ParseFails(w)
  PROVE  WalkInv'
<1> DEFINE d == task[w]
           T == TaskFiles[d]
           n == Handled(w)
           f == File(w)
           c == Append(config[w], f)
<1>1. TypeOK /\ pc[w] = "parse" /\ Busy(w) /\ WorkerInv(w)
  BY DEF ParseFails, Busy, WalkInv, WorkersInv
<1>2. todo[w] # <<>>
  BY <1>1 DEF WorkerInv
<1>3. /\ pc' = [pc EXCEPT ![w] = "report"] /\ failures < MaxFailures /\ failures' = failures + 1
      /\ \/ f \in ConfigFiles /\ config' = [config EXCEPT ![w] = c]
         \/ config' = config
      /\ UNCHANGED <<canceled, at, epc, taskCh, task, todo, requests, configCache,
                     requestCache, errorCh, errorClosed, resultClosed, gotError, results,
                     outcome>>
  BY DEF ParseFails, explorer, caches, ends
<1>4. /\ d \in Dirs /\ T \in Seq(AllFiles) /\ n \in Nat /\ n <= Len(T)
      /\ n + 1 \in 1 .. Len(T) /\ f = T[n + 1] /\ f \in AllFiles
  BY <1>1, <1>2, Position
<1>5. /\ BuiltFrom(config[w], d, n, ConfigFiles) /\ BuiltFrom(requests[w], d, n, Requests)
  BY <1>1 DEF WorkerInv
<1>6. config \in [Workers -> Seq(ConfigFiles)] /\ config[w] \in Seq(ConfigFiles)
  BY <1>1 DEF TypeOK
<1>7. Handled(w)' = n + 1 /\ Busy(w)' /\ pc'[w] = "report"
      /\ (\A v \in Workers \ {w} : pc'[v] = pc[v])
      /\ pc' \in [Workers -> {"idle", "files", "parse", "report", "exited"}]
  <2>1. /\ pc'[w] = "report" /\ \A v \in Workers \ {w} : pc'[v] = pc[v]
        /\ pc' \in [Workers -> {"idle", "files", "parse", "report", "exited"}]
    BY <1>1, <1>3 DEF TypeOK
  <2>2. T \in Seq(AllFiles) /\ todo[w] \in Seq(AllFiles)
    BY <1>4, <1>1 DEF TypeOK
  <2>3. n = Len(T) - Len(todo[w]) /\ Handled(w)' = Len(T) - Len(todo[w]) + 1
    BY <1>1, <1>3, <2>1, <2>2 DEF Handled
  <2> QED BY <2>1, <2>3 DEF Busy
<1> HIDE DEF d, T, n, f
<1>8. n + 1 <= Len(TaskFiles[d])
  BY <1>4 DEF T
<1>9. BuiltFrom(config[w], d, n + 1, ConfigFiles) /\ BuiltFrom(requests[w], d, n + 1, Requests)
  BY <1>4, <1>5, <1>8, BuiltFurther
<1>10. f \in ConfigFiles => BuiltFrom(c, d, n + 1, ConfigFiles) /\ c \in Seq(ConfigFiles)
  BY <1>4, <1>5, <1>6, <1>8, BuiltFurther DEF T
<1> HIDE DEF c
<1>11. /\ config' \in [Workers -> Seq(ConfigFiles)] /\ BuiltFrom(config'[w], d, n + 1, ConfigFiles)
       /\ \A v \in Workers \ {w} : config'[v] = config[v]
  <2>1. CASE f \in ConfigFiles /\ config' = [config EXCEPT ![w] = c]
    BY <1>6, <1>10, <2>1
  <2>2. CASE config' = config
    BY <1>6, <1>9, <2>2
  <2> QED BY <1>3, <2>1, <2>2
<1>12. WorkerInv(w)'
  <2>1. /\ BuiltFrom(config[w], task[w], Handled(w), ConfigFiles)'
        /\ BuiltFrom(requests[w], task[w], Handled(w), Requests)'
    BY <1>3, <1>7, <1>9, <1>11 DEF BuiltFrom, d
  <2> QED BY <1>1, <1>2, <1>3, <2>1 DEF WorkerInv
<1>13. failures \in 0 .. MaxFailures /\ failures' \in 0 .. MaxFailures /\ failures' # 0
  BY <1>1, <1>3, TreeAssumption DEF TypeOK
<1>14. TypeOK'
  BY <1>1, <1>3, <1>7, <1>11, <1>13 DEF TypeOK
<1>15. \A v \in Workers \ {w} : Same(v)
  BY <1>3, <1>7, <1>11 DEF Same
<1>16. CacheInv'
  BY <1>3 DEF WalkInv, CacheInv
<1> QED BY <1>1, <1>3, <1>7, <1>12, <1>13, <1>14, <1>15, <1>16, WithinTask

(* A worker that could send its error goes on with the next file. *)
LEMMA ReportErrorWalkInv ==
  ASSUME IInv, WalkInv, outcome = "running", NEW w \in Workers, ReportError(w)
  PROVE  WalkInv'
<1>1. TypeOK /\ pc[w] = "report" /\ Busy(w) /\ WorkerInv(w)
  BY DEF ReportError, Busy, WalkInv, WorkersInv
<1>2. todo[w] # <<>>
  BY <1>1 DEF WorkerInv
<1>3. /\ todo' = [todo EXCEPT ![w] = Tail(@)] /\ pc' = [pc EXCEPT ![w] = "files"]
      /\ errorCh < Capacity /\ errorCh' = errorCh + 1
      /\ UNCHANGED <<canceled, at, epc, taskCh, task, config, requests, configCache,
                     requestCache, errorClosed, resultClosed, gotError, results, outcome,
                     failures>>
  BY DEF ReportError, NextFile, explorer, caches, ends
<1>4. /\ pc'[w] = "files" /\ todo'[w] = Tail(todo[w])
      /\ \A v \in Workers \ {w} : pc'[v] = pc[v] /\ todo'[v] = todo[v]
      /\ todo' \in [Workers -> Seq(AllFiles)]
      /\ pc' \in [Workers -> {"idle", "files", "parse", "report", "exited"}]
  BY <1>1, <1>2, <1>3 DEF TypeOK
<1>5. WorkerInv(w)' /\ Busy(w)'
  <2>1. Handled(w) \in Nat
    BY <1>1, Position
  <2>2. Handled(w) = Handled(w) + (IF pc[w] = "report" THEN 0 ELSE 1)
    BY <1>1, <2>1
  <2>3. /\ BuiltFrom(config'[w], task[w], Handled(w), ConfigFiles)
        /\ BuiltFrom(requests'[w], task[w], Handled(w), Requests)
    BY <1>1, <1>3 DEF WorkerInv
  <2> QED BY <1>1, <1>2, <1>3, <1>4, <2>2, <2>3, Advance
<1>6. TypeOK'
  <2>1. Capacity \in Nat
    BY TreeAssumption, FS_CardinalityType DEF Capacity
  <2>2. errorCh' \in 0 .. Capacity
    BY <1>1, <1>3, <2>1 DEF TypeOK
  <2> QED BY <1>1, <1>3, <1>4, <2>2 DEF TypeOK
<1>7. failures' # 0
  BY <1>1, <1>3 DEF IInv, Shape, OriginInv, OnItsWay
<1>8. \A v \in Workers \ {w} : Same(v)
  BY <1>3, <1>4 DEF Same
<1>9. CacheInv'
  BY <1>3 DEF WalkInv, CacheInv
<1> QED BY <1>1, <1>3, <1>5, <1>6, <1>7, <1>8, <1>9, WithinTask

(* What the steps between two tasks leave alone. *)
LEMMA BetweenTasks ==
  ASSUME WalkInv, TypeOK', outcome = "running", NEW w \in Workers,
         \A v \in Workers \ {w} : Same(v), WorkerInv(w)',
         failures = 0 => ExactWorker(w)',
         UNCHANGED <<canceled, at, epc, configCache, outcome, failures>>,
         \/ results' = results
         \/ SiblingsIsolated' /\ (failures = 0 => results' \subseteq Blueprints)
  PROVE  /\ WorkersInv' /\ CacheInv' /\ SiblingsIsolated' /\ ExactInv' /\ ExactWhenNoError'
         /\ \A v \in Workers \ {w} : Busy(v)' <=> Busy(v)
<1>1. \A v \in Workers \ {w} : /\ Busy(v)' <=> Busy(v)
                               /\ WorkerInv(v) => WorkerInv(v)'
                               /\ ExactWorker(v) => ExactWorker(v)'
  BY WorkerFrame DEF Same
<1>2. WorkersInv'
  BY <1>1 DEF WalkInv, WorkersInv
<1>3. SiblingsIsolated'
  BY DEF WalkInv, SiblingsIsolated
<1>4. CacheInv' /\ (ExactCache => ExactCache')
  BY DEF WalkInv, CacheInv, ExactCache
<1>5. ExactInv'
  BY <1>1, <1>4 DEF WalkInv, ExactInv
<1>6. ExactWhenNoError'
  BY DEF ExactWhenNoError
<1> QED BY <1>1, <1>2, <1>3, <1>4, <1>5, <1>6

(* A worker takes the first task of the channel, with nothing built of it, or *)
(* leaves with it when the walk is canceled.                                  *)
LEMMA TakeTaskWalkInv ==
  ASSUME WalkInv, outcome = "running", NEW w \in Workers, TakeTask(w)
  PROVE  WalkInv'
<1> DEFINE d == Head(taskCh)
<1>1. TypeOK /\ pc[w] = "idle" /\ taskCh # <<>> /\ ~Busy(w)
  BY DEF TakeTask, Busy, WalkInv
<1>2. /\ taskCh' = Tail(taskCh)
      /\ UNCHANGED <<canceled, at, epc, configCache, requestCache, errorCh, errorClosed,
                     resultClosed, gotError, results, outcome, failures>>
  BY DEF TakeTask, explorer, caches, ends
<1>3. /\ taskCh \in Seq(Dirs) /\ Len(taskCh) <= Capacity
      /\ \A i \in DOMAIN taskCh : HasTask(taskCh[i])
  BY <1>1 DEF TypeOK, WalkInv, ExploreInv
<1>4. /\ Tail(taskCh) \in Seq(Dirs) /\ Len(Tail(taskCh)) = Len(taskCh) - 1
      /\ Len(taskCh) \in Nat \ {0} /\ d = taskCh[1] /\ d \in Dirs /\ HasTask(d)
      /\ \A i \in DOMAIN Tail(taskCh) : i + 1 \in DOMAIN taskCh /\ Tail(taskCh)[i] = taskCh[i + 1]
      /\ \A i \in DOMAIN taskCh : i # 1 => i - 1 \in DOMAIN Tail(taskCh)
  BY <1>1, <1>3
<1>5. Capacity \in Nat
  BY TreeAssumption, FS_CardinalityType DEF Capacity
<1>6. taskCh' \in Seq(Dirs) /\ Len(taskCh') <= Capacity /\ ExploreInv'
  <2>1. \A i \in DOMAIN taskCh' : HasTask(taskCh'[i])
    BY <1>2, <1>3, <1>4
  <2> QED BY <1>2, <1>3, <1>4, <1>5, <2>1 DEF WalkInv, ExploreInv
<1>7. CASE canceled
  <2>1. /\ pc' = [pc EXCEPT ![w] = "exited"]
        /\ UNCHANGED <<task, todo, config, requests>>
    BY <1>7 DEF TakeTask
  <2>2. /\ pc'[w] = "exited" /\ \A v \in Workers \ {w} : pc'[v] = pc[v]
        /\ pc' \in [Workers -> {"idle", "files", "parse", "report", "exited"}]
    BY <1>1, <2>1 DEF TypeOK
  <2>3. TypeOK'
    BY <1>1, <1>2, <1>6, <2>1, <2>2 DEF TypeOK
  <2>4. \A v \in Workers \ {w} : Same(v)
    BY <2>1, <2>2 DEF Same
  <2>5. WorkerInv(w)' /\ ExactWorker(w)'
    BY <2>2 DEF WorkerInv, ExactWorker, Busy
  <2>6. LeaveInv' /\ CoverInv'
    BY <1>2, <1>7 DEF LeaveInv, CoverInv
  <2>7. WorkersInv' /\ CacheInv' /\ SiblingsIsolated' /\ ExactInv' /\ ExactWhenNoError'
    BY <1>2, <2>3, <2>4, <2>5, BetweenTasks
  <2> QED BY <1>6, <2>3, <2>6, <2>7 DEF WalkInv
<1>8. CASE ~canceled
  <2>1. /\ pc' = [pc EXCEPT ![w] = "files"] /\ task' = [task EXCEPT ![w] = d]
        /\ todo' = [todo EXCEPT ![w] = TaskFiles[d]]
        /\ config' = [config EXCEPT ![w] = <<>>] /\ requests' = [requests EXCEPT ![w] = <<>>]
    BY <1>8 DEF TakeTask
  <2>2. TaskFiles[d] \in Seq(AllFiles)
    BY <1>4, TaskFilesDef
  <2> HIDE DEF d
  <2>3. /\ pc'[w] = "files" /\ \A v \in Workers \ {w} : pc'[v] = pc[v]
        /\ pc' \in [Workers -> {"idle", "files", "parse", "report", "exited"}]
    BY <1>1, <2>1 DEF TypeOK
  <2>4. /\ task'[w] = d /\ \A v \in Workers \ {w} : task'[v] = task[v]
        /\ task' \in [Workers -> Dirs \cup {None}]
    BY <1>1, <1>4, <2>1 DEF TypeOK
  <2>5. /\ todo'[w] = TaskFiles[d] /\ \A v \in Workers \ {w} : todo'[v] = todo[v]
        /\ todo' \in [Workers -> Seq(AllFiles)]
    BY <1>1, <2>1, <2>2 DEF TypeOK
  <2>6. /\ config'[w] = <<>> /\ \A v \in Workers \ {w} : config'[v] = config[v]
        /\ config' \in [Workers -> Seq(ConfigFiles)]
    BY <1>1, <2>1 DEF TypeOK
  <2>7. /\ requests'[w] = <<>> /\ \A v \in Workers \ {w} : requests'[v] = requests[v]
        /\ requests' \in [Workers -> Seq(AllFiles \ ConfigFiles)]
    BY <1>1, <2>1 DEF TypeOK
  <2>8. TypeOK'
    BY <1>1, <1>2, <1>6, <2>3, <2>4, <2>5, <2>6, <2>7 DEF TypeOK
  <2>9. \A v \in Workers \ {w} : Same(v)
    BY <2>3, <2>4, <2>5, <2>6, <2>7 DEF Same
  <2>10. Busy(w)' /\ Handled(w)' = 0
    BY <2>2, <2>3, <2>4, <2>5 DEF Busy, Handled
  <2>11. \A S : BuiltFrom(<<>>, d, 0, S) /\ <<>> = Kept(TaskFiles[d], S, 0)
    <3> TAKE S
    <3>1. \A s : Kept(TaskFiles[d], s, 0) = <<>>
      BY KeptStep
    <3> QED BY <3>1 DEF BuiltFrom
  <2>12. WorkerInv(w)'
    <3>1. /\ BuiltFrom(config[w], task[w], Handled(w), ConfigFiles)'
          /\ BuiltFrom(requests[w], task[w], Handled(w), Requests)'
      BY <2>4, <2>6, <2>7, <2>10, <2>11 DEF BuiltFrom
    <3>2. /\ (Len(todo[w]) <= Len(TaskFiles[task[w]]))'
          /\ (\A i \in 1 .. Len(todo[w]) :
                todo[w][i] = TaskFiles[task[w]][Len(TaskFiles[task[w]]) - Len(todo[w]) + i])'
      BY <2>2, <2>4, <2>5
    <3> QED BY <1>4, <2>3, <2>4, <3>1, <3>2 DEF WorkerInv
  <2>13. ExactWorker(w)'
    BY <2>4, <2>6, <2>7, <2>10, <2>11 DEF ExactWorker
  <2>14. /\ WorkersInv' /\ CacheInv' /\ SiblingsIsolated' /\ ExactInv' /\ ExactWhenNoError'
         /\ \A v \in Workers \ {w} : Busy(v)' <=> Busy(v)
    BY <1>2, <2>8, <2>9, <2>12, <2>13, BetweenTasks
  <2>15. LeaveInv'
    <3>1. \A v \in Workers : pc[v] # "exited"
      BY <1>1, <1>8 DEF WalkInv, LeaveInv
    <3>2. \A v \in Workers : pc'[v] # "exited"
      BY <2>3, <3>1
    <3> QED BY <3>2 DEF LeaveInv
  <2>16. CoverInv'
    <3> SUFFICES ASSUME NEW e \in Dirs, Covered(e) PROVE Covered(e)'
      BY <1>2 DEF WalkInv, CoverInv
    <3>1. ASSUME NEW i \in DOMAIN taskCh, taskCh[i] = e PROVE Covered(e)'
      <4>1. CASE i = 1
        <5>1. Busy(w)' /\ task'[w] = e
          BY <1>4, <2>4, <2>10, <3>1, <4>1
        <5> QED BY <5>1 DEF Covered
      <4>2. CASE i # 1
        <5>1. i - 1 \in DOMAIN Tail(taskCh) /\ Tail(taskCh)[i - 1] = e
          BY <1>3, <1>4, <3>1, <4>2
        <5> QED BY <1>2, <5>1 DEF Covered
      <4> QED BY <4>1, <4>2
    <3>2. ASSUME NEW v \in Workers, Busy(v), task[v] = e PROVE Covered(e)'
      BY <1>1, <2>4, <2>14, <3>2 DEF Covered
    <3>3. ASSUME Blueprint(e).requests = <<>> \/ Blueprint(e) \in results PROVE Covered(e)'
      BY <1>2, <3>3 DEF Covered
    <3> QED BY <3>1, <3>2, <3>3 DEF Covered
  <2> QED BY <1>6, <2>8, <2>14, <2>15, <2>16 DEF WalkInv
<1> QED BY <1>7, <1>8

(* A worker leaves when the channel is closed and empty. *)
LEMMA ExitWorkerWalkInv ==
  ASSUME WalkInv, outcome = "running", NEW w \in Workers, ExitWorker(w)
  PROVE  WalkInv'
<1>1. TypeOK /\ pc[w] = "idle" /\ taskCh = <<>> /\ epc = "done" /\ ~Busy(w)
  BY DEF ExitWorker, Busy, WalkInv
<1>2. /\ pc' = [pc EXCEPT ![w] = "exited"]
      /\ UNCHANGED <<canceled, at, epc, taskCh, task, todo, config, requests, configCache,
                     requestCache, errorCh, errorClosed, resultClosed, gotError, results,
                     outcome, failures>>
  BY DEF ExitWorker, explorer, caches, ends
<1>3. /\ pc'[w] = "exited" /\ \A v \in Workers \ {w} : pc'[v] = pc[v]
      /\ pc' \in [Workers -> {"idle", "files", "parse", "report", "exited"}]
  BY <1>1, <1>2 DEF TypeOK
<1>4. TypeOK'
  BY <1>1, <1>2, <1>3 DEF TypeOK
<1>5. \A v \in Workers \ {w} : Same(v)
  BY <1>2, <1>3 DEF Same
<1>6. WorkerInv(w)' /\ ExactWorker(w)'
  BY <1>3 DEF WorkerInv, ExactWorker, Busy
<1>7. /\ WorkersInv' /\ CacheInv' /\ SiblingsIsolated' /\ ExactInv' /\ ExactWhenNoError'
      /\ \A v \in Workers \ {w} : Busy(v)' <=> Busy(v)
  BY <1>2, <1>4, <1>5, <1>6, BetweenTasks
<1>8. ExploreInv' /\ LeaveInv'
  BY <1>1, <1>2 DEF WalkInv, ExploreInv, LeaveInv
<1>9. CoverInv'
  <2>1. \A e \in Dirs : Covered(e) => Covered(e)'
    BY <1>1, <1>2, <1>7 DEF Covered
  <2> QED BY <1>2, <2>1 DEF WalkInv, CoverInv
<1> QED BY <1>4, <1>7, <1>8, <1>9 DEF WalkInv

(* A worker has been through all files of its task: what it built is a        *)
(* selection of all of them, and the scenario of the leaf if nothing failed.  *)
LEMMA EndTaskWalkInv ==
  ASSUME WalkInv, outcome = "running", NEW w \in Workers, EndTask(w)
  PROVE  WalkInv'
<1> DEFINE d == task[w]
           T == TaskFiles[d]
           r == [leaf |-> d, config |-> config[w], requests |-> requests[w]]
<1>1. TypeOK /\ pc[w] = "files" /\ todo[w] = <<>> /\ Busy(w) /\ WorkerInv(w)
  BY DEF EndTask, Busy, WalkInv, WorkersInv
<1>2. /\ results' = (IF requests[w] = <<>> THEN results ELSE results \cup {r})
      /\ pc' = [pc EXCEPT ![w] = "idle"] /\ task' = [task EXCEPT ![w] = None]
      /\ UNCHANGED <<canceled, at, epc, taskCh, todo, config, requests, configCache,
                     requestCache, errorCh, errorClosed, resultClosed, gotError, outcome,
                     failures>>
  BY DEF EndTask, explorer, caches, ends
<1>3. /\ pc'[w] = "idle" /\ \A v \in Workers \ {w} : pc'[v] = pc[v]
      /\ pc' \in [Workers -> {"idle", "files", "parse", "report", "exited"}]
  BY <1>1, <1>2 DEF TypeOK
<1>4. /\ \A v \in Workers \ {w} : task'[v] = task[v]
      /\ task' \in [Workers -> Dirs \cup {None}]
  BY <1>1, <1>2 DEF TypeOK
<1>5. d \in Dirs /\ HasTask(d) /\ T \in Seq(AllFiles) /\ Handled(w) = Len(T)
  <2>1. d \in Dirs /\ HasTask(d) /\ T \in Seq(AllFiles)
    BY <1>1, Position DEF WorkerInv
  <2>2. Len(todo[w]) = 0 /\ Len(T) \in Nat
    BY <1>1, <2>1
  <2> QED BY <1>1, <2>1, <2>2 DEF Handled
<1>6. /\ BuiltFrom(config[w], d, Len(T), ConfigFiles)
      /\ BuiltFrom(requests[w], d, Len(T), Requests)
  BY <1>1, <1>5 DEF WorkerInv
<1>7. failures = 0 => /\ config[w] = InOrder(T, ConfigFiles) /\ requests[w] = InOrder(T, Requests)
                      /\ results \subseteq Blueprints
  BY <1>1, <1>5 DEF WalkInv, ExactInv, ExactWorker, InOrder
<1>8. config[w] \in Seq(ConfigFiles) /\ requests[w] \in Seq(AllFiles \ ConfigFiles)
  BY <1>1 DEF TypeOK
<1> HIDE DEF T
<1>9. r \in Scenarios
  BY <1>5, <1>8 DEF Scenarios
<1>10. TypeOK'
  <2>1. results' \subseteq Scenarios
    BY <1>1, <1>2, <1>9 DEF TypeOK
  <2> QED BY <1>1, <1>2, <1>3, <1>4, <2>1 DEF TypeOK
<1>11. failures = 0 => r = Blueprint(d)
  BY <1>7 DEF Blueprint, Requests, T
<1>12. \/ results' = results
       \/ SiblingsIsolated' /\ (failures = 0 => results' \subseteq Blueprints)
  <2>1. CASE requests[w] # <<>>
    <3>1. results' = results \cup {r}
      BY <1>2, <2>1
    <3>2. /\ \E s \in SUBSET ConfigFiles : r.config = InOrder(TaskFiles[r.leaf], s)
          /\ \E s \in SUBSET (AllFiles \ ConfigFiles) : r.requests = InOrder(TaskFiles[r.leaf], s)
      <4>1. PICK s \in SUBSET (ConfigFiles \cap First(d, Len(T))) : config[w] = Kept(T, s, Len(T))
        BY <1>6 DEF BuiltFrom, T
      <4>2. PICK t \in SUBSET (Requests \cap First(d, Len(T))) : requests[w] = Kept(T, t, Len(T))
        BY <1>6 DEF BuiltFrom, T
      <4>3. s \in SUBSET ConfigFiles /\ t \in SUBSET (AllFiles \ ConfigFiles)
        BY DEF Requests
      <4>4. r.config = InOrder(TaskFiles[r.leaf], s) /\ r.requests = InOrder(TaskFiles[r.leaf], t)
        BY <4>1, <4>2 DEF InOrder, T
      <4> QED BY <4>3, <4>4
    <3> HIDE DEF r
    <3>3. SiblingsIsolated'
      BY <3>1, <3>2 DEF WalkInv, SiblingsIsolated
    <3>4. ASSUME failures = 0 PROVE results' \subseteq Blueprints
      <4>1. r = Blueprint(d) /\ r.requests # <<>>
        BY <1>11, <2>1, <3>4 DEF r
      <4>2. r \in Blueprints
        BY <1>5, <4>1 DEF Blueprints
      <4> QED BY <1>7, <3>1, <3>4, <4>2
    <3> QED BY <3>3, <3>4
  <2>2. CASE requests[w] = <<>>
    BY <1>2, <2>2
  <2> QED BY <2>1, <2>2
<1>13. \A v \in Workers \ {w} : Same(v)
  BY <1>2, <1>3, <1>4 DEF Same
<1>14. WorkerInv(w)' /\ ExactWorker(w)' /\ ~Busy(w)'
  BY <1>3 DEF WorkerInv, ExactWorker, Busy
<1>15. /\ WorkersInv' /\ CacheInv' /\ SiblingsIsolated' /\ ExactInv' /\ ExactWhenNoError'
       /\ \A v \in Workers \ {w} : Busy(v)' <=> Busy(v)
  BY <1>2, <1>10, <1>12, <1>13, <1>14, BetweenTasks
<1>16. ExploreInv' /\ LeaveInv'
  <2>1. \A v \in Workers : pc'[v] = "exited" => pc[v] = "exited"
    BY <1>3
  <2> QED BY <1>2, <2>1 DEF WalkInv, ExploreInv, LeaveInv
<1>17. CoverInv'
  <2> SUFFICES ASSUME failures = 0, NEW e \in Dirs, Covered(e) PROVE Covered(e)'
    BY <1>2 DEF WalkInv, CoverInv
  <2>1. results \subseteq results'
    BY <1>2
  <2>2. ASSUME NEW v \in Workers, Busy(v), task[v] = e PROVE Covered(e)'
    <3>1. CASE v # w
      BY <1>4, <1>15, <2>2, <3>1 DEF Covered
    <3>2. CASE v = w
      <4>1. e = d /\ r = Blueprint(e)
        BY <1>11, <2>2, <3>2
      <4>2. CASE requests[w] = <<>>
        <5>1. r.requests = <<>>
          BY <4>2
        <5> QED BY <4>1, <5>1 DEF Covered
      <4>3. CASE requests[w] # <<>>
        <5>1. r \in results'
          BY <1>2, <4>3
        <5> QED BY <4>1, <5>1 DEF Covered
      <4> QED BY <4>2, <4>3
    <3> QED BY <3>1, <3>2
  <2>3. ASSUME \/ \E i \in DOMAIN taskCh : taskCh[i] = e
               \/ Blueprint(e).requests = <<>> \/ Blueprint(e) \in results
        PROVE  Covered(e)'
    BY <1>2, <2>1, <2>3 DEF Covered
  <2> QED BY <2>2, <2>3 DEF Covered
<1> QED BY <1>10, <1>15, <1>16, <1>17 DEF WalkInv

(* Nothing but the context changes. *)
LEMMA CancelWalkInv ==
  ASSUME WalkInv, outcome = "running", Cancel
  PROVE  WalkInv'
<1>1. /\ worker' = worker /\ caches' = caches /\ results' = results /\ canceled' = TRUE
      /\ failures' = failures /\ outcome' = outcome
      /\ UNCHANGED <<at, epc, taskCh, errorCh, errorClosed, resultClosed, gotError>>
  BY DEF Cancel, explorer, ends
<1>2. WorkersInv' /\ CacheInv' /\ SiblingsIsolated' /\ ExactInv'
  BY <1>1, NothingBuilt
<1>3. /\ pc' = pc /\ task' = task /\ todo' = todo /\ config' = config /\ requests' = requests
      /\ configCache' = configCache /\ requestCache' = requestCache
  BY <1>1 DEF worker, caches
<1>4. TypeOK'
  BY <1>1, <1>3 DEF WalkInv, TypeOK
<1>5. ExploreInv' /\ LeaveInv' /\ CoverInv' /\ ExactWhenNoError'
  BY <1>1 DEF WalkInv, ExploreInv, LeaveInv, CoverInv, ExactWhenNoError
<1> QED BY <1>2, <1>4, <1>5 DEF WalkInv

(* A step that changes nothing. *)
LEMMA StutterWalkInv ==
  ASSUME WalkInv, UNCHANGED vars
  PROVE  WalkInv'
<1>1. /\ worker' = worker /\ caches' = caches /\ results' = results /\ canceled' = canceled
      /\ failures' = failures /\ outcome' = outcome
      /\ UNCHANGED <<at, epc, taskCh, errorCh, errorClosed, resultClosed, gotError>>
  BY DEF vars, explorer, ends
<1>2. /\ WorkersInv' /\ CacheInv' /\ SiblingsIsolated' /\ ExactInv'
      /\ \A w \in Workers : Busy(w)' <=> Busy(w)
  BY <1>1, NothingBuilt
<1>3. /\ pc' = pc /\ task' = task /\ todo' = todo /\ config' = config /\ requests' = requests
      /\ configCache' = configCache /\ requestCache' = requestCache
  BY <1>1 DEF worker, caches
<1>4. TypeOK'
  BY <1>1, <1>3 DEF WalkInv, TypeOK
<1>5. ExploreInv' /\ LeaveInv'
  BY <1>1, <1>3 DEF WalkInv, ExploreInv, LeaveInv
<1>6. CoverInv'
  <2>1. \A e \in Dirs : Covered(e) => Covered(e)'
    BY <1>1, <1>2, <1>3 DEF Covered
  <2> QED BY <1>1, <2>1 DEF WalkInv, CoverInv
<1>7. ExactWhenNoError'
  BY <1>1 DEF WalkInv, ExactWhenNoError
<1> QED BY <1>2, <1>4, <1>5, <1>6, <1>7 DEF WalkInv

(* One step per group of actions. *)
LEMMA StepWalkInv == IInv /\ IInv' /\ WalkInv /\ [Next]_vars => WalkInv'
<1> SUFFICES ASSUME IInv, IInv', WalkInv, [Next]_vars PROVE WalkInv'
  OBVIOUS
<1>1. CASE outcome = "running" /\ Cancel
  BY <1>1, CancelWalkInv
<1>2. CASE outcome = "running" /\ Explore
  BY <1>2, ExploreWalkInv
<1>3. ASSUME outcome = "running", NEW w \in Workers, Work(w) PROVE WalkInv'
  <2>1. CASE TakeTask(w) \/ ExitWorker(w)
    BY <1>3, <2>1, TakeTaskWalkInv, ExitWorkerWalkInv
  <2>2. CASE CacheHit(w) \/ CacheMiss(w)
    BY <1>3, <2>2, CacheHitWalkInv, CacheMissWalkInv
  <2>3. CASE ParseConfig(w) \/ ParseRequest(w) \/ ParseFails(w)
    BY <1>3, <2>3, ParseConfigWalkInv, ParseRequestWalkInv, ParseFailsWalkInv
  <2>4. CASE ReportError(w) \/ EndTask(w)
    BY <1>3, <2>4, ReportErrorWalkInv, EndTaskWalkInv
  <2> QED BY <1>3, <2>1, <2>2, <2>3, <2>4 DEF Work
<1>4. CASE outcome = "running" /\ Coordinate
  BY <1>4, CoordinateWalkInv
<1>5. CASE UNCHANGED vars
  BY <1>5, StutterWalkInv
<1> QED BY <1>1, <1>2, <1>3, <1>4, <1>5 DEF Next, Ended

(* What workers hold and what the caches hold is a selection of the files     *)
(* before it, and all of them while nothing failed.                           *)
THEOREM WalkInvariance == Spec => []WalkInv
<1>1. Spec => []IInv
  BY Invariance
<1>2. Init => WalkInv
  BY InitWalkInv
<1>3. IInv /\ IInv' /\ WalkInv /\ [Next]_vars => WalkInv'
  BY StepWalkInv
<1> QED BY <1>1, <1>2, <1>3, PTL DEF Spec

(* The variables of a walk have their types, the channels their capacity.     *)
THEOREM TypeCorrect == Spec => []TypeOK
<1>1. WalkInv => TypeOK
  BY DEF WalkInv
<1> QED BY <1>1, WalkInvariance, PTL

(* Whatever fails and whenever it is canceled, a walk puts nothing of a       *)
(* sibling directory into a scenario, though workers share their caches: a    *)
(* file is met with the same files before it in every task that has it.       *)
THEOREM Isolated == Spec => []SiblingsIsolated
<1>1. WalkInv => SiblingsIsolated
  BY DEF WalkInv
<1> QED BY <1>1, WalkInvariance, PTL

(* A walk that returns no error returns the scenario of every leaf with       *)
(* requests, no matter how the tasks fell to the workers and who filled the   *)
(* caches.                                                                    *)
THEOREM Exact == Spec => []ExactWhenNoError
<1>1. WalkInv => ExactWhenNoError
  BY DEF WalkInv
<1> QED BY <1>1, WalkInvariance, PTL

PanicInv == outcome = "panic" => canceled

(* The exploration meets a closed channel of errors only in a walk that was   *)
(* canceled: otherwise the workers are still there to wait for its end, and   *)
(* the channel is closed behind them.                                         *)
THEOREM PanicsOnlyWhenCanceled == Spec => [](outcome = "panic" => canceled)
<1>1. Init => PanicInv
  BY DEF Init, PanicInv
<1>2. IInv /\ WalkInv /\ PanicInv /\ [Next]_vars => PanicInv'
  <2> SUFFICES ASSUME IInv, WalkInv, PanicInv, [Next]_vars, outcome' = "panic" PROVE canceled'
    BY DEF PanicInv
  <2>1. canceled => canceled'
    BY DEF Next, Cancel, Explore, EnterDir, ReadDir, ReadDirFails, SendTask, DropTask,
           SendError, DropError, SendErrorClosed, EndExploration, Work, TakeTask, ExitWorker,
           CacheHit, CacheMiss, ParseConfig, ParseRequest, ParseFails, ReportError, EndTask,
           Coordinate, CollectError, CloseErrors, CloseResults, Return, Ended, vars
  <2>2. CASE outcome = "panic"
    BY <2>1, <2>2 DEF PanicInv
  <2>3. CASE outcome # "panic"
    <3>1. SendErrorClosed
      BY <2>3
      DEF Next, Cancel, Explore, EnterDir, ReadDir, ReadDirFails, SendTask, DropTask,
          SendError, DropError, EndExploration, Work, TakeTask, ExitWorker, CacheHit,
          CacheMiss, ParseConfig, ParseRequest, ParseFails, ReportError, EndTask,
          Coordinate, CollectError, CloseErrors, CloseResults, Return, Ended, vars
    <3>2. epc = "failing" /\ \A w \in Workers : pc[w] = "exited"
      BY <3>1 DEF SendErrorClosed, IInv, CloseInv
    <3> QED BY <2>1, <3>2, TreeAssumption DEF WalkInv, LeaveInv
  <2> QED BY <2>2, <2>3
<1> QED BY <1>1, <1>2, Invariance, WalkInvariance, PTL DEF Spec, PanicInv
=============================================================================
