-------------------------- MODULE CommitWalkProofs --------------------------
(***************************************************************************)
(* The walks of CommitWalk give exact answers, for every history, whatever *)
(* the clocks said, and whichever commit a heap yields among several of    *)
(* the same time: the merge bases are the best common ancestors, and with  *)
(* clocks that agree with the history the numbers of commits ahead and     *)
(* behind are those of the commits that only one side has.                 *)
(*                                                                         *)
(* Everything rests on the order of the commits: a parent has a smaller    *)
(* number, so that a claim about all commits is refuted by a least one.    *)
(***************************************************************************)
EXTENDS CommitWalk, SequenceTheorems, FiniteSetTheorems, TLAPS

-----------------------------------------------------------------------------
(* Numbers. *)

(* A set of natural numbers that is not empty has a least element: what    *)
(* the proofs use instead of an induction.                                 *)
LEMMA Least ==
  ASSUME NEW T \in SUBSET Nat, T # {}
  PROVE  \E m \in T : \A n \in T : m <= n
<1> DEFINE F == {0 .. n : n \in T}
<1>1. F \subseteq FiniteSubsetsOf(Nat) /\ F # {}
  <2>1. ASSUME NEW n \in T PROVE 0 .. n \in FiniteSubsetsOf(Nat)
    <3>1. n \in Int /\ 0 \in Int /\ 0 .. n \in SUBSET Nat
      OBVIOUS
    <3>2. IsFiniteSet(0 .. n)
      BY <3>1, FS_Interval
    <3> QED BY <3>1, <3>2 DEF FiniteSubsetsOf
  <2> QED BY <2>1
<1>2. PICK X \in F : \A Y \in F : <<Y, X>> \notin StrictSubsetOrdering(Nat)
  <2> HIDE DEF F
  <2> QED BY <1>1, WFMin, FS_StrictSubsetOrderingWellFounded
<1>3. PICK m \in T : X = 0 .. m
  OBVIOUS
<1>4. ASSUME NEW n \in T, n < m PROVE FALSE
  <2>1. 0 .. n \in F
    OBVIOUS
  <2>2. 0 .. n \subseteq 0 .. m /\ 0 .. n # 0 .. m
    <3>1. m \in 0 .. m /\ m \notin 0 .. n
      BY <1>4
    <3> QED BY <3>1, <1>4
  <2>3. 0 .. n \in SUBSET Nat /\ 0 .. m \in SUBSET Nat
    OBVIOUS
  <2> QED BY <1>2, <1>3, <2>1, <2>2, <2>3 DEF StrictSubsetOrdering
<1> QED BY <1>4

(* The same for the greatest element of a set of commits. *)
LEMMA Greatest ==
  ASSUME NEW T \in SUBSET Commits, T # {}
  PROVE  \E m \in T : \A n \in T : n <= m
<1> DEFINE U == {Size - n : n \in T}
<1>0. Size \in Nat
  BY Bounds
<1>1. \A n \in T : Size - n \in Nat /\ n \in Int
  BY <1>0 DEF Commits
<1>2. U \in SUBSET Nat /\ U # {}
  BY <1>1
<1>3. PICK u \in U : \A v \in U : u <= v
  <2> HIDE DEF U
  <2> QED BY <1>2, Least
<1>4. PICK m \in T : u = Size - m
  BY <1>3
<1>5. \A n \in T : u <= Size - n
  BY <1>3
<1> QED BY <1>0, <1>1, <1>4, <1>5

-----------------------------------------------------------------------------
(* Ancestors. *)

(* The histories: parents have smaller numbers. *)
Histories == {g \in [Commits -> SUBSET Commits] : \A c \in Commits : \A d \in g[c] : d < c}

(* The recursion of the ancestors up to the commit n has a solution. *)
Solves(g, n, f) ==
  f = [c \in 1 .. n |-> {c} \cup UNION {f[p] : p \in g[c]}]

(* A solution exists for every n. *)
LEMMA Solvable ==
  ASSUME NEW g \in Histories, NEW n \in 0 .. Size
  PROVE  \E f : Solves(g, n, f)
<1> DEFINE T == {k \in 0 .. Size : ~ \E f : Solves(g, k, f)}
<1> SUFFICES ASSUME T # {} PROVE FALSE
  OBVIOUS
<1>0. Size \in Nat
  BY Bounds
<1>1. PICK m \in T : \A k \in T : m <= k
  <2>1. T \in SUBSET Nat
    BY <1>0
  <2> HIDE DEF T
  <2> QED BY <2>1, Least
<1>2. CASE m = 0
  <2> DEFINE e == [c \in 1 .. 0 |-> {}]
  <2>1. Solves(g, 0, e)
    BY DEF Solves
  <2> QED BY <2>1, <1>2
<1>3. CASE m # 0
  <2>0. m - 1 \in 0 .. Size /\ m \in Commits /\ m - 1 \notin T
    BY <1>0, <1>1, <1>3 DEF Commits
  <2>1. PICK f : Solves(g, m - 1, f)
    BY <2>0
  <2> DEFINE h == [c \in 1 .. m |-> IF c = m THEN {m} \cup UNION {f[p] : p \in g[m]} ELSE f[c]]
  <2>2. \A c \in 1 .. m : \A p \in g[c] : p \in 1 .. (m - 1) /\ p # m /\ p \in 1 .. m
    <3>1. \A c \in Commits : g[c] \subseteq Commits /\ \A p \in g[c] : p < c
      BY DEF Histories
    <3>2. \A c \in 1 .. m : c \in Commits /\ c <= m
      BY <1>0, <2>0 DEF Commits
    <3>3. \A p \in Commits : p \in Int /\ p >= 1
      BY DEF Commits
    <3>4. m \in Int
      BY <2>0 DEF Commits
    <3>5. SUFFICES ASSUME NEW c \in 1 .. m, NEW p \in g[c]
                   PROVE  p \in 1 .. (m - 1) /\ p # m /\ p \in 1 .. m
      OBVIOUS
    <3>6. p \in Int /\ p >= 1 /\ p < c /\ c <= m
      BY <3>1, <3>2, <3>3
    <3> QED BY <3>4, <3>6
  <2>3. \A c \in 1 .. m : \A p \in g[c] : h[p] = f[p]
    BY <2>2
  <2>4. \A c \in 1 .. m : {h[p] : p \in g[c]} = {f[p] : p \in g[c]}
    BY <2>3
  <2>5. \A c \in 1 .. m : h[c] = {c} \cup UNION {h[p] : p \in g[c]}
    <3> SUFFICES ASSUME NEW c \in 1 .. m PROVE h[c] = {c} \cup UNION {f[p] : p \in g[c]}
      BY <2>4
    <3>1. CASE c = m
      BY <3>1
    <3>2. CASE c # m
      <4>1. c \in 1 .. (m - 1) /\ h[c] = f[c]
        BY <3>2, <2>0
      <4> QED BY <4>1, <2>1 DEF Solves
    <3> QED BY <3>1, <3>2
  <2>6. Solves(g, m, h)
    <3>1. h = [c \in 1 .. m |-> h[c]]
      OBVIOUS
    <3> HIDE DEF h
    <3> QED BY <3>1, <2>5 DEF Solves
  <2> QED BY <2>6
<1> QED BY <1>2, <1>3

(* What Ancestors are: a commit and the ancestors of its parents. *)
LEMMA AncestorsAre ==
  ASSUME NEW g \in Histories
  PROVE  AncestorsIn(g) = [c \in Commits |-> {c} \cup UNION {AncestorsIn(g)[p] : p \in g[c]}]
<1>1. PICK f : Solves(g, Size, f)
  BY Solvable, Bounds
<1>2. f = [c \in Commits |-> {c} \cup UNION {f[p] : p \in g[c]}]
  BY <1>1 DEF Solves, Commits
<1> DEFINE A == AncestorsIn(g)
<1>3. A = [c \in Commits |-> {c} \cup UNION {A[p] : p \in g[c]}]
  BY <1>2 DEF AncestorsIn
<1> QED BY <1>3

(* A commit is its own ancestor; the others are those of its parents; and  *)
(* no ancestor has a larger number.                                        *)
LEMMA AncestorFacts ==
  ASSUME NEW g \in Histories
  PROVE  /\ \A c \in Commits : AncestorsIn(g)[c] \subseteq Commits
         /\ \A c \in Commits : c \in AncestorsIn(g)[c]
         /\ \A c \in Commits : \A p \in g[c] : AncestorsIn(g)[p] \subseteq AncestorsIn(g)[c]
         /\ \A c, d \in Commits : d \in AncestorsIn(g)[c] /\ d # c =>
                                    \E p \in g[c] : d \in AncestorsIn(g)[p]
         /\ \A c, d \in Commits : d \in AncestorsIn(g)[c] => d <= c
<1> DEFINE A == AncestorsIn(g)
<1>0. /\ Size \in Nat
      /\ \A c \in Commits : c \in Nat /\ c \in Int
      /\ \A c \in Commits : g[c] \subseteq Commits /\ \A p \in g[c] : p < c
  BY Bounds DEF Commits, Histories
<1>1. \A c \in Commits : A[c] = {c} \cup UNION {A[p] : p \in g[c]}
  BY AncestorsAre
<1> HIDE DEF A
<1>2. \A c \in Commits : c \in A[c]
  BY <1>1
<1>3. \A c \in Commits : \A p \in g[c] : A[p] \subseteq A[c]
  BY <1>1
<1>4. \A c \in Commits : \A d \in A[c] : d # c => \E p \in g[c] : d \in A[p]
  BY <1>1
<1>5. \A c \in Commits : A[c] \subseteq Commits /\ \A d \in A[c] : d <= c
  <2> DEFINE T == {c \in Commits : ~ (A[c] \subseteq Commits /\ \A d \in A[c] : d <= c)}
  <2> SUFFICES ASSUME T # {} PROVE FALSE
    OBVIOUS
  <2>1. PICK m \in T : \A k \in T : m <= k
    <3>1. T \in SUBSET Nat
      BY <1>0
    <3> HIDE DEF T
    <3> QED BY <3>1, Least
  <2>2. \A p \in g[m] : p \in Commits /\ p < m /\ p \notin T
    BY <1>0, <2>1
  <2>3. ASSUME NEW d \in A[m] PROVE d \in Commits /\ d <= m
    <3>1. CASE d = m
      BY <3>1, <1>0, <2>1
    <3>2. CASE d # m
      <4>1. PICK p \in g[m] : d \in A[p]
        BY <1>4, <3>2, <2>1
      <4>2. d \in Commits /\ d <= p /\ p < m /\ p \in Commits
        BY <4>1, <2>2
      <4> QED BY <4>2, <1>0
    <3> QED BY <3>1, <3>2
  <2> QED BY <2>1, <2>3
<1> QED BY <1>2, <1>3, <1>4, <1>5 DEF A

(* An ancestor of an ancestor is an ancestor. *)
LEMMA AncestorTransitive ==
  ASSUME NEW g \in Histories, NEW c \in Commits, NEW d \in AncestorsIn(g)[c]
  PROVE  AncestorsIn(g)[d] \subseteq AncestorsIn(g)[c]
<1> DEFINE A == AncestorsIn(g)
           T == {x \in Commits : \E y \in A[x] : ~(A[y] \subseteq A[x])}
<1> SUFFICES ASSUME T # {} PROVE FALSE
  BY AncestorFacts
<1>0. /\ \A x \in Commits : x \in Nat
      /\ \A x \in Commits : g[x] \subseteq Commits /\ \A p \in g[x] : p < x
  BY Bounds DEF Commits, Histories
<1>1. PICK m \in T : \A k \in T : m <= k
  <2>1. T \in SUBSET Nat
    BY <1>0
  <2> HIDE DEF T
  <2> QED BY <2>1, Least
<1>2. PICK y \in A[m] : ~(A[y] \subseteq A[m])
  BY <1>1
<1>3. y # m /\ y \in Commits /\ m \in Commits
  BY <1>2, AncestorFacts
<1>4. PICK p \in g[m] : y \in A[p]
  BY <1>2, <1>3, AncestorFacts
<1>5. p \in Commits /\ p < m /\ p \notin T
  BY <1>0, <1>1, <1>3
<1>6. A[y] \subseteq A[p] /\ A[p] \subseteq A[m]
  BY <1>3, <1>4, <1>5, AncestorFacts
<1> QED BY <1>2, <1>6

(* A mark that every commit above b hands down to its parents reaches b    *)
(* from any commit above it.                                               *)
LEMMA HandedDown ==
  ASSUME NEW g \in Histories, NEW F \in SUBSET Commits,
         NEW b \in Commits, NEW x \in F, b \in AncestorsIn(g)[x],
         \A y \in F : b \in AncestorsIn(g)[y] /\ y # b => g[y] \subseteq F
  PROVE  b \in F
<1> DEFINE A == AncestorsIn(g)
           T == {y \in F : b \in A[y]}
<1>0. /\ \A c \in Commits : c \in Nat
      /\ \A c \in Commits : g[c] \subseteq Commits /\ \A p \in g[c] : p < c
  BY Bounds DEF Commits, Histories
<1>1. PICK m \in T : \A k \in T : m <= k
  <2>1. T \in SUBSET Nat /\ T # {}
    BY <1>0
  <2> HIDE DEF T
  <2> QED BY <2>1, Least
<1>2. m \in F /\ b \in A[m]
  BY <1>1
<1>3. CASE m = b
  BY <1>2, <1>3
<1>4. CASE m # b
  <2>1. PICK p \in g[m] : b \in A[p]
    BY <1>2, <1>4, AncestorFacts
  <2>2. p \in T
    BY <1>2, <1>4, <2>1
  <2> QED BY <1>0, <1>1, <1>2, <2>1, <2>2
<1> QED BY <1>3, <1>4

(* With clocks that agree with the history, an ancestor is older. *)
LEMMA AncestorOlder ==
  ASSUME NEW g \in Histories, NEW t \in [Commits -> Int],
         \A c \in Commits : \A p \in g[c] : t[p] < t[c],
         NEW c \in Commits, NEW d \in AncestorsIn(g)[c], d # c
  PROVE  t[d] < t[c]
<1> DEFINE A == AncestorsIn(g)
           T == {x \in Commits : \E y \in A[x] : y # x /\ ~(t[y] < t[x])}
<1> SUFFICES ASSUME T # {} PROVE FALSE
  OBVIOUS
<1>0. /\ \A x \in Commits : x \in Nat
      /\ \A x \in Commits : g[x] \subseteq Commits /\ \A p \in g[x] : p < x
  BY Bounds DEF Commits, Histories
<1>1. PICK m \in T : \A k \in T : m <= k
  <2>1. T \in SUBSET Nat
    BY <1>0
  <2> HIDE DEF T
  <2> QED BY <2>1, Least
<1>2. PICK y \in A[m] : y # m /\ ~(t[y] < t[m])
  BY <1>1
<1>3. y \in Commits /\ m \in Commits
  BY <1>2, AncestorFacts
<1>4. PICK p \in g[m] : y \in A[p]
  BY <1>2, <1>3, AncestorFacts
<1>5. p \in Commits /\ p < m /\ p \notin T
  BY <1>0, <1>1, <1>3
<1>6. y = p \/ t[y] < t[p]
  BY <1>4, <1>5
<1>7. t[p] < t[m] /\ t[p] \in Int /\ t[y] \in Int /\ t[m] \in Int
  BY <1>3, <1>5
<1> QED BY <1>2, <1>6, <1>7

-----------------------------------------------------------------------------
(* Common ancestors. *)

(* The common ancestors of l and of some of r, and the best of them. *)
CommonOf(g, l, r) == AncestorsIn(g)[l] \cap UNION {AncestorsIn(g)[c] : c \in r}

BestOf(g, l, r) ==
  {c \in CommonOf(g, l, r) : \A d \in CommonOf(g, l, r) \ {c} : c \notin AncestorsIn(g)[d]}

(* Every common ancestor is an ancestor of a best one. *)
LEMMA BestAbove ==
  ASSUME NEW g \in Histories, NEW l \in Commits, NEW r \in SUBSET Commits,
         NEW d \in CommonOf(g, l, r)
  PROVE  \E b \in BestOf(g, l, r) : d \in AncestorsIn(g)[b]
<1> DEFINE A == AncestorsIn(g)
           C == CommonOf(g, l, r)
           T == {c \in C : d \in A[c]}
<1>1. C \subseteq Commits
  BY AncestorFacts DEF CommonOf
<1>2. d \in T
  BY <1>1, AncestorFacts
<1>3. PICK m \in T : \A n \in T : n <= m
  <2>1. T \in SUBSET Commits /\ T # {}
    BY <1>1, <1>2
  <2> HIDE DEF T
  <2> QED BY <2>1, Greatest
<1>4. ASSUME NEW e \in C \ {m}, m \in A[e] PROVE FALSE
  <2>1. d \in A[e] /\ e \in Commits /\ m \in Commits
    BY <1>1, <1>3, <1>4, AncestorTransitive
  <2>2. e <= m /\ m <= e
    BY <1>3, <1>4, <2>1, AncestorFacts
  <2>3. e \in Int /\ m \in Int
    BY <2>1 DEF Commits
  <2> QED BY <1>4, <2>2, <2>3
<1>5. m \in BestOf(g, l, r)
  BY <1>3, <1>4 DEF BestOf
<1> QED BY <1>3, <1>5

-----------------------------------------------------------------------------
(* Lists by date. *)

(* The list holds the commits of S, each once, youngest first. *)
Lists(list, S, t) ==
  /\ list \in Seq(Commits)
  /\ ToSet(list) = S
  /\ \A i, j \in DOMAIN list : list[i] = list[j] => i = j
  /\ \A i, j \in DOMAIN list : i < j => t[list[i]] >= t[list[j]]

(* The same, in any order. *)
Holds(list, S) ==
  /\ list \in Seq(Commits)
  /\ ToSet(list) = S
  /\ \A i, j \in DOMAIN list : list[i] = list[j] => i = j

(* Positions that are closed downwards are the first ones, and their       *)
(* number is the last of them.                                             *)
LEMMA FirstPositions ==
  ASSUME NEW n \in Nat, NEW D \in SUBSET (1 .. n),
         \A i \in D : \A j \in 1 .. n : j < i => j \in D
  PROVE  /\ Cardinality(D) \in 0 .. n
         /\ D = 1 .. Cardinality(D)
<1> DEFINE T == (1 .. n + 1) \ D
<1>1. PICK m \in T : \A k \in T : m <= k
  <2>1. T \in SUBSET Nat /\ n + 1 \in T
    OBVIOUS
  <2> HIDE DEF T
  <2> QED BY <2>1, Least
<1>2. D = 1 .. (m - 1)
  <2>1. ASSUME NEW i \in D PROVE i \in 1 .. (m - 1)
    <3>1. i # m /\ ~(m < i)
      BY <1>1
    <3> QED BY <3>1, <1>1
  <2>2. ASSUME NEW i \in 1 .. (m - 1) PROVE i \in D
    <3>1. i \notin T /\ i \in 1 .. n + 1
      BY <1>1
    <3> QED BY <3>1
  <2> QED BY <2>1, <2>2
<1>3. Cardinality(1 .. (m - 1)) = m - 1
  <2>1. 1 \in Int /\ m - 1 \in Int /\ m \in 1 .. n + 1
    BY <1>1
  <2>2. Cardinality(1 .. (m - 1)) = IF 1 > m - 1 THEN 0 ELSE (m - 1) - 1 + 1
    BY <2>1, FS_Interval
  <2> QED BY <2>1, <2>2
<1>4. m - 1 \in 0 .. n
  BY <1>1
<1> QED BY <1>2, <1>3, <1>4

(* What an insertion in front of the position k + 1 yields. *)
LEMMA Inserted ==
  ASSUME NEW list \in Seq(Commits), NEW k \in 0 .. Len(list), NEW c \in Commits
  PROVE  /\ InsertAt(list, k + 1, c) \in Seq(Commits)
         /\ Len(InsertAt(list, k + 1, c)) = Len(list) + 1
         /\ \A j \in 1 .. Len(list) + 1 :
              InsertAt(list, k + 1, c)[j] = IF j <= k THEN list[j] ELSE IF j = k + 1 THEN c ELSE list[j - 1]
<1> DEFINE n == Len(list)
           a == SubSeq(list, 1, k)
           b == SubSeq(list, k + 1, n)
<1>1. n \in Nat /\ k \in Nat /\ k <= n /\ (k + 1) - 1 = k
  OBVIOUS
<1>2. InsertAt(list, k + 1, c) = (a \o <<c>>) \o b
  BY <1>1 DEF InsertAt
<1>3. a \in Seq(Commits) /\ Len(a) = k /\ \A j \in 1 .. k : a[j] = list[j]
  BY <1>1
<1>4. b \in Seq(Commits) /\ Len(b) = n - k /\ \A j \in 1 .. n - k : b[j] = list[k + j]
  BY <1>1
<1> HIDE DEF a, b
<1> DEFINE d == a \o <<c>>
<1>5. /\ d \in Seq(Commits) /\ Len(d) = k + 1
      /\ \A j \in 1 .. k : d[j] = a[j]
      /\ d[k + 1] = c
  BY <1>1, <1>3
<1> HIDE DEF d
<1> DEFINE e == d \o b
<1>6. /\ e \in Seq(Commits) /\ Len(e) = (k + 1) + (n - k)
      /\ \A j \in 1 .. k + 1 : e[j] = d[j]
      /\ \A j \in k + 2 .. n + 1 : e[j] = b[j - (k + 1)]
  <2>1. Len(d) + Len(b) = n + 1 /\ Len(d) = k + 1
    BY <1>1, <1>4, <1>5
  <2>2. /\ e \in Seq(Commits) /\ Len(e) = Len(d) + Len(b)
        /\ \A j \in 1 .. Len(d) + Len(b) : e[j] = IF j <= Len(d) THEN d[j] ELSE b[j - Len(d)]
    BY <1>4, <1>5, ConcatProperties
  <2> HIDE DEF e
  <2>3. ASSUME NEW j \in 1 .. k + 1 PROVE e[j] = d[j]
    <3>1. j \in 1 .. n + 1 /\ j <= k + 1
      BY <1>1
    <3> QED BY <2>1, <2>2, <3>1
  <2>4. ASSUME NEW j \in k + 2 .. n + 1 PROVE e[j] = b[j - (k + 1)]
    <3>1. j \in 1 .. n + 1 /\ ~(j <= k + 1)
      BY <1>1
    <3> QED BY <2>1, <2>2, <3>1
  <2>5. (k + 1) + (n - k) = n + 1
    BY <1>1
  <2> QED BY <2>1, <2>2, <2>3, <2>4, <2>5
<1> HIDE DEF e
<1>7. \A j \in k + 2 .. n + 1 : j - (k + 1) \in 1 .. n - k /\ k + (j - (k + 1)) = j - 1
  BY <1>1
<1>8. \A j \in k + 2 .. n + 1 : e[j] = list[j - 1]
  BY <1>4, <1>6, <1>7
<1>9. \A j \in 1 .. k : e[j] = list[j]
  BY <1>1, <1>3, <1>5, <1>6
<1>10. e[k + 1] = c
  BY <1>1, <1>5, <1>6
<1>11. ASSUME NEW j \in 1 .. n + 1
       PROVE  e[j] = IF j <= k THEN list[j] ELSE IF j = k + 1 THEN c ELSE list[j - 1]
  <2>1. CASE j \in 1 .. k
    BY <1>1, <1>9, <2>1
  <2>2. CASE j = k + 1
    BY <1>1, <1>10, <2>2
  <2>3. CASE j \in k + 2 .. n + 1
    BY <1>1, <1>8, <2>3
  <2> QED BY <1>1, <2>1, <2>2, <2>3
<1>12. InsertAt(list, k + 1, c) = e
  BY <1>2 DEF d, e
<1>13. Len(e) = n + 1
  BY <1>1, <1>6
<1> QED BY <1>6, <1>11, <1>12, <1>13

(* git_commit_list_insert_by_date keeps a list in order: the commit is put *)
(* behind those that are not older than it.                                *)
LEMMA InsertedByDate ==
  ASSUME time \in [Commits -> Int],
         NEW list, NEW S, Lists(list, S, time), NEW c \in Commits, c \notin S
  PROVE  Lists(ByDate(list, c), S \cup {c}, time)
<1> DEFINE n == Len(list)
           D == {i \in DOMAIN list : time[list[i]] >= time[c]}
           k == Cardinality(D)
           new == ByDate(list, c)
<1>1. /\ list \in Seq(Commits) /\ n \in Nat /\ DOMAIN list = 1 .. n
      /\ \A i \in 1 .. n : list[i] \in Commits /\ time[list[i]] \in Int
      /\ time[c] \in Int
  BY DEF Lists
<1>2. /\ \A i, j \in 1 .. n : list[i] = list[j] => i = j
      /\ \A i, j \in 1 .. n : i < j => time[list[i]] >= time[list[j]]
      /\ \A x : x \in S <=> \E i \in 1 .. n : list[i] = x
  BY <1>1 DEF Lists, ToSet
<1>3. /\ k \in 0 .. n /\ D = 1 .. k
  <2>1. ASSUME NEW i \in D, NEW j \in 1 .. n, j < i PROVE j \in D
    BY <1>1, <1>2, <2>1
  <2>2. D \in SUBSET (1 .. n)
    BY <1>1
  <2> HIDE DEF D
  <2> QED BY <1>1, <2>1, <2>2, FirstPositions
<1>4. new = InsertAt(list, k + 1, c)
  <2>1. k \in Int
    BY <1>1, <1>3
  <2>2. 1 + k = k + 1
    BY <2>1
  <2> QED BY <2>2 DEF ByDate
<1> HIDE DEF new, k, D
<1>5. /\ new \in Seq(Commits) /\ Len(new) = n + 1
      /\ \A j \in 1 .. n + 1 : new[j] = IF j <= k THEN list[j] ELSE IF j = k + 1 THEN c ELSE list[j - 1]
  <2> DEFINE into == InsertAt(list, k + 1, c)
  <2>1. k \in 0 .. Len(list) /\ list \in Seq(Commits)
    BY <1>1, <1>3
  <2>2. /\ into \in Seq(Commits) /\ Len(into) = Len(list) + 1
        /\ \A j \in 1 .. Len(list) + 1 :
             into[j] = IF j <= k THEN list[j] ELSE IF j = k + 1 THEN c ELSE list[j - 1]
    BY <2>1, Inserted
  <2> HIDE DEF into
  <2>3. new = into
    BY <1>4 DEF into
  <2> QED BY <2>2, <2>3
<1>6. \A i \in 1 .. n : i <= k <=> time[list[i]] >= time[c]
  <2>1. \A i \in 1 .. n : i \in D <=> time[list[i]] >= time[c]
    BY <1>1 DEF D
  <2>2. \A i \in 1 .. n : i \in 1 .. k <=> i <= k
    BY <1>1, <1>3
  <2> QED BY <1>3, <2>1, <2>2
<1>7. DOMAIN new = 1 .. n + 1 /\ k \in Int
  BY <1>1, <1>3, <1>5
<1>8. /\ \A j \in 1 .. n + 1 : j <= k => new[j] = list[j] /\ j \in 1 .. n
      /\ \A j \in 1 .. n + 1 : j > k + 1 => new[j] = list[j - 1] /\ j - 1 \in 1 .. n /\ j - 1 > k
      /\ \A j \in 1 .. n + 1 : j <= k \/ j = k + 1 \/ j > k + 1
      /\ new[k + 1] = c /\ k + 1 \in 1 .. n + 1
  BY <1>1, <1>3, <1>5, <1>7
<1>9. \A i \in 1 .. n : (\E j \in 1 .. n + 1 : new[j] = list[i])
  <2> TAKE i \in 1 .. n
  <2>1. CASE i <= k
    BY <1>1, <1>8, <2>1, SMTT(30)
  <2>2. CASE i > k
    <3>1. i + 1 \in 1 .. n + 1 /\ i + 1 > k + 1 /\ (i + 1) - 1 = i
      BY <1>1, <1>7, <2>2
    <3> QED BY <1>8, <3>1
  <2> QED BY <1>7, <2>1, <2>2
<1>10. ToSet(new) = S \cup {c}
  <2>1. \A j \in 1 .. n + 1 : new[j] \in S \cup {c}
    BY <1>2, <1>8
  <2>2. \A x \in S : \E j \in 1 .. n + 1 : new[j] = x
    BY <1>2, <1>9
  <2>3. ToSet(new) = {new[j] : j \in 1 .. n + 1}
    BY <1>7 DEF ToSet
  <2>4. \E j \in 1 .. n + 1 : new[j] = c
    BY <1>8
  <2> QED BY <2>1, <2>2, <2>3, <2>4
<1>11. ASSUME NEW i \in 1 .. n + 1, NEW j \in 1 .. n + 1, new[i] = new[j] PROVE i = j
  <2>1. \A a \in 1 .. n : list[a] # c
    BY <1>2
  <2>2. CASE i = k + 1
    BY <1>8, <1>11, <2>1, <2>2
  <2>3. CASE j = k + 1
    BY <1>8, <1>11, <2>1, <2>3
  <2>4. CASE i # k + 1 /\ j # k + 1
    <3> DEFINE old(x) == IF x <= k THEN x ELSE x - 1
    <3>1. \A x \in 1 .. n + 1 : x # k + 1 => new[x] = list[old(x)] /\ old(x) \in 1 .. n
      BY <1>8
    <3>2. old(i) = old(j)
      <4> HIDE DEF old
      <4> QED BY <1>2, <1>11, <2>4, <3>1
    <3> QED BY <1>1, <1>7, <2>4, <3>2
  <2> QED BY <2>2, <2>3, <2>4
<1>12. ASSUME NEW i \in 1 .. n + 1, NEW j \in 1 .. n + 1, i < j PROVE time[new[i]] >= time[new[j]]
  <2>1. CASE j <= k
    BY <1>1, <1>2, <1>7, <1>8, <1>12, <2>1
  <2>2. CASE j = k + 1
    <3>1. i <= k
      BY <1>7, <1>12, <2>2
    <3> QED BY <1>1, <1>6, <1>8, <2>2, <3>1
  <2>3. CASE j > k + 1
    <3> DEFINE b == j - 1
    <3>1. new[j] = list[b] /\ b \in 1 .. n /\ b > k
      BY <1>8, <2>3
    <3> HIDE DEF b
    <3>2. time[list[b]] < time[c]
      BY <1>1, <1>6, <1>7, <3>1
    <3>3. CASE i <= k
      <4>1. new[i] = list[i] /\ i \in 1 .. n /\ i < b
        BY <1>7, <1>8, <3>1, <3>3
      <4> QED BY <1>1, <1>2, <3>1, <4>1
    <3>4. CASE i = k + 1
      BY <1>1, <1>8, <3>1, <3>2, <3>4
    <3>5. CASE i > k + 1
      <4>1. new[i] = list[i - 1] /\ i - 1 \in 1 .. n /\ i - 1 < b
        BY <1>1, <1>8, <1>12, <3>1, <3>5 DEF b
      <4> QED BY <1>1, <1>2, <3>1, <4>1
    <3> QED BY <1>8, <3>3, <3>4, <3>5
  <2> QED BY <1>8, <2>1, <2>2, <2>3
<1>13. \A i, j \in DOMAIN new : new[i] = new[j] => i = j
  BY <1>7, <1>11
<1>14. \A i, j \in DOMAIN new : i < j => time[new[i]] >= time[new[j]]
  BY <1>7, <1>12
<1> QED BY <1>5, <1>10, <1>13, <1>14 DEF Lists, new

(* The recursion of Sorted up to the position n has a solution. *)
SortsUpTo(list, kept, n, f) ==
  f = [i \in 0 .. n |-> IF i = 0 THEN <<>>
                        ELSE IF list[i] \in kept THEN ByDate(f[i - 1], list[i]) ELSE f[i - 1]]

LEMMA Sortable ==
  ASSUME NEW list, NEW kept, NEW n \in Nat
  PROVE  \E f : SortsUpTo(list, kept, n, f)
<1> DEFINE T == {k \in Nat : ~ \E f : SortsUpTo(list, kept, k, f)}
           Step(s, i) == IF list[i] \in kept THEN ByDate(s, list[i]) ELSE s
<1> SUFFICES ASSUME T # {} PROVE FALSE
  OBVIOUS
<1>1. PICK m \in T : \A k \in T : m <= k
  <2>1. T \in SUBSET Nat
    OBVIOUS
  <2> HIDE DEF T
  <2> QED BY <2>1, Least
<1>2. CASE m = 0
  <2> DEFINE e == [i \in 0 .. 0 |-> <<>>]
  <2>1. SortsUpTo(list, kept, 0, e)
    BY DEF SortsUpTo
  <2> QED BY <2>1, <1>2, <1>1
<1>3. CASE m # 0
  <2>0. m - 1 \in Nat /\ m \in Nat /\ m - 1 \notin T
    BY <1>1, <1>3
  <2>1. PICK f : SortsUpTo(list, kept, m - 1, f)
    BY <2>0
  <2> DEFINE h == [i \in 0 .. m |-> IF i = m THEN Step(f[m - 1], m) ELSE f[i]]
  <2>2. \A i \in 0 .. m - 1 : f[i] = IF i = 0 THEN <<>> ELSE Step(f[i - 1], i)
    BY <2>1 DEF SortsUpTo
  <2>3. \A i \in 0 .. m - 1 : h[i] = f[i]
    BY <2>0
  <2> HIDE DEF Step
  <2>4. \A i \in 0 .. m : h[i] = IF i = 0 THEN <<>> ELSE Step(h[i - 1], i)
    <3> SUFFICES ASSUME NEW i \in 0 .. m PROVE h[i] = IF i = 0 THEN <<>> ELSE Step(h[i - 1], i)
      OBVIOUS
    <3>1. CASE i = m
      <4>1. h[i] = Step(f[m - 1], m) /\ h[m - 1] = f[m - 1]
        BY <3>1, <2>0, <2>3
      <4> QED BY <4>1, <3>1, <1>3
    <3>2. CASE i # m /\ i # 0
      <4>1. i \in 0 .. m - 1 /\ i - 1 \in 0 .. m - 1
        BY <3>2, <2>0
      <4> HIDE DEF h
      <4> QED BY <4>1, <3>2, <2>2, <2>3
    <3>3. CASE i # m /\ i = 0
      <4>1. i \in 0 .. m - 1
        BY <3>3, <2>0
      <4> HIDE DEF h
      <4> QED BY <4>1, <3>3, <2>2, <2>3
    <3> QED BY <3>1, <3>2, <3>3
  <2>5. SortsUpTo(list, kept, m, h)
    <3>1. h = [i \in 0 .. m |-> h[i]]
      OBVIOUS
    <3> HIDE DEF h
    <3> QED BY <3>1, <2>4 DEF SortsUpTo, Step
  <2> QED BY <2>5, <1>1
<1> QED BY <1>2, <1>3

(* Sorting keeps the commits of a list that are wanted, each once, and     *)
(* puts the youngest first.                                                *)
LEMMA SortedLists ==
  ASSUME time \in [Commits -> Int], NEW list, NEW S, Holds(list, S), NEW kept
  PROVE  Lists(Sorted(list, kept), S \cap kept, time)
<1> DEFINE n == Len(list)
           Sol == CHOOSE f : f = [i \in 0 .. n |-> IF i = 0 THEN <<>>
                                   ELSE IF list[i] \in kept THEN ByDate(f[i - 1], list[i]) ELSE f[i - 1]]
           Upto(i) == {list[j] : j \in 1 .. i} \cap kept
           T == {i \in 0 .. n : ~Lists(Sol[i], Upto(i), time)}
<1>1. /\ list \in Seq(Commits) /\ n \in Nat /\ DOMAIN list = 1 .. n
      /\ \A i \in 1 .. n : list[i] \in Commits
      /\ \A i, j \in 1 .. n : list[i] = list[j] => i = j
      /\ S = {list[j] : j \in 1 .. n}
  BY DEF Holds, ToSet
<1>2. Sorted(list, kept) = Sol[n]
  BY DEF Sorted
<1>3. PICK f : SortsUpTo(list, kept, n, f)
  BY <1>1, Sortable
<1>4. Sol = [i \in 0 .. n |-> IF i = 0 THEN <<>>
               ELSE IF list[i] \in kept THEN ByDate(Sol[i - 1], list[i]) ELSE Sol[i - 1]]
  BY <1>3 DEF SortsUpTo
<1> HIDE DEF Sol
<1>5. /\ Sol[0] = <<>>
      /\ \A i \in 1 .. n : Sol[i] = IF list[i] \in kept THEN ByDate(Sol[i - 1], list[i]) ELSE Sol[i - 1]
  BY <1>1, <1>4
<1>6. T = {}
  <2> SUFFICES ASSUME T # {} PROVE FALSE
    OBVIOUS
  <2>1. PICK m \in T : \A k \in T : m <= k
    <3>1. T \in SUBSET Nat
      BY <1>1
    <3> HIDE DEF T
    <3> QED BY <3>1, Least
  <2>2. CASE m = 0
    <3>1. <<>> \in Seq(Commits) /\ DOMAIN <<>> = {}
      OBVIOUS
    <3>2. Upto(0) = {} /\ ToSet(<<>>) = {}
      BY <3>1 DEF ToSet
    <3>3. Lists(<<>>, {}, time)
      BY <3>1, <3>2 DEF Lists
    <3> QED BY <2>1, <2>2, <3>2, <3>3, <1>5
  <2>3. CASE m # 0
    <3>0. m \in 0 .. n
      BY <2>1
    <3>1. m \in 1 .. n /\ m - 1 \in 0 .. n /\ m - 1 \notin T
      <4>1. m - 1 \in 0 .. n /\ ~(m <= m - 1)
        BY <1>1, <3>0, <2>3
      <4>2. m \in 1 .. n
        BY <1>1, <3>0, <2>3
      <4>3. m - 1 \notin T
        <5> HIDE DEF T
        <5> QED BY <2>1, <4>1
      <4> QED BY <4>1, <4>2, <4>3
    <3>2. Lists(Sol[m - 1], Upto(m - 1), time)
      BY <3>1
    <3>3. list[m] \in Commits /\ list[m] \notin {list[j] : j \in 1 .. m - 1}
      BY <1>1, <3>1
    <3>4. {list[j] : j \in 1 .. m} = {list[j] : j \in 1 .. m - 1} \cup {list[m]}
      <4>1. \A j : j \in 1 .. m <=> j \in 1 .. m - 1 \/ j = m
        BY <3>1
      <4> QED BY <4>1
    <3>5. CASE list[m] \in kept
      <4>1. Upto(m) = Upto(m - 1) \cup {list[m]} /\ list[m] \notin Upto(m - 1)
        BY <3>3, <3>4, <3>5
      <4>2. Sol[m] = ByDate(Sol[m - 1], list[m])
        BY <1>5, <3>1, <3>5
      <4> HIDE DEF Upto
      <4>3. Lists(ByDate(Sol[m - 1], list[m]), Upto(m - 1) \cup {list[m]}, time)
        BY <3>2, <3>3, <4>1, InsertedByDate
      <4> QED BY <2>1, <4>1, <4>2, <4>3
    <3>6. CASE list[m] \notin kept
      <4>1. Upto(m) = Upto(m - 1)
        BY <3>4, <3>6
      <4>2. Sol[m] = Sol[m - 1]
        BY <1>5, <3>1, <3>6
      <4> HIDE DEF Upto
      <4> QED BY <2>1, <3>2, <4>1, <4>2
    <3> QED BY <3>5, <3>6
  <2> QED BY <2>2, <2>3
<1>7. Lists(Sol[n], Upto(n), time)
  <2>1. n \in 0 .. n
    BY <1>1
  <2> QED BY <1>6, <2>1
<1>8. Upto(n) = S \cap kept
  BY <1>1
<1> HIDE DEF Upto
<1> QED BY <1>2, <1>7, <1>8

(* A list without repetitions is as long as its set is large. *)
LEMMA ListLength ==
  ASSUME NEW list, NEW S, Holds(list, S)
  PROVE  IsFiniteSet(S) /\ Cardinality(S) = Len(list)
<1> DEFINE n == Len(list)
<1>1. /\ n \in Nat /\ DOMAIN list = 1 .. n /\ list \in [1 .. n -> Commits]
      /\ S = {list[j] : j \in 1 .. n}
      /\ \A i, j \in 1 .. n : list[i] = list[j] => i = j
  BY DEF Holds, ToSet
<1>2. list \in [1 .. n -> S]
  BY <1>1
<1>3. list \in Bijection(1 .. n, S)
  BY <1>1, <1>2 DEF Bijection, Injection, Surjection, IsInjective
<1>4. ExistsBijection(1 .. n, S)
  BY <1>3 DEF ExistsBijection
<1>5. IsFiniteSet(1 .. n) /\ Cardinality(1 .. n) = n
  <2>1. 1 \in Int /\ n \in Int
    BY <1>1
  <2>2. IsFiniteSet(1 .. n) /\ Cardinality(1 .. n) = IF 1 > n THEN 0 ELSE n - 1 + 1
    BY <2>1, FS_Interval
  <2> QED BY <1>1, <2>2
<1> HIDE DEF n
<1>6. IsFiniteSet(S) /\ Cardinality(S) = n
  BY <1>4, <1>5, FS_Bijection
<1> QED BY <1>6 DEF n

-----------------------------------------------------------------------------
(* The invariant of a walk, over the history g, the times t, the starts l  *)
(* and r, the marks f, the queue q and the list fd.                        *)

Colors == {"PARENT1", "PARENT2", "STALE"}

(* Where the walk with the mark m has started. *)
Tips(l, r, m) == IF m = "PARENT1" THEN {l} ELSE r

(* A mark tells the truth: who has it is below a start with that mark, and *)
(* the stale ones are below another common ancestor.                       *)
Sound(g, l, r, f) ==
  /\ \A m \in Both : \A c \in Commits :
       m \in f[c] => \E x \in Tips(l, r, m) : c \in AncestorsIn(g)[x]
  /\ \A c \in Commits : "STALE" \in f[c] =>
       /\ Both \subseteq f[c]
       /\ \E d \in CommonOf(g, l, r) \ {c} : c \in AncestorsIn(g)[d]

(* The starts are marked, and what has left the queue has handed its marks *)
(* down, as stale ones when it is common.                                  *)
Handed(g, l, r, f, q) ==
  /\ \A m \in Both : \A x \in Tips(l, r, m) : m \in f[x]
  /\ \A c \in Commits \ q : \A p \in g[c] :
       /\ f[c] \cap Colors \subseteq f[p]
       /\ Both \subseteq f[c] => "STALE" \in f[p]

(* The list of results holds what has been visited with both marks; the    *)
(* rest of the common commits outside the queue is stale.                  *)
Listed(f, q, fd) ==
  /\ Holds(fd, {c \in Commits : "RESULT" \in f[c]})
  /\ \A c \in Commits : "RESULT" \in f[c] => Both \subseteq f[c]
  /\ \A c \in Commits \ q : Both \subseteq f[c] /\ "STALE" \notin f[c] => "RESULT" \in f[c]

(* When parents are older, what is marked has left the queue in the order  *)
(* of the times: it is not older than anything in the queue.               *)
InOrder(g, t, f, q) ==
  (\A c \in Commits : \A p \in g[c] : t[p] < t[c]) =>
     \A c \in Commits \ q : f[c] \cap Both # {} => \A d \in q : t[d] <= t[c]

WalkInv(g, t, l, r, f, q, fd) ==
  /\ f \in [Commits -> SUBSET Marks] /\ q \in SUBSET Commits
  /\ Sound(g, l, r, f)
  /\ Handed(g, l, r, f, q)
  /\ Listed(f, q, fd)
  /\ InOrder(g, t, f, q)

(* It holds when a walk starts. *)
LEMMA Starting ==
  ASSUME NEW g \in Histories, NEW t \in [Commits -> Int],
         NEW l \in Commits, NEW r \in SUBSET Commits
  PROVE  WalkInv(g, t, l, r, Started(l, r), {l} \cup r, <<>>)
<1> DEFINE f == Started(l, r)
<1>1. f \in [Commits -> SUBSET Marks]
  BY DEF Started, Marks
<1>2. \A c \in Commits : /\ "PARENT1" \in f[c] <=> c = l
                         /\ "PARENT2" \in f[c] <=> c \in r
                         /\ "STALE" \notin f[c] /\ "RESULT" \notin f[c]
  BY DEF Started
<1> HIDE DEF f
<1>3. Sound(g, l, r, f)
  <2>1. \A m \in Both : \A c \in Commits :
          m \in f[c] => \E x \in Tips(l, r, m) : c \in AncestorsIn(g)[x]
    <3> SUFFICES ASSUME NEW m \in Both, NEW c \in Commits, m \in f[c]
                 PROVE  c \in Tips(l, r, m) /\ c \in AncestorsIn(g)[c]
      OBVIOUS
    <3> QED BY <1>2, AncestorFacts DEF Both, Tips
  <2> QED BY <1>2, <2>1 DEF Sound
<1>4. Handed(g, l, r, f, {l} \cup r)
  <2>1. \A c \in Commits \ ({l} \cup r) : f[c] = {}
    BY <1>1, <1>2 DEF Marks
  <2>2. \A m \in Both : \A x \in Tips(l, r, m) : m \in f[x]
    BY <1>2 DEF Both, Tips
  <2> QED BY <2>1, <2>2 DEF Handed, Both
<1>5. Listed(f, {l} \cup r, <<>>)
  <2>1. {c \in Commits : "RESULT" \in f[c]} = {}
    BY <1>2
  <2>2. <<>> \in Seq(Commits) /\ DOMAIN <<>> = {}
    OBVIOUS
  <2>3. ToSet(<<>>) = {}
    BY <2>2 DEF ToSet
  <2> QED BY <1>2, <2>1, <2>2, <2>3 DEF Listed, Holds, Both
<1>6. InOrder(g, t, f, {l} \cup r)
  BY <1>2 DEF InOrder, Both
<1> QED BY <1>1, <1>3, <1>4, <1>5, <1>6 DEF WalkInv, f

(* What a step of the walk does when it takes c from the queue and sends   *)
(* these marks to its parents.                                             *)
Pops(c, sent) ==
  /\ c \in queue /\ c \notin queue'
  /\ \A d \in queue : time[d] <= time[c]
  /\ flags[c] \cap Colors \subseteq sent
  /\ sent \subseteq (flags[c] \cap Colors) \cup {"STALE"}
  /\ "STALE" \in sent <=> "STALE" \in flags[c] \/ Both \subseteq flags[c]
  /\ flags' \in [Commits -> SUBSET Marks]
  /\ \A d \in Commits : flags[d] \subseteq flags'[d]
  /\ \A d \in Commits \ parents[c] : flags'[d] \cap Colors = flags[d] \cap Colors
  /\ \A d \in parents[c] : flags'[d] \cap Colors = (flags[d] \cap Colors) \cup sent
  /\ \A d \in Commits : "RESULT" \in flags'[d] <=>
                          \/ "RESULT" \in flags[d]
                          \/ d = c /\ flags[c] \cap Colors = Both
  /\ queue' \in SUBSET Commits
  /\ queue \ {c} \subseteq queue' /\ queue' \subseteq queue \cup parents[c]
  /\ \A d \in Commits \ queue' : flags'[d] \cap Colors = flags[d] \cap Colors
  /\ found' = IF flags[c] \cap Colors = Both /\ "RESULT" \notin flags[c] THEN <<c>> \o found ELSE found

LEMMA PopDoes ==
  ASSUME parents \in Histories, flags \in [Commits -> SUBSET Marks], queue \in SUBSET Commits, Pop
  PROVE  \E c \in Commits, sent \in SUBSET Colors : Pops(c, sent)
<1> USE DEF Colors
<1>1. PICK c \in Newest :
       LET mine == flags[c] \cap {"PARENT1", "PARENT2", "STALE"}
           sent == IF mine = Both THEN mine \cup {"STALE"} ELSE mine
           painted == {p \in parents[c] : ~(sent \subseteq flags[p])}
       IN
       /\ flags' = [d \in Commits |-> flags[d] \cup (IF d \in painted THEN sent ELSE {})
                                        \cup (IF d = c /\ mine = Both THEN {"RESULT"} ELSE {})]
       /\ queue' = (queue \ {c}) \cup painted
       /\ roots' = IF parents[c] = {} THEN roots \cup {c} ELSE roots
       /\ found' = IF mine = Both /\ "RESULT" \notin flags[c] THEN <<c>> \o found ELSE found
  BY DEF Pop
<1> DEFINE mine == flags[c] \cap Colors
           sent == IF mine = Both THEN mine \cup {"STALE"} ELSE mine
           painted == {p \in parents[c] : ~(sent \subseteq flags[p])}
<1>2. /\ flags' = [d \in Commits |-> flags[d] \cup (IF d \in painted THEN sent ELSE {})
                                        \cup (IF d = c /\ mine = Both THEN {"RESULT"} ELSE {})]
      /\ queue' = (queue \ {c}) \cup painted
      /\ found' = IF mine = Both /\ "RESULT" \notin flags[c] THEN <<c>> \o found ELSE found
  BY <1>1
<1>3. c \in queue /\ c \in Commits /\ \A d \in queue : time[d] <= time[c]
  BY DEF Newest
<1>4. parents[c] \subseteq Commits /\ c \notin parents[c]
  BY <1>3 DEF Histories, Commits
<1>5. /\ mine \subseteq sent /\ sent \subseteq mine \cup {"STALE"} /\ sent \subseteq Colors
      /\ "STALE" \in sent <=> "STALE" \in flags[c] \/ Both \subseteq flags[c]
      /\ sent \subseteq Marks /\ "RESULT" \notin sent
  BY DEF Both, Marks
<1> HIDE DEF sent
<1>6. \A d \in Commits : flags'[d] = flags[d] \cup (IF d \in painted THEN sent ELSE {})
                                        \cup (IF d = c /\ mine = Both THEN {"RESULT"} ELSE {})
  BY <1>2
<1>7. flags' \in [Commits -> SUBSET Marks]
  <2>1. \A d \in Commits : flags[d] \cup (IF d \in painted THEN sent ELSE {})
                             \cup (IF d = c /\ mine = Both THEN {"RESULT"} ELSE {}) \in SUBSET Marks
    BY <1>5 DEF Marks
  <2> HIDE DEF painted, mine
  <2> QED BY <1>2, <2>1
<1>8. \A d \in Commits : flags[d] \subseteq flags'[d]
  BY <1>6
<1>9. \A d \in Commits \ parents[c] : flags'[d] \cap Colors = flags[d] \cap Colors
  BY <1>6
<1>10. \A d \in parents[c] : flags'[d] \cap Colors = (flags[d] \cap Colors) \cup sent
  <2> SUFFICES ASSUME NEW d \in parents[c]
               PROVE  flags'[d] \cap Colors = (flags[d] \cap Colors) \cup sent
    OBVIOUS
  <2>1. CASE d \in painted
    BY <1>4, <1>5, <1>6, <2>1
  <2>2. CASE d \notin painted
    <3>1. sent \subseteq flags[d]
      BY <2>2
    <3> QED BY <1>4, <1>5, <1>6, <2>2, <3>1
  <2> QED BY <2>1, <2>2
<1>11. \A d \in Commits : "RESULT" \in flags'[d] <=>
                          \/ "RESULT" \in flags[d]
                          \/ d = c /\ flags[c] \cap Colors = Both
  BY <1>5, <1>6
<1>12. \A d \in Commits \ queue' : flags'[d] \cap Colors = flags[d] \cap Colors
  BY <1>2, <1>6
<1>13. /\ queue' \in SUBSET Commits /\ c \notin queue'
       /\ queue \ {c} \subseteq queue' /\ queue' \subseteq queue \cup parents[c]
  BY <1>2, <1>4
<1> QED BY <1>2, <1>3, <1>5, <1>7, <1>8, <1>9, <1>10, <1>11, <1>12, <1>13 DEF Pops

(* A step of the walk preserves its invariant. *)
LEMMA PopSound ==
  ASSUME parents \in Histories, flags \in [Commits -> SUBSET Marks], queue \in SUBSET Commits,
         left \in Commits, right \in SUBSET Commits,
         Sound(parents, left, right, flags),
         NEW c \in Commits, NEW sent \in SUBSET Colors, Pops(c, sent)
  PROVE  Sound(parents, left, right, flags')
<1> DEFINE A == AncestorsIn(parents)
           C == CommonOf(parents, left, right)
<1>1. \A p \in parents[c] : p \in Commits /\ p # c /\ p \in A[c]
  <2>1. \A p \in parents[c] : p \in Commits /\ p < c /\ p \in Int
    BY DEF Histories, Commits
  <2>2. \A p \in parents[c] : p # c
    BY <2>1
  <2>3. \A p \in parents[c] : p \in A[p] /\ A[p] \subseteq A[c]
    BY <2>1, AncestorFacts
  <2> QED BY <2>1, <2>2, <2>3
<1>2. \A x \in Commits : c \in A[x] => A[c] \subseteq A[x]
  BY AncestorTransitive
<1>3. \A m \in Both : \A d \in Commits : m \in flags[d] => \E x \in Tips(left, right, m) : d \in A[x]
  BY DEF Sound
<1>4. \A m \in Both : Tips(left, right, m) \subseteq Commits
  BY DEF Both, Tips
<1>5. ASSUME NEW m \in Both, NEW d \in Commits, m \in flags'[d]
      PROVE  \E x \in Tips(left, right, m) : d \in A[x]
  <2>0. m \in Colors /\ m # "STALE"
    BY DEF Both, Colors
  <2>1. CASE m \in flags[d]
    BY <1>3, <2>1
  <2>2. CASE m \notin flags[d]
    <3>1. d \in parents[c] /\ m \in sent
      BY <1>5, <2>0, <2>2 DEF Pops
    <3>2. m \in flags[c]
      BY <2>0, <3>1 DEF Pops
    <3>3. PICK x \in Tips(left, right, m) : c \in A[x]
      BY <1>3, <3>2
    <3>4. d \in A[x]
      BY <1>1, <1>2, <1>4, <3>1, <3>3
    <3> QED BY <3>4
  <2> QED BY <2>1, <2>2
<1>6. ASSUME NEW d \in Commits, "STALE" \in flags'[d]
      PROVE  /\ Both \subseteq flags'[d]
             /\ \E e \in C \ {d} : d \in A[e]
  <2>1. CASE "STALE" \in flags[d]
    BY <2>1 DEF Sound, Pops
  <2>2. CASE "STALE" \notin flags[d]
    <3>0. "STALE" \in Colors /\ Both \subseteq Colors
      BY DEF Colors, Both
    <3>1. d \in parents[c] /\ "STALE" \in sent
      BY <1>6, <2>2, <3>0 DEF Pops
    <3>2. Both \subseteq flags[c]
      BY <3>1 DEF Pops, Sound
    <3>3. Both \subseteq sent
      BY <3>0, <3>2 DEF Pops
    <3>4. Both \subseteq flags'[d]
      BY <3>0, <3>1, <3>3 DEF Pops
    <3>5. c \in C
      <4>1. "PARENT1" \in flags[c] /\ "PARENT2" \in flags[c]
        BY <3>2 DEF Both
      <4>2. c \in A[left]
        BY <1>3, <4>1 DEF Both, Tips
      <4>3. \E x \in right : c \in A[x]
        BY <1>3, <4>1 DEF Both, Tips
      <4> QED BY <4>2, <4>3 DEF CommonOf
    <3>6. c # d /\ d \in A[c]
      BY <1>1, <3>1
    <3> QED BY <3>4, <3>5, <3>6
  <2> QED BY <2>1, <2>2
<1> QED BY <1>5, <1>6 DEF Sound

LEMMA PopHanded ==
  ASSUME parents \in Histories, flags \in [Commits -> SUBSET Marks], queue \in SUBSET Commits,
         left \in Commits, right \in SUBSET Commits,
         Handed(parents, left, right, flags, queue),
         NEW c \in Commits, NEW sent \in SUBSET Colors, Pops(c, sent)
  PROVE  Handed(parents, left, right, flags', queue')
<1>0. Both \subseteq Colors /\ "STALE" \in Colors
  BY DEF Both, Colors
<1>1. \A m \in Both : \A x \in Tips(left, right, m) : m \in flags'[x]
  <2>1. \A m \in Both : Tips(left, right, m) \subseteq Commits
    BY DEF Both, Tips
  <2> QED BY <2>1 DEF Handed, Pops
<1>2. ASSUME NEW d \in Commits \ queue', NEW p \in parents[d]
      PROVE  /\ flags'[d] \cap Colors \subseteq flags'[p]
             /\ Both \subseteq flags'[d] => "STALE" \in flags'[p]
  <2>0. p \in Commits
    BY DEF Histories
  <2>1. flags'[d] \cap Colors = flags[d] \cap Colors
    BY DEF Pops
  <2>2. Both \subseteq flags'[d] <=> Both \subseteq flags[d]
    BY <1>0, <2>1
  <2>3. CASE d = c
    <3>1. flags'[p] \cap Colors = (flags[p] \cap Colors) \cup sent
      BY <2>3 DEF Pops
    <3>2. flags[c] \cap Colors \subseteq sent /\ (Both \subseteq flags[c] => "STALE" \in sent)
      BY DEF Pops
    <3> QED BY <1>0, <2>1, <2>2, <2>3, <3>1, <3>2
  <2>4. CASE d # c
    <3>1. d \in Commits \ queue
      BY <2>4 DEF Pops
    <3>2. flags[p] \subseteq flags'[p]
      BY <2>0 DEF Pops
    <3>3. flags[d] \cap Colors \subseteq flags[p] /\ (Both \subseteq flags[d] => "STALE" \in flags[p])
      BY <3>1 DEF Handed
    <3> QED BY <2>1, <2>2, <3>2, <3>3
  <2> QED BY <2>3, <2>4
<1> QED BY <1>1, <1>2 DEF Handed

LEMMA PopListed ==
  ASSUME parents \in Histories, flags \in [Commits -> SUBSET Marks], queue \in SUBSET Commits,
         Listed(flags, queue, found),
         NEW c \in Commits, NEW sent \in SUBSET Colors, Pops(c, sent)
  PROVE  Listed(flags', queue', found')
<1>0. Both \subseteq Colors /\ "STALE" \in Colors /\ "STALE" \notin Both
  BY DEF Both, Colors
<1>1. \A d \in Commits : /\ flags[d] \subseteq flags'[d]
                         /\ "RESULT" \in flags'[d] <=>
                              \/ "RESULT" \in flags[d]
                              \/ d = c /\ flags[c] \cap Colors = Both
  BY DEF Pops
<1>2. \A d \in Commits : "RESULT" \in flags'[d] => Both \subseteq flags'[d]
  BY <1>1 DEF Listed
<1>3. ASSUME NEW d \in Commits \ queue', Both \subseteq flags'[d], "STALE" \notin flags'[d]
      PROVE  "RESULT" \in flags'[d]
  <2>1. flags'[d] \cap Colors = flags[d] \cap Colors
    BY DEF Pops
  <2>2. Both \subseteq flags[d] /\ "STALE" \notin flags[d]
    BY <1>0, <1>3, <2>1
  <2>3. CASE d = c
    <3>1. flags[c] \cap Colors = Both
      BY <2>2, <2>3 DEF Both, Colors
    <3> QED BY <1>1, <2>3, <3>1
  <2>4. CASE d # c
    <3>1. d \in Commits \ queue
      BY <2>4 DEF Pops
    <3> QED BY <1>1, <2>2, <3>1 DEF Listed
  <2> QED BY <2>3, <2>4
<1>4. Holds(found', {d \in Commits : "RESULT" \in flags'[d]})
  <2> DEFINE S == {d \in Commits : "RESULT" \in flags[d]}
             U == {d \in Commits : "RESULT" \in flags'[d]}
  <2>1. Holds(found, S)
    BY DEF Listed
  <2>2. CASE flags[c] \cap Colors = Both /\ "RESULT" \notin flags[c]
    <3>1. found' = <<c>> \o found
      BY <2>2 DEF Pops
    <3>2. U = S \cup {c} /\ c \notin S
      BY <1>1, <2>2
    <3> HIDE DEF S, U
    <3> DEFINE new == <<c>> \o found
    <3>3. /\ found \in Seq(Commits) /\ Len(found) \in Nat /\ DOMAIN found = 1 .. Len(found)
          /\ \A i, j \in 1 .. Len(found) : found[i] = found[j] => i = j
          /\ S = {found[i] : i \in 1 .. Len(found)}
      BY <2>1 DEF Holds, ToSet
    <3>4. /\ new \in Seq(Commits) /\ Len(new) = Len(found) + 1 /\ DOMAIN new = 1 .. Len(found) + 1
          /\ new[1] = c
          /\ \A i \in 2 .. Len(found) + 1 : new[i] = found[i - 1] /\ i - 1 \in 1 .. Len(found)
      BY <3>3
    <3> HIDE DEF new
    <3>5. \A i \in 1 .. Len(found) + 1 : i = 1 \/ i \in 2 .. Len(found) + 1
      BY <3>3
    <3>6. \A i \in 2 .. Len(found) + 1 : new[i] # c
      BY <3>2, <3>3, <3>4
    <3>7. ASSUME NEW i \in 1 .. Len(found) + 1, NEW j \in 1 .. Len(found) + 1, new[i] = new[j]
          PROVE  i = j
      BY <3>3, <3>4, <3>5, <3>6, <3>7
    <3>8. ToSet(new) = U
      <4>1. ToSet(new) = {new[i] : i \in 1 .. Len(found) + 1}
        BY <3>4 DEF ToSet
      <4>2. \A i \in 1 .. Len(found) + 1 : new[i] \in U
        <5>1. \A i \in 2 .. Len(found) + 1 : new[i] \in S
          BY <3>3, <3>4
        <5> QED BY <3>2, <3>4, <3>5, <5>1
      <4>3. \A i \in 1 .. Len(found) : i + 1 \in 2 .. Len(found) + 1 /\ (i + 1) - 1 = i
        BY <3>3
      <4>4. \A i \in 1 .. Len(found) : new[i + 1] = found[i] /\ i + 1 \in 1 .. Len(found) + 1
        BY <3>3, <3>4, <4>3
      <4>5. \A x \in S : \E i \in 1 .. Len(found) + 1 : new[i] = x
        BY <3>3, <4>4
      <4>6. 1 \in 1 .. Len(found) + 1
        BY <3>3
      <4> QED BY <3>2, <3>4, <4>1, <4>2, <4>5, <4>6
    <3>9. \A i, j \in DOMAIN new : new[i] = new[j] => i = j
      BY <3>4, <3>7
    <3>10. Holds(new, U)
      BY <3>4, <3>8, <3>9 DEF Holds
    <3> QED BY <3>1, <3>10 DEF new, U
  <2>3. CASE ~(flags[c] \cap Colors = Both /\ "RESULT" \notin flags[c])
    <3>1. found' = found
      BY <2>3 DEF Pops
    <3>2. U = S
      BY <1>1, <2>3
    <3> QED BY <2>1, <3>1, <3>2
  <2> QED BY <2>2, <2>3
<1> QED BY <1>2, <1>3, <1>4 DEF Listed

LEMMA PopInOrder ==
  ASSUME parents \in Histories, time \in [Commits -> Int],
         flags \in [Commits -> SUBSET Marks], queue \in SUBSET Commits,
         InOrder(parents, time, flags, queue),
         NEW c \in Commits, NEW sent \in SUBSET Colors, Pops(c, sent)
  PROVE  InOrder(parents, time, flags', queue')
<1> SUFFICES ASSUME \A d \in Commits : \A p \in parents[d] : time[p] < time[d],
                    NEW d \in Commits \ queue', flags'[d] \cap Both # {}, NEW e \in queue'
             PROVE  time[e] <= time[d]
  BY DEF InOrder
<1>0. \A x \in Commits : time[x] \in Int
  OBVIOUS
<1>1. flags[d] \cap Both # {}
  <2>1. flags'[d] \cap Colors = flags[d] \cap Colors
    BY DEF Pops
  <2>2. Both \subseteq Colors
    BY DEF Both, Colors
  <2> QED BY <2>1, <2>2
<1>2. c \in queue /\ e \in Commits /\ (e \in queue \/ e \in parents[c]) /\ \A x \in queue : time[x] <= time[c]
  BY DEF Pops
<1>3. time[e] <= time[c]
  BY <1>0, <1>2
<1>4. CASE d = c
  BY <1>3, <1>4
<1>5. CASE d # c
  <2>1. d \in Commits \ queue
    BY <1>5 DEF Pops
  <2>2. time[c] <= time[d]
    BY <1>1, <1>2, <2>1 DEF InOrder
  <2> QED BY <1>0, <1>2, <1>3, <2>2
<1> QED BY <1>4, <1>5

LEMMA PopKeeps ==
  ASSUME parents \in Histories, time \in [Commits -> Int],
         left \in Commits, right \in SUBSET Commits,
         WalkInv(parents, time, left, right, flags, queue, found), Pop
  PROVE  WalkInv(parents, time, left, right, flags', queue', found')
<1>1. flags \in [Commits -> SUBSET Marks] /\ queue \in SUBSET Commits
  BY DEF WalkInv
<1>2. PICK c \in Commits, sent \in SUBSET Colors : Pops(c, sent)
  BY <1>1, PopDoes
<1>3. flags' \in [Commits -> SUBSET Marks] /\ queue' \in SUBSET Commits
  BY <1>2 DEF Pops
<1>4. Sound(parents, left, right, flags')
  BY <1>1, <1>2, PopSound DEF WalkInv
<1>5. Handed(parents, left, right, flags', queue')
  BY <1>1, <1>2, PopHanded DEF WalkInv
<1>6. Listed(flags', queue', found')
  BY <1>1, <1>2, PopListed DEF WalkInv
<1>7. InOrder(parents, time, flags', queue')
  BY <1>1, <1>2, PopInOrder DEF WalkInv
<1> QED BY <1>3, <1>4, <1>5, <1>6, <1>7 DEF WalkInv

-----------------------------------------------------------------------------
(* What is known when a walk is over: only stale commits wait in the queue. *)

LEMMA OnlyStaleWait ==
  ASSUME Walked
  PROVE  \A c \in queue : "STALE" \in flags[c]
BY DEF Walked, Interesting, Stale

(* A mark reaches b from a start above it unless the queue still holds a   *)
(* commit on the way that has the mark.                                    *)
LEMMA MarkReaches ==
  ASSUME NEW g \in Histories, NEW l \in Commits, NEW r \in SUBSET Commits,
         NEW f \in [Commits -> SUBSET Marks], NEW q \in SUBSET Commits,
         Handed(g, l, r, f, q),
         NEW m \in Both, NEW x \in Tips(l, r, m), NEW b \in Commits, b \in AncestorsIn(g)[x],
         \A y \in q : m \in f[y] /\ b \in AncestorsIn(g)[y] => y = b
  PROVE  m \in f[b]
<1> DEFINE F == {y \in Commits : m \in f[y]}
<1>1. x \in F
  BY DEF Handed, Tips, Both
<1>2. ASSUME NEW y \in F, b \in AncestorsIn(g)[y], y # b PROVE g[y] \subseteq F
  <2>1. y \in Commits \ q
    BY <1>2
  <2>2. m \in f[y] \cap Colors
    BY DEF Both, Colors
  <2>3. g[y] \subseteq Commits
    BY <2>1 DEF Histories
  <2> QED BY <2>1, <2>2, <2>3 DEF Handed
<1>3. F \in SUBSET Commits
  OBVIOUS
<1>4. b \in F
  <2> HIDE DEF F
  <2> QED BY <1>1, <1>2, <1>3, HandedDown
<1> QED BY <1>4

(* The results that are not stale are common ancestors, and the best ones  *)
(* are among them.                                                         *)
LEMMA ResultsEnough ==
  ASSUME NEW g \in Histories, NEW t, NEW l \in Commits, NEW r \in SUBSET Commits,
         NEW f, NEW q, NEW fd,
         WalkInv(g, t, l, r, f, q, fd),
         \A c \in q : "STALE" \in f[c]
  PROVE  LET K == ToSet(fd) \cap {c \in Commits : "STALE" \notin f[c]}
         IN  K \subseteq CommonOf(g, l, r) /\ BestOf(g, l, r) \subseteq K
<1> DEFINE A == AncestorsIn(g)
           C == CommonOf(g, l, r)
           K == ToSet(fd) \cap {c \in Commits : "STALE" \notin f[c]}
<1>0. /\ f \in [Commits -> SUBSET Marks] /\ q \in SUBSET Commits
      /\ Sound(g, l, r, f) /\ Handed(g, l, r, f, q) /\ Listed(f, q, fd)
  BY DEF WalkInv
<1>1. ToSet(fd) = {c \in Commits : "RESULT" \in f[c]}
  BY <1>0 DEF Listed, Holds
<1>2. ASSUME NEW c \in Commits, Both \subseteq f[c] PROVE c \in C
  <2>1. "PARENT1" \in f[c] /\ "PARENT2" \in f[c]
    BY <1>2 DEF Both
  <2>2. c \in A[l]
    BY <1>0, <2>1 DEF Sound, Both, Tips
  <2>3. \E x \in r : c \in A[x]
    BY <1>0, <2>1 DEF Sound, Both, Tips
  <2> QED BY <2>2, <2>3 DEF CommonOf
<1>3. K \subseteq C
  BY <1>0, <1>1, <1>2 DEF Listed
<1>4. ASSUME NEW b \in BestOf(g, l, r) PROVE b \in K
  <2>1. b \in C /\ \A d \in C \ {b} : b \notin A[d]
    BY DEF BestOf
  <2>2. b \in Commits
    BY <2>1, AncestorFacts DEF CommonOf
  <2>3. \A y \in q : b \in A[y] => y = b
    <3> SUFFICES ASSUME NEW y \in q, b \in A[y], y # b PROVE FALSE
      OBVIOUS
    <3>1. y \in Commits /\ Both \subseteq f[y]
      BY <1>0 DEF Sound
    <3>2. y \in C
      BY <1>2, <3>1
    <3> QED BY <2>1, <3>2
  <2>4. "PARENT1" \in f[b]
    <3>1. "PARENT1" \in Both /\ l \in Tips(l, r, "PARENT1") /\ b \in A[l]
      BY <2>1 DEF Both, Tips, CommonOf
    <3> QED BY <1>0, <2>2, <2>3, <3>1, MarkReaches
  <2>5. "PARENT2" \in f[b]
    <3>1. PICK x \in r : b \in A[x]
      BY <2>1 DEF CommonOf
    <3>2. "PARENT2" \in Both /\ x \in Tips(l, r, "PARENT2")
      BY DEF Both, Tips
    <3> QED BY <1>0, <2>2, <2>3, <3>1, <3>2, MarkReaches
  <2>6. "STALE" \notin f[b]
    BY <1>0, <2>1, <2>2 DEF Sound
  <2>7. b \notin q
    BY <2>6
  <2>8. "RESULT" \in f[b]
    BY <1>0, <2>2, <2>4, <2>5, <2>6, <2>7 DEF Listed, Both
  <2> QED BY <1>1, <2>2, <2>6, <2>8
<1> QED BY <1>3, <1>4

(* One result alone is the best common ancestor. *)
LEMMA OneIsBest ==
  ASSUME NEW g \in Histories, NEW l \in Commits, NEW r \in SUBSET Commits,
         NEW K, K \subseteq CommonOf(g, l, r), BestOf(g, l, r) \subseteq K,
         \A a, b \in K : a = b
  PROVE  K = BestOf(g, l, r)
<1>1. ASSUME NEW c \in K PROVE c \in BestOf(g, l, r)
  <2>1. PICK b \in BestOf(g, l, r) : c \in AncestorsIn(g)[b]
    BY BestAbove
  <2> QED BY <2>1
<1> QED BY <1>1

(* A walk from a candidate that another start has as an ancestor marks it. *)
LEMMA RedundantIsMarked ==
  ASSUME NEW g \in Histories, NEW t, NEW l \in Commits, NEW r \in SUBSET Commits,
         NEW f, NEW q, NEW fd,
         WalkInv(g, t, l, r, f, q, fd),
         \A c \in q : "STALE" \in f[c],
         NEW x \in r, l \in AncestorsIn(g)[x]
  PROVE  "PARENT2" \in f[l]
<1>1. /\ f \in [Commits -> SUBSET Marks] /\ q \in SUBSET Commits
      /\ Sound(g, l, r, f) /\ Handed(g, l, r, f, q)
  BY DEF WalkInv
<1>2. \A y \in q : l \in AncestorsIn(g)[y] => y = l
  <2> SUFFICES ASSUME NEW y \in q, l \in AncestorsIn(g)[y] PROVE y = l
    OBVIOUS
  <2>1. y \in Commits /\ "PARENT1" \in f[y]
    BY <1>1 DEF Sound, Both
  <2>2. y \in AncestorsIn(g)[l]
    BY <1>1, <2>1 DEF Sound, Both, Tips
  <2>3. y <= l /\ l <= y
    BY <2>1, <2>2, AncestorFacts
  <2> QED BY <2>1, <2>3 DEF Commits
<1>3. "PARENT2" \in Both /\ x \in Tips(l, r, "PARENT2")
  BY DEF Both, Tips
<1> QED BY <1>1, <1>2, <1>3, MarkReaches

-----------------------------------------------------------------------------
(* The commits that are counted. *)

(* What is reached one step further down than from s. *)
Further(s) == s \cup UNION {parents[c] : c \in {d \in s : ~(Both \subseteq flags[d])}}

(* The recursion of Reached up to n steps has a solution. *)
ReachesUpTo(s, n, f) == f = [i \in 0 .. n |-> IF i = 0 THEN s ELSE Further(f[i - 1])]

LEMMA Reachable ==
  ASSUME NEW s, NEW n \in Nat
  PROVE  \E f : ReachesUpTo(s, n, f)
<1> DEFINE T == {k \in Nat : ~ \E f : ReachesUpTo(s, k, f)}
<1> SUFFICES ASSUME T # {} PROVE FALSE
  OBVIOUS
<1>1. PICK m \in T : \A k \in T : m <= k
  <2>1. T \in SUBSET Nat
    OBVIOUS
  <2> HIDE DEF T
  <2> QED BY <2>1, Least
<1>2. CASE m = 0
  <2> DEFINE e == [i \in 0 .. 0 |-> s]
  <2>1. ReachesUpTo(s, 0, e)
    BY DEF ReachesUpTo
  <2> QED BY <2>1, <1>2, <1>1
<1>3. CASE m # 0
  <2>0. m - 1 \in Nat /\ m \in Nat /\ m - 1 \notin T
    BY <1>1, <1>3
  <2>1. PICK f : ReachesUpTo(s, m - 1, f)
    BY <2>0
  <2> DEFINE h == [i \in 0 .. m |-> IF i = m THEN Further(f[m - 1]) ELSE f[i]]
  <2>2. \A i \in 0 .. m - 1 : f[i] = IF i = 0 THEN s ELSE Further(f[i - 1])
    BY <2>1 DEF ReachesUpTo
  <2>3. \A i \in 0 .. m - 1 : h[i] = f[i]
    BY <2>0
  <2>4. \A i \in 0 .. m : h[i] = IF i = 0 THEN s ELSE Further(h[i - 1])
    <3> SUFFICES ASSUME NEW i \in 0 .. m PROVE h[i] = IF i = 0 THEN s ELSE Further(h[i - 1])
      OBVIOUS
    <3>1. CASE i = m
      <4>1. h[i] = Further(f[m - 1]) /\ h[m - 1] = f[m - 1]
        BY <3>1, <2>0, <2>3
      <4> QED BY <4>1, <3>1, <1>3
    <3>2. CASE i # m /\ i # 0
      <4>1. i \in 0 .. m - 1 /\ i - 1 \in 0 .. m - 1
        BY <3>2, <2>0
      <4> HIDE DEF h
      <4> QED BY <4>1, <3>2, <2>2, <2>3
    <3>3. CASE i # m /\ i = 0
      <4>1. i \in 0 .. m - 1
        BY <3>3, <2>0
      <4> HIDE DEF h
      <4> QED BY <4>1, <3>3, <2>2, <2>3
    <3> QED BY <3>1, <3>2, <3>3
  <2>5. ReachesUpTo(s, m, h)
    <3>1. h = [i \in 0 .. m |-> h[i]]
      OBVIOUS
    <3> HIDE DEF h
    <3> QED BY <3>1, <2>4 DEF ReachesUpTo
  <2> QED BY <2>5, <1>1
<1> QED BY <1>2, <1>3

(* Size steps reach everything: what a step adds has a smaller number than *)
(* what the step before it added.                                          *)
LEMMA ReachedAll ==
  ASSUME parents \in Histories, NEW s \in SUBSET Commits
  PROVE  /\ s \subseteq Reached(s) /\ Reached(s) \subseteq Commits
         /\ \A c \in Reached(s) : ~(Both \subseteq flags[c]) => parents[c] \subseteq Reached(s)
<1> DEFINE down == CHOOSE f : f = [n \in 0 .. Size |->
                     IF n = 0 THEN s
                     ELSE f[n - 1] \cup UNION {parents[c] : c \in {d \in f[n - 1] : ~(Both \subseteq flags[d])}}]
           T == {n \in 0 .. Size : ~(down[n] \subseteq Commits /\ s \subseteq down[n])}
           U == {n \in 1 .. Size : \E c \in down[n] \ down[n - 1] : ~(c <= Size - n)}
<1>0. Size \in Nat /\ Size # 0 /\ \A c \in Commits : c \in Int /\ c >= 1 /\ c <= Size
  BY Bounds DEF Commits
<1>1. Reached(s) = down[Size]
  BY DEF Reached
<1>2. PICK f : ReachesUpTo(s, Size, f)
  BY <1>0, Reachable
<1>3. down = [n \in 0 .. Size |->
                     IF n = 0 THEN s
                     ELSE down[n - 1] \cup UNION {parents[c] : c \in {d \in down[n - 1] : ~(Both \subseteq flags[d])}}]
  BY <1>2 DEF ReachesUpTo, Further
<1> HIDE DEF down
<1>4. /\ down[0] = s
      /\ \A n \in 1 .. Size : down[n] = Further(down[n - 1])
  BY <1>0, <1>3 DEF Further
<1>5. T = {}
  <2> SUFFICES ASSUME T # {} PROVE FALSE
    OBVIOUS
  <2>1. PICK m \in T : \A k \in T : m <= k
    <3>1. T \in SUBSET Nat
      BY <1>0
    <3> HIDE DEF T
    <3> QED BY <3>1, Least
  <2>2. m \in 0 .. Size
    OBVIOUS
  <2>3. CASE m = 0
    BY <1>4, <2>1, <2>3
  <2>4. CASE m # 0
    <3>1. m - 1 \in 0 .. Size /\ ~(m <= m - 1) /\ m \in 1 .. Size
      BY <1>0, <2>2, <2>4
    <3>2. m - 1 \notin T
      <4> HIDE DEF T
      <4> QED BY <2>1, <3>1
    <3>3. down[m - 1] \subseteq Commits /\ s \subseteq down[m - 1]
      BY <3>1, <3>2
    <3>4. down[m] = Further(down[m - 1])
      BY <1>4, <3>1
    <3>5. down[m] \subseteq Commits /\ s \subseteq down[m]
      BY <3>3, <3>4 DEF Further, Histories
    <3> QED BY <2>1, <3>5
  <2> QED BY <2>3, <2>4
<1>6. \A n \in 0 .. Size : down[n] \subseteq Commits /\ s \subseteq down[n]
  BY <1>5
<1>7. U = {}
  <2> SUFFICES ASSUME U # {} PROVE FALSE
    OBVIOUS
  <2>1. PICK m \in U : \A k \in U : m <= k
    <3>1. U \in SUBSET Nat
      BY <1>0
    <3> HIDE DEF U
    <3> QED BY <3>1, Least
  <2>2. m \in 1 .. Size /\ m - 1 \in 0 .. Size
    BY <1>0
  <2>3. PICK c \in down[m] \ down[m - 1] : ~(c <= Size - m)
    BY <2>1
  <2>4. PICK d \in down[m - 1] : ~(Both \subseteq flags[d]) /\ c \in parents[d]
    BY <1>4, <2>2, <2>3 DEF Further
  <2>5. c \in Commits /\ d \in Commits /\ c < d
    BY <1>6, <2>2, <2>4 DEF Histories
  <2>6. d <= Size - (m - 1)
    <3>1. CASE m = 1
      BY <1>0, <2>5, <3>1
    <3>2. CASE m # 1
      <4>1. m - 1 \in 1 .. Size /\ (m - 1) - 1 \in 0 .. Size /\ ~(m <= m - 1)
        BY <1>0, <2>2, <3>2
      <4>2. m - 1 \notin U
        <5> HIDE DEF U
        <5> QED BY <2>1, <4>1
      <4>3. d \notin down[(m - 1) - 1]
        <5>1. SUFFICES ASSUME d \in down[(m - 1) - 1] PROVE FALSE
          OBVIOUS
        <5>2. down[m - 1] = Further(down[(m - 1) - 1])
          BY <1>4, <4>1
        <5>3. c \in down[m - 1]
          BY <2>4, <5>1, <5>2 DEF Further
        <5> QED BY <2>3, <5>3
      <4> QED BY <2>4, <4>1, <4>2, <4>3
    <3> QED BY <3>1, <3>2
  <2> QED BY <1>0, <2>2, <2>3, <2>5, <2>6
<1>8. down[Size] = down[Size - 1]
  <2>1. Size \in 1 .. Size /\ Size - 1 \in 0 .. Size /\ Size - Size = 0
    BY <1>0
  <2>2. down[Size - 1] \subseteq down[Size]
    BY <1>4, <2>1 DEF Further
  <2>3. ASSUME NEW c \in down[Size] \ down[Size - 1] PROVE FALSE
    <3>1. c <= Size - Size
      BY <1>7, <2>1
    <3>2. c \in Commits
      BY <1>6, <2>1, <2>3
    <3> QED BY <1>0, <2>1, <3>1, <3>2
  <2> QED BY <2>2, <2>3
<1>9. \A c \in down[Size] : ~(Both \subseteq flags[c]) => parents[c] \subseteq down[Size]
  <2>1. Size \in 1 .. Size
    BY <1>0
  <2>2. down[Size] = Further(down[Size - 1])
    BY <1>4, <2>1
  <2> QED BY <1>8, <2>2 DEF Further
<1>10. Size \in 0 .. Size
  BY <1>0
<1> QED BY <1>1, <1>6, <1>9, <1>10

(* When the walk for ahead and behind is over, and parents are older, what *)
(* is counted for a start is what only that start has.  Stated for the     *)
(* start a with the mark m against the start b with the mark o.            *)
LEMMA OnlyOneSide ==
  ASSUME parents \in Histories, time \in [Commits -> Int], OrderedClocks,
         left \in Commits, NEW two \in Commits, right = {two},
         WalkInv(parents, time, left, right, flags, queue, found),
         \A c \in queue : "STALE" \in flags[c],
         NEW m \in Both, NEW o \in Both, m # o,
         NEW a \in Commits, NEW b \in Commits,
         Tips(left, right, m) = {a}, Tips(left, right, o) = {b}
  PROVE  \A c : (c \in Reached({left} \cup right) /\ flags[c] \cap Both = {m})
                  <=> c \in AncestorsIn(parents)[a] \ AncestorsIn(parents)[b]
<1> DEFINE A == AncestorsIn(parents)
           Met == Reached({left} \cup right)
<1>1. /\ flags \in [Commits -> SUBSET Marks] /\ queue \in SUBSET Commits
      /\ Sound(parents, left, right, flags) /\ Handed(parents, left, right, flags, queue)
  BY DEF WalkInv
<1>2. /\ Both = {m, o}
      /\ \A c \in Commits : m \in flags[c] => c \in A[a]
      /\ \A c \in Commits : o \in flags[c] => c \in A[b]
      /\ m \in flags[a] /\ o \in flags[b]
      /\ a \in {left} \cup right
  BY <1>1 DEF Sound, Handed, Both, Tips
<1>3. /\ {left} \cup right \subseteq Met /\ Met \subseteq Commits
      /\ \A c \in Met : ~(Both \subseteq flags[c]) => parents[c] \subseteq Met
  <2>1. {left} \cup right \in SUBSET Commits
    OBVIOUS
  <2> QED BY <2>1, ReachedAll
<1> HIDE DEF Met
<1>4. \A c \in queue : c \in Commits /\ m \in flags[c] /\ o \in flags[c]
  BY <1>1, <1>2 DEF Sound
<1>5. ASSUME NEW c \in A[a] \ A[b] PROVE c \in Met /\ flags[c] \cap Both = {m}
  <2>1. c \in Commits
    BY <1>5, AncestorFacts
  <2>2. \A y \in Commits : c \in A[y] => y \notin A[b]
    BY <1>5, AncestorTransitive
  <2>3. \A y \in Commits : c \in A[y] => o \notin flags[y]
    BY <1>2, <2>2
  <2>4. m \in flags[c]
    <3>1. \A y \in queue : c \in A[y] => y = c
      BY <1>4, <2>3
    <3>2. a \in Tips(left, right, m) /\ right \in SUBSET Commits
      OBVIOUS
    <3> QED BY <1>1, <2>1, <3>1, <3>2, <1>5, MarkReaches
  <2>5. c \in Met
    <3>1. a \in Met /\ Met \in SUBSET Commits
      BY <1>2, <1>3
    <3>2. \A y \in Met : c \in A[y] /\ y # c => parents[y] \subseteq Met
      BY <1>2, <1>3, <2>3
    <3> QED BY <2>1, <3>1, <3>2, <1>5, HandedDown
  <2>6. o \notin flags[c]
    BY <2>1, <2>3, AncestorFacts
  <2> QED BY <1>2, <2>4, <2>5, <2>6
<1>6. ASSUME NEW c \in Met, flags[c] \cap Both = {m} PROVE c \in A[a] \ A[b]
  <2>1. c \in Commits /\ m \in flags[c] /\ o \notin flags[c]
    BY <1>2, <1>3, <1>6
  <2>2. c \in A[a]
    BY <1>2, <2>1
  <2>3. ASSUME c \in A[b] PROVE FALSE
    <3>1. PICK y \in queue : c \in A[y] /\ y # c
      <4>1. b \in Tips(left, right, o) /\ right \in SUBSET Commits
        OBVIOUS
      <4> QED BY <1>1, <2>1, <2>3, <4>1, MarkReaches
    <3>2. c \in Commits \ queue /\ flags[c] \cap Both # {}
      BY <1>4, <2>1
    <3>3. time[y] <= time[c]
      BY <3>1, <3>2 DEF WalkInv, InOrder, OrderedClocks
    <3>4. time[c] < time[y]
      BY <1>4, <3>1, AncestorOlder DEF OrderedClocks
    <3>5. time[c] \in Int /\ time[y] \in Int
      BY <1>4, <2>1, <3>1
    <3> QED BY <3>3, <3>4, <3>5
  <2> QED BY <2>2, <2>3
<1> QED BY <1>5, <1>6 DEF Met

-----------------------------------------------------------------------------
(* The inductive invariant. *)

WalkTyped ==
  /\ parents \in Histories /\ time \in [Commits -> Int]
  /\ one \in Commits /\ twos \in SUBSET Commits
  /\ asked \in {"bases", "ahead behind"}
  /\ asked = "ahead behind" => \E two \in Commits : twos = {two}
  /\ at \in {"repeated", "paint", "reduce", "done"}
  /\ left \in Commits /\ right \in SUBSET Commits
  /\ bases \in Seq(Commits) /\ tried \in Nat /\ redundant \in SUBSET Commits

(* Which walk it is: the one of the question, or that of a candidate. *)
Phases ==
  /\ at = "repeated" => one \in twos
  /\ at = "paint" /\ bases = <<>> => left = one /\ right = twos /\ tried = 0 /\ redundant = {}
  /\ at = "paint" /\ bases # <<>> =>
       /\ asked = "bases" /\ tried \in 1 .. Len(bases)
       /\ left = bases[tried] /\ right = Against(tried, redundant)
  /\ at = "reduce" => asked = "bases" /\ bases # <<>> /\ tried <= Len(bases)

(* The candidates are common ancestors, the best ones among them; what is  *)
(* called redundant is below another one; and what has been tried is best  *)
(* or redundant.                                                           *)
Candidates ==
  at \in {"paint", "reduce"} /\ bases # <<>> =>
    /\ Lists(bases, ToSet(bases), time)
    /\ BestCommon \subseteq ToSet(bases) /\ ToSet(bases) \subseteq Common
    /\ \A c \in redundant : \E d \in ToSet(bases) \ {c} : c \in Ancestors[d]
    /\ \A i \in 1 .. tried : i < tried \/ at = "reduce" => bases[i] \in BestCommon \cup redundant

BasesListed == at = "done" /\ asked = "bases" => Lists(bases, BestCommon, time)

(* The counts by the marks they are counted from: the first one, which the *)
(* code calls ahead, is of what only the first commit has.                 *)
LocalFirst ==
  at = "done" /\ asked = "ahead behind" /\ OrderedClocks =>
    counts = <<Unique(one, Other), Unique(Other, one)>>

WalkIInv ==
  /\ WalkTyped
  /\ Phases
  /\ WalkInv(parents, time, left, right, flags, queue, found)
  /\ Candidates
  /\ BasesListed
  /\ LocalFirst

-----------------------------------------------------------------------------
(* It holds at first, and every step preserves it. *)

LEMMA Reference ==
  /\ Ancestors = AncestorsIn(parents)
  /\ Common = CommonOf(parents, one, twos)
  /\ BestCommon = BestOf(parents, one, twos)
BY DEF Ancestors, Common, BestCommon, CommonOf, BestOf

LEMMA SameReference ==
  ASSUME UNCHANGED history
  PROVE  Ancestors' = Ancestors /\ Common' = Common /\ BestCommon' = BestCommon
<1>1. parents' = parents /\ one' = one /\ twos' = twos
  BY DEF history
<1>2. Ancestors' = Ancestors
  BY <1>1 DEF Ancestors
<1>3. Common' = Common
  BY <1>1, <1>2 DEF Common
<1> QED BY <1>2, <1>3 DEF BestCommon

(* There are finitely many commits. *)
LEMMA FiniteCommits == IsFiniteSet(Commits)
<1>1. 1 \in Int /\ Size \in Int
  BY Bounds
<1> QED BY <1>1, FS_Interval DEF Commits

LEMMA WalkInit == Init => WalkIInv
<1> SUFFICES ASSUME Init PROVE WalkIInv
  OBVIOUS
<1>1. parents \in Histories
  BY DEF Init, Histories
<1>2. time \in [Commits -> Int]
  BY ClocksTell DEF Init
<1>3. /\ one \in Commits /\ twos \in SUBSET Commits /\ left = one /\ right = twos
      /\ at \in {"repeated", "paint"} /\ (at = "repeated" => one \in twos)
  BY DEF Init
<1>4. asked = "ahead behind" => \E two \in Commits : twos = {two}
  <2> SUFFICES ASSUME asked = "ahead behind" PROVE \E two \in Commits : twos = {two}
    OBVIOUS
  <2>1. Cardinality(twos) = 1
    BY DEF Init
  <2>2. IsFiniteSet(twos)
    BY <1>3, FiniteCommits, FS_Subset
  <2>3. \E two : twos = {two}
    BY <2>1, <2>2, FS_Singleton
  <2> QED BY <1>3, <2>3
<1>5. bases = <<>> /\ tried = 0 /\ redundant = {} /\ asked \in {"bases", "ahead behind"}
  BY DEF Init
<1>6. WalkTyped
  <2>1. <<>> \in Seq(Commits)
    OBVIOUS
  <2> QED BY <1>1, <1>2, <1>3, <1>4, <1>5, <2>1 DEF WalkTyped
<1>7. Phases
  BY <1>3, <1>5 DEF Phases
<1>8. WalkInv(parents, time, left, right, flags, queue, found)
  <2>1. flags = Started(left, right) /\ queue = {left} \cup right /\ found = <<>>
    BY DEF Init
  <2> QED BY <1>1, <1>2, <1>3, <2>1, Starting
<1>9. Candidates /\ BasesListed /\ LocalFirst
  BY <1>3, <1>5 DEF Candidates, BasesListed, LocalFirst
<1> QED BY <1>6, <1>7, <1>8, <1>9 DEF WalkIInv

(* A commit is the best of what it has in common with itself. *)
LEMMA RepeatedIsBest ==
  ASSUME NEW g \in Histories, NEW c \in Commits, NEW r \in SUBSET Commits, c \in r
  PROVE  BestOf(g, c, r) = {c}
<1> DEFINE A == AncestorsIn(g)
           C == CommonOf(g, c, r)
<1>1. c \in C /\ \A d \in C : d \in A[c] /\ d \in Commits
  BY AncestorFacts DEF CommonOf
<1>2. ASSUME NEW d \in C \ {c} PROVE c \notin A[d]
  <2>1. d <= c /\ d \in Int /\ c \in Int
    BY <1>1, AncestorFacts DEF Commits
  <2>2. c \in A[d] => c <= d
    BY <1>1, AncestorFacts
  <2> QED BY <2>1, <2>2
<1> HIDE DEF A, C
<1>3. \A d \in C : d # c => d \notin {e \in C : \A f \in C \ {e} : e \notin A[f]}
  BY <1>1
<1>4. {e \in C : \A f \in C \ {e} : e \notin A[f]} = {c}
  BY <1>1, <1>2, <1>3
<1> QED BY <1>4 DEF BestOf, A, C

LEMMA RepeatedStep ==
  ASSUME WalkIInv, Repeated PROVE WalkIInv'
<1>1. /\ at = "repeated" /\ at' = "done" /\ counts' = <<0, 0>>
      /\ bases' = IF asked = "bases" THEN <<one>> ELSE <<>>
      /\ UNCHANGED <<history, walk, tried, redundant>>
  BY DEF Repeated
<1>2. WalkTyped /\ one \in twos
  BY <1>1 DEF WalkIInv, Phases
<1>3. WalkTyped'
  <2>1. one \in Commits
    BY <1>2 DEF WalkTyped
  <2>2. <<one>> \in Seq(Commits) /\ <<>> \in Seq(Commits)
    BY <2>1
  <2>3. bases' \in Seq(Commits)
    BY <1>1, <2>2
  <2> QED BY <1>1, <1>2, <2>3 DEF WalkTyped, history, walk
<1>4. WalkInv(parents, time, left, right, flags, queue, found)'
  BY <1>1 DEF WalkIInv, history, walk
<1>5. Phases' /\ Candidates'
  BY <1>1 DEF Phases, Candidates
<1>6. BasesListed'
  <2> SUFFICES ASSUME asked = "bases" PROVE Lists(<<one>>, BestCommon, time)
    BY <1>1, SameReference DEF BasesListed, history
  <2>1. BestCommon = {one}
    BY <1>2, RepeatedIsBest, Reference DEF WalkTyped
  <2>0. one \in Commits
    BY <1>2 DEF WalkTyped
  <2>2. <<one>> \in Seq(Commits) /\ DOMAIN <<one>> = {1} /\ <<one>>[1] = one
    BY <2>0
  <2>3. ToSet(<<one>>) = {one}
    BY <2>2 DEF ToSet
  <2>4. \A i, j \in DOMAIN <<one>> : i = j /\ ~(i < j)
    BY <2>2
  <2> QED BY <2>1, <2>2, <2>3, <2>4 DEF Lists
<1>7. LocalFirst'
  <2> SUFFICES ASSUME asked = "ahead behind"
               PROVE  <<0, 0>> = <<Unique(one, Other), Unique(Other, one)>>
    BY <1>1, SameReference DEF LocalFirst, Unique, Other, history
  <2>1. Other = one
    BY <1>2 DEF WalkTyped, Other
  <2>2. Ancestors[one] \ Ancestors[one] = {}
    OBVIOUS
  <2> QED BY <2>1, <2>2, FS_EmptySet DEF Unique
<1> QED BY <1>3, <1>4, <1>5, <1>6, <1>7 DEF WalkIInv

LEMMA PopStep ==
  ASSUME WalkIInv, Pop PROVE WalkIInv'
<1>1. UNCHANGED <<history, at, left, right, outcome>> /\ at = "paint"
  BY DEF Pop
<1>2. WalkTyped'
  BY <1>1 DEF WalkIInv, WalkTyped, history, outcome
<1>3. Phases'
  BY <1>1 DEF WalkIInv, Phases, Against, history, outcome
<1>4. WalkInv(parents, time, left, right, flags, queue, found)'
  <2>1. WalkInv(parents, time, left, right, flags', queue', found')
    BY PopKeeps DEF WalkIInv, WalkTyped
  <2> QED BY <1>1, <2>1 DEF history
<1>5. Candidates'
  BY <1>1, SameReference DEF WalkIInv, Candidates, history, outcome
<1>6. BasesListed' /\ LocalFirst'
  BY <1>1 DEF BasesListed, LocalFirst
<1> QED BY <1>2, <1>3, <1>4, <1>5, <1>6 DEF WalkIInv

LEMMA FilterStep ==
  ASSUME WalkIInv, Filter PROVE WalkIInv'
<1> DEFINE kept == {c \in Commits : ~Stale(c)}
           K == ToSet(found) \cap kept
<1>1. /\ Walked /\ asked = "bases" /\ bases = <<>> /\ at = "paint"
      /\ bases' = Sorted(found, kept)
      /\ at' = IF Len(bases') > 1 THEN "reduce" ELSE "done"
      /\ UNCHANGED <<history, walk, tried, redundant, counts>>
  BY DEF Filter, NeedsReduction, Walked
<1>2. left = one /\ right = twos /\ tried = 0 /\ redundant = {}
  BY <1>1 DEF WalkIInv, Phases
<1>3. WalkTyped /\ WalkInv(parents, time, left, right, flags, queue, found)
  BY DEF WalkIInv
<1>4. kept = {c \in Commits : "STALE" \notin flags[c]}
  BY DEF Stale
<1> HIDE DEF kept
<1>5. Lists(bases', K, time)
  <2>1. Holds(found, ToSet(found))
    BY <1>3 DEF WalkInv, Listed, Holds
  <2>2. time \in [Commits -> Int]
    BY <1>3 DEF WalkTyped
  <2>3. Lists(Sorted(found, kept), ToSet(found) \cap kept, time)
    BY <2>1, <2>2, SortedLists
  <2> QED BY <1>1, <2>3
<1>6. K \subseteq Common /\ BestCommon \subseteq K
  <2>1. \A c \in queue : "STALE" \in flags[c]
    BY <1>1, OnlyStaleWait
  <2>2. parents \in Histories /\ left \in Commits /\ right \in SUBSET Commits
    BY <1>3 DEF WalkTyped
  <2>3. K \subseteq CommonOf(parents, left, right) /\ BestOf(parents, left, right) \subseteq K
    BY <1>3, <1>4, <2>1, <2>2, ResultsEnough
  <2> QED BY <1>2, <2>3, Reference
<1> HIDE DEF K
<1>7. bases' \in Seq(Commits) /\ ToSet(bases') = K
  BY <1>5 DEF Lists
<1>8. WalkTyped'
  BY <1>1, <1>3, <1>7 DEF WalkTyped, history, walk
<1>9. WalkInv(parents, time, left, right, flags, queue, found)'
  BY <1>1, <1>3 DEF history, walk
<1>10. CASE Len(bases') > 1
  <2>1. at' = "reduce" /\ bases' # <<>>
    BY <1>1, <1>10
  <2>2. Phases'
    <3>1. Len(bases') \in Nat /\ tried' = 0 /\ asked' = "bases"
      BY <1>1, <1>2, <1>7 DEF history
    <3> QED BY <2>1, <3>1 DEF Phases
  <2>3. Candidates'
    <3>1. tried' = 0 /\ redundant' = {} /\ time' = time
      BY <1>1, <1>2 DEF history
    <3>2. BestCommon' = BestCommon /\ Common' = Common
      BY <1>1, SameReference
    <3> QED BY <1>5, <1>6, <1>7, <3>1, <3>2 DEF Candidates
  <2>4. BasesListed' /\ LocalFirst'
    BY <2>1 DEF BasesListed, LocalFirst
  <2> QED BY <1>8, <1>9, <2>2, <2>3, <2>4 DEF WalkIInv
<1>11. CASE ~(Len(bases') > 1)
  <2>1. at' = "done" /\ asked' = "bases" /\ time' = time
    BY <1>1, <1>11 DEF history
  <2>2. \A a, b \in K : a = b
    <3>1. Len(bases') \in Nat /\ DOMAIN bases' = 1 .. Len(bases')
      BY <1>7
    <3>2. \A i, j \in DOMAIN bases' : i = j
      BY <1>11, <3>1
    <3> QED BY <1>7, <3>2 DEF ToSet
  <2>3. K = BestCommon
    <3>1. parents \in Histories /\ one \in Commits /\ twos \in SUBSET Commits
      BY <1>3 DEF WalkTyped
    <3> QED BY <1>6, <2>2, <3>1, Reference, OneIsBest
  <2>4. BasesListed'
    <3>1. BestCommon' = BestCommon
      BY <1>1, SameReference
    <3> QED BY <1>5, <2>1, <2>3, <3>1 DEF BasesListed
  <2>5. Phases' /\ Candidates' /\ LocalFirst'
    BY <2>1 DEF Phases, Candidates, LocalFirst
  <2> QED BY <1>8, <1>9, <2>4, <2>5 DEF WalkIInv
<1> QED BY <1>10, <1>11

LEMMA ReduceStep ==
  ASSUME WalkIInv, Reduce PROVE WalkIInv'
<1>1. /\ at = "reduce" /\ tried < Len(bases) /\ tried' = tried + 1
      /\ UNCHANGED <<history, bases, redundant, counts>>
  BY DEF Reduce
<1>2. WalkTyped /\ WalkInv(parents, time, left, right, flags, queue, found)
  BY DEF WalkIInv
<1>3. asked = "bases" /\ bases # <<>> /\ bases \in Seq(Commits) /\ tried \in Nat
  BY <1>1, <1>2 DEF WalkIInv, Phases, WalkTyped
<1>4. tried' \in 1 .. Len(bases) /\ tried' \in Nat
  BY <1>1, <1>3
<1>5. /\ Lists(bases, ToSet(bases), time)
      /\ BestCommon \subseteq ToSet(bases) /\ ToSet(bases) \subseteq Common
      /\ \A c \in redundant : \E d \in ToSet(bases) \ {c} : c \in Ancestors[d]
      /\ \A i \in 1 .. tried : bases[i] \in BestCommon \cup redundant
  BY <1>1, <1>3 DEF WalkIInv, Candidates
<1>6. /\ bases' = bases /\ time' = time /\ redundant' = redundant /\ asked' = asked
      /\ parents' = parents
      /\ BestCommon' = BestCommon /\ Common' = Common /\ Ancestors' = Ancestors
  BY <1>1, SameReference DEF history
<1>7. \A i \in 1 .. tried' : i = tried' \/ i \in 1 .. tried
  BY <1>1, <1>3
<1>8. CASE bases[tried'] \in redundant
  <2>1. at' = at /\ UNCHANGED walk
    BY <1>8 DEF Reduce
  <2>2. WalkTyped'
    BY <1>1, <1>2, <1>4, <2>1 DEF WalkTyped, history, walk
  <2>3. WalkInv(parents, time, left, right, flags, queue, found)'
    BY <1>2, <1>6, <2>1 DEF walk
  <2>4. Phases'
    BY <1>1, <1>3, <1>4, <1>6, <2>1 DEF Phases
  <2>5. Candidates'
    <3>1. \A i \in 1 .. tried' : bases[i] \in BestCommon \cup redundant
      BY <1>5, <1>7, <1>8
    <3> QED BY <1>5, <1>6, <3>1 DEF Candidates
  <2>6. BasesListed' /\ LocalFirst'
    BY <1>1, <2>1 DEF BasesListed, LocalFirst
  <2> QED BY <2>2, <2>3, <2>4, <2>5, <2>6 DEF WalkIInv
<1>9. CASE bases[tried'] \notin redundant
  <2>1. at' = "paint" /\ Restart(bases[tried'], Against(tried', redundant))
    BY <1>9 DEF Reduce
  <2>2. /\ left' = bases[tried'] /\ right' = Against(tried', redundant)
        /\ flags' = Started(left', right') /\ queue' = {left'} \cup right'
        /\ roots' = {} /\ found' = <<>>
    BY <2>1 DEF Restart
  <2>3. left' \in Commits /\ right' \in SUBSET Commits
    <3>1. ToSet(bases) \subseteq Commits
      BY <1>3 DEF ToSet
    <3> QED BY <1>3, <1>4, <2>2, <3>1 DEF Against
  <2>4. WalkTyped'
    BY <1>1, <1>2, <1>4, <2>1, <2>3 DEF WalkTyped, history
  <2>5. WalkInv(parents, time, left, right, flags, queue, found)'
    <3>1. parents \in Histories /\ time \in [Commits -> Int]
      BY <1>2 DEF WalkTyped
    <3>2. WalkInv(parents, time, left', right', Started(left', right'), {left'} \cup right', <<>>)
      BY <2>3, <3>1, Starting
    <3> QED BY <1>6, <2>2, <3>2
  <2>6. Phases'
    BY <1>3, <1>4, <1>6, <2>1, <2>2 DEF Phases, Against
  <2>7. Candidates'
    <3>1. \A i \in 1 .. tried' : i < tried' => bases[i] \in BestCommon \cup redundant
      BY <1>5, <1>7
    <3> QED BY <1>5, <1>6, <2>1, <3>1 DEF Candidates
  <2>8. BasesListed' /\ LocalFirst'
    BY <2>1 DEF BasesListed, LocalFirst
  <2> QED BY <2>4, <2>5, <2>6, <2>7, <2>8 DEF WalkIInv
<1> QED BY <1>8, <1>9

LEMMA ReducedStep ==
  ASSUME WalkIInv, Reduced PROVE WalkIInv'
<1> DEFINE B == ToSet(bases)
           A == AncestorsIn(parents)
<1>1. /\ Walked /\ at = "paint" /\ asked = "bases" /\ bases # <<>> /\ at' = "reduce"
      /\ redundant' = redundant
           \cup (IF "PARENT2" \in flags[left] THEN {left} ELSE {})
           \cup {c \in right : "PARENT1" \in flags[c]}
      /\ UNCHANGED <<history, walk, bases, tried, counts>>
  BY DEF Reduced, Walked
<1>2. WalkTyped /\ WalkInv(parents, time, left, right, flags, queue, found)
  BY DEF WalkIInv
<1>3. /\ parents \in Histories /\ left \in Commits /\ right \in SUBSET Commits
      /\ one \in Commits /\ twos \in SUBSET Commits /\ bases \in Seq(Commits) /\ tried \in Nat
  BY <1>2 DEF WalkTyped
<1>4. tried \in 1 .. Len(bases) /\ left = bases[tried] /\ right = B \ (redundant \cup {left})
  BY <1>1 DEF WalkIInv, Phases, Against
<1>5. /\ Lists(bases, B, time) /\ BestCommon \subseteq B /\ B \subseteq Common
      /\ \A c \in redundant : \E d \in B \ {c} : c \in A[d]
      /\ \A i \in 1 .. tried : i < tried => bases[i] \in BestCommon \cup redundant
  BY <1>1, Reference DEF WalkIInv, Candidates
<1>6. left \in B
  BY <1>3, <1>4 DEF ToSet
<1>7. Sound(parents, left, right, flags)
  BY <1>2 DEF WalkInv
<1>8. ASSUME NEW c \in redundant' PROVE \E d \in B \ {c} : c \in A[d]
  <2>1. CASE c \in redundant
    BY <1>5, <2>1
  <2>2. CASE c = left /\ "PARENT2" \in flags[left]
    <3>1. \E x \in right : left \in A[x]
      BY <1>3, <1>7, <2>2 DEF Sound, Both, Tips
    <3> QED BY <1>4, <2>2, <3>1
  <2>3. CASE c \in right /\ "PARENT1" \in flags[c]
    <3>1. c \in A[left]
      BY <1>3, <1>7, <2>3 DEF Sound, Both, Tips
    <3>2. left # c
      BY <1>4, <2>3
    <3> QED BY <1>6, <3>1, <3>2
  <2> QED BY <1>1, <2>1, <2>2, <2>3
<1>9. left \in BestCommon \cup redundant'
  <2> SUFFICES ASSUME left \notin BestCommon PROVE left \in redundant'
    OBVIOUS
  <2>1. PICK b \in BestCommon : left \in A[b]
    <3>1. left \in CommonOf(parents, one, twos)
      BY <1>5, <1>6, Reference
    <3> QED BY <1>3, <3>1, BestAbove, Reference
  <2>2. b \notin redundant
    <3> SUFFICES ASSUME b \in redundant PROVE FALSE
      OBVIOUS
    <3>1. PICK d \in B \ {b} : b \in A[d]
      BY <1>5
    <3>2. d \in Common \ {b}
      BY <1>5
    <3> QED BY <3>1, <3>2, Reference DEF BestCommon
  <2>3. b \in right
    BY <1>4, <1>5, <2>2
  <2>4. "PARENT2" \in flags[left]
    <3>1. \A c \in queue : "STALE" \in flags[c]
      BY <1>1, OnlyStaleWait
    <3> QED BY <1>2, <1>3, <2>1, <2>3, <3>1, RedundantIsMarked
  <2> QED BY <1>1, <2>4
<1>10. redundant' \in SUBSET Commits
  BY <1>1, <1>2 DEF WalkTyped
<1> HIDE DEF B
<1>11. /\ bases' = bases /\ time' = time /\ tried' = tried /\ asked' = asked /\ parents' = parents
       /\ BestCommon' = BestCommon /\ Common' = Common /\ Ancestors' = Ancestors
  BY <1>1, SameReference DEF history
<1>12. WalkTyped'
  BY <1>1, <1>2, <1>10 DEF WalkTyped, history, walk
<1>13. WalkInv(parents, time, left, right, flags, queue, found)'
  BY <1>1, <1>2 DEF history, walk
<1>14. Phases'
  <2>1. tried <= Len(bases)
    BY <1>3, <1>4
  <2> QED BY <1>1, <1>11, <2>1 DEF Phases
<1>15. Candidates'
  <2>1. \A i \in 1 .. tried : i = tried \/ i < tried
    BY <1>3
  <2>2. \A i \in 1 .. tried : bases[i] \in BestCommon \cup redundant'
    <3>1. redundant \subseteq redundant'
      BY <1>1
    <3> QED BY <1>4, <1>5, <1>9, <2>1, <3>1
  <2>3. \A c \in redundant' : \E d \in B \ {c} : c \in Ancestors[d]
    BY <1>8, Reference
  <2> QED BY <1>5, <1>11, <2>2, <2>3 DEF Candidates, B
<1>16. BasesListed' /\ LocalFirst'
  BY <1>1 DEF BasesListed, LocalFirst
<1> QED BY <1>12, <1>13, <1>14, <1>15, <1>16 DEF WalkIInv

LEMMA KeepStep ==
  ASSUME WalkIInv, Keep PROVE WalkIInv'
<1>1. /\ at = "reduce" /\ tried = Len(bases) /\ at' = "done"
      /\ bases' = Sorted(bases, Commits \ redundant)
      /\ UNCHANGED <<history, walk, tried, redundant, counts>>
  BY DEF Keep
<1>2. WalkTyped /\ WalkInv(parents, time, left, right, flags, queue, found)
  BY DEF WalkIInv
<1>3. asked = "bases" /\ bases # <<>> /\ bases \in Seq(Commits)
  BY <1>1, <1>2 DEF WalkIInv, Phases, WalkTyped
<1>4. /\ Lists(bases, ToSet(bases), time)
      /\ BestCommon \subseteq ToSet(bases) /\ ToSet(bases) \subseteq Common
      /\ \A c \in redundant : \E d \in ToSet(bases) \ {c} : c \in Ancestors[d]
      /\ \A i \in 1 .. Len(bases) : bases[i] \in BestCommon \cup redundant
  BY <1>1, <1>3 DEF WalkIInv, Candidates
<1>5. Lists(bases', ToSet(bases) \cap (Commits \ redundant), time)
  <2>1. Holds(bases, ToSet(bases))
    BY <1>4 DEF Lists, Holds
  <2>2. time \in [Commits -> Int]
    BY <1>2 DEF WalkTyped
  <2>3. Lists(Sorted(bases, Commits \ redundant), ToSet(bases) \cap (Commits \ redundant), time)
    BY <2>1, <2>2, SortedLists
  <2> QED BY <1>1, <2>3
<1>6. ToSet(bases) \cap (Commits \ redundant) = BestCommon
  <2>1. ToSet(bases) \subseteq BestCommon \cup redundant
    <3>1. DOMAIN bases = 1 .. Len(bases)
      BY <1>3
    <3> QED BY <1>4, <3>1 DEF ToSet
  <2>2. ToSet(bases) \subseteq Commits
    BY <1>3 DEF ToSet
  <2>3. BestCommon \cap redundant = {}
    <3> SUFFICES ASSUME NEW b \in BestCommon, b \in redundant PROVE FALSE
      OBVIOUS
    <3>1. PICK d \in ToSet(bases) \ {b} : b \in Ancestors[d]
      BY <1>4
    <3>2. d \in Common \ {b}
      BY <1>4
    <3> QED BY <3>1, <3>2 DEF BestCommon
  <2> QED BY <1>4, <2>1, <2>2, <2>3
<1>7. Lists(bases', BestCommon, time)
  BY <1>5, <1>6
<1>8. bases' \in Seq(Commits)
  BY <1>7 DEF Lists
<1>9. time' = time /\ asked' = asked /\ BestCommon' = BestCommon
  BY <1>1, SameReference DEF history
<1>10. WalkTyped'
  BY <1>1, <1>2, <1>8 DEF WalkTyped, history, walk
<1>11. WalkInv(parents, time, left, right, flags, queue, found)'
  BY <1>1, <1>2 DEF history, walk
<1>12. BasesListed'
  BY <1>7, <1>9 DEF BasesListed
<1>13. Phases' /\ Candidates' /\ LocalFirst'
  BY <1>1, <1>3, <1>9 DEF Phases, Candidates, LocalFirst
<1> QED BY <1>10, <1>11, <1>12, <1>13 DEF WalkIInv

LEMMA CountStep ==
  ASSUME WalkIInv, Count PROVE WalkIInv'
<1> DEFINE met == Reached({one} \cup twos)
           only(mark) == {c \in met : flags[c] \cap Both = {mark}}
<1>1. /\ Walked /\ at = "paint" /\ asked = "ahead behind" /\ at' = "done"
      /\ counts' = <<Cardinality(only("PARENT1")), Cardinality(only("PARENT2"))>>
      /\ UNCHANGED <<history, walk, bases, tried, redundant>>
  BY DEF Count, Walked
<1>2. WalkTyped /\ WalkInv(parents, time, left, right, flags, queue, found)
  BY DEF WalkIInv
<1>3. left = one /\ right = twos
  BY <1>1 DEF WalkIInv, Phases
<1>4. WalkTyped'
  BY <1>1, <1>2 DEF WalkTyped, history, walk
<1>5. WalkInv(parents, time, left, right, flags, queue, found)'
  BY <1>1, <1>2 DEF history, walk
<1>6. Phases' /\ Candidates' /\ BasesListed'
  BY <1>1 DEF Phases, Candidates, BasesListed, history
<1>7. ASSUME OrderedClocks
      PROVE  counts' = <<Unique(one, Other), Unique(Other, one)>>
  <2>1. PICK two \in Commits : twos = {two}
    BY <1>1, <1>2 DEF WalkTyped
  <2>2. Other = two
    BY <2>1 DEF Other
  <2>3. parents \in Histories /\ time \in [Commits -> Int] /\ left \in Commits /\ right = {two}
    BY <1>2, <1>3, <2>1 DEF WalkTyped
  <2>4. \A c \in queue : "STALE" \in flags[c]
    BY <1>1, OnlyStaleWait
  <2>5. /\ "PARENT1" \in Both /\ "PARENT2" \in Both /\ "PARENT1" # "PARENT2"
        /\ Tips(left, right, "PARENT1") = {left} /\ Tips(left, right, "PARENT2") = {two}
    BY <2>3 DEF Both, Tips
  <2>6. only("PARENT1") = AncestorsIn(parents)[left] \ AncestorsIn(parents)[two]
    <3>1. WalkInv(parents, time, left, right, flags, queue, found)
      BY <1>2
    <3>2. \A c : (c \in Reached({left} \cup right) /\ flags[c] \cap Both = {"PARENT1"})
                   <=> c \in AncestorsIn(parents)[left] \ AncestorsIn(parents)[two]
      BY <1>7, <2>3, <2>4, <2>5, <3>1, OnlyOneSide
    <3> QED BY <1>3, <3>2
  <2>7. only("PARENT2") = AncestorsIn(parents)[two] \ AncestorsIn(parents)[left]
    <3>1. WalkInv(parents, time, left, right, flags, queue, found)
      BY <1>2
    <3>2. \A c : (c \in Reached({left} \cup right) /\ flags[c] \cap Both = {"PARENT2"})
                   <=> c \in AncestorsIn(parents)[two] \ AncestorsIn(parents)[left]
      BY <1>7, <2>3, <2>4, <2>5, <3>1, OnlyOneSide
    <3> QED BY <1>3, <3>2
  <2> HIDE DEF only
  <2> QED BY <1>1, <1>3, <2>2, <2>6, <2>7, Reference DEF Unique
<1>8. LocalFirst'
  <2>1. time' = time /\ parents' = parents /\ one' = one /\ twos' = twos /\ Ancestors' = Ancestors
    BY <1>1, SameReference DEF history
  <2>2. OrderedClocks' = OrderedClocks
    BY <2>1 DEF OrderedClocks
  <2> QED BY <1>7, <2>1, <2>2 DEF LocalFirst, Unique, Other
<1> QED BY <1>4, <1>5, <1>6, <1>8 DEF WalkIInv

LEMMA WalkStutters ==
  ASSUME WalkIInv, UNCHANGED vars PROVE WalkIInv'
<1>1. UNCHANGED <<history, at, walk, outcome>>
  BY DEF vars
<1>2. BestCommon' = BestCommon /\ Common' = Common /\ Ancestors' = Ancestors
  BY <1>1, SameReference
<1>3. WalkTyped'
  BY <1>1 DEF WalkIInv, WalkTyped, history, walk, outcome
<1>4. Phases'
  BY <1>1 DEF WalkIInv, Phases, Against, history, walk, outcome
<1>5. WalkInv(parents, time, left, right, flags, queue, found)'
  BY <1>1 DEF WalkIInv, history, walk
<1>6. Candidates'
  BY <1>1, <1>2 DEF WalkIInv, Candidates, history, outcome
<1>7. BasesListed'
  BY <1>1, <1>2 DEF WalkIInv, BasesListed, history, outcome
<1>8. LocalFirst'
  <2>1. time' = time /\ parents' = parents
    BY <1>1 DEF history
  <2>2. OrderedClocks' = OrderedClocks
    BY <2>1 DEF OrderedClocks
  <2> QED BY <1>1, <1>2, <2>2 DEF WalkIInv, LocalFirst, Unique, Other, history, outcome
<1> QED BY <1>3, <1>4, <1>5, <1>6, <1>7, <1>8 DEF WalkIInv

-----------------------------------------------------------------------------
(* The walk keeps its invariant, whatever the histories and the clocks.    *)
THEOREM WalkInvariant == Spec => []WalkIInv
<1>1. Init => WalkIInv
  BY WalkInit
<1>2. WalkIInv /\ [Next]_vars => WalkIInv'
  <2> SUFFICES ASSUME WalkIInv, [Next]_vars PROVE WalkIInv'
    OBVIOUS
  <2>0. CASE Repeated
    BY <2>0, RepeatedStep
  <2>1. CASE Pop
    BY <2>1, PopStep
  <2>2. CASE Filter
    BY <2>2, FilterStep
  <2>3. CASE Reduce
    BY <2>3, ReduceStep
  <2>4. CASE Reduced
    BY <2>4, ReducedStep
  <2>5. CASE Keep
    BY <2>5, KeepStep
  <2>6. CASE Count
    BY <2>6, CountStep
  <2>7. CASE UNCHANGED vars
    BY <2>7, WalkStutters
  <2> QED BY <2>0, <2>1, <2>2, <2>3, <2>4, <2>5, <2>6, <2>7 DEF Next
<1> QED BY <1>1, <1>2, PTL DEF Spec

(* git_merge_bases_many answers with exactly the best common ancestors,    *)
(* each once and the youngest first, for every history and whatever the    *)
(* clocks said, although the walk stops as soon as only stale commits wait *)
(* and pops commits of the same time in any order.                         *)
THEOREM BasesAreExact == Spec => []BasesExact
<1>1. ASSUME WalkIInv PROVE BasesExact
  <2> SUFFICES ASSUME at = "done", asked = "bases"
               PROVE  /\ ToSet(bases) = BestCommon
                      /\ Len(bases) = Cardinality(BestCommon)
                      /\ \A i, j \in DOMAIN bases : i < j => time[bases[i]] >= time[bases[j]]
    BY DEF BasesExact
  <2>1. Lists(bases, BestCommon, time)
    BY <1>1 DEF WalkIInv, BasesListed
  <2>2. Holds(bases, BestCommon)
    BY <2>1 DEF Lists, Holds
  <2>3. Len(bases) = Cardinality(BestCommon)
    BY <2>2, ListLength
  <2> QED BY <2>1, <2>3 DEF Lists
<1> QED BY <1>1, WalkInvariant, PTL

(* git_graph_ahead_behind counts exactly the commits that only one side    *)
(* has, for every history whose clocks put parents before their children;  *)
(* LocalFirst moreover says which of the two numbers is which in the code. *)
THEOREM CountsAreExact == Spec => []CountsExact
<1>1. WalkIInv => CountsExact
  BY DEF WalkIInv, LocalFirst, CountsExact
<1> QED BY <1>1, WalkInvariant, PTL
=============================================================================
