-------------------------- MODULE GlobalArgProofs --------------------------
(***************************************************************************)
(* For any digits and any number of keys: the shape of the two arguments,  *)
(* that a command gets one only if keys were typed for it, and that it     *)
(* gets the one which its keys denote.  The commands build an argument key *)
(* by key out of the last one alone; the docstring reads the keys as a     *)
(* whole.  That both agree is shown for one key more: of the value of the  *)
(* digits, the sign, the powers of four, and what the last figure is.      *)
(***************************************************************************)
EXTENDS GlobalArg, SequenceTheorems, FiniteSetTheorems, TLAPS

-----------------------------------------------------------------------------
(* Numbers: what stands for induction over the keys. *)

(* A set of natural numbers that is not empty has a least element. *)
LEMMA Least ==
  ASSUME NEW T \in SUBSET Nat, T # {}
  PROVE  \E m \in T : \A n \in T : m <= n
<1> DEFINE Downs == {0 .. n : n \in T}
<1>1. Downs \subseteq FiniteSubsetsOf(Nat) /\ Downs # {}
  <2>1. ASSUME NEW n \in T PROVE 0 .. n \in FiniteSubsetsOf(Nat)
    <3>1. n \in Int /\ 0 \in Int /\ 0 .. n \in SUBSET Nat
      OBVIOUS
    <3> QED BY <3>1, FS_Interval DEF FiniteSubsetsOf
  <2> QED BY <2>1
<1>2. PICK D \in Downs : \A C \in Downs : <<C, D>> \notin StrictSubsetOrdering(Nat)
  <2> HIDE DEF Downs
  <2> QED BY <1>1, WFMin, FS_StrictSubsetOrderingWellFounded
<1>3. PICK m \in T : D = 0 .. m
  OBVIOUS
<1>4. ASSUME NEW n \in T, n < m PROVE FALSE
  <2>1. 0 .. n \in Downs /\ 0 .. n \in SUBSET Nat /\ 0 .. m \in SUBSET Nat
    OBVIOUS
  <2>2. m \in 0 .. m /\ m \notin 0 .. n
    BY <1>4
  <2>3. 0 .. n \subseteq 0 .. m /\ 0 .. n # 0 .. m
    BY <1>4, <2>2
  <2> QED BY <1>2, <1>3, <2>1, <2>3 DEF StrictSubsetOrdering
<1> QED BY <1>4

(* What holds of 0, and of a number whenever of the one before it, holds   *)
(* of all up to n.                                                         *)
LEMMA Upwards ==
  ASSUME NEW n \in Nat, NEW T, 0 \in T, \A i \in 1 .. n : i - 1 \in T => i \in T
  PROVE  \A i \in 0 .. n : i \in T
<1> DEFINE U == {i \in 0 .. n : i \notin T}
<1> SUFFICES ASSUME U # {} PROVE FALSE
  OBVIOUS
<1>1. PICK m \in U : \A i \in U : m <= i
  <2>1. U \in SUBSET Nat
    OBVIOUS
  <2> HIDE DEF U
  <2> QED BY <2>1, Least
<1>2. m # 0 /\ m \in 1 .. n
  OBVIOUS
<1>3. m - 1 \in 0 .. n /\ m - 1 \notin U
  BY <1>1, <1>2
<1> QED BY <1>2, <1>3

-----------------------------------------------------------------------------
(* The value of the digits. *)

Valued(v, x) == IF x \in Digits THEN 10 * v + x ELSE v

(* f counts the digits of the first n keys. *)
Values(keys, n, f) ==
  f = [i \in 0 .. n |-> IF i = 0 THEN 0 ELSE IF keys[i] \in Digits
                                              THEN 10 * f[i - 1] + keys[i] ELSE f[i - 1]]

LEMMA ValuesStep ==
  ASSUME NEW keys, NEW n \in Nat, NEW f, Values(keys, n, f)
  PROVE  f[0] = 0 /\ \A i \in 1 .. n : f[i] = Valued(f[i - 1], keys[i])
<1>1. 0 \in 0 .. n /\ \A i \in 1 .. n : i \in 0 .. n /\ i # 0
  OBVIOUS
<1> QED BY <1>1 DEF Values, Valued

LEMMA ValuesExist ==
  ASSUME NEW keys, NEW n \in Nat
  PROVE  \E f : Values(keys, n, f)
<1> DEFINE T == {k \in 0 .. n : \E f : Values(keys, k, f)}
<1>1. 0 \in T
  <2> DEFINE e == [i \in 0 .. 0 |-> 0]
  <2>1. Values(keys, 0, e)
    BY DEF Values
  <2> QED BY <2>1
<1>2. ASSUME NEW m \in 1 .. n, m - 1 \in T PROVE m \in T
  <2>1. PICK f : Values(keys, m - 1, f)
    BY <1>2
  <2> DEFINE g == [i \in 0 .. m |-> IF i = m THEN Valued(f[m - 1], keys[m]) ELSE f[i]]
  <2>2. f[0] = 0 /\ \A i \in 1 .. (m - 1) : f[i] = Valued(f[i - 1], keys[i])
    <3>1. m - 1 \in Nat
      OBVIOUS
    <3> QED BY <2>1, <3>1, ValuesStep
  <2>3. g[0] = 0 /\ \A i \in 0 .. (m - 1) : g[i] = f[i]
    BY <2>2
  <2>4. \A i \in 1 .. m : g[i] = Valued(g[i - 1], keys[i])
    <3>0. \A i \in 1 .. m : g[i - 1] = f[i - 1]
      <4>1. \A i \in 1 .. m : i - 1 \in 0 .. (m - 1)
        OBVIOUS
      <4> HIDE DEF g
      <4> QED BY <2>3, <4>1
    <3> SUFFICES ASSUME NEW i \in 1 .. m PROVE g[i] = Valued(f[i - 1], keys[i])
      <4> HIDE DEF g
      <4> QED BY <3>0
    <3>1. CASE i = m
      BY <3>1
    <3>2. CASE i # m
      BY <2>2, <3>2
    <3> QED BY <3>1, <3>2
  <2>5. g = [i \in 0 .. m |-> IF i = 0 THEN 0 ELSE Valued(g[i - 1], keys[i])]
    <3>1. g = [i \in 0 .. m |-> g[i]]
      OBVIOUS
    <3> HIDE DEF g
    <3>2. g[0] = 0
      BY <2>3
    <3>3. \A i \in 0 .. m : i = 0 \/ i \in 1 .. m
      OBVIOUS
    <3>4. \A i \in 0 .. m : g[i] = IF i = 0 THEN 0 ELSE Valued(g[i - 1], keys[i])
      BY <2>4, <3>2, <3>3
    <3> QED BY <3>1, <3>4
  <2>6. Values(keys, m, g)
    <3> HIDE DEF g
    <3> QED BY <2>5 DEF Values, Valued
  <2> QED BY <2>6
<1>3. \A i \in 0 .. n : i \in T
  <2> HIDE DEF T
  <2> QED BY <1>1, <1>2, Upwards
<1> QED BY <1>3

LEMMA ValuesNatural ==
  ASSUME NEW keys, NEW n \in Nat, NEW f, Values(keys, n, f)
  PROVE  \A i \in 0 .. n : f[i] \in Nat
<1> DEFINE T == {i \in 0 .. n : f[i] \in Nat}
<1>1. \A v \in Nat : \A x : Valued(v, x) \in Nat
  <2>1. \A x \in Digits : x \in Nat
    BY ConstantsOK
  <2> SUFFICES ASSUME NEW v \in Nat, NEW x PROVE Valued(v, x) \in Nat
    OBVIOUS
  <2>2. CASE x \in Digits
    BY <2>1, <2>2 DEF Valued
  <2>3. CASE x \notin Digits
    BY <2>3 DEF Valued
  <2> QED BY <2>2, <2>3
<1>2. 0 \in T /\ \A i \in 1 .. n : i - 1 \in T => i \in T
  <2>1. f[0] = 0 /\ \A i \in 1 .. n : f[i] = Valued(f[i - 1], keys[i])
    BY ValuesStep
  <2> QED BY <1>1, <2>1
<1>3. \A i \in 0 .. n : i \in T
  <2> HIDE DEF T
  <2> QED BY <1>2, Upwards
<1> QED BY <1>3

Alike(keys, more, n) == \A i \in 1 .. n : keys[i] = more[i]

LEMMA ValuesUnique ==
  ASSUME NEW keys, NEW more, NEW n \in Nat, Alike(keys, more, n),
         NEW f, NEW g, Values(keys, n, f), Values(more, n + 1, g)
  PROVE  f[n] = g[n]
<1> DEFINE T == {i \in 0 .. n : f[i] = g[i]}
<1>1. 0 \in T
  <2>1. f[0] = 0 /\ g[0] = 0
    BY ValuesStep
  <2> QED BY <2>1
<1>2. ASSUME NEW i \in 1 .. n, i - 1 \in T PROVE i \in T
  <2>1. f[i] = Valued(f[i - 1], keys[i]) /\ g[i] = Valued(g[i - 1], more[i])
    <3>1. i \in 1 .. (n + 1) /\ n + 1 \in Nat
      OBVIOUS
    <3> QED BY <3>1, ValuesStep
  <2> QED BY <1>2, <2>1 DEF Alike
<1>3. \A i \in 0 .. n : i \in T
  <2> HIDE DEF T
  <2> QED BY <1>1, <1>2, Upwards
<1> QED BY <1>3

LEMMA DecimalIs ==
  ASSUME NEW keys \in Seq(Keys)
  PROVE  \E f : Values(keys, Len(keys), f) /\ Decimal(keys) = f[Len(keys)]
<1>1. PICK f : Values(keys, Len(keys), f)
  <2>1. Len(keys) \in Nat
    OBVIOUS
  <2> QED BY <2>1, ValuesExist
<1> DEFINE value == CHOOSE v : v = [i \in 0 .. Len(keys) |->
                      IF i = 0 THEN 0 ELSE IF keys[i] \in Digits
                                           THEN 10 * v[i - 1] + keys[i] ELSE v[i - 1]]
<1>2. Values(keys, Len(keys), value)
  BY <1>1 DEF Values
<1>3. Decimal(keys) = value[Len(keys)]
  BY DEF Decimal
<1> QED BY <1>2, <1>3

(* One key more: a digit is written behind the others. *)
LEMMA DecimalOf ==
  /\ Decimal(<<>>) = 0
  /\ \A keys \in Seq(Keys) : Decimal(keys) \in Nat
  /\ \A keys \in Seq(Keys), x \in Keys :
       Decimal(Append(keys, x)) = Valued(Decimal(keys), x)
<1>1. Decimal(<<>>) = 0
  <2>1. <<>> \in Seq(Keys) /\ Len(<<>>) = 0
    OBVIOUS
  <2>2. PICK f : Values(<<>>, 0, f) /\ Decimal(<<>>) = f[0]
    BY <2>1, DecimalIs
  <2> QED BY <2>2, ValuesStep
<1>2. ASSUME NEW keys \in Seq(Keys) PROVE Decimal(keys) \in Nat
  <2>1. PICK f : Values(keys, Len(keys), f) /\ Decimal(keys) = f[Len(keys)]
    BY DecimalIs
  <2>2. Len(keys) \in Nat /\ Len(keys) \in 0 .. Len(keys)
    OBVIOUS
  <2> QED BY <2>1, <2>2, ValuesNatural
<1>3. ASSUME NEW keys \in Seq(Keys), NEW x \in Keys
      PROVE  Decimal(Append(keys, x)) = Valued(Decimal(keys), x)
  <2> DEFINE more == Append(keys, x)
  <2> DEFINE n == Len(keys)
  <2>1. /\ n \in Nat /\ n + 1 \in Nat /\ more \in Seq(Keys) /\ Len(more) = n + 1
        /\ more[n + 1] = x /\ \A i \in 1 .. n : keys[i] = more[i]
    OBVIOUS
  <2>2. PICK f : Values(keys, n, f) /\ Decimal(keys) = f[n]
    BY DecimalIs
  <2>3. PICK g : Values(more, n + 1, g) /\ Decimal(more) = g[n + 1]
    BY <2>1, DecimalIs
  <2> HIDE DEF more, n
  <2>4. f[n] = g[n]
    <3>1. Alike(keys, more, n)
      BY <2>1 DEF Alike
    <3> QED BY <2>1, <2>2, <2>3, <3>1, ValuesUnique
  <2>5. g[n + 1] = Valued(g[n], x)
    <3>1. n + 1 \in 1 .. (n + 1) /\ (n + 1) - 1 = n
      BY <2>1
    <3> QED BY <2>1, <2>3, <3>1, ValuesStep
  <2> QED BY <2>2, <2>3, <2>4, <2>5 DEF more
<1> QED BY <1>1, <1>2, <1>3

-----------------------------------------------------------------------------
(* The powers of four. *)

Powers(n, f) == f = [i \in 0 .. n |-> IF i = 0 THEN 1 ELSE 4 * f[i - 1]]

LEMMA PowersStep ==
  ASSUME NEW n \in Nat, NEW f, Powers(n, f)
  PROVE  f[0] = 1 /\ \A i \in 1 .. n : f[i] = 4 * f[i - 1]
<1>1. 0 \in 0 .. n /\ \A i \in 1 .. n : i \in 0 .. n /\ i # 0
  OBVIOUS
<1> QED BY <1>1 DEF Powers

LEMMA PowersExist ==
  ASSUME NEW n \in Nat
  PROVE  \E f : Powers(n, f)
<1> DEFINE T == {k \in 0 .. n : \E f : Powers(k, f)}
<1>1. 0 \in T
  <2> DEFINE e == [i \in 0 .. 0 |-> 1]
  <2>1. Powers(0, e)
    BY DEF Powers
  <2> QED BY <2>1
<1>2. ASSUME NEW m \in 1 .. n, m - 1 \in T PROVE m \in T
  <2>1. PICK f : Powers(m - 1, f)
    BY <1>2
  <2> DEFINE g == [i \in 0 .. m |-> IF i = m THEN 4 * f[m - 1] ELSE f[i]]
  <2>2. f[0] = 1 /\ \A i \in 1 .. (m - 1) : f[i] = 4 * f[i - 1]
    <3>1. m - 1 \in Nat
      OBVIOUS
    <3> QED BY <2>1, <3>1, PowersStep
  <2>3. g[0] = 1 /\ g[m] = 4 * f[m - 1] /\ \A i \in 0 .. (m - 1) : g[i] = f[i]
    BY <2>2
  <2>4. \A i \in 0 .. m : i = 0 \/ i = m \/ i \in 1 .. (m - 1)
    OBVIOUS
  <2>5. \A i \in 1 .. m : i - 1 \in 0 .. (m - 1)
    OBVIOUS
  <2>6. m \in 1 .. m /\ \A i \in 1 .. (m - 1) : i \in 1 .. m /\ i \in 0 .. (m - 1)
    OBVIOUS
  <2>7. g = [i \in 0 .. m |-> g[i]]
    OBVIOUS
  <2> HIDE DEF g
  <2>8. \A i \in 1 .. m : g[i - 1] = f[i - 1]
    BY <2>3, <2>5
  <2>9. \A i \in 0 .. m : g[i] = IF i = 0 THEN 1 ELSE 4 * g[i - 1]
    BY <2>2, <2>3, <2>4, <2>6, <2>8
  <2>10. Powers(m, g)
    BY <2>7, <2>9 DEF Powers
  <2> QED BY <2>10
<1>3. \A i \in 0 .. n : i \in T
  <2> HIDE DEF T
  <2> QED BY <1>1, <1>2, Upwards
<1> QED BY <1>3

LEMMA PowersNatural ==
  ASSUME NEW n \in Nat, NEW f, Powers(n, f)
  PROVE  \A i \in 0 .. n : f[i] \in Nat
<1> DEFINE T == {i \in 0 .. n : f[i] \in Nat}
<1>1. 0 \in T /\ \A i \in 1 .. n : i - 1 \in T => i \in T
  <2>1. f[0] = 1 /\ \A i \in 1 .. n : f[i] = 4 * f[i - 1]
    BY PowersStep
  <2> QED BY <2>1
<1>2. \A i \in 0 .. n : i \in T
  <2> HIDE DEF T
  <2> QED BY <1>1, Upwards
<1> QED BY <1>2

LEMMA PowersUnique ==
  ASSUME NEW n \in Nat, NEW f, NEW g, Powers(n, f), Powers(n + 1, g)
  PROVE  f[n] = g[n]
<1> DEFINE T == {i \in 0 .. n : f[i] = g[i]}
<1>1. 0 \in T
  <2>1. f[0] = 1 /\ g[0] = 1
    BY PowersStep
  <2> QED BY <2>1
<1>2. ASSUME NEW i \in 1 .. n, i - 1 \in T PROVE i \in T
  <2>1. f[i] = 4 * f[i - 1] /\ g[i] = 4 * g[i - 1]
    <3>1. i \in 1 .. (n + 1) /\ n + 1 \in Nat
      OBVIOUS
    <3> QED BY <3>1, PowersStep
  <2> QED BY <1>2, <2>1
<1>3. \A i \in 0 .. n : i \in T
  <2> HIDE DEF T
  <2> QED BY <1>1, <1>2, Upwards
<1> QED BY <1>3

LEMMA FourfoldIs ==
  ASSUME NEW k \in Nat
  PROVE  \E f : Powers(k, f) /\ Fourfold(k) = f[k]
<1>1. PICK f : Powers(k, f)
  BY PowersExist
<1> DEFINE power == CHOOSE v : v = [i \in 0 .. k |-> IF i = 0 THEN 1 ELSE 4 * v[i - 1]]
<1>2. Powers(k, power)
  BY <1>1 DEF Powers
<1>3. Fourfold(k) = power[k]
  BY DEF Fourfold
<1> QED BY <1>2, <1>3

LEMMA FourfoldOf ==
  /\ Fourfold(0) = 1
  /\ \A k \in Nat : Fourfold(k) \in Nat /\ Fourfold(k + 1) = 4 * Fourfold(k)
<1>1. Fourfold(0) = 1
  <2>1. PICK f : Powers(0, f) /\ Fourfold(0) = f[0]
    BY FourfoldIs
  <2> QED BY <2>1, PowersStep
<1>2. ASSUME NEW k \in Nat
      PROVE  Fourfold(k) \in Nat /\ Fourfold(k + 1) = 4 * Fourfold(k)
  <2>1. PICK f : Powers(k, f) /\ Fourfold(k) = f[k]
    BY FourfoldIs
  <2>2. k + 1 \in Nat /\ k + 1 \in 1 .. (k + 1) /\ (k + 1) - 1 = k /\ k \in 0 .. k
    OBVIOUS
  <2>3. PICK g : Powers(k + 1, g) /\ Fourfold(k + 1) = g[k + 1]
    BY <2>2, FourfoldIs
  <2>4. f[k] \in Nat
    BY <2>1, <2>2, PowersNatural
  <2>5. f[k] = g[k]
    BY <2>1, <2>3, PowersUnique
  <2>6. g[k + 1] = 4 * g[k]
    BY <2>2, <2>3, PowersStep
  <2> QED BY <2>1, <2>3, <2>4, <2>5, <2>6
<1> QED BY <1>1, <1>2

-----------------------------------------------------------------------------
(* The sign. *)

Dashes(keys) == {i \in DOMAIN keys : keys[i] = Dash}
Odd(keys) == Cardinality(Dashes(keys)) % 2 = 1

(* A minus more changes the sign. *)
LEMMA OddOf ==
  /\ ~Odd(<<>>)
  /\ \A keys \in Seq(Keys), x \in Keys : Odd(Append(keys, x)) <=> (Odd(keys) <=> x # Dash)
<1>1. ~Odd(<<>>)
  <2>1. Dashes(<<>>) = {}
    BY DEF Dashes
  <2> QED BY <2>1, FS_EmptySet DEF Odd
<1>2. ASSUME NEW keys \in Seq(Keys), NEW x \in Keys
      PROVE  Odd(Append(keys, x)) <=> (Odd(keys) <=> x # Dash)
  <2> DEFINE n == Len(keys)
  <2> DEFINE S == Dashes(keys)
  <2>1. /\ n \in Nat /\ DOMAIN keys = 1 .. n /\ DOMAIN Append(keys, x) = 1 .. (n + 1)
        /\ Append(keys, x)[n + 1] = x /\ \A i \in 1 .. n : Append(keys, x)[i] = keys[i]
    OBVIOUS
  <2>2. IsFiniteSet(S) /\ Cardinality(S) \in Nat
    <3>1. IsFiniteSet(1 .. n)
      BY <2>1, FS_Interval
    <3>2. S \subseteq 1 .. n
      BY <2>1 DEF Dashes
    <3> QED BY <3>1, <3>2, FS_Subset, FS_CardinalityType
  <2>3. n + 1 \notin S
    BY <2>1 DEF Dashes
  <2>4. CASE x = Dash
    <3>1. Dashes(Append(keys, x)) = S \cup {n + 1}
      BY <2>1, <2>4 DEF Dashes
    <3>2. Cardinality(S \cup {n + 1}) = Cardinality(S) + 1
      BY <2>2, <2>3, FS_AddElement
    <3>3. \A c \in Nat : (c + 1) % 2 = 1 <=> ~(c % 2 = 1)
      OBVIOUS
    <3> QED BY <2>2, <2>4, <3>1, <3>2, <3>3 DEF Odd
  <2>5. CASE x # Dash
    <3>1. Dashes(Append(keys, x)) = S
      BY <2>1, <2>5 DEF Dashes
    <3> QED BY <2>5, <3>1 DEF Odd
  <2> QED BY <2>4, <2>5
<1> QED BY <1>1, <1>2

-----------------------------------------------------------------------------
(* Sequences of keys. *)

(* Parts of sequences with the same elements are the same. *)
LEMMA SameParts ==
  ASSUME NEW s \in Seq(Keys), NEW t \in Seq(Keys), NEW m \in Nat, NEW n \in Nat,
         m >= 1, m <= n, n <= Len(s), n <= Len(t),
         \A j \in 1 .. (1 + n - m) : s[j + m - 1] = t[j + m - 1]
  PROVE  SubSeq(s, m, n) = SubSeq(t, m, n)
<1> DEFINE u == SubSeq(s, m, n)
<1> DEFINE v == SubSeq(t, m, n)
<1>0. \A i \in m .. n : i \in 1 .. Len(s) /\ i \in 1 .. Len(t)
  OBVIOUS
<1>1. \A i \in m .. n : s[i] \in Keys /\ t[i] \in Keys
  BY <1>0
<1>2. /\ u \in Seq(Keys) /\ Len(u) = n - m + 1
      /\ \A i \in 1 .. n - m + 1 : u[i] = s[m + i - 1]
  BY <1>1, SubSeqProperties
<1>3. /\ v \in Seq(Keys) /\ Len(v) = n - m + 1
      /\ \A i \in 1 .. n - m + 1 : v[i] = t[m + i - 1]
  BY <1>1, SubSeqProperties
<1>4. \A i \in 1 .. n - m + 1 : u[i] = v[i]
  <2>1. \A i \in 1 .. n - m + 1 : i \in 1 .. (1 + n - m) /\ m + i - 1 = i + m - 1
    OBVIOUS
  <2> HIDE DEF u, v
  <2> QED BY <1>2, <1>3, <2>1
<1> HIDE DEF u, v
<1>5. u = v
  BY <1>2, <1>3, <1>4, SeqEqual
<1> QED BY <1>5 DEF u, v

(* The keys and one more. *)
LEMMA Longer ==
  ASSUME NEW keys \in Seq(Keys), NEW x \in Keys
  PROVE  /\ Append(keys, x) \in Seq(Keys) /\ Append(keys, x) # <<>>
         /\ Len(keys) \in Nat /\ Len(Append(keys, x)) = Len(keys) + 1
         /\ Append(keys, x)[Len(keys) + 1] = x
         /\ \A i \in 1 .. Len(keys) : Append(keys, x)[i] = keys[i]
<1>1. /\ Append(keys, x) \in Seq(Keys) /\ Len(Append(keys, x)) = Len(keys) + 1
      /\ Append(keys, x)[Len(keys) + 1] = x
      /\ \A i \in 1 .. Len(keys) : Append(keys, x)[i] = keys[i]
  OBVIOUS
<1>2. Len(keys) \in Nat /\ Len(<<>>) = 0
  OBVIOUS
<1>3. Append(keys, x) # <<>>
  BY <1>1, <1>2
<1> QED BY <1>1, <1>2, <1>3

(* Whether the last figure is a minus. *)
LEMMA EndsOf ==
  ASSUME NEW keys \in Seq(Keys), NEW x \in Keys
  PROVE  EndsInDash(Append(keys, x)) <=> x = Dash \/ (x = Prefix /\ EndsInDash(keys))
<1> DEFINE more == Append(keys, x)
           n == Len(keys)
<1>1. /\ n \in Nat /\ DOMAIN keys = 1 .. n /\ DOMAIN more = 1 .. (n + 1)
      /\ more[n + 1] = x /\ \A i \in 1 .. n : more[i] = keys[i]
  BY Longer
<1>2. Prefix # Dash
  BY ConstantsOK
<1> HIDE DEF more, n
<1>3. \A i \in 1 .. (n + 1) : i = n + 1 \/ (i \in 1 .. n /\ n + 1 > i)
  BY <1>1
<1>4. n + 1 \in 1 .. (n + 1) /\ \A i \in 1 .. n : i \in 1 .. (n + 1) /\ i # n + 1
  BY <1>1
<1>5. CASE x = Dash
  <2>1. \A j \in DOMAIN more : ~(j > n + 1)
    BY <1>1
  <2> QED BY <1>1, <1>4, <1>5, <2>1 DEF EndsInDash, more
<1>6. CASE x = Prefix
  <2>1. ASSUME EndsInDash(keys) PROVE EndsInDash(more)
    <3>1. PICK i \in 1 .. n : keys[i] = Dash /\ \A j \in 1 .. n : j > i => keys[j] = Prefix
      BY <1>1, <2>1 DEF EndsInDash
    <3> QED BY <1>1, <1>3, <1>4, <1>6, <3>1 DEF EndsInDash
  <2>2. ASSUME EndsInDash(more) PROVE EndsInDash(keys)
    <3>1. PICK i \in 1 .. (n + 1) :
            more[i] = Dash /\ \A j \in 1 .. (n + 1) : j > i => more[j] = Prefix
      BY <1>1, <2>2 DEF EndsInDash
    <3>2. i \in 1 .. n
      BY <1>1, <1>2, <1>3, <1>6, <3>1
    <3> QED BY <1>1, <1>4, <3>1, <3>2 DEF EndsInDash
  <2> QED BY <1>2, <1>6, <2>1, <2>2 DEF more
<1>7. CASE x # Dash /\ x # Prefix
  <2>1. ASSUME EndsInDash(more) PROVE FALSE
    <3>1. PICK i \in 1 .. (n + 1) :
            more[i] = Dash /\ \A j \in 1 .. (n + 1) : j > i => more[j] = Prefix
      BY <1>1, <2>1 DEF EndsInDash
    <3> QED BY <1>1, <1>3, <1>4, <1>7, <3>1
  <2> QED BY <1>7, <2>1 DEF more
<1> QED BY <1>5, <1>6, <1>7

LEMMA OnlyOf ==
  ASSUME NEW keys \in Seq(Keys), NEW x \in Keys
  PROVE  OnlyPrefix(Append(keys, x)) <=> OnlyPrefix(keys) /\ x = Prefix
<1> DEFINE more == Append(keys, x)
           n == Len(keys)
<1>1. /\ n \in Nat /\ DOMAIN keys = 1 .. n /\ DOMAIN more = 1 .. (n + 1)
      /\ more[n + 1] = x /\ \A i \in 1 .. n : more[i] = keys[i]
  BY Longer
<1> HIDE DEF more, n
<1>2. /\ n + 1 \in 1 .. (n + 1) /\ \A i \in 1 .. n : i \in 1 .. (n + 1)
      /\ \A i \in 1 .. (n + 1) : i = n + 1 \/ i \in 1 .. n
  BY <1>1
<1>3. OnlyPrefix(more) <=> OnlyPrefix(keys) /\ x = Prefix
  BY <1>1, <1>2 DEF OnlyPrefix
<1> QED BY <1>3 DEF more

(* Prefix keys alone are no figures. *)
LEMMA OnlyPrefixFigures ==
  ASSUME NEW keys \in Seq(Keys), OnlyPrefix(keys)
  PROVE  Decimal(keys) = 0 /\ ~Odd(keys)
<1>1. Prefix # Dash /\ Prefix \notin Digits
  BY ConstantsOK
<1>2. Len(keys) \in Nat /\ DOMAIN keys = 1 .. Len(keys)
  OBVIOUS
<1>3. PICK f : Values(keys, Len(keys), f) /\ Decimal(keys) = f[Len(keys)]
  BY DecimalIs
<1> DEFINE T == {i \in 0 .. Len(keys) : f[i] = 0}
<1>4. 0 \in T /\ \A i \in 1 .. Len(keys) : i - 1 \in T => i \in T
  <2>1. f[0] = 0 /\ \A i \in 1 .. Len(keys) : f[i] = Valued(f[i - 1], keys[i])
    BY <1>2, <1>3, ValuesStep
  <2>2. \A i \in 1 .. Len(keys) : Valued(f[i - 1], keys[i]) = f[i - 1]
    BY <1>1, <1>2 DEF OnlyPrefix, Valued
  <2> QED BY <1>2, <2>1, <2>2
<1>5. \A i \in 0 .. Len(keys) : i \in T
  <2> HIDE DEF T
  <2> QED BY <1>2, <1>4, Upwards
<1>6. Decimal(keys) = 0
  BY <1>2, <1>3, <1>5
<1>7. Dashes(keys) = {}
  BY <1>1 DEF Dashes, OnlyPrefix
<1> QED BY <1>6, <1>7, FS_EmptySet DEF Odd

-----------------------------------------------------------------------------
(* Signs and digits. *)

LEMMA FiguresAre ==
  ASSUME NEW keys
  PROVE  Figures(keys) =
           IF Decimal(keys) # 0
           THEN Number(IF Odd(keys) THEN -Decimal(keys) ELSE Decimal(keys))
           ELSE IF Odd(keys) THEN Minus
           ELSE IF EndsInDash(keys) THEN None ELSE Number(0)
BY DEF Figures, Odd, Dashes

LEMMA KindsDiffer ==
  /\ None # Minus /\ ~IsNumber(None) /\ ~IsNumber(Minus) /\ ~IsList(None) /\ ~IsList(Minus)
  /\ \A n : /\ IsNumber(Number(n)) /\ ~IsList(Number(n)) /\ Number(n)[2] = n
            /\ Number(n) # Minus /\ Number(n) # None
            /\ IsList(List(n)) /\ ~IsNumber(List(n)) /\ List(n)[2] = n
            /\ List(n) # Minus /\ List(n) # None
BY DEF None, Minus, Number, List, IsNumber, IsList

LEMMA FiguresKind ==
  ASSUME NEW keys
  PROVE  ~IsList(Figures(keys))
BY FiguresAre, KindsDiffer

(* A digit behind signs and digits. *)
LEMMA FiguresDigit ==
  ASSUME NEW keys \in Seq(Keys), NEW d \in Digits
  PROVE  Figures(Append(keys, d)) = WithDigit(Figures(keys), d)
<1> DEFINE more == Append(keys, d)
<1> DEFINE v == Decimal(keys)
<1>1. d \in Keys /\ d \in Nat /\ d # Dash /\ v \in Nat
  BY ConstantsOK, DecimalOf DEF Keys
<1>2. Decimal(more) = 10 * v + d /\ (Odd(more) <=> Odd(keys))
  BY <1>1, DecimalOf, OddOf DEF Valued
<1>3. ~EndsInDash(more)
  <2>1. d # Prefix
    BY ConstantsOK
  <2> QED BY <1>1, <2>1, EndsOf
<1> HIDE DEF more, v
<1>4. CASE v # 0
  <2>1. 10 * v + d # 0 /\ 10 * v + d \in Nat
    BY <1>1, <1>4
  <2>2. CASE Odd(keys)
    <3>1. Figures(keys) = Number(-v) /\ Figures(more) = Number(-(10 * v + d))
      BY <1>2, <1>4, <2>1, <2>2, FiguresAre DEF v
    <3>2. WithDigit(Number(-v), d) = Number(10 * (-v) + (-d))
      <4>1. -v < 0
        BY <1>1, <1>4
      <4> QED BY <4>1, KindsDiffer DEF WithDigit
    <3>3. 10 * (-v) + (-d) = -(10 * v + d)
      BY <1>1
    <3> QED BY <3>1, <3>2, <3>3 DEF more
  <2>3. CASE ~Odd(keys)
    <3>1. Figures(keys) = Number(v) /\ Figures(more) = Number(10 * v + d)
      BY <1>2, <1>4, <2>1, <2>3, FiguresAre DEF v
    <3>2. WithDigit(Number(v), d) = Number(10 * v + d)
      <4>1. ~(v < 0)
        BY <1>1
      <4> QED BY <4>1, KindsDiffer DEF WithDigit
    <3> QED BY <3>1, <3>2 DEF more
  <2> QED BY <2>2, <2>3
<1>5. CASE v = 0
  <2>0. Decimal(more) = d
    BY <1>1, <1>2, <1>5
  <2>1. CASE Odd(keys)
    <3>1. Figures(keys) = Minus /\ Figures(more) = IF d # 0 THEN Number(-d) ELSE Minus
      BY <1>2, <1>5, <2>0, <2>1, FiguresAre DEF v
    <3>2. WithDigit(Minus, d) = IF d = 0 THEN Minus ELSE Number(-d)
      BY KindsDiffer DEF WithDigit
    <3> QED BY <3>1, <3>2 DEF more
  <2>2. CASE ~Odd(keys)
    <3>1. Figures(keys) \in {None, Number(0)} /\ Figures(more) = Number(d)
      BY <1>2, <1>3, <1>5, <2>0, <2>2, FiguresAre DEF v
    <3>2. WithDigit(None, d) = Number(d)
      BY KindsDiffer DEF WithDigit
    <3>3. WithDigit(Number(0), d) = Number(d)
      <4>1. 10 * 0 + d = d /\ ~(0 < 0)
        BY <1>1
      <4> QED BY <4>1, KindsDiffer DEF WithDigit
    <3> QED BY <3>1, <3>2, <3>3 DEF more
  <2> QED BY <2>1, <2>2
<1> QED BY <1>4, <1>5

(* A minus behind them. *)
LEMMA FiguresMinus ==
  ASSUME NEW keys \in Seq(Keys), ~IsNumber(Figures(keys))
  PROVE  Figures(Append(keys, Dash)) = Negated(Figures(keys))
<1> DEFINE more == Append(keys, Dash)
<1>1. Dash \in Keys /\ Dash \notin Digits
  BY ConstantsOK DEF Keys
<1>2. Decimal(more) = Decimal(keys) /\ (Odd(more) <=> ~Odd(keys)) /\ EndsInDash(more)
  BY <1>1, DecimalOf, OddOf, EndsOf DEF Valued
<1> HIDE DEF more
<1>3. Decimal(keys) = 0
  BY FiguresAre, KindsDiffer
<1>4. Negated(Minus) = None /\ Negated(None) = Minus
  BY KindsDiffer DEF Negated
<1>5. CASE Odd(keys)
  <2>1. Figures(keys) = Minus /\ Figures(more) = None
    BY <1>2, <1>3, <1>5, FiguresAre
  <2> QED BY <1>4, <2>1 DEF more
<1>6. CASE ~Odd(keys)
  <2>1. Figures(keys) \in {None, Number(0)} /\ Figures(more) = Minus
    BY <1>2, <1>3, <1>6, FiguresAre
  <2>2. Figures(keys) = None
    BY <2>1, KindsDiffer
  <2> QED BY <1>4, <2>1, <2>2 DEF more
<1> QED BY <1>5, <1>6

(* A prefix key behind them. *)
LEMMA FiguresPrefix ==
  ASSUME NEW keys \in Seq(Keys)
  PROVE  Figures(Append(keys, Prefix)) = Figures(keys)
<1>1. Prefix \in Keys /\ Prefix \notin Digits /\ Prefix # Dash
  BY ConstantsOK DEF Keys
<1>2. /\ Decimal(Append(keys, Prefix)) = Decimal(keys)
      /\ Odd(Append(keys, Prefix)) <=> Odd(keys)
      /\ EndsInDash(Append(keys, Prefix)) <=> EndsInDash(keys)
  BY <1>1, DecimalOf, OddOf, EndsOf DEF Valued
<1> QED BY <1>2, FiguresAre

-----------------------------------------------------------------------------
(* The code's commands compute the meaning of the keys, key by key. *)

LEMMA MeaningOfOne == Meaning(<<>>) = None /\ Meaning(<<Prefix>>) = List(4)
<1>1. <<Prefix>> # <<>> /\ Len(<<Prefix>>) = 1 /\ OnlyPrefix(<<Prefix>>)
  BY DEF OnlyPrefix
<1>2. Fourfold(1) = 4
  <2>1. 0 \in Nat /\ 0 + 1 = 1
    OBVIOUS
  <2>2. Fourfold(0) = 1 /\ Fourfold(0 + 1) = 4 * Fourfold(0)
    BY <2>1, FourfoldOf
  <2> QED BY <2>2
<1> QED BY <1>1, <1>2 DEF Meaning

(* An argument whose map is in force can still be changed by any key: a    *)
(* prefix key that ends one ends its map.                                  *)
Unfinished(keys) == keys # <<>> /\ (keys[Len(keys)] = Prefix => OnlyPrefix(keys))

(* One key more in front of the docstring: nothing but prefix keys, or     *)
(* signs and digits.                                                       *)
LEMMA MeaningOf ==
  ASSUME NEW keys \in Seq(Keys), NEW x \in Keys
  PROVE  Meaning(Append(keys, x)) =
           IF OnlyPrefix(keys) /\ x = Prefix THEN List(Fourfold(Len(keys) + 1))
           ELSE Figures(Append(keys, x))
<1>1. Append(keys, x) # <<>> /\ Len(Append(keys, x)) = Len(keys) + 1
  BY Longer
<1> QED BY <1>1, OnlyOf DEF Meaning

LEMMA MeaningAgain ==
  ASSUME NEW keys \in Seq(Keys), Unfinished(keys), Meaning(keys) # Minus
  PROVE  /\ Meaning(Append(keys, Prefix)) = Again(Meaning(keys))
         /\ IsList(Again(Meaning(keys))) => Unfinished(Append(keys, Prefix))
<1> DEFINE more == Append(keys, Prefix)
<1>1. Prefix \in Keys /\ Prefix # Dash /\ Prefix \notin Digits
  BY ConstantsOK DEF Keys
<1>2. more # <<>> /\ Len(keys) \in Nat /\ (OnlyPrefix(more) <=> OnlyPrefix(keys)) /\ keys # <<>>
  BY <1>1, Longer, OnlyOf DEF Unfinished
<1>3. Meaning(more) = IF OnlyPrefix(keys) THEN List(Fourfold(Len(keys) + 1)) ELSE Figures(more)
  BY <1>1, MeaningOf
<1>4. Meaning(keys) = IF OnlyPrefix(keys) THEN List(Fourfold(Len(keys))) ELSE Figures(keys)
  BY <1>2 DEF Meaning
<1>5. Figures(more) = Figures(keys)
  BY <1>1, FiguresPrefix
<1> HIDE DEF more
<1>6. CASE OnlyPrefix(keys)
  <2>1. Again(List(Fourfold(Len(keys)))) = List(4 * Fourfold(Len(keys)))
    BY KindsDiffer DEF Again
  <2>2. Fourfold(Len(keys) + 1) = 4 * Fourfold(Len(keys))
    BY <1>2, FourfoldOf
  <2> QED BY <1>2, <1>3, <1>4, <1>6, <2>1, <2>2 DEF more, Unfinished
<1>7. CASE ~OnlyPrefix(keys)
  <2>1. ~IsList(Figures(keys)) /\ Figures(keys) # Minus
    BY <1>4, <1>7, FiguresKind
  <2>2. Again(Figures(keys)) = Figures(keys)
    BY <2>1 DEF Again
  <2> QED BY <1>3, <1>4, <1>5, <1>7, <2>1, <2>2 DEF more
<1> QED BY <1>6, <1>7

(* Behind nothing but prefix keys a sign or a digit begins the argument. *)
LEMMA MeaningFigure ==
  ASSUME NEW keys \in Seq(Keys), Unfinished(keys), NEW x \in Keys, x # Prefix
  PROVE  /\ Meaning(Append(keys, x)) = Figures(Append(keys, x))
         /\ Unfinished(Append(keys, x))
         /\ ~OnlyPrefix(keys) => Meaning(keys) = Figures(keys)
         /\ OnlyPrefix(keys) => /\ IsList(Meaning(keys))
                                /\ Decimal(keys) = 0 /\ ~Odd(keys)
<1>1. Meaning(Append(keys, x)) = Figures(Append(keys, x))
  BY MeaningOf
<1>2. Append(keys, x) # <<>> /\ Append(keys, x)[Len(Append(keys, x))] # Prefix
  BY Longer
<1>3. Unfinished(Append(keys, x))
  BY <1>2 DEF Unfinished
<1>4. Meaning(keys) = IF OnlyPrefix(keys) THEN List(Fourfold(Len(keys))) ELSE Figures(keys)
  BY DEF Meaning, Unfinished
<1> QED BY <1>1, <1>3, <1>4, KindsDiffer, OnlyPrefixFigures

LEMMA MeaningDigit ==
  ASSUME NEW keys \in Seq(Keys), Unfinished(keys), NEW d \in Digits
  PROVE  /\ Meaning(Append(keys, d)) = WithDigit(Meaning(keys), d)
         /\ Unfinished(Append(keys, d))
<1>1. d \in Keys /\ d # Prefix /\ d # Dash /\ d \in Nat
  BY ConstantsOK DEF Keys
<1>2. Unfinished(Append(keys, d)) /\ Meaning(Append(keys, d)) = Figures(Append(keys, d))
  BY <1>1, MeaningFigure
<1>3. CASE OnlyPrefix(keys)
  <2>1. IsList(Meaning(keys)) /\ Decimal(keys) = 0 /\ ~Odd(keys)
    BY <1>1, <1>3, MeaningFigure
  <2>2. Decimal(Append(keys, d)) = d
    <3>1. Decimal(Append(keys, d)) = 10 * 0 + d
      BY <1>1, <2>1, DecimalOf DEF Valued
    <3> QED BY <1>1, <3>1
  <2>3. ~Odd(Append(keys, d)) /\ ~EndsInDash(Append(keys, d))
    BY <1>1, <2>1, OddOf, EndsOf
  <2>4. Figures(Append(keys, d)) = Number(d)
    BY <2>2, <2>3, FiguresAre
  <2>5. \A a : IsList(a) => WithDigit(a, d) = Number(d)
    BY KindsDiffer DEF WithDigit, IsList, IsNumber
  <2> QED BY <1>2, <2>1, <2>4, <2>5
<1>4. CASE ~OnlyPrefix(keys)
  BY <1>1, <1>2, <1>4, MeaningFigure, FiguresDigit
<1> QED BY <1>3, <1>4

LEMMA MeaningMinus ==
  ASSUME NEW keys \in Seq(Keys), Unfinished(keys), TakesMinus(Meaning(keys))
  PROVE  /\ Meaning(Append(keys, Dash)) = Negated(Meaning(keys))
         /\ Unfinished(Append(keys, Dash))
<1>1. Dash \in Keys /\ Dash # Prefix /\ Dash \notin Digits
  BY ConstantsOK DEF Keys
<1>2. Unfinished(Append(keys, Dash)) /\ Meaning(Append(keys, Dash)) = Figures(Append(keys, Dash))
  BY <1>1, MeaningFigure
<1>3. CASE OnlyPrefix(keys)
  <2>1. IsList(Meaning(keys)) /\ Decimal(keys) = 0 /\ ~Odd(keys)
    BY <1>1, <1>3, MeaningFigure
  <2>2. Decimal(Append(keys, Dash)) = 0 /\ Odd(Append(keys, Dash))
    BY <1>1, <2>1, DecimalOf, OddOf DEF Valued
  <2>3. Figures(Append(keys, Dash)) = Minus
    BY <2>2, FiguresAre
  <2>4. \A a : IsList(a) => Negated(a) = Minus
    BY KindsDiffer DEF Negated, IsList, IsNumber
  <2> QED BY <1>2, <2>1, <2>3, <2>4
<1>4. CASE ~OnlyPrefix(keys)
  <2>1. Meaning(keys) = Figures(keys)
    BY <1>1, <1>4, MeaningFigure
  <2> QED BY <1>2, <2>1, FiguresMinus DEF TakesMinus
<1> QED BY <1>3, <1>4

(* Where no prefix key stood behind a lone minus, none did before the last *)
(* key, and the last one does not.                                         *)
LEMMA MinusBefore ==
  ASSUME NEW keys \in Seq(Keys), NEW x \in Keys, ~PrefixAfterMinus(Append(keys, x))
  PROVE  ~PrefixAfterMinus(keys) /\ (x = Prefix /\ keys # <<>> => Meaning(keys) # Minus)
<1> DEFINE more == Append(keys, x)
           n == Len(keys)
<1>1. /\ n \in Nat /\ Len(more) = n + 1 /\ more \in Seq(Keys) /\ more[n + 1] = x
      /\ \A i \in 1 .. n : more[i] = keys[i]
  BY Longer
<1>2. keys \in Seq(Keys) /\ n = Len(keys) /\ keys = SubSeq(keys, 1, n)
  <2>1. \A i \in 1 .. Len(keys) : keys[i] \in Keys
    OBVIOUS
  <2>2. SubSeq(keys, 1, Len(keys)) = keys
    OBVIOUS
  <2> QED BY <2>2
<1>3. n = 0 => keys = <<>>
  OBVIOUS
<1>4. ~PrefixAfterMinus(more)
  OBVIOUS
<1> HIDE DEF more, n
<1>5. ASSUME NEW m \in 1 .. n PROVE SubSeq(more, 1, m) = SubSeq(keys, 1, m)
  <2>1. m \in Nat /\ 1 <= m /\ m <= n /\ m <= Len(more) /\ m <= Len(keys)
    BY <1>1, <1>2
  <2>2. \A j \in 1 .. (1 + m - 1) : j + 1 - 1 = j /\ j \in 1 .. n
    BY <1>1, <2>1
  <2>3. \A j \in 1 .. (1 + m - 1) : more[j + 1 - 1] = keys[j + 1 - 1]
    BY <1>1, <2>2
  <2>4. 1 \in Nat /\ 1 >= 1
    OBVIOUS
  <2> QED BY <1>1, <1>2, <2>1, <2>3, <2>4, SameParts
<1>6. \A m \in 1 .. n : ~(more[m + 1] = Prefix /\ Meaning(SubSeq(keys, 1, m)) = Minus)
  <2>1. (n + 1) - 1 = n
    BY <1>1
  <2> QED BY <1>1, <1>4, <1>5, <2>1 DEF PrefixAfterMinus
<1>7. ~PrefixAfterMinus(keys)
  <2>1. \A m \in 1 .. (n - 1) : m \in 1 .. n /\ m + 1 \in 1 .. n
    BY <1>1
  <2> QED BY <1>1, <1>2, <1>6, <2>1 DEF PrefixAfterMinus
<1>8. ASSUME x = Prefix, keys # <<>> PROVE Meaning(keys) # Minus
  <2>1. n \in 1 .. n
    BY <1>1, <1>3, <1>8
  <2> QED BY <1>1, <1>2, <1>6, <1>8, <2>1
<1> QED BY <1>7, <1>8

-----------------------------------------------------------------------------
(* The shape of arguments. *)

LEMMA MinusOfInt == \A n \in Int : -n \in Int
OBVIOUS

LEMMA ListOK == \A n \in Int : ArgOK(List(n))
BY DEF ArgOK, List

LEMMA NumberOK == \A n \in Int : ArgOK(Number(n)) /\ IsNumber(Number(n))
BY DEF ArgOK, Number, IsNumber

LEMMA NoneOK == ArgOK(None) /\ ArgOK(Minus) /\ None # Minus
BY DEF ArgOK, None, Minus

LEMMA AgainOK ==
  ASSUME NEW a, ArgOK(a)
  PROVE /\ ArgOK(Again(a))
        /\ IsList(Again(a)) \/ IsNumber(Again(a)) \/ Again(a) = None
<1>1. a[1] \in {"none", "minus", "list", "number"} /\ a[2] \in Int BY DEF ArgOK
<1>2. CASE IsList(a)
  <2>1. Again(a) = List(4 * a[2]) /\ 4 * a[2] \in Int BY <1>1, <1>2 DEF Again
  <2> QED BY <2>1, ListOK DEF List, IsList
<1>3. CASE ~IsList(a) /\ a = Minus
  <2>1. Again(a) = List(-4) BY <1>3 DEF Again
  <2> QED BY <2>1, ListOK DEF List, IsList
<1>4. CASE ~IsList(a) /\ a # Minus
  <2>1. Again(a) = a BY <1>4 DEF Again
  <2> QED BY <1>1, <1>4, <2>1 DEF IsList, IsNumber, ArgOK, Minus, None
<1> QED BY <1>2, <1>3, <1>4

LEMMA NegatedOK == ASSUME NEW a, ArgOK(a) PROVE ArgOK(Negated(a))
BY MinusOfInt, NumberOK, NoneOK DEF Negated, ArgOK

LEMMA WithDigitOK ==
  ASSUME NEW a, ArgOK(a), NEW d \in Digits PROVE ArgOK(WithDigit(a, d))
<1>1. d \in Int BY ConstantsOK
<1>2. a[2] \in Int BY DEF ArgOK
<1>3. -d \in Int /\ 10 * a[2] + d \in Int /\ 10 * a[2] + (-d) \in Int BY <1>1, <1>2
<1>4. \/ WithDigit(a, d) = Number(10 * a[2] + d)
      \/ WithDigit(a, d) = Number(10 * a[2] + (-d))
      \/ WithDigit(a, d) = Minus
      \/ WithDigit(a, d) = Number(-d)
      \/ WithDigit(a, d) = Number(d)
  BY Zenon DEF WithDigit
<1> QED BY <1>1, <1>3, <1>4, NumberOK, NoneOK

-----------------------------------------------------------------------------
(* An argument without keys is none: so what a command was given is gone. *)
Owed ==
  /\ typed = <<>> => arg = None
  /\ utyped = <<>> => uarg = None

Inv == TypeOK /\ Owed

LEMMA InitInv == Init => Inv
<1> SUFFICES ASSUME Init PROVE Inv OBVIOUS
<1>1. <<>> \in Seq(Keys) OBVIOUS
<1> QED BY <1>1, NoneOK DEF Init, Inv, TypeOK, Owed

LEMMA TypesInv ==
  ASSUME Inv, NEW k \in Keys, NEW b, Types(k, b), ArgOK(b),
         \/ map' = "global"
         \/ map' = "none" /\ (b = None \/ IsNumber(b))
  PROVE Inv'
<1>1. /\ arg' = b /\ current' = arg /\ ucurrent' = uarg /\ uarg' = uarg
      /\ typed' = Append(typed, k) /\ utyped' = utyped /\ dropped' = dropped
  BY DEF Types, CommandExecute, PreserveState
<1>2. TypeOK' BY <1>1, Longer DEF Inv, TypeOK
<1>3. Owed' BY <1>1, Longer DEF Inv, TypeOK, Owed
<1> QED BY <1>2, <1>3 DEF Inv

LEMMA UniversalInv ==
  ASSUME Inv, NEW k \in Keys, NEW keys \in Seq(Keys), NEW b, NEW m,
         Universal(k, keys, b, m), ArgOK(b), m \in {"none", "universal"}
  PROVE Inv'
<1>1. /\ arg' = None /\ current' = arg /\ ucurrent' = uarg /\ uarg' = b /\ map' = m
      /\ typed' = <<>> /\ utyped' = Append(keys, k) /\ dropped' \in BOOLEAN
  BY DEF Universal, CommandExecute, Inv, TypeOK
<1>2. TypeOK' BY <1>1, Longer, NoneOK DEF Inv, TypeOK
<1>3. Owed' BY <1>1, Longer DEF Owed
<1> QED BY <1>2, <1>3 DEF Inv

LEMMA StepInv == Inv /\ [Next]_vars => Inv'
<1> SUFFICES ASSUME Inv, [Next]_vars PROVE Inv' OBVIOUS
<1>1. Prefix \in Keys /\ Dash \in Keys /\ Digits \subseteq Keys BY DEF Keys
<1>2. ArgOK(arg) /\ ArgOK(uarg) BY DEF Inv, TypeOK
<1>3. CASE GlobalArgument
  <2>1. ArgOK(List(4)) BY ListOK
  <2>2. <<Prefix>> \in Seq(Keys) /\ <<Prefix>> # <<>> BY <1>1
  <2> QED BY <1>3, <2>1, <2>2 DEF GlobalArgument, CommandExecute, PreserveState,
       GlobalArgumentMode, Inv, TypeOK, Owed
<1>4. CASE GlobalArgumentMore
  <2>1. \/ map' = "global"
        \/ map' = "none" /\ (Again(arg) = None \/ IsNumber(Again(arg)))
    BY <1>2, <1>4, AgainOK DEF GlobalArgumentMore, EndUnlessList
  <2> QED BY <1>1, <1>2, <1>4, <2>1, AgainOK, TypesInv DEF GlobalArgumentMore
<1>5. CASE GlobalNegativeArgument
  BY <1>1, <1>2, <1>5, NegatedOK, TypesInv DEF GlobalNegativeArgument, GlobalArgumentMode
<1>6. CASE GlobalDigitArgument
  <2>1. PICK d \in Digits : Types(d, WithDigit(arg, d)) /\ map' = "global"
    BY <1>6 DEF GlobalDigitArgument, GlobalArgumentMode
  <2> QED BY <1>1, <1>2, <2>1, WithDigitOK, TypesInv
<1> <<>> \in Seq(Keys) OBVIOUS
<1>7. CASE SwitchFrame
  BY <1>7, NoneOK DEF SwitchFrame, CommandExecute, Inv, TypeOK, Owed
<1>8. CASE UniversalArgument
  <2>1. <<>> \in Seq(Keys) /\ utyped \in Seq(Keys) BY DEF Inv, TypeOK
  <2>2. CASE Universal(Prefix, <<>>, List(4), "universal")
    <3>1. ArgOK(List(4)) BY ListOK
    <3>2. "universal" \in {"none", "universal"} OBVIOUS
    <3> QED BY <1>1, <2>1, <2>2, <3>1, <3>2, UniversalInv, Zenon
  <2>3. CASE \E m \in {"none", "universal"} : Universal(Prefix, utyped, Again(uarg), m)
    BY <1>1, <1>2, <2>1, <2>3, AgainOK, UniversalInv
  <2>4. CASE Universal(Dash, utyped, Negated(uarg), "universal")
    <3>1. ArgOK(Negated(uarg)) BY <1>2, NegatedOK
    <3>2. "universal" \in {"none", "universal"} OBVIOUS
    <3> QED BY <1>1, <2>1, <2>4, <3>1, <3>2, UniversalInv, Zenon
  <2>5. CASE \E d \in Digits : Universal(d, utyped, WithDigit(uarg, d), "universal")
    BY <1>1, <1>2, <2>1, <2>5, WithDigitOK, UniversalInv
  <2> QED BY <1>8, <2>2, <2>3, <2>4, <2>5 DEF UniversalArgument
<1>9. CASE Command
  BY <1>9, NoneOK DEF Command, CommandExecute, Inv, TypeOK, Owed
<1>10. CASE UNCHANGED vars
  BY <1>10 DEF vars, Inv, TypeOK, Owed
<1> QED BY <1>3, <1>4, <1>5, <1>6, <1>7, <1>8, <1>9, <1>10 DEF Next

LEMMA Always == Spec => []Inv
BY InitInv, StepInv, PTL DEF Spec

-----------------------------------------------------------------------------
(* An argument is what its keys denote. *)

Agrees ==
  /\ ~dropped /\ ~PrefixAfterMinus(typed) =>
       arg = Meaning(typed) /\ (map = "global" => Unfinished(typed))
  /\ ~PrefixAfterMinus(utyped) =>
       uarg = Meaning(utyped) /\ (map = "universal" => Unfinished(utyped))

(* What an argument b and its keys have to be after a key. *)
Agreed(b, keys, open) ==
  ~PrefixAfterMinus(keys) => b = Meaning(keys) /\ (open => Unfinished(keys))

(* The keys of an argument, as the commands of either prefix take them. *)
LEMMA KeyAgain ==
  ASSUME NEW keys \in Seq(Keys), NEW a, Agreed(a, keys, TRUE)
  PROVE  Agreed(Again(a), Append(keys, Prefix), IsList(Again(a)))
<1>1. Prefix \in Keys
  BY DEF Keys
<1> SUFFICES ASSUME ~PrefixAfterMinus(Append(keys, Prefix))
             PROVE  /\ Again(a) = Meaning(Append(keys, Prefix))
                    /\ IsList(Again(a)) => Unfinished(Append(keys, Prefix))
  BY DEF Agreed
<1>2. ~PrefixAfterMinus(keys) /\ (keys # <<>> => Meaning(keys) # Minus)
  BY <1>1, MinusBefore
<1>3. a = Meaning(keys) /\ Unfinished(keys)
  BY <1>2 DEF Agreed
<1> QED BY <1>2, <1>3, MeaningAgain DEF Unfinished

LEMMA KeyMinus ==
  ASSUME NEW keys \in Seq(Keys), NEW a, Agreed(a, keys, TRUE), TakesMinus(a)
  PROVE  Agreed(Negated(a), Append(keys, Dash), TRUE)
<1>1. Dash \in Keys
  BY DEF Keys
<1> QED BY <1>1, MinusBefore, MeaningMinus DEF Agreed

LEMMA KeyDigit ==
  ASSUME NEW keys \in Seq(Keys), NEW a, Agreed(a, keys, TRUE), NEW d \in Digits
  PROVE  Agreed(WithDigit(a, d), Append(keys, d), TRUE)
<1>1. d \in Keys
  BY DEF Keys
<1> QED BY <1>1, MinusBefore, MeaningDigit DEF Agreed

(* The first key. *)
LEMMA KeyFirst ==
  /\ List(4) = Meaning(<<Prefix>>) /\ Unfinished(<<Prefix>>)
  /\ None = Meaning(<<>>) /\ ~Unfinished(<<>>) /\ ~PrefixAfterMinus(<<>>)
<1>1. <<Prefix>> # <<>> /\ OnlyPrefix(<<Prefix>>)
  BY DEF OnlyPrefix
<1>2. ~PrefixAfterMinus(<<>>)
  BY DEF PrefixAfterMinus
<1> QED BY <1>1, <1>2, MeaningOfOne DEF Unfinished

LEMMA InitAgrees == Init => Agrees
BY KeyFirst DEF Init, Agrees

(* A key of H-u, with any of the three commands. *)
LEMMA TypesAgrees ==
  ASSUME Inv, Agrees, NEW k \in Keys, NEW b, Types(k, b), map = "global",
         map' = "global" \/ map' = "none",
         ~dropped => Agreed(b, Append(typed, k), map' = "global")
  PROVE  Agrees'
BY DEF Types, CommandExecute, PreserveState, Agrees, Agreed

(* A key of C-u: the argument of H-u is gone. *)
LEMMA UniversalAgrees ==
  ASSUME Inv, Agrees, NEW k \in Keys, NEW keys \in Seq(Keys), NEW b, NEW m,
         Universal(k, keys, b, m), m # "global",
         Agreed(b, Append(keys, k), m = "universal")
  PROVE  Agrees'
<1>1. /\ arg' = None /\ uarg' = b /\ map' = m
      /\ typed' = <<>> /\ utyped' = Append(keys, k)
  BY DEF Universal
<1> QED BY <1>1, KeyFirst DEF Agrees, Agreed

LEMMA StepAgrees == Inv /\ Agrees /\ [Next]_vars => Agrees'
<1> SUFFICES ASSUME Inv, Agrees, [Next]_vars PROVE Agrees'
  OBVIOUS
<1>1. Prefix \in Keys /\ Dash \in Keys /\ Digits \subseteq Keys
  BY DEF Keys
<1>2. typed \in Seq(Keys) /\ utyped \in Seq(Keys) /\ dropped \in BOOLEAN
  BY DEF Inv, TypeOK
<1>3. /\ ~dropped /\ map = "global" => Agreed(arg, typed, TRUE)
      /\ map = "universal" => Agreed(uarg, utyped, TRUE)
  BY DEF Agrees, Agreed
<1>4. CASE GlobalArgument
  BY <1>4, KeyFirst DEF GlobalArgument, CommandExecute, PreserveState, GlobalArgumentMode, Agrees
<1>5. CASE GlobalArgumentMore
  <2>1. /\ map = "global" /\ Types(Prefix, Again(arg))
        /\ map' = IF IsList(Again(arg)) THEN "global" ELSE "none"
    BY <1>5 DEF GlobalArgumentMore, EndUnlessList
  <2>2. ~dropped => Agreed(Again(arg), Append(typed, Prefix), IsList(Again(arg)))
    BY <1>2, <1>3, <2>1, KeyAgain
  <2>3. map' = "global" <=> IsList(Again(arg))
    BY <2>1
  <2>4. ~dropped => Agreed(Again(arg), Append(typed, Prefix), map' = "global")
    BY <2>2, <2>3 DEF Agreed
  <2> QED BY <1>1, <2>1, <2>4, TypesAgrees
<1>6. CASE GlobalNegativeArgument
  <2>1. map = "global" /\ TakesMinus(arg) /\ Types(Dash, Negated(arg)) /\ map' = "global"
    BY <1>6 DEF GlobalNegativeArgument, GlobalArgumentMode
  <2>2. ~dropped => Agreed(Negated(arg), Append(typed, Dash), map' = "global")
    BY <1>2, <1>3, <2>1, KeyMinus DEF Agreed
  <2> QED BY <1>1, <2>1, <2>2, TypesAgrees
<1>7. CASE GlobalDigitArgument
  <2>1. PICK d \in Digits :
          map = "global" /\ Types(d, WithDigit(arg, d)) /\ map' = "global"
    BY <1>7 DEF GlobalDigitArgument, GlobalArgumentMode
  <2>2. ~dropped => Agreed(WithDigit(arg, d), Append(typed, d), map' = "global")
    BY <1>2, <1>3, <2>1, KeyDigit DEF Agreed
  <2> QED BY <1>1, <2>1, <2>2, TypesAgrees
<1>8. CASE SwitchFrame
  <2>1. /\ arg' = None /\ uarg' = uarg /\ typed' = <<>> /\ map' = map /\ utyped' = utyped
        /\ dropped' = (dropped \/ typed # <<>>)
    BY <1>8 DEF SwitchFrame
  <2>2. ~dropped' => map' # "global"
    BY <1>2, <2>1, KeyFirst DEF Agrees
  <2> QED BY <2>1, <2>2, KeyFirst DEF Agrees
<1>9. CASE UniversalArgument
  <2>1. CASE Universal(Prefix, <<>>, List(4), "universal")
    <3>1. <<>> \in Seq(Keys) /\ Append(<<>>, Prefix) = <<Prefix>> /\ "universal" # "global"
      OBVIOUS
    <3>2. Agreed(List(4), Append(<<>>, Prefix), TRUE)
      BY <3>1, KeyFirst DEF Agreed
    <3>3. Agreed(List(4), Append(<<>>, Prefix), "universal" = "universal")
      BY <3>2 DEF Agreed
    <3> QED BY <1>1, <2>1, <3>1, <3>3, UniversalAgrees
  <2>2. CASE /\ map = "universal"
             /\ \E m : /\ Universal(Prefix, utyped, Again(uarg), m)
                       /\ m = IF IsList(Again(uarg)) THEN "universal" ELSE "none"
    <3>1. PICK m : /\ Universal(Prefix, utyped, Again(uarg), m)
                   /\ m = IF IsList(Again(uarg)) THEN "universal" ELSE "none"
      BY <2>2
    <3>a. Agreed(Again(uarg), Append(utyped, Prefix), IsList(Again(uarg)))
      BY <1>2, <1>3, <2>2, KeyAgain
    <3>b. m # "global" /\ (m = "universal" <=> IsList(Again(uarg)))
      BY <3>1
    <3>2. Agreed(Again(uarg), Append(utyped, Prefix), m = "universal") /\ m # "global"
      BY <3>a, <3>b DEF Agreed
    <3> QED BY <1>1, <1>2, <3>1, <3>2, UniversalAgrees
  <2>3. CASE /\ map = "universal" /\ TakesMinus(uarg)
             /\ Universal(Dash, utyped, Negated(uarg), "universal")
    <3>1. Agreed(Negated(uarg), Append(utyped, Dash), "universal" = "universal")
      BY <1>2, <1>3, <2>3, KeyMinus DEF Agreed
    <3> QED BY <1>1, <1>2, <2>3, <3>1, UniversalAgrees
  <2>4. CASE \E d \in Digits : /\ map = "universal"
                               /\ Universal(d, utyped, WithDigit(uarg, d), "universal")
    <3>1. PICK d \in Digits : /\ map = "universal"
                              /\ Universal(d, utyped, WithDigit(uarg, d), "universal")
      BY <2>4
    <3>2. Agreed(WithDigit(uarg, d), Append(utyped, d), "universal" = "universal")
      BY <1>2, <1>3, <3>1, KeyDigit DEF Agreed
    <3> QED BY <1>1, <1>2, <3>1, <3>2, UniversalAgrees
  <2> QED BY <1>9, <2>1, <2>2, <2>3, <2>4 DEF UniversalArgument
<1>10. CASE Command
  BY <1>10, KeyFirst DEF Command, CommandExecute, Agrees
<1>11. CASE UNCHANGED vars
  BY <1>11 DEF vars, Agrees
<1> QED BY <1>4, <1>5, <1>6, <1>7, <1>8, <1>9, <1>10, <1>11 DEF Next

LEMMA AlwaysAgrees == Spec => [](Inv /\ Agrees)
<1>1. Init => Inv /\ Agrees
  BY InitInv, InitAgrees
<1>2. Inv /\ Agrees /\ [Next]_vars => (Inv /\ Agrees)'
  BY StepInv, StepAgrees
<1> QED BY <1>1, <1>2, PTL DEF Spec

-----------------------------------------------------------------------------
(* Both arguments keep their shape, and one that is not finished, a list or *)
(* a lone minus, keeps the transient map that finishes it: for any digits   *)
(* and however many keys are typed.                                         *)
THEOREM TypeCorrect == Spec => []TypeOK
<1>1. Inv => TypeOK BY DEF Inv
<1> QED BY <1>1, Always, PTL

(* No argument reaches a second command: command-execute hands one over     *)
(* only if keys were typed for it since the command before, whichever keys  *)
(* of both prefixes, frames and commands came earlier.                      *)
THEOREM OnlyOnce ==
  Spec => [][Command => /\ typed = <<>> => current' = None
                        /\ utyped = <<>> => ucurrent' = None]_vars
<1>1. Inv /\ [Next]_vars =>
        [Command => /\ typed = <<>> => current' = None
                    /\ utyped = <<>> => ucurrent' = None]_vars
  BY DEF Inv, Owed, Command, CommandExecute
<1> QED BY <1>1, Always, PTL DEF Spec

(* command-execute hands the command that follows the argument which the    *)
(* keys of H-u denote by the docstring, built by the commands of the map    *)
(* one key at a time: for any digits and however many keys, whatever        *)
(* arguments, frames and commands came before, unless C-u or another frame  *)
(* came in between, and unless H-u was typed behind a lone minus.           *)
THEOREM GlobalIsDelivered == Spec => GlobalDelivered
<1>1. Inv /\ Agrees /\ [Next]_vars =>
        [Command /\ ~dropped /\ ~PrefixAfterMinus(typed) => current' = Meaning(typed)]_vars
  BY DEF Agrees, Command, CommandExecute
<1> QED BY <1>1, AlwaysAgrees, PTL DEF Spec, GlobalDelivered

(* The argument of C-u reaches its command as its keys denote it, however   *)
(* many keys of H-u are typed and frames selected in between: the commands  *)
(* of H-u store it again.                                                   *)
THEOREM UniversalIsDelivered == Spec => UniversalDelivered
<1>1. Inv /\ Agrees /\ [Next]_vars =>
        [Command /\ ~PrefixAfterMinus(utyped) => ucurrent' = Meaning(utyped)]_vars
  BY DEF Agrees, Command, CommandExecute
<1> QED BY <1>1, AlwaysAgrees, PTL DEF Spec, UniversalDelivered
=============================================================================
