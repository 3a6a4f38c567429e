-------------------------- MODULE EgitObjectsProofs --------------------------
(***************************************************************************)
(* Theorems about EgitObjects, for any number of wrappers and handles.     *)
(* The inductive invariant is that every count is exact: the handles on a  *)
(* wrapper, the wrappers that have it as parent, and the release that is   *)
(* on its way.                                                             *)
(***************************************************************************)
EXTENDS EgitObjects, FiniteSetTheorems, TLAPS

Children(w) == {c \in Wrappers : kind[c] # "free" /\ parent[c] = w}

References(w) ==
  handles[w] + Cardinality(Children(w)) + (IF doomed = w THEN 1 ELSE 0)

CountExact(w) ==
  /\ kind[w] = "free" => parent[w] = None
  /\ kind[w] # "free" => refcount[w] = References(w) /\ refcount[w] > 0
  /\ kind[w] \notin Counted \cup {"free"} => refcount[w] = 1
  /\ kind[w] \in {"object", "holder", "part"} => parent[w] # None

CountsExact == \A w \in Wrappers : CountExact(w)

IInv == TypeOK /\ NeededIsKept /\ CountsExact

LEMMA ChildrenFinite ==
  ASSUME NEW w PROVE IsFiniteSet(Children(w)) /\ Cardinality(Children(w)) \in Nat
<1>1. Children(w) \subseteq Wrappers BY DEF Children
<1> QED BY <1>1, WrappersFinite, FS_Subset, FS_CardinalityType

LEMMA ChildrenOfFree ==
  ASSUME IInv, NEW w \in Wrappers, kind[w] \notin Counted
  PROVE Children(w) = {}
BY WrappersFinite DEF IInv, NeededIsKept, Children

LEMMA InitInv == Init => IInv
<1> SUFFICES ASSUME Init PROVE IInv OBVIOUS
<1>1. TypeOK BY DEF Init, TypeOK, Kinds
<1>2. NeededIsKept BY WrappersFinite DEF Init, NeededIsKept
<1>3. CountsExact BY DEF Init, CountsExact, CountExact
<1> QED BY <1>1, <1>2, <1>3 DEF IInv

(* A new wrapper, with or without a parent. *)
LEMMA WrapInv ==
  ASSUME IInv, NEW w \in Wrappers, NEW k \in Kinds \ {"free"}, NEW p \in Wrappers \cup {None},
         p = None => k \in {"repository", "list"},
         p # None => kind[p] \in Counted /\ k \in Offspring[kind[p]],
         Wrap(w, k, p)
  PROVE IInv'
<1> USE DEF IInv
<1>1. p # w BY WrappersFinite DEF Wrap, Counted
<1>2. \A c \in Wrappers : parent[c] # w BY WrappersFinite DEF NeededIsKept, Wrap, Counted
<1>3. handles[w] = 0 /\ parent[w] = None /\ doomed = None
  BY DEF NeededIsKept, CountsExact, CountExact, Wrap, TypeOK
<1>4. TypeOK'
  BY DEF TypeOK, Wrap, Held
<1>5. NeededIsKept'
  <2> SUFFICES ASSUME NEW c \in Wrappers
               PROVE /\ handles'[c] > 0 \/ doomed' = c => kind'[c] # "free"
                     /\ parent'[c] # None =>
                          kind'[parent'[c]] \in Counted /\ kind'[c] \in Offspring[kind'[parent'[c]]]
    BY DEF NeededIsKept
  <2>1. CASE c = w BY <2>1, <1>1, <1>3, WrappersFinite DEF Wrap, TypeOK
  <2>2. CASE c # w BY <2>2, <1>2, WrappersFinite DEF Wrap, TypeOK, NeededIsKept
  <2> QED BY <2>1, <2>2
<1>6. \A x \in Wrappers : Children(x)' = IF x = p THEN Children(x) \cup {w} ELSE Children(x)
  BY <1>3, WrappersFinite DEF Children, Wrap, TypeOK
<1>7. CountsExact'
  <2> SUFFICES ASSUME NEW x \in Wrappers PROVE CountExact(x)' BY DEF CountsExact
  <2>1. CountExact(x) BY DEF CountsExact
  <2>2. IsFiniteSet(Children(x)) /\ Cardinality(Children(x)) \in Nat BY ChildrenFinite
  <2>3. CASE x = w
    <3>1. Children(w)' = {} BY <1>1, <1>6, <1>2 DEF Children
    <3> QED BY <2>3, <3>1, <1>3, FS_EmptySet, WrappersFinite
            DEF CountExact, References, Wrap, TypeOK, Held
  <2>4. CASE x = p
    <3>1. w \notin Children(x) BY DEF Children, Wrap
    <3>2. Cardinality(Children(x)') = Cardinality(Children(x)) + 1
      BY <3>1, <2>4, <2>2, <1>6, FS_AddElement
    <3>3. refcount'[x] = refcount[x] + 1 /\ handles'[x] = handles[x] /\ doomed' = doomed
          /\ kind'[x] = kind[x] /\ parent'[x] = parent[x]
      BY <2>4, <1>1 DEF Wrap, TypeOK, Held
    <3>4. kind[x] \in Counted BY <2>4, WrappersFinite
    <3>5. handles[x] \in Nat /\ refcount[x] \in Nat BY DEF TypeOK
    <3>6. References(x)' = References(x) + 1
      BY <3>2, <3>3, <3>5, <2>2 DEF References
    <3> QED BY <2>1, <3>3, <3>4, <3>5, <3>6 DEF CountExact, Counted
  <2>5. CASE x # w /\ x # p
    <3>1. refcount'[x] = refcount[x] /\ handles'[x] = handles[x] /\ doomed' = doomed
          /\ kind'[x] = kind[x] /\ parent'[x] = parent[x]
      BY <2>5 DEF Wrap, TypeOK, Held
    <3>2. Children(x)' = Children(x) BY <2>5, <1>6
    <3> QED BY <2>1, <3>1, <3>2 DEF CountExact, References
  <2> QED BY <2>3, <2>4, <2>5
<1> QED BY <1>4, <1>5, <1>7

LEMMA OwnerInv ==
  ASSUME IInv, NEW o \in Wrappers, Owner(o) PROVE IInv'
<1> DEFINE p == parent[o]
<1>1. p \in Wrappers /\ kind[p] \in Counted /\ doomed = None
  <2>1. p # None
    <3>1. CountExact(o) BY DEF IInv, CountsExact
    <3> QED BY <3>1 DEF Owner, CountExact
  <2> QED BY <2>1 DEF Owner, Usable, IInv, NeededIsKept, TypeOK
<1> HIDE DEF p
<1>2. /\ refcount' = Held(p) /\ handles' = [handles EXCEPT ![p] = @ + 1]
      /\ UNCHANGED <<kind, parent, doomed>>
  BY DEF Owner, p
<1>3. TypeOK' BY <1>1, <1>2 DEF IInv, TypeOK, Held
<1>4. NeededIsKept' BY <1>1, <1>2 DEF IInv, TypeOK, NeededIsKept, Counted
<1>5. \A x : Children(x)' = Children(x) BY <1>2 DEF Children
<1>6. CountsExact'
  <2> SUFFICES ASSUME NEW x \in Wrappers PROVE CountExact(x)' BY DEF CountsExact
  <2>1. CountExact(x) /\ Cardinality(Children(x)) \in Nat BY ChildrenFinite DEF IInv, CountsExact
  <2>2. handles[x] \in Nat /\ refcount[x] \in Nat BY DEF IInv, TypeOK
  <2>3. CASE x = p
    <3>1. refcount'[x] = refcount[x] + 1 /\ handles'[x] = handles[x] + 1
      BY <2>3, <1>2 DEF IInv, TypeOK, Held
    <3>2. References(x)' = References(x) + 1
      BY <3>1, <1>2, <1>5, <2>1, <2>2 DEF References
    <3> QED BY <2>3, <3>1, <3>2, <2>1, <2>2, <1>1, <1>2 DEF CountExact, Counted
  <2>4. CASE x # p
    <3>1. refcount'[x] = refcount[x] /\ handles'[x] = handles[x]
      BY <2>4, <1>2 DEF IInv, TypeOK, Held
    <3> QED BY <3>1, <2>1, <1>2, <1>5 DEF CountExact, References
  <2> QED BY <2>3, <2>4
<1> QED BY <1>3, <1>4, <1>6 DEF IInv

LEMMA CollectInv ==
  ASSUME IInv, NEW w \in Wrappers, Collect(w) PROVE IInv'
<1>1. /\ doomed = None /\ handles[w] > 0 /\ doomed' = w /\ UNCHANGED <<kind, parent, refcount>>
      /\ handles' = [handles EXCEPT ![w] = @ - 1]
  BY DEF Collect, Usable
<1>2. TypeOK' BY <1>1 DEF IInv, TypeOK
<1>3. NeededIsKept' BY <1>1, WrappersFinite DEF IInv, TypeOK, NeededIsKept
<1>4. \A x : Children(x)' = Children(x) BY <1>1 DEF Children
<1>5. CountsExact'
  <2> SUFFICES ASSUME NEW x \in Wrappers PROVE CountExact(x)' BY DEF CountsExact
  <2>1. CountExact(x) /\ Cardinality(Children(x)) \in Nat BY ChildrenFinite DEF IInv, CountsExact
  <2>2. handles[x] \in Nat /\ handles[w] \in Nat BY DEF IInv, TypeOK
  <2>3. References(x)' = References(x)
    BY <1>1, <1>4, <2>1, <2>2, WrappersFinite DEF References, IInv, TypeOK
  <2> QED BY <2>1, <2>3, <1>1 DEF CountExact
<1> QED BY <1>2, <1>3, <1>5 DEF IInv

(* One reference less, and it was not the last one. *)
LEMMA ReleaseInv ==
  ASSUME IInv, NEW w \in Wrappers, Finalize(w), kind[w] \in Counted, refcount[w] # 1
  PROVE IInv'
<1>1. /\ doomed = w /\ doomed' = None /\ UNCHANGED <<kind, parent, handles>>
      /\ refcount' = [refcount EXCEPT ![w] = @ - 1]
  BY DEF Finalize
<1>2. CountExact(w) /\ refcount[w] \in Nat /\ refcount[w] > 1
  BY DEF IInv, CountsExact, CountExact, TypeOK, Counted
<1>3. TypeOK' BY <1>1, <1>2 DEF IInv, TypeOK
<1>4. NeededIsKept' BY <1>1, WrappersFinite DEF IInv, TypeOK, NeededIsKept
<1>5. \A x : Children(x)' = Children(x) BY <1>1 DEF Children
<1>6. CountsExact'
  <2> SUFFICES ASSUME NEW x \in Wrappers PROVE CountExact(x)' BY DEF CountsExact
  <2>1. CountExact(x) /\ Cardinality(Children(x)) \in Nat BY ChildrenFinite DEF IInv, CountsExact
  <2>2. handles[x] \in Nat /\ refcount[x] \in Nat BY DEF IInv, TypeOK
  <2>3. CASE x = w
    <3>1. References(x)' = References(x) - 1
      BY <2>3, <1>1, <1>5, <2>1, <2>2, WrappersFinite DEF References
    <3>2. refcount'[x] = refcount[x] - 1 BY <2>3, <1>1 DEF IInv, TypeOK
    <3> QED BY <2>3, <3>1, <3>2, <2>1, <2>2, <1>1, <1>2 DEF CountExact, Counted
  <2>4. CASE x # w
    <3>1. refcount'[x] = refcount[x] BY <2>4, <1>1 DEF IInv, TypeOK
    <3>2. References(x)' = References(x) BY <2>4, <1>1, <1>5, WrappersFinite DEF References
    <3> QED BY <3>1, <3>2, <2>1, <1>1 DEF CountExact
  <2> QED BY <2>3, <2>4
<1> QED BY <1>3, <1>4, <1>6 DEF IInv

(* The last reference: the wrapper is freed, and its parent is released next. *)
LEMMA FreeInv ==
  ASSUME IInv, NEW w \in Wrappers, Finalize(w), ~(kind[w] \in Counted /\ refcount[w] # 1)
  PROVE IInv'
<1> DEFINE p == parent[w]
<1>1. /\ doomed = w /\ doomed' = p /\ UNCHANGED handles
      /\ kind' = [kind EXCEPT ![w] = "free"]
      /\ parent' = [parent EXCEPT ![w] = None]
      /\ refcount' = [refcount EXCEPT ![w] = 0]
  BY DEF Finalize, AfterFreeing
<1>2. kind[w] # "free" BY <1>1 DEF IInv, NeededIsKept
<1>3. refcount[w] = References(w) /\ refcount[w] = 1
  BY <1>2 DEF IInv, CountsExact, CountExact
<1>4. handles[w] = 0 /\ Cardinality(Children(w)) = 0
  <2>1. handles[w] \in Nat /\ Cardinality(Children(w)) \in Nat BY ChildrenFinite DEF IInv, TypeOK
  <2> QED BY <2>1, <1>1, <1>3 DEF References
<1>5. Children(w) = {} BY <1>4, ChildrenFinite, FS_EmptySet
<1>6. \A c \in Wrappers : parent[c] # w
  BY <1>5, WrappersFinite DEF Children, IInv, CountsExact, CountExact
<1>7. p \in Wrappers \cup {None} /\ p # w BY <1>6 DEF IInv, TypeOK
<1>8. p # None => kind[p] \in Counted BY DEF IInv, NeededIsKept
<1> HIDE DEF p
<1>9. TypeOK' BY <1>1, <1>7 DEF IInv, TypeOK, Kinds
<1>10. NeededIsKept'
  <2> SUFFICES ASSUME NEW c \in Wrappers
               PROVE /\ handles'[c] > 0 \/ doomed' = c => kind'[c] # "free"
                     /\ parent'[c] # None =>
                          kind'[parent'[c]] \in Counted /\ kind'[c] \in Offspring[kind'[parent'[c]]]
    BY DEF NeededIsKept
  <2>1. CASE c = w BY <2>1, <1>1, <1>4, <1>7 DEF IInv, TypeOK
  <2>2. CASE c # w
    <3>1. kind'[c] = kind[c] /\ parent'[c] = parent[c] /\ handles'[c] = handles[c]
      BY <2>2, <1>1 DEF IInv, TypeOK
    <3>2. parent[c] # None => kind'[parent[c]] = kind[parent[c]]
      BY <1>1, <1>6 DEF IInv, TypeOK
    <3> QED BY <3>1, <3>2, <1>1, <1>8, WrappersFinite DEF IInv, NeededIsKept, Counted
  <2> QED BY <2>1, <2>2
<1>11. \A x \in Wrappers : Children(x)' = Children(x) \ {w}
  BY <1>1, <1>2, WrappersFinite DEF Children, IInv, TypeOK
<1>12. w \in Children(p) BY <1>2 DEF Children, p
<1>13. \A x \in Wrappers : x # p => w \notin Children(x) BY DEF Children, p
<1>14. CountsExact'
  <2> SUFFICES ASSUME NEW x \in Wrappers PROVE CountExact(x)' BY DEF CountsExact
  <2>1. CountExact(x) BY DEF IInv, CountsExact
  <2>2. IsFiniteSet(Children(x)) /\ Cardinality(Children(x)) \in Nat BY ChildrenFinite
  <2>3. handles[x] \in Nat BY DEF IInv, TypeOK
  <2>4. CASE x = w BY <2>4, <1>1 DEF CountExact, IInv, TypeOK
  <2>5. CASE x # w
    <3>1. /\ kind'[x] = kind[x] /\ parent'[x] = parent[x]
          /\ handles'[x] = handles[x] /\ refcount'[x] = refcount[x]
      BY <2>5, <1>1 DEF IInv, TypeOK
    <3>2. References(x)' = References(x)
      <4>1. CASE x = p
        <5>1. Cardinality(Children(x)') = Cardinality(Children(x)) - 1
          BY <4>1, <1>11, <1>12, <2>2, FS_RemoveElement
        <5> QED BY <4>1, <5>1, <3>1, <1>1, <2>5, <2>2, <2>3 DEF References
      <4>2. CASE x # p
        <5>1. Children(x)' = Children(x) BY <4>2, <1>11, <1>13
        <5> QED BY <4>2, <5>1, <3>1, <1>1, <2>5 DEF References
      <4> QED BY <4>1, <4>2
    <3> QED BY <3>1, <3>2, <2>1 DEF CountExact
  <2> QED BY <2>4, <2>5
<1> QED BY <1>9, <1>10, <1>14 DEF IInv

LEMMA NextInv == IInv /\ [Next]_vars => IInv'
<1> SUFFICES ASSUME IInv, [Next]_vars PROVE IInv' OBVIOUS
<1>1. CASE UNCHANGED vars
  BY <1>1 DEF vars, IInv, TypeOK, NeededIsKept, CountsExact, CountExact, References, Children
<1>2. ASSUME NEW w \in Wrappers, Open(w) PROVE IInv'
  <2>1. PICK k \in {"repository", "list"} : Wrap(w, k, None) BY <1>2 DEF Open
  <2>2. k \in Kinds \ {"free"} BY DEF Kinds
  <2> QED BY <2>1, <2>2, WrapInv
<1>3. ASSUME NEW w \in Wrappers, Owner(w) PROVE IInv' BY <1>3, OwnerInv
<1>4. ASSUME NEW w \in Wrappers, Collect(w) PROVE IInv' BY <1>4, CollectInv
<1>5. ASSUME NEW w \in Wrappers, Finalize(w) PROVE IInv' BY <1>5, ReleaseInv, FreeInv
<1>6. ASSUME NEW w \in Wrappers, NEW p \in Wrappers, Derive(w, p) PROVE IInv'
  <2>1. PICK k \in Offspring[kind[p]] : Wrap(w, k, p) BY <1>6 DEF Derive
  <2>2. kind[p] \in Counted /\ p # None BY <1>6, WrappersFinite DEF Derive
  <2>3. k \in Kinds \ {"free"} BY <2>1, <2>2 DEF Kinds, Counted, Offspring
  <2> QED BY <2>1, <2>2, <2>3, WrapInv
<1>7. ASSUME NEW w \in Wrappers, NEW o \in Wrappers, Sibling(w, o) PROVE IInv'
  <2>1. kind[o] = "object" /\ Wrap(w, "object", parent[o]) BY <1>7 DEF Sibling
  <2>2. parent[o] \in Wrappers \cup {None} BY DEF IInv, TypeOK
  <2>3. parent[o] # None
    BY <1>7 DEF Sibling, IInv, CountsExact, CountExact
  <2>4. kind[parent[o]] \in Counted /\ "object" \in Offspring[kind[parent[o]]]
    BY <2>1, <2>3 DEF IInv, NeededIsKept
  <2> QED BY <2>1, <2>2, <2>3, <2>4, WrapInv DEF Kinds
<1> QED BY <1>1, <1>2, <1>3, <1>4, <1>5, <1>6, <1>7 DEF Next

THEOREM CountsAreExact == Spec => []IInv
<1>1. Init => IInv BY InitInv
<1>2. IInv /\ [Next]_vars => IInv' BY NextInv
<1> QED BY <1>1, <1>2, PTL DEF Spec

(* Nothing is freed that a handle, another wrapper or a finalizer needs. *)
THEOREM NeededKept == Spec => []NeededIsKept
<1>1. IInv => NeededIsKept BY DEF IInv
<1> QED BY <1>1, CountsAreExact, PTL

LEMMA NoHandlesNoWrappers == IInv => NothingLeaks
<1> SUFFICES ASSUME IInv, doomed = None, \A w \in Wrappers : handles[w] = 0
             PROVE \A w \in Wrappers : kind[w] = "free"
  BY DEF NothingLeaks
<1>1. ASSUME NEW w \in Wrappers, kind[w] # "free"
      PROVE \E c \in Wrappers : kind[c] # "free" /\ kind[w] \in Counted /\ kind[c] \in Offspring[kind[w]]
  <2>1. Cardinality(Children(w)) \in Nat BY ChildrenFinite
  <2>2. Cardinality(Children(w)) # 0
    BY <1>1, <2>1, WrappersFinite DEF IInv, CountsExact, CountExact, References
  <2>3. Children(w) # {} BY <2>2, FS_EmptySet
  <2> QED BY <2>3, WrappersFinite DEF Children, IInv, NeededIsKept
<1>2. ASSUME NEW w \in Wrappers PROVE kind[w] \notin {"part", "object"}
  BY <1>1 DEF Counted
<1>3. ASSUME NEW w \in Wrappers PROVE kind[w] \notin {"holder", "list"}
  BY <1>1, <1>2 DEF Offspring
<1>4. ASSUME NEW w \in Wrappers PROVE kind[w] # "repository"
  BY <1>1, <1>2, <1>3 DEF Offspring
<1> QED BY <1>2, <1>3, <1>4 DEF IInv, TypeOK, Kinds

(* Once Lisp holds no handle any more, everything has been freed. *)
THEOREM AllIsFreed == Spec => []NothingLeaks
BY NoHandlesNoWrappers, CountsAreExact, PTL
=============================================================================
