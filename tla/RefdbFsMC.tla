----------------------------- MODULE RefdbFsMC -----------------------------
(* RefdbFs for model checking: who asks for what.  Objects are interchangeable. *)
EXTENDS RefdbFs, TLC

CONSTANTS m, n, w, r1

On(r) == {q \in Store!Requests : q.kind # "compress" /\ q.ref = r}

Uses == {q \in On(r1) : q.kind \in {"lookup", "write"}}

(* What r1 is exposed to: it is deleted, packed, moved away and moved onto. *)
(* A rename deletes without stating the old value.                         *)
Maintenance ==
  {q \in On(r1) : \/ q.kind = "delete" /\ q.old # AnyId
                  \/ q.kind = "rename" /\ ~q.force}
    \cup {q \in Store!Renames : q.to = r1 /\ q.force} \cup Store!Compressions

(* One process maintains, the other works on one reference: it creates it, *)
(* or changes it from a value it states.                                   *)
OneMaintainer ==
  m :> Maintenance
    @@ w :> {q \in Uses : q.kind = "write" => (q.force <=> q.old # AnyId)}

(* Two processes maintain, a third one works on a reference. *)
TwoMaintainers ==
  m :> (Store!Compressions \cup {q \in Store!Deletes : q.old = AnyId})
    @@ n :> Store!Compressions
    @@ w :> {q \in Uses : q.kind = "write" => q.force /\ q.old = AnyId}

Exchanges == Permutations(Ids)
=============================================================================
