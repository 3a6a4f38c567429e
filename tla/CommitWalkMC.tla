---------------------------- MODULE CommitWalkMC ----------------------------
(* CommitWalk for model checking: which clocks. *)
EXTENDS CommitWalk

(* Clocks that agree with the history, that run backwards, that stand still, *)
(* and that are wrong about a single commit.                                 *)
SomeClocks ==
  {[c \in Commits |-> c], [c \in Commits |-> -c], [c \in Commits |-> 0]}
    \cup {[c \in Commits |-> IF c = d THEN e ELSE c] : d \in Commits, e \in {0, Size + 1}}
=============================================================================
