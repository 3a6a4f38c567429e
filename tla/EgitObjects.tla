----------------------------- MODULE EgitObjects -----------------------------
(***************************************************************************)
(* The wrappers of the dynamic module of the libgit package (egit.c): each *)
(* object of libgit2 that Lisp sees is a user pointer, here a handle, to a *)
(* wrapper that counts references, because an object needs the repository, *)
(* index, remote, blame, diff or reflog it comes from.  Emacs finalizes    *)
(* the handles that Lisp cannot reach any more in any order, some of them  *)
(* long before those they depend on and some long after.                   *)
(*                                                                         *)
(* A handle exists until its finalizer runs; until then Lisp may use it.   *)
(* What the objects are about, and the wrappers that have no parent and    *)
(* are nobody's parent (configurations, signatures), are left out.         *)
(***************************************************************************)
EXTENDS Naturals, FiniteSets

CONSTANTS
  Wrappers,     (* the addresses malloc may return                         *)
  None,         (* NULL                                                    *)
  MaxHandles    (* bound: handles on one wrapper                           *)

ASSUME WrappersFinite == IsFiniteSet(Wrappers) /\ None \notin Wrappers
ASSUME SomeHandles == MaxHandles \in Nat

(* egit_type: a repository; an index or a remote of one; a blame, a diff   *)
(* or a reflog, which record no repository; an object of a repository      *)
(* (commit, reference, submodule, ...); an entry, hunk, delta or refspec.  *)
Kinds == {"free", "repository", "holder", "list", "object", "part"}
Counted == {"repository", "holder", "list"}
Offspring == [repository |-> {"object", "holder"}, holder |-> {"part"}, list |-> {"part"}]

VARIABLES
  kind,       (* the type of a wrapper, or that it is not allocated        *)
  parent,     (* the wrapper it keeps alive                                *)
  refcount,   (* its reference count                                       *)
  handles,    (* how many handles point to it                              *)
  doomed      (* the wrapper that egit_finalize is about to work on        *)

vars == <<kind, parent, refcount, handles, doomed>>

Init ==
  /\ kind = [w \in Wrappers |-> "free"]
  /\ parent = [w \in Wrappers |-> None]
  /\ refcount = [w \in Wrappers |-> 0]
  /\ handles = [w \in Wrappers |-> 0]
  /\ doomed = None

(* Lisp holds a handle on w, and no finalizer is running. *)
Usable(w) == doomed = None /\ handles[w] > 0

(* The parent is not told of its child. *)
Unheld(p) == refcount

Held(p) == [w \in Wrappers |-> IF w = p THEN refcount[w] + 1 ELSE refcount[w]]

(* egit_wrap *)
Wrap(w, k, p) ==
  /\ doomed = None /\ kind[w] = "free"
  /\ kind' = [kind EXCEPT ![w] = k]
  /\ parent' = [parent EXCEPT ![w] = p]
  /\ refcount' = [Held(p) EXCEPT ![w] = 1]
  /\ handles' = [handles EXCEPT ![w] = 1]
  /\ UNCHANGED doomed

(* A repository is opened, or something is computed that records no repository. *)
Open(w) == \E k \in {"repository", "list"} : Wrap(w, k, None)

(* A function that takes p returns something of it. *)
Derive(w, p) ==
  /\ Usable(p) /\ kind[p] \in Counted
  /\ \E k \in Offspring[kind[p]] : Wrap(w, k, p)

(* A function that takes the object o returns another one of the same repository. *)
Sibling(w, o) ==
  /\ Usable(o) /\ kind[o] = "object"
  /\ Wrap(w, "object", parent[o])

(* The repository that o belongs to: a further handle on its wrapper. *)
Owner(o) ==
  LET p == parent[o] IN
  /\ Usable(o) /\ kind[o] \in {"object", "holder"} /\ handles[p] < MaxHandles
  /\ refcount' = Held(p)
  /\ handles' = [handles EXCEPT ![p] = @ + 1]
  /\ UNCHANGED <<kind, parent, doomed>>

(* Emacs collects a handle. *)
Collect(w) ==
  /\ Usable(w)
  /\ handles' = [handles EXCEPT ![w] = @ - 1]
  /\ doomed' = w
  /\ UNCHANGED <<kind, parent, refcount>>

(* The wrapper goes and its parent is not released. *)
ForgetsParent(w) == None

(* When a wrapper is gone, egit_finalize goes on with its parent. *)
AfterFreeing(w) == parent[w]

(* egit_finalize: the last reference to a counted wrapper, or the only one *)
(* to another one, frees it.                                               *)
Finalize(w) ==
  /\ doomed = w
  /\ IF kind[w] \in Counted /\ refcount[w] # 1
     THEN /\ refcount' = [refcount EXCEPT ![w] = @ - 1]
          /\ doomed' = None
          /\ UNCHANGED <<kind, parent>>
     ELSE /\ kind' = [kind EXCEPT ![w] = "free"]
          /\ parent' = [parent EXCEPT ![w] = None]
          /\ refcount' = [refcount EXCEPT ![w] = 0]
          /\ doomed' = AfterFreeing(w)
  /\ UNCHANGED handles

Next ==
  \E w \in Wrappers :
    \/ Open(w) \/ Owner(w) \/ Collect(w) \/ Finalize(w)
    \/ \E p \in Wrappers : Derive(w, p) \/ Sibling(w, p)

Spec == Init /\ [][Next]_vars

-----------------------------------------------------------------------------
(* The type of the variables. *)
TypeOK ==
  /\ kind \in [Wrappers -> Kinds]
  /\ parent \in [Wrappers -> Wrappers \cup {None}]
  /\ refcount \in [Wrappers -> Nat] /\ handles \in [Wrappers -> Nat]
  /\ doomed \in Wrappers \cup {None}

(* In whatever order handles are collected, nothing is freed that a handle *)
(* or another wrapper still points to, or that is still to be released:    *)
(* an object keeps its repository, an entry its index (egit.h:282-292).    *)
NeededIsKept ==
  \A w \in Wrappers :
    /\ handles[w] > 0 \/ doomed = w => kind[w] # "free"
    /\ parent[w] # None =>
         kind[parent[w]] \in Counted /\ kind[w] \in Offspring[kind[parent[w]]]

(* Once Lisp holds no handle any more, everything has been freed. *)
NothingLeaks ==
  doomed = None /\ (\A w \in Wrappers : handles[w] = 0) =>
    \A w \in Wrappers : kind[w] = "free"
=============================================================================
