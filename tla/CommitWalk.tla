---------------------------- MODULE CommitWalk -----------------------------
(***************************************************************************)
(* How libgit2 finds what two lines of history share: merge bases          *)
(* (merge.c) and the numbers of commits ahead and behind (graph.c).  Both  *)
(* walk from the newest commit to the oldest by committer time and paint   *)
(* what they meet, and both stop early.  Committer times are what clocks   *)
(* said: a parent may be younger than its child, and times may be equal.   *)
(*                                                                         *)
(* A step of the walk is an action.  Which of several commits of the same  *)
(* time a heap yields is left open.  The queue is a set: popping a commit  *)
(* a second time with the same marks changes nothing.                      *)
(***************************************************************************)
EXTENDS Integers, FiniteSets, SequencesExt

CONSTANTS
  Size,       (* the number of commits; a parent has a smaller number      *)
  Clocks,     (* what the clocks may have said: the time of every commit   *)
  MaxParents, (* how many parents a commit has at most                     *)
  MaxTwos     (* how many commits the first one is compared with           *)

ASSUME Bounds == Size \in Nat \ {0} /\ MaxParents \in Nat /\ MaxTwos \in Nat

Commits == 1 .. Size

ASSUME ClocksTell == \A t \in Clocks : t \in [Commits -> Int]

Marks == {"PARENT1", "PARENT2", "RESULT", "STALE"}

VARIABLES
  parents, time,   (* the history                                          *)
  one, twos,       (* the commits asked about                              *)
  asked,           (* "bases" or "ahead behind"                            *)
  at,              (* "repeated", "paint", "reduce" or "done"              *)
  left, right,     (* the commits the present walk started from            *)
  flags,           (* the marks of each commit                             *)
  queue,           (* the commits yet to be visited                        *)
  roots,           (* the visited commits without parents                  *)
  found,           (* the result list of the walk                          *)
  bases,           (* candidates for merge bases, youngest first           *)
  tried,           (* how many of them remove_redundant has walked from    *)
  redundant,       (* those it has found to be redundant                   *)
  counts           (* <<what only one has, what only the other has>>       *)

history == <<parents, time, one, twos, asked>>
walk == <<left, right, flags, queue, roots, found>>
outcome == <<bases, tried, redundant, counts>>
vars == <<history, at, walk, outcome>>

NoMarks == [c \in Commits |-> {}]

(* The marks with which a walk from l and all of r starts. *)
Started(l, r) ==
  [c \in Commits |-> (IF c = l THEN {"PARENT1"} ELSE {}) \cup (IF c \in r THEN {"PARENT2"} ELSE {})]

Init ==
  /\ parents \in {g \in [Commits -> {s \in SUBSET Commits : Cardinality(s) <= MaxParents}] :
                    \A c \in Commits : \A d \in g[c] : d < c}
  /\ time \in Clocks
  /\ asked \in {"bases", "ahead behind"}
  /\ one \in Commits
  /\ twos \in {s \in SUBSET Commits : Cardinality(s) \in 1 .. MaxTwos}
  /\ Size \in twos \cup {one}
  /\ asked = "ahead behind" => Cardinality(twos) = 1
  /\ at = IF one \in twos THEN "repeated" ELSE "paint"
  /\ left = one /\ right = twos
  /\ flags = Started(one, twos) /\ queue = {one} \cup twos
  /\ roots = {} /\ found = <<>>
  /\ bases = <<>> /\ tried = 0 /\ redundant = {} /\ counts = <<0, 0>>

-----------------------------------------------------------------------------
(* The commit is repeated: it is the merge base, and neither side has any   *)
(* commits that the other one has not.  Nothing is walked.                  *)
Repeated ==
  /\ at = "repeated"
  /\ at' = "done"
  /\ bases' = IF asked = "bases" THEN <<one>> ELSE <<>>
  /\ counts' = <<0, 0>>
  /\ UNCHANGED <<history, walk, tried, redundant>>

-----------------------------------------------------------------------------
(* The walk: paint_down_to_common, and mark_parents, which also watches roots. *)

Stale(c) == "STALE" \in flags[c]

(* git_pqueue_pop with git_commit_list_time_cmp. *)
Newest == {c \in queue : \A d \in queue : time[d] <= time[c]}

(* Only the head of the queue is looked at. *)
InterestingHead == \E c \in Newest : ~Stale(c)

(* As long as there are commits that are not stale. *)
Interesting ==
  \E c \in queue \cup (IF asked = "ahead behind" THEN roots ELSE {}) : ~Stale(c)

Both == {"PARENT1", "PARENT2"}

Pop ==
  /\ at = "paint" /\ Interesting
  /\ \E c \in Newest :
       LET mine == flags[c] \cap {"PARENT1", "PARENT2", "STALE"}
           (* the parents of what both sides have are stale *)
           sent == IF mine = Both THEN mine \cup {"STALE"} ELSE mine
           painted == {p \in parents[c] : ~(sent \subseteq flags[p])}
       IN
       /\ flags' = [d \in Commits |-> flags[d] \cup (IF d \in painted THEN sent ELSE {})
                                        \cup (IF d = c /\ mine = Both THEN {"RESULT"} ELSE {})]
       /\ queue' = (queue \ {c}) \cup painted
       /\ roots' = IF parents[c] = {} THEN roots \cup {c} ELSE roots
       /\ found' = IF mine = Both /\ "RESULT" \notin flags[c] THEN <<c>> \o found ELSE found
  /\ UNCHANGED <<history, at, left, right, outcome>>

(* The walk is over. *)
Walked == at = "paint" /\ (~Interesting \/ queue = {})

-----------------------------------------------------------------------------
(* git_merge__bases_many after its walk, and remove_redundant. *)

(* git_commit_list_insert_by_date: youngest first. *)
ByDate(list, c) ==
  InsertAt(list, 1 + Cardinality({i \in DOMAIN list : time[list[i]] >= time[c]}), c)

(* What is kept of a list, each commit of it inserted by its date. *)
Sorted(list, kept) ==
  LET sorted[n \in 0 .. Len(list)] ==
        IF n = 0 THEN <<>>
        ELSE IF list[n] \in kept THEN ByDate(sorted[n - 1], list[n]) ELSE sorted[n - 1]
  IN sorted[Len(list)]

(* The walk from the candidate number i against those not known to be redundant. *)
Against(i, gone) == ToSet(bases) \ (gone \cup {bases[i]})

(* clear_commit_marks, and the walk starts again from l and r. *)
Restart(l, r) ==
  /\ left' = l /\ right' = r
  /\ flags' = Started(l, r) /\ queue' = {l} \cup r
  /\ roots' = {} /\ found' = <<>>

(* The candidates that are ancestors of others are trusted to be stale. *)
NeedsNoReduction(list) == FALSE

NeedsReduction(list) == Len(list) > 1

(* More than one candidate is left: some of them may be redundant. *)
Filter ==
  /\ Walked /\ asked = "bases" /\ bases = <<>>
  /\ bases' = Sorted(found, {c \in Commits : ~Stale(c)})
  /\ at' = IF NeedsReduction(bases') THEN "reduce" ELSE "done"
  /\ UNCHANGED <<history, walk, tried, redundant, counts>>

Reduce ==
  /\ at = "reduce" /\ tried < Len(bases)
  /\ tried' = tried + 1
  /\ IF bases[tried'] \in redundant THEN UNCHANGED <<at, walk>>
     ELSE at' = "paint" /\ Restart(bases[tried'], Against(tried', redundant))
  /\ UNCHANGED <<history, bases, redundant, counts>>

(* What the walk from a candidate has met is redundant, and so is what met it. *)
Reduced ==
  /\ Walked /\ asked = "bases" /\ bases # <<>>
  /\ redundant' = redundant
       \cup (IF "PARENT2" \in flags[left] THEN {left} ELSE {})
       \cup {c \in right : "PARENT1" \in flags[c]}
  /\ at' = "reduce"
  /\ UNCHANGED <<history, walk, bases, tried, counts>>

Keep ==
  /\ at = "reduce" /\ tried = Len(bases)
  /\ bases' = Sorted(bases, Commits \ redundant)
  /\ at' = "done"
  /\ UNCHANGED <<history, walk, tried, redundant, counts>>

-----------------------------------------------------------------------------
(* ahead_behind: what carries one of the two marks is counted. *)

(* The commits reached from s without going past those that both sides have. *)
Reached(s) ==
  LET down[n \in 0 .. Size] ==
        IF n = 0 THEN s
        ELSE down[n - 1] \cup UNION {parents[c] : c \in {d \in down[n - 1] : ~(Both \subseteq flags[d])}}
  IN down[Size]

Count ==
  /\ Walked /\ asked = "ahead behind"
  /\ LET met == Reached({one} \cup twos)
         only(mark) == {c \in met : flags[c] \cap Both = {mark}}
     IN counts' = <<Cardinality(only("PARENT1")), Cardinality(only("PARENT2"))>>
  /\ at' = "done"
  /\ UNCHANGED <<history, walk, bases, tried, redundant>>

Next == Repeated \/ Pop \/ Filter \/ Reduce \/ Reduced \/ Keep \/ Count

Spec == Init /\ [][Next]_vars

-----------------------------------------------------------------------------
(* The reference: ancestors, by definition. *)

AncestorsIn(graph) ==
  LET anc[c \in Commits] == {c} \cup UNION {anc[p] : p \in graph[c]} IN anc

Ancestors == AncestorsIn(parents)

(* What is an ancestor of one and of some of the others. *)
Common == Ancestors[one] \cap UNION {Ancestors[c] : c \in twos}

(* Those of them that no other one has as an ancestor. *)
BestCommon == {c \in Common : \A d \in Common \ {c} : c \notin Ancestors[d]}

(* Whatever the clocks said, the merge bases are exactly the best common   *)
(* ancestors, each of them once, and the youngest is the one that          *)
(* git_merge_base and git_graph_descendant_of take.                        *)
BasesExact ==
  at = "done" /\ asked = "bases" =>
    /\ ToSet(bases) = BestCommon
    /\ Len(bases) = Cardinality(BestCommon)
    /\ \A i, j \in DOMAIN bases : i < j => time[bases[i]] >= time[bases[j]]

OrderedClocks == \A c \in Commits : \A p \in parents[c] : time[p] < time[c]

(* What only c has, compared with d. *)
Unique(c, d) == Cardinality(Ancestors[c] \ Ancestors[d])

Other == CHOOSE c \in twos : TRUE

(* When every parent is older than its children, the two numbers are those *)
(* of the commits that only the first commit (local) has and that only the *)
(* other one (upstream) has.  Which of them is ahead is not said: what git *)
(* would report (git2/graph.h:25-28) is the first and what the code does;  *)
(* the parameters below (graph.h:30-31) and the docstring of               *)
(* libgit-graph-ahead-behind (egit-graph.c:11-13) say the second.          *)
CountsExact ==
  at = "done" /\ asked = "ahead behind" /\ OrderedClocks =>
    LET local == Unique(one, Other)
        upstream == Unique(Other, one)
    IN counts \in {<<local, upstream>>, <<upstream, local>>}
=============================================================================
