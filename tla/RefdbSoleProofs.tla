-------------------------- MODULE RefdbSoleProofs --------------------------
(***************************************************************************)
(* With one maintainer, which is not killed and whose writes do not fail,  *)
(* the file system implements RefStore: for any number of other processes, *)
(* which look up and write and may fail at any point, and for any          *)
(* references, objects and requests.                                       *)
(***************************************************************************)
EXTENDS RefdbFsProofs

SoleMaintainer ==
  /\ \A p, q \in Maintainers : p = q
  /\ Maintainers \cap Faulty = {}

-----------------------------------------------------------------------------
(* The strengthening. *)

(* The cache of the maintainer is packed-refs, but for what it is about to write. *)
MaintainerCache(p) ==
  /\ p \in fresh /\ pc[p] \notin {"read", "load", "pack open", "pack commit"} => cache[p] = packed
  /\ pc[p] \in {"drop", "list", "prune", "prune one", "updated"} => cache[p] = packed
  /\ pc[p] \in {"pack open", "pack commit"} /\ Store!Deleting(task[p])
       => cache[p] = [packed EXCEPT ![task[p].ref] = None]
  /\ pc[p] \in {"prune", "prune one", "updated", "unlink"} /\ Store!Deleting(task[p])
       => packed[task[p].ref] = None
  /\ pc[p] \in {"load", "pack open", "pack commit"} /\ task[p].kind = "compress"
       => \A r \in Refs : loose[r] = None => cache[p][r] = packed[r]

(* Those who watch a reference have seen the value it has. *)
Current(p) ==
  \A r \in Refs : Store!Watches(task[p], r) => Value[r] \in seen[p]

(* About to write packed-refs anew. *)
Rewriting(p) == pc[p] \in {"load", "pack open", "pack commit"} /\ task[p].kind = "compress"

(* And what a lookup that has missed the loose file may yet find in packed-refs. *)
Pending(p) ==
  pc[p] \in {"stat", "read"} /\ goal[p] \in {"answer", "carry"} =>
    /\ packed[task[p].ref] \in seen[p]
    /\ \A o \in Maintainers : Rewriting(o) => cache[o][task[p].ref] \in seen[p]

(* What was found is a value that was seen; a rename carries an object. *)
Carried(p) ==
  /\ pc[p] = "answer" => got[p] \in seen[p]
  /\ task[p].kind = "rename" /\ At(p) \notin {"available", "exists", "carry", "done"}
       => got[p] \in seen[p] \cap Ids

(* Under its lock a reference keeps the value it was compared with. *)
Compares(p) ==
  LET q == task[p] IN
  /\ pc[p] \in {"stat", "read"} /\ goal[p] \in {"expect", "same"} => loose[q.ref] = None
  /\ q.kind \in {"write", "delete"} =>
       /\ At(p) \in {"same", "commit", "drop", "pack open", "pack commit"}
            => q.old \in {AnyId, Value[q.ref]}
       /\ At(p) \in {"prune", "prune one", "updated", "unlink"}
            => q.old \in {AnyId, Value[q.ref]} \/ Value[q.ref] = None

Base == Discipline /\ Exact

SoleInv ==
  /\ packLock # Dead
  /\ \A p \in Maintainers : MaintainerCache(p)
  /\ \A p \in Procs : Current(p) /\ Pending(p) /\ Carried(p) /\ Compares(p)

-----------------------------------------------------------------------------
(* What the steps of a process do to it. *)

LEMMA BaseTyped ==
  ASSUME Base
  PROVE /\ Good /\ ControlGood /\ NoPackNoLines
        /\ pc \in [Procs -> Labels] /\ goal \in [Procs -> Goals \cup {"none"}]
        /\ task \in [Procs -> Store!Requests \cup {Store!Nothing}]
        /\ got \in [Procs -> Values] /\ todo \in [Procs -> SUBSET Refs]
        /\ loose \in [Refs -> Values] /\ packed \in [Refs -> Values]
        /\ cache \in [Procs -> [Refs -> Values]] /\ fresh \subseteq Procs
        /\ seen \in [Procs -> SUBSET Values]
        /\ \A p \in Procs : WorksOn(p) /\ NotItsOwn(p) /\ Owns(p)
BY DEF Base, Discipline, Exact, Good, ControlGood, ControlTyped, FilesTyped, MemoryTyped, SeenTyped

LEMMA RequestOf ==
  ASSUME Base, NEW p \in Procs PROVE RequestOK(task[p]) /\ Fits(task[p], At(p))
BY BaseTyped, TaskOK DEF ControlGood, WorksOn

(* Those on the way to, or at, a step of a request with a name. *)
LEMMA RefOf ==
  ASSUME Base, NEW p \in Procs, task[p].kind \in {"lookup", "write", "delete", "rename"}
  PROVE task[p].ref \in Refs
BY RequestOf DEF RequestOK

LEMMA GotoDoes ==
  ASSUME Base, NEW p \in Procs, NEW l, Goto(p, l)
  PROVE /\ pc'[p] = l /\ goal'[p] = "none" /\ task'[p] = task[p]
        /\ got'[p] = got[p] /\ todo'[p] = todo[p]
BY BaseTyped DEF Goto

LEMMA FollowDoes ==
  ASSUME Base, NEW p \in Procs, NEW at, Follow(p, at)
  PROVE pc'[p] = at[1] /\ goal'[p] = at[2] /\ task'[p] = task[p] /\ todo'[p] = todo[p]
BY BaseTyped DEF Follow

LEMMA EndDoes ==
  ASSUME Base, NEW p \in Procs, End(p)
  PROVE /\ pc'[p] = "idle" /\ goal'[p] = "none" /\ task'[p] = Store!Nothing
        /\ seen'[p] = {}
BY BaseTyped DEF End

(* Where a lookup that finds v leads. *)
Lands(p, v) ==
  LET q == task[p] IN
  /\ task'[p] = q
  /\ got'[p] = IF goal[p] \in {"answer", "carry"} THEN v ELSE got[p]
  /\ goal[p] = "answer" => pc'[p] = "answer"
  /\ goal[p] = "expect" =>
       \/ pc'[p] = "abandon"
       \/ v = q.old /\ q.kind = "write" /\ pc'[p] = "look" /\ goal'[p] = "same"
       \/ v = q.old /\ q.kind # "write" /\ pc'[p] = "stat" /\ goal'[p] = "drop"
  /\ goal[p] = "same" => pc'[p] \in {"abandon", "commit"}
  /\ goal[p] = "carry" => pc'[p] = IF v = None THEN "done" ELSE "lock"
  /\ goal[p] = "exists" =>
       \/ pc'[p] = "done"
       \/ q.kind = "rename" /\ pc'[p] = "look" /\ goal'[p] = "carry"
       \/ q.kind # "rename" /\ pc'[p] = "lock"

LEMMA FindingLands ==
  ASSUME Base, NEW p \in Procs, NEW v, Finding(p, v),
         goal[p] \in {"answer", "expect", "same", "carry", "exists"}
  PROVE Lands(p, v)
<1> DEFINE at == Found(task[p], goal[p], v)
<1>1. pc'[p] = at[1] /\ goal'[p] = at[2] /\ task'[p] = task[p] BY FollowDoes DEF Finding
<1>2. got'[p] = IF goal[p] \in {"answer", "carry"} THEN v ELSE got[p]
  BY BaseTyped DEF Finding
<1>3. CASE goal[p] = "expect"
  <2>1. at = (IF v = task[p].old THEN Compared(task[p]) ELSE Step("abandon")) BY <1>3 DEF Found
  <2> QED BY <1>1, <1>2, <1>3, <2>1 DEF Lands, Compared, Lookup, Reload, Step
<1>4. CASE goal[p] = "same"
  <2>1. at = Step(IF v = task[p].new THEN "abandon" ELSE "commit") BY <1>4 DEF Found
  <2> QED BY <1>1, <1>2, <1>4, <2>1 DEF Lands, Step
<1>5. CASE goal[p] = "carry"
  <2>1. at = Step(IF v = None THEN "done" ELSE "lock") BY <1>5 DEF Found
  <2> QED BY <1>1, <1>2, <1>5, <2>1 DEF Lands, Step
<1>6. CASE goal[p] = "exists"
  <2>1. at = (IF v = None THEN Proceed(task[p]) ELSE Step("done")) BY <1>6 DEF Found
  <2> QED BY <1>1, <1>2, <1>6, <2>1 DEF Lands, Proceed, Lookup, Step
<1>7. CASE goal[p] = "answer"
  <2>1. at = Step("answer") BY <1>7 DEF Found
  <2> QED BY <1>1, <1>2, <1>7, <2>1 DEF Lands, Step
<1> QED BY <1>3, <1>4, <1>5, <1>6, <1>7

LEMMA LookDoes ==
  ASSUME Base, NEW p \in Procs, Look(p)
  PROVE /\ pc[p] = "look" /\ goal[p] \in {"answer", "expect", "same", "carry"}
        /\ At(p) = goal[p]
        /\ \/ loose[task[p].ref] # None /\ Lands(p, loose[task[p].ref])
           \/ /\ loose[task[p].ref] = None /\ pc'[p] = "stat" /\ goal'[p] = goal[p]
              /\ task'[p] = task[p] /\ got'[p] = got[p]
<1>1. pc[p] = "look" /\ goal[p] \in {"answer", "expect", "same", "carry"} /\ At(p) = goal[p]
  BY BaseTyped DEF Look, WorksOn, At
<1>2. CASE loose[task[p].ref] # None BY <1>1, <1>2, FindingLands DEF Look
<1>3. CASE loose[task[p].ref] = None
  <2>1. Follow(p, <<"stat", goal[p]>>) /\ got' = got BY <1>3 DEF Look, Reload
  <2> QED BY <1>1, <1>3, <2>1, FollowDoes
<1> QED BY <1>2, <1>3

(* A cache that is up to date is packed-refs, whoever it belongs to. *)
UpToDate(p) ==
  /\ cache'[p] = packed
  /\ \/ /\ goal[p] \in {"list", "available", "drop"} /\ pc'[p] = goal[p]
        /\ goal'[p] = "none" /\ task'[p] = task[p] /\ got'[p] = got[p]
     \/ goal[p] \in {"answer", "expect", "same", "carry"} /\ Lands(p, packed[task[p].ref])
     \/ goal[p] = "exists" /\ \E v : Lands(p, v)

LEMMA ReloadedDoes ==
  ASSUME Base, NEW p \in Procs, pc[p] \in {"stat", "read"}, Reloaded(p), cache'[p] = packed
  PROVE UpToDate(p)
<1>1. goal[p] \in Goals BY BaseTyped DEF WorksOn
<1>2. CASE goal[p] \in {"list", "available", "drop"}
  <2>1. Goto(p, goal[p]) BY <1>2 DEF Reloaded
  <2> QED BY <1>2, <2>1, GotoDoes DEF UpToDate
<1>3. CASE goal[p] = "exists"
  <2>1. \E v : Finding(p, v) BY <1>3 DEF Reloaded
  <2> QED BY <1>3, <2>1, FindingLands DEF UpToDate
<1>4. CASE goal[p] \in {"answer", "expect", "same", "carry"}
  <2>1. Finding(p, packed[task[p].ref]) BY <1>4 DEF Reloaded
  <2> QED BY <1>4, <2>1, FindingLands DEF UpToDate
<1> QED BY <1>1, <1>2, <1>3, <1>4 DEF Goals

LEMMA ReloadDoes ==
  ASSUME Base, SoleInv, NEW p \in Procs, Stat(p) \/ Read(p)
  PROVE /\ pc[p] \in {"stat", "read"} /\ At(p) = goal[p] /\ goal[p] \in Goals
        /\ \/ /\ pc[p] = "stat" /\ pc'[p] = "read" /\ goal'[p] = goal[p] /\ cache'[p] = cache[p]
              /\ task'[p] = task[p] /\ got'[p] = got[p]
           \/ UpToDate(p)
<1>1. pc[p] \in {"stat", "read"} /\ At(p) = goal[p] /\ goal[p] \in Goals
  BY BaseTyped DEF Stat, Read, WorksOn, At
<1>2. CASE Read(p)
  <2>1. cache'[p] = packed /\ Reloaded(p) BY <1>2, BaseTyped DEF Read
  <2> QED BY <1>1, <2>1, ReloadedDoes
<1>3. CASE Stat(p) /\ ~hasPack
  <2>1. cache'[p] = NoRefs /\ Reloaded(p) BY <1>3, BaseTyped DEF Stat
  <2>2. NoRefs = packed BY <1>3, BaseTyped DEF NoPackNoLines
  <2> QED BY <1>1, <2>1, <2>2, ReloadedDoes
<1>4. CASE Stat(p) /\ hasPack /\ p \in fresh
  <2>1. cache' = cache /\ Reloaded(p) /\ pc[p] = "stat" BY <1>4 DEF Stat, memory
  <2>2. CASE p \in Maintainers BY <1>1, <1>4, <2>1, <2>2, ReloadedDoes DEF SoleInv, MaintainerCache
  <2>3. CASE p \notin Maintainers
    <3>1. CacheFits(p) BY <2>3 DEF Base, Exact
    <3> QED BY <1>1, <1>4, <2>1, <3>1, ReloadedDoes DEF CacheFits
  <2> QED BY <2>2, <2>3
<1>5. CASE Stat(p) /\ hasPack /\ p \notin fresh
  <2>1. /\ pc' = [pc EXCEPT ![p] = "read"] /\ UNCHANGED <<cache, goal, task, got>>
        /\ pc[p] = "stat"
    BY <1>5 DEF Stat
  <2> QED BY <1>1, <2>1, BaseTyped
<1> QED BY <1>2, <1>3, <1>4, <1>5

LEMMA BeginDoes ==
  ASSUME Base, NEW p \in Procs, Begin(p)
  PROVE \E q \in Asks[p] :
          /\ pc[p] = "idle" /\ task'[p] = q /\ RequestOK(q) /\ got'[p] = got[p]
          /\ q.kind \in {"lookup", "write", "delete", "rename", "compress"}
          /\ seen'[p] = {Value[r] : r \in {s \in Refs : Store!Watches(q, s)}}
          /\ q.kind = "lookup" => pc'[p] = "look" /\ goal'[p] = "answer"
          /\ q.kind = "delete" => pc'[p] = "lock" /\ goal'[p] = "none"
          /\ q.kind = "compress" => pc'[p] = "stat" /\ goal'[p] = "list"
          /\ q.kind \in {"write", "rename"} => pc'[p] = "stat" /\ goal'[p] = "available"
<1>1. PICK q \in Asks[p] :
        /\ task' = [task EXCEPT ![p] = q]
        /\ seen' = [seen EXCEPT ![p] = {Value[r] : r \in {s \in Refs : Store!Watches(q, s)}}]
        /\ LET at == CASE q.kind = "lookup"   -> Lookup("answer")
                       [] q.kind = "delete"   -> Step("lock")
                       [] q.kind = "compress" -> Reload("list")
                       [] OTHER               -> Reload("available")
           IN pc' = [pc EXCEPT ![p] = at[1]] /\ goal' = [goal EXCEPT ![p] = at[2]]
  BY DEF Begin
<1>2. RequestOK(q) /\ q.kind \in {"lookup", "write", "delete", "rename", "compress"}
  BY AskedRequests DEF RequestOK
<1>3. task'[p] = q /\ seen'[p] = {Value[r] : r \in {s \in Refs : Store!Watches(q, s)}}
  BY <1>1, BaseTyped
<1>4. pc[p] = "idle" /\ got'[p] = got[p] BY DEF Begin
<1>5. q.kind = "lookup" => pc'[p] = "look" /\ goal'[p] = "answer"
  BY <1>1, BaseTyped DEF Lookup
<1>6. q.kind = "delete" => pc'[p] = "lock" /\ goal'[p] = "none"
  BY <1>1, BaseTyped DEF Step
<1>7. q.kind = "compress" => pc'[p] = "stat" /\ goal'[p] = "list"
  BY <1>1, BaseTyped DEF Reload
<1>8. q.kind \in {"write", "rename"} => pc'[p] = "stat" /\ goal'[p] = "available"
  BY <1>1, BaseTyped DEF Reload
<1> QED BY <1>2, <1>3, <1>4, <1>5, <1>6, <1>7, <1>8

LEMMA AvailableDoes ==
  ASSUME Base, NEW p \in Procs, Available(p)
  PROVE /\ pc[p] = "available" /\ At(p) = "available"
        /\ task'[p] = task[p] /\ got'[p] = got[p]
        /\ \/ pc'[p] = "done"
           \/ pc'[p] = "stat" /\ goal'[p] = "exists"
           \/ task[p].kind = "rename" /\ pc'[p] = "look" /\ goal'[p] = "carry"
           \/ task[p].kind # "rename" /\ pc'[p] = "lock"
<1>1. pc[p] = "available" /\ At(p) = "available" /\ got' = got BY DEF Available, At
<1>2. PICK at \in {Proceed(task[p]), Step("done"), Reload("exists")} : Follow(p, at)
  BY DEF Available
<1>3. pc'[p] = at[1] /\ goal'[p] = at[2] /\ task'[p] = task[p] BY <1>2, FollowDoes
<1>4. CASE at = Proceed(task[p]) BY <1>1, <1>3, <1>4 DEF Proceed, Lookup, Step
<1>5. CASE at = Step("done") BY <1>1, <1>3, <1>5 DEF Step
<1>6. CASE at = Reload("exists") BY <1>1, <1>3, <1>6 DEF Reload
<1> QED BY <1>2, <1>4, <1>5, <1>6

LEMMA LockDoes ==
  ASSUME Base, NEW p \in Procs, Lock(p)
  PROVE /\ pc[p] = "lock" /\ At(p) = "lock"
        /\ \/ End(p)
           \/ /\ task'[p] = task[p] /\ got'[p] = got[p] /\ seen' = seen
              /\ \/ task[p].kind # "rename" /\ pc'[p] = "look" /\ goal'[p] = "expect"
                 \/ /\ task[p].kind = "write" /\ task[p].old = AnyId
                    /\ pc'[p] = "look" /\ goal'[p] = "same"
                 \/ /\ task[p].kind # "write"
                    /\ task[p].kind = "rename" \/ task[p].old = AnyId
                    /\ pc'[p] = "stat" /\ goal'[p] = "drop"
<1>1. pc[p] = "lock" /\ At(p) = "lock" BY DEF Lock, At
<1>2. CASE ~End(p)
  <2> DEFINE at == IF task[p].kind # "rename" /\ task[p].old # AnyId
                   THEN Lookup("expect") ELSE Compared(task[p])
  <2>1. Follow(p, at) /\ UNCHANGED <<got, seen>> BY <1>2 DEF Lock
  <2>2. pc'[p] = at[1] /\ goal'[p] = at[2] /\ task'[p] = task[p] BY <2>1, FollowDoes
  <2> QED BY <1>1, <2>1, <2>2 DEF Lookup, Compared, Reload
<1> QED BY <1>1, <1>2

-----------------------------------------------------------------------------
(* The files: who changes what. *)

(* Only the maintainer takes anything away. *)
LEMMA ReaderFiles ==
  ASSUME Base, NEW p \in Procs \ Maintainers, Act(p)
  PROVE /\ packed' = packed
        /\ \A r \in Refs : loose'[r] = None => loose[r] = None
<1>1. CASE Commit(p)
  <2>1. loose' = [loose EXCEPT ![task[p].ref] = task[p].new] /\ packed' = packed
        /\ pc[p] = "commit" /\ At(p) = "commit"
    BY <1>1 DEF Commit, Content, At
  <2>2. task[p].kind = "write" /\ task[p].new \in Ids BY <2>1, RequestOf DEF Fits, RequestOK
  <2> QED BY <2>1, <2>2, BaseTyped, ValuesApart
<1>2. CASE ~Commit(p)
  <2>1. UNCHANGED <<loose, packed>>
    BY <1>2, BaseTyped, ReaderActs DEF Begin, Look, Finish, Available, Lock, CommitFails, Abandon,
       Stat, Read, Kill, files
  <2> QED BY <2>1
<1> QED BY <1>1, <1>2

(* The maintainer never finds packed-refs locked. *)
LEMMA PackLockFree ==
  ASSUME SoleMaintainer, Base, SoleInv, NEW p \in Procs, pc[p] = "pack open"
  PROVE packLock = Free
<1>1. ASSUME NEW o \in Procs, packLock = o PROVE FALSE
  <2>1. pc[o] = "pack commit" BY <1>1, BaseTyped DEF Owns
  <2>2. At(o) = "pack commit" /\ At(p) = "pack open" BY <2>1 DEF At
  <2>3. task[o].kind \notin {"lookup", "write", "nothing"}
        /\ task[p].kind \notin {"lookup", "write", "nothing"}
    BY <2>2, RequestOf DEF Fits
  <2>4. o \in Maintainers /\ p \in Maintainers BY <2>3, BaseTyped, ReaderKinds
  <2> QED BY <2>1, <2>4 DEF SoleMaintainer
<1>2. packLock \in Procs \cup {Free, Dead} BY BaseTyped DEF Good, LocksTyped
<1> QED BY <1>1, <1>2 DEF SoleInv

LEMMA NeverDead ==
  ASSUME SoleMaintainer, Base, SoleInv, NEW p \in Procs, Act(p)
  PROVE packLock' # Dead
<1>1. packLock # Dead BY DEF SoleInv
<1>2. CASE Kill(p)
  <2>1. CASE packLock = p
    <3>1. pc[p] = "pack commit" /\ At(p) = "pack commit" BY <2>1, BaseTyped DEF Owns, At
    <3>2. task[p].kind \notin {"lookup", "write", "nothing"} BY <3>1, RequestOf DEF Fits
    <3>3. p \in Maintainers BY <3>2, BaseTyped, ReaderKinds
    <3> QED BY <1>2, <3>3 DEF Kill, SoleMaintainer
  <2>2. CASE packLock # p BY <1>1, <1>2, <2>2 DEF Kill
  <2> QED BY <2>1, <2>2
<1>3. CASE ~Kill(p)
  <2>1. packLock' \in {packLock, p, Free}
    BY <1>3 DEF Act, Begin, Look, Stat, Read, Finish, Available, Lock, Commit, CommitFails, Abandon,
       Drop, Unlink, Unlock, LockTo, CommitTo, List, Load, PackOpen, PackCommit, PackFails, Prune,
       PruneOne, Updated, locks
  <2> QED BY <1>1, <2>1, LocksApart
<1> QED BY <1>2, <1>3

(* A maintainer is where its requests lead it, and nobody else is. *)
LEMMA AtWork ==
  ASSUME Base, NEW p \in Procs,
         pc[p] \in {"drop", "unlink", "unlock", "lock to", "commit to", "list", "load",
                    "pack open", "pack commit", "prune", "prune one", "updated"}
  PROVE p \in Maintainers /\ At(p) = pc[p] /\ Fits(task[p], pc[p]) /\ RequestOK(task[p])
<1>1. At(p) = pc[p] BY DEF At
<1>2. Fits(task[p], pc[p]) /\ RequestOK(task[p]) BY <1>1, RequestOf
<1>3. task[p].kind \notin {"lookup", "write", "nothing"} BY <1>2 DEF Fits
<1> QED BY <1>1, <1>2, <1>3, BaseTyped, ReaderKinds

-----------------------------------------------------------------------------
(* The cache of the maintainer. *)

(* The steps of others. *)
LEMMA CacheOfOther ==
  ASSUME SoleMaintainer, Base, SoleInv, NEW p \in Procs, Act(p), NEW m \in Maintainers, m # p
  PROVE MaintainerCache(m)'
<1>1. p \notin Maintainers /\ m \in Procs /\ MaintainerCache(m)
  BY DEF SoleMaintainer, SoleInv, Maintainers
<1>2. packed' = packed /\ \A r \in Refs : loose'[r] = None => loose[r] = None
  BY <1>1, ReaderFiles
<1>3. /\ pc'[m] = pc[m] /\ task'[m] = task[m] /\ cache'[m] = cache[m]
  BY <1>1, BaseTyped, ActControlApart, ActMemoryApart DEF ControlApart, MemoryApart
<1>4. m \in fresh' => m \in fresh BY FreshBy
<1> QED BY <1>1, <1>2, <1>3, <1>4 DEF MaintainerCache

(* The steps of its own that concern neither the cache nor packed-refs. *)
LEMMA CacheAtRest ==
  ASSUME NEW p, MaintainerCache(p), UNCHANGED <<packed, fresh>>, cache'[p] = cache[p],
         pc[p] \notin {"read", "load", "pack open", "pack commit"},
         pc'[p] \notin {"drop", "unlink", "list", "load", "pack open", "pack commit",
                        "prune", "prune one", "updated"}
  PROVE MaintainerCache(p)'
BY DEF MaintainerCache

LEMMA CacheOfIts ==
  ASSUME SoleMaintainer, Base, SoleInv, NEW p \in Maintainers, p \in Procs, Act(p)
  PROVE MaintainerCache(p)'
<1>0. MaintainerCache(p) BY DEF SoleInv
<1>a. ASSUME NEW l, UNCHANGED <<packed, fresh, cache>>,
             pc[p] \notin {"read", "load", "pack open", "pack commit"}, pc'[p] = l,
             l \in {"idle", "look", "stat", "read", "answer", "done", "available", "lock", "commit",
                    "abandon", "unlock", "lock to", "commit to"}
      PROVE MaintainerCache(p)'
  BY <1>0, <1>a, CacheAtRest
<1>1. CASE Begin(p)
  <2>1. pc[p] = "idle" /\ UNCHANGED <<packed, fresh, cache>> BY <1>1 DEF Begin, files, memory
  <2>2. pc'[p] \in {"look", "stat", "lock"} BY <1>1, BeginDoes
  <2> QED BY <1>a, <2>1, <2>2
<1>2. CASE Look(p)
  <2>1. pc[p] = "look" /\ UNCHANGED <<packed, fresh, cache>> BY <1>2 DEF Look, files, memory
  <2>2. pc'[p] \in {"answer", "look", "stat", "abandon", "commit", "done", "lock"}
    BY <1>2, LookDoes DEF Lands
  <2> QED BY <1>a, <2>1, <2>2
<1>3. CASE Stat(p) \/ Read(p)
  <2>1. packed' = packed BY <1>3 DEF Stat, Read, files
  <2>2. pc[p] \in {"stat", "read"} BY <1>3 DEF Stat, Read
  <2>3. CASE pc'[p] = "read" BY <2>3 DEF MaintainerCache
  <2>4. CASE UpToDate(p)
    <3>1. pc'[p] \in {"list", "available", "drop", "answer", "look", "stat", "abandon", "commit",
                      "done", "lock"}
      BY <2>4 DEF UpToDate, Lands
    <3>2. cache'[p] = packed' BY <2>1, <2>4 DEF UpToDate
    <3> QED BY <3>1, <3>2 DEF MaintainerCache
  <2> QED BY <1>3, <2>3, <2>4, ReloadDoes
<1>4. CASE Finish(p) \/ Abandon(p) \/ CommitFails(p) \/ Kill(p)
  <2>1. Finish(p) \/ Abandon(p) BY <1>4 DEF SoleMaintainer, CommitFails, Kill
  <2>2. pc[p] \in {"answer", "done", "abandon"} /\ End(p) /\ UNCHANGED <<packed, fresh, cache>>
    BY <2>1 DEF Finish, Abandon, files, memory
  <2> QED BY <1>a, <2>2, EndDoes
<1>5. CASE Available(p)
  <2>1. UNCHANGED <<packed, fresh, cache>> BY <1>5 DEF Available, files, memory
  <2> QED BY <1>a, <1>5, <2>1, AvailableDoes
<1>6. CASE Lock(p)
  <2>1. UNCHANGED <<packed, fresh, cache>> BY <1>6 DEF Lock, files, memory
  <2>2. pc'[p] \in {"idle", "look", "stat"} /\ pc[p] = "lock" BY <1>6, LockDoes, EndDoes
  <2> QED BY <1>a, <2>1, <2>2
<1>7. CASE Commit(p) \/ Unlink(p) \/ CommitTo(p) \/ Unlock(p) \/ LockTo(p)
  <2>1. pc[p] \in {"commit", "unlink", "commit to", "unlock", "lock to"}
        /\ UNCHANGED <<packed, fresh, cache>>
    BY <1>7 DEF Commit, Unlink, CommitTo, Unlock, LockTo, files, memory
  <2>2. End(p) \/ \E l \in {"done", "unlock", "lock to", "commit to"} : Goto(p, l)
    BY <1>7 DEF Commit, Unlink, CommitTo, Unlock, LockTo
  <2>3. pc'[p] \in {"idle", "done", "unlock", "lock to", "commit to"}
    BY <2>2, EndDoes, GotoDoes
  <2> QED BY <1>a, <2>1, <2>3
<1>8. CASE Drop(p)
  <2>1. pc[p] = "drop" /\ packed' = packed /\ fresh' = fresh BY <1>8 DEF Drop, files
  <2>2. cache[p] = packed BY <1>0, <2>1 DEF MaintainerCache
  <2>3. Fits(task[p], "drop") /\ RequestOK(task[p]) BY <2>1, AtWork
  <2>4. CASE cache[p][task[p].ref] = None
    <3>1. Goto(p, "unlink") /\ cache' = cache BY <1>8, <2>4 DEF Drop
    <3>2. pc'[p] = "unlink" /\ task'[p] = task[p] BY <3>1, GotoDoes
    <3> QED BY <2>1, <2>2, <2>4, <3>1, <3>2 DEF MaintainerCache
  <2>5. CASE cache[p][task[p].ref] # None
    <3>1. Goto(p, "pack open") /\ cache' = [cache EXCEPT ![p][task[p].ref] = None]
      BY <1>8, <2>5 DEF Drop
    <3>2. pc'[p] = "pack open" /\ task'[p] = task[p] BY <3>1, GotoDoes
    <3>3. cache'[p] = [cache[p] EXCEPT ![task[p].ref] = None] BY <3>1, BaseTyped
    <3>4. task[p].kind # "compress" BY <2>3 DEF Fits
    <3> QED BY <2>1, <2>2, <3>2, <3>3, <3>4 DEF MaintainerCache
  <2> QED BY <2>4, <2>5
<1>9. CASE List(p)
  <2>1. pc[p] = "list" /\ UNCHANGED <<packed, cache>> /\ pc'[p] = "load"
    BY <1>9, BaseTyped DEF List, files, memory
  <2>2. cache[p] = packed BY <1>0, <2>1 DEF MaintainerCache
  <2> QED BY <2>1, <2>2 DEF MaintainerCache
<1>10. CASE Load(p)
  <2>1. pc[p] = "load" /\ UNCHANGED <<loose, packed, fresh>> BY <1>10 DEF Load, files
  <2>2. task[p].kind = "compress" /\ ~Store!Deleting(task[p])
    BY <2>1, AtWork DEF Fits, Store!Deleting
  <2>3. \A r \in Refs : loose[r] = None => cache[p][r] = packed[r]
    BY <1>0, <2>1, <2>2 DEF MaintainerCache
  <2>4. pc'[p] \in {"load", "pack open"} /\ task'[p] = task[p]
    <3>1. CASE Goto(p, "pack open") BY <3>1, GotoDoes
    <3>2. CASE UNCHANGED <<pc, task>> BY <2>1, <3>2
    <3> QED BY <1>10, <3>1, <3>2 DEF Load
  <2>5. \A r \in Refs : loose[r] = None => cache'[p][r] = cache[p][r]
    <3>1. CASE cache' = cache BY <3>1
    <3>2. CASE \E s \in todo[p] : loose[s] # None /\ cache' = [cache EXCEPT ![p][s] = loose[s]]
      <4>1. PICK s \in todo[p] : loose[s] # None /\ cache' = [cache EXCEPT ![p][s] = loose[s]]
        BY <3>2
      <4>2. cache'[p] = [cache[p] EXCEPT ![s] = loose[s]] BY <4>1, BaseTyped
      <4>3. cache[p] \in [Refs -> Values] BY BaseTyped
      <4> QED BY <4>1, <4>2, <4>3
    <3> QED BY <1>10, <3>1, <3>2 DEF Load
  <2> QED BY <2>1, <2>2, <2>3, <2>4, <2>5 DEF MaintainerCache
<1>11. CASE PackOpen(p)
  <2>1. pc[p] = "pack open" /\ UNCHANGED <<loose, packed, cache, fresh>>
    BY <1>11 DEF PackOpen, files, memory
  <2>2. Goto(p, "pack commit") BY <1>11, <2>1, PackLockFree DEF PackOpen
  <2>3. pc'[p] = "pack commit" /\ task'[p] = task[p] BY <2>2, GotoDoes
  <2> QED BY <1>0, <2>1, <2>3 DEF MaintainerCache
<1>12. CASE PackCommit(p)
  <2>1. /\ pc[p] = "pack commit" /\ packed' = cache[p] /\ cache' = cache /\ task' = task
        /\ pc'[p] = "prune"
    BY <1>12, BaseTyped DEF PackCommit
  <2>2. CASE Store!Deleting(task[p])
    <3>1. cache[p] = [packed EXCEPT ![task[p].ref] = None]
      BY <1>0, <2>1, <2>2 DEF MaintainerCache
    <3>2. task[p].ref \in Refs BY <2>2, RefOf DEF Store!Deleting
    <3>3. packed'[task[p].ref] = None BY <2>1, <3>1, <3>2, BaseTyped
    <3> QED BY <2>1, <3>3 DEF MaintainerCache
  <2>3. CASE ~Store!Deleting(task[p]) BY <2>1, <2>3 DEF MaintainerCache
  <2> QED BY <2>2, <2>3
<1>13. CASE Prune(p) \/ PruneOne(p)
  <2>1. /\ pc[p] \in {"prune", "prune one"} /\ UNCHANGED <<packed, cache, fresh>>
    BY <1>13 DEF Prune, PruneOne, files, memory
  <2>2. cache[p] = packed BY <1>0, <2>1 DEF MaintainerCache
  <2>3. \/ pc'[p] \in {"updated", "prune one", "prune"} /\ task'[p] = task[p]
        \/ pc'[p] \in {"idle", "abandon"}
    <3>1. CASE PruneOne(p) BY <3>1, BaseTyped DEF PruneOne
    <3>2. CASE Prune(p)
      <4>1. Fail(p) \/ \E l \in {"updated", "prune one"} : Goto(p, l) BY <3>2 DEF Prune
      <4>2. End(p) \/ \E l \in {"updated", "prune one", "abandon"} : Goto(p, l)
        BY <4>1 DEF Fail
      <4> QED BY <4>2, EndDoes, GotoDoes
    <3> QED BY <1>13, <3>1, <3>2
  <2> QED BY <1>0, <2>1, <2>2, <2>3 DEF MaintainerCache
<1>14. CASE Updated(p)
  <2>1. pc[p] = "updated" /\ UNCHANGED <<packed, cache>> BY <1>14 DEF Updated, files
  <2>2. cache[p] = packed BY <1>0, <2>1 DEF MaintainerCache
  <2>3. End(p) \/ Goto(p, "unlink") BY <1>14 DEF Updated
  <2>4. pc'[p] = "idle" \/ (pc'[p] = "unlink" /\ task'[p] = task[p])
    BY <2>3, EndDoes, GotoDoes
  <2> QED BY <1>0, <2>1, <2>2, <2>4 DEF MaintainerCache
<1>15. CASE PackFails(p) BY <1>15 DEF SoleMaintainer, PackFails
<1> QED BY <1>1, <1>2, <1>3, <1>4, <1>5, <1>6, <1>7, <1>8, <1>9, <1>10, <1>11, <1>12, <1>13, <1>14,
           <1>15 DEF Act

-----------------------------------------------------------------------------
(* What those who watch a reference have seen. *)

LEMMA SameValue == UNCHANGED <<loose, packed>> => Value' = Value
BY DEF Value

LEMMA ValueOf ==
  ASSUME Base, NEW r \in Refs
  PROVE Value[r] \in Values /\ Value[r] = (IF loose[r] # None THEN loose[r] ELSE packed[r])
BY BaseTyped DEF Value

(* A request goes on, and sees what becomes of the references it watches. *)
Sees(o) ==
  /\ task'[o] = task[o] /\ seen[o] \subseteq seen'[o]
  /\ \A r \in Refs : Store!Watches(task[o], r) => Value'[r] = Value[r] \/ Value'[r] \in seen'[o]

LEMMA WatchSees ==
  ASSUME Base, NEW o \in Procs, task'[o] = task[o], Watch PROVE Sees(o)
<1>1. seen'[o] = seen[o] \cup {Value'[r] : r \in {s \in Refs : Store!Watches(task[o], s)}}
  BY DEF Watch
<1> QED BY <1>1 DEF Sees

LEMMA QuietSees ==
  ASSUME NEW o, task'[o] = task[o], seen'[o] = seen[o], UNCHANGED <<loose, packed>>
  PROVE Sees(o)
BY SameValue DEF Sees

LEMMA PackCommitSees ==
  ASSUME Base, NEW p \in Procs, PackCommit(p), NEW o \in Procs PROVE Sees(o)
<1>1. Good'
  <2>1. Next BY DEF Next, Act
  <2> QED BY <2>1, StepGood, BaseTyped
<1>2. Value' \in [Refs -> Values] BY <1>1 DEF Good, FilesTyped, Value, Values, Store!Values
<1>3. seen'[o] = seen[o] \cup
        {v \in Values : \E r \in Refs :
           /\ Store!Watches(task[o], r)
           /\ v = Value'[r] \/ (v = None /\ Store!Deleting(task[p]) /\ task[p].ref = r)}
  BY DEF PackCommit
<1>4. task'[o] = task[o] BY DEF PackCommit
<1> QED BY <1>2, <1>3, <1>4 DEF Sees

LEMMA ActSees ==
  ASSUME Base, SoleInv, NEW p \in Procs, Act(p), NEW o \in Procs
  PROVE Sees(o) \/ (o = p /\ (Begin(p) \/ End(p)))
<1>1. CASE PackCommit(p) BY <1>1, PackCommitSees
<1>2. CASE Commit(p) \/ Unlink(p) \/ CommitTo(p) \/ PruneOne(p)
  <2>1. task' = task BY <1>2 DEF Commit, Unlink, CommitTo, PruneOne, Goto
  <2>2. Watch BY <1>2 DEF Commit, Unlink, CommitTo, PruneOne
  <2> QED BY <2>1, <2>2, WatchSees
<1>3. CASE ~(PackCommit(p) \/ Commit(p) \/ Unlink(p) \/ CommitTo(p) \/ PruneOne(p))
  <2>1. UNCHANGED <<loose, packed>>
    BY <1>3 DEF Act, files, Begin, Look, Stat, Read, Finish, Available, Lock, CommitFails, Abandon,
       Drop, Unlock, LockTo, List, Load, PackOpen, PackFails, Prune, Updated, Kill
  <2>2. CASE o # p
    <3>1. task'[o] = task[o] BY <2>2, BaseTyped, ActControlApart DEF ControlApart
    <3>2. seen'[o] = seen[o]
      BY <1>3, <2>2, BaseTyped DEF Act, End, Fail, Begin, Look, Stat, Read, Finish, Available, Lock,
         CommitFails, Abandon, Drop, Unlock, LockTo, List, Load, PackOpen, PackFails, Prune,
         Updated, Kill
    <3> QED BY <2>1, <3>1, <3>2, QuietSees
  <2>3. CASE o = p /\ ~Begin(p) /\ ~End(p)
    <3>1. seen' = seen
      BY <1>3, <2>3 DEF Act, Fail, Look, Stat, Read, Finish, Available, Lock, CommitFails, Abandon,
         Drop, Unlock, LockTo, List, Load, PackOpen, PackFails, Prune, Updated, Kill
    <3>2. task'[p] = task[p]
      <4>1. CASE Look(p) BY <4>1, LookDoes DEF Lands
      <4>2. CASE Stat(p) \/ Read(p) BY <4>2, ReloadDoes DEF UpToDate, Lands
      <4>3. CASE Available(p) BY <4>3, AvailableDoes
      <4>4. CASE Lock(p) BY <2>3, <4>4, LockDoes
      <4>5. CASE List(p) BY <4>5 DEF List
      <4>6. CASE ~(Look(p) \/ Stat(p) \/ Read(p) \/ Available(p) \/ Lock(p) \/ List(p))
        <5>1. task' = task
          BY <1>3, <2>3, <4>6 DEF Act, Fail, Goto, Finish, CommitFails, Abandon, Drop, Unlock,
             LockTo, Load, PackOpen, PackFails, Prune, Updated, Kill
        <5> QED BY <5>1
      <4> QED BY <4>1, <4>2, <4>3, <4>4, <4>5, <4>6
    <3> QED BY <2>1, <2>3, <3>1, <3>2, QuietSees
  <2> QED BY <2>2, <2>3
<1> QED BY <1>1, <1>2, <1>3

LEMMA EndedCurrent ==
  ASSUME NEW p, task'[p] = Store!Nothing, pc'[p] = "idle"
  PROVE Current(p)' /\ Pending(p)' /\ Carried(p)' /\ Compares(p)'
BY DEF Current, Pending, Carried, Compares, Store!Watches, Store!Nothing

LEMMA CurrentStep ==
  ASSUME Base, SoleInv, NEW p \in Procs, Act(p), NEW o \in Procs PROVE Current(o)'
<1>1. CASE Sees(o)
  <2>1. Current(o) BY DEF SoleInv
  <2> QED BY <1>1, <2>1 DEF Current, Sees
<1>2. CASE o = p /\ Begin(p)
  <2>1. PICK q \in Asks[p] :
          task'[p] = q /\ seen'[p] = {Value[r] : r \in {s \in Refs : Store!Watches(q, s)}}
    BY <1>2, BeginDoes
  <2>2. Value' = Value BY <1>2, SameValue DEF Begin, files
  <2> QED BY <1>2, <2>1, <2>2 DEF Current
<1>3. CASE o = p /\ End(p) BY <1>3, EndDoes, EndedCurrent
<1> QED BY <1>1, <1>2, <1>3, ActSees

(* Who is on the way to an answer, or to what it carries, watches its reference. *)
LEMMA PendingWatches ==
  ASSUME Base, NEW p \in Procs, pc[p] \in Lookers, goal[p] \in {"answer", "carry"}
  PROVE task[p].ref \in Refs /\ Store!Watches(task[p], task[p].ref)
<1>1. At(p) = goal[p] BY DEF At, Lookers
<1>2. task[p].kind \in {"lookup", "rename"} BY <1>1, RequestOf DEF Fits
<1> QED BY <1>2, RefOf DEF Store!Watches

(* The other steps, which work on files. *)
Working == {"commit", "drop", "unlink", "unlock", "lock to", "commit to", "list", "load",
            "pack open", "pack commit", "prune", "prune one", "updated"}

LEMMA WorkDoes ==
  ASSUME Base, NEW p \in Procs, Act(p),
         ~(Begin(p) \/ Look(p) \/ Stat(p) \/ Read(p) \/ Available(p) \/ Lock(p)), ~End(p)
  PROVE /\ pc[p] \in Working /\ At(p) = pc[p] /\ At(p)' = pc'[p]
        /\ pc'[p] \in (Working \cup {"done", "abandon"}) \ {"drop", "list", "commit"}
        /\ task'[p] = task[p] /\ got'[p] = got[p]
<1>1. CASE List(p) BY <1>1, BaseTyped DEF List, Working, At
<1>2. CASE PackCommit(p) BY <1>2, BaseTyped DEF PackCommit, Working, At
<1>3. CASE PruneOne(p) BY <1>3, BaseTyped DEF PruneOne, Working, At
<1>4. CASE Load(p)
  <2>1. pc[p] = "load" BY <1>4 DEF Load
  <2>2. CASE Goto(p, "pack open")
    <3>1. pc'[p] = "pack open" /\ task'[p] = task[p] /\ got'[p] = got[p] BY <2>2, GotoDoes
    <3> QED BY <2>1, <3>1 DEF Working, At
  <2>3. CASE UNCHANGED <<pc, task, got>> BY <2>1, <2>3 DEF Working, At
  <2> QED BY <1>4, <2>2, <2>3 DEF Load
<1>5. CASE ~(List(p) \/ PackCommit(p) \/ PruneOne(p) \/ Load(p))
  <2>1. PICK l \in {"done", "unlink", "unlock", "lock to", "commit to", "abandon",
                    "pack open", "pack commit", "updated", "prune one"} : Goto(p, l)
    BY <1>5 DEF Act, Finish, Commit, CommitFails, Abandon, Drop, Unlink, Unlock, LockTo, CommitTo,
       PackOpen, PackFails, Prune, Updated, Kill, Fail
  <2>2. pc'[p] = l /\ task'[p] = task[p] /\ got'[p] = got[p] BY <2>1, GotoDoes
  <2>3. pc[p] \in Working
    BY <1>5 DEF Act, Finish, Commit, CommitFails, Abandon, Drop, Unlink, Unlock, LockTo, CommitTo,
       PackOpen, PackFails, Prune, Updated, Kill, Working
  <2>4. l \in (Working \cup {"done", "abandon"}) \ {"drop", "list", "commit"} BY <2>1 DEF Working
  <2> QED BY <2>2, <2>3, <2>4 DEF At, Working
<1> QED BY <1>1, <1>2, <1>3, <1>4, <1>5

(* They do not lead to a lookup. *)
LEMMA Elsewhere ==
  ASSUME Base, NEW p \in Procs, Act(p),
         ~(Begin(p) \/ Look(p) \/ Stat(p) \/ Read(p) \/ Available(p) \/ Lock(p))
  PROVE pc'[p] \notin Lookers
<1>1. CASE End(p) BY <1>1, EndDoes DEF Lookers
<1>2. CASE ~End(p) BY <1>2, WorkDoes DEF Lookers, Working
<1> QED BY <1>1, <1>2

LEMMA PendingFrom ==
  ASSUME Base, SoleInv, NEW p \in Procs, Act(p),
         pc'[p] \in {"stat", "read"}, goal'[p] \in {"answer", "carry"}
  PROVE /\ UNCHANGED <<files, seen>> /\ task'[p] = task[p] /\ goal'[p] = goal[p]
        /\ \/ pc[p] = "look" /\ loose[task[p].ref] = None
           \/ pc[p] = "stat"
<1>1. CASE Look(p) BY <1>1, LookDoes DEF Look, Lands
<1>2. CASE Stat(p) \/ Read(p) BY <1>2, ReloadDoes DEF Stat, Read, UpToDate, Lands
<1>3. CASE Begin(p) BY <1>3, BeginDoes
<1>4. CASE Available(p) BY <1>4, AvailableDoes
<1>5. CASE Lock(p) BY <1>5, LockDoes, EndDoes
<1> QED BY <1>1, <1>2, <1>3, <1>4, <1>5, Elsewhere DEF Lookers

LEMMA PendingOwn ==
  ASSUME SoleMaintainer, Base, SoleInv, NEW p \in Procs, Act(p)
  PROVE Pending(p)'
<1> SUFFICES ASSUME pc'[p] \in {"stat", "read"}, goal'[p] \in {"answer", "carry"}
             PROVE /\ packed'[task'[p].ref] \in seen'[p]
                   /\ \A o \in Maintainers : Rewriting(o)' => cache'[o][task'[p].ref] \in seen'[p]
  BY DEF Pending, Maintainers
<1> DEFINE r == task[p].ref
<1>1. /\ UNCHANGED <<loose, packed, seen>> /\ task'[p] = task[p] /\ goal'[p] = goal[p]
      /\ (pc[p] = "look" /\ loose[r] = None) \/ pc[p] = "stat"
  BY PendingFrom DEF files
<1>2. r \in Refs /\ Value[r] \in seen[p]
  BY <1>1, PendingWatches DEF Lookers, SoleInv, Current
<1>3. packed[r] \in seen[p]
  <2>1. CASE pc[p] = "look" /\ loose[r] = None BY <1>2, <2>1, ValueOf
  <2>2. CASE pc[p] = "stat" BY <1>1, <2>2 DEF SoleInv, Pending
  <2> QED BY <1>1, <2>1, <2>2
<1>4. ASSUME NEW o \in Maintainers, Rewriting(o)' PROVE cache'[o][r] \in seen[p]
  <2>1. o # p /\ o \in Procs BY <1>4 DEF Rewriting, Maintainers
  <2>2. pc'[o] = pc[o] /\ task'[o] = task[o] /\ cache'[o] = cache[o]
    BY <2>1, BaseTyped, ActControlApart, ActMemoryApart DEF ControlApart, MemoryApart
  <2>3. Rewriting(o) BY <1>4, <2>2 DEF Rewriting
  <2>4. CASE pc[p] = "look" /\ loose[r] = None
    BY <1>2, <1>3, <2>2, <2>3, <2>4 DEF SoleInv, MaintainerCache, Rewriting
  <2>5. CASE pc[p] = "stat" BY <1>1, <2>2, <2>3, <2>5 DEF SoleInv, Pending
  <2> QED BY <1>1, <2>4, <2>5
<1> QED BY <1>1, <1>3, <1>4

(* What the maintainer is about to write was there, or is what the loose file holds. *)
LEMMA RewritingFrom ==
  ASSUME SoleMaintainer, Base, SoleInv, NEW p \in Maintainers, p \in Procs, Act(p), Rewriting(p)'
  PROVE /\ packed' = packed
        /\ \A r \in Refs : \/ cache'[p][r] = packed[r]
                           \/ cache'[p][r] = Value[r]
                           \/ Rewriting(p) /\ cache'[p][r] = cache[p][r]
<1>0. pc'[p] \in {"load", "pack open", "pack commit"} /\ task'[p].kind = "compress"
  BY DEF Rewriting
<1>1. CASE List(p)
  <2>1. pc[p] = "list" /\ UNCHANGED <<packed, cache>> BY <1>1 DEF List, files, memory
  <2>2. cache[p] = packed BY <2>1 DEF SoleInv, MaintainerCache
  <2> QED BY <2>1, <2>2
<1>2. CASE Load(p)
  <2>1. pc[p] = "load" /\ UNCHANGED <<loose, packed>> BY <1>2 DEF Load, files
  <2>2. Rewriting(p) BY <2>1, AtWork DEF Rewriting, Fits
  <2>3. CASE cache' = cache BY <2>1, <2>2, <2>3
  <2>4. CASE \E s \in todo[p] : loose[s] # None /\ cache' = [cache EXCEPT ![p][s] = loose[s]]
    <3>1. PICK s \in todo[p] : loose[s] # None /\ cache' = [cache EXCEPT ![p][s] = loose[s]]
      BY <2>4
    <3>2. cache'[p] = [cache[p] EXCEPT ![s] = loose[s]] /\ cache[p] \in [Refs -> Values]
      BY <3>1, BaseTyped
    <3>3. s \in Refs BY <3>1, BaseTyped
    <3>4. Value[s] = loose[s] BY <3>1, <3>3, ValueOf
    <3> QED BY <2>1, <2>2, <3>2, <3>4
  <2> QED BY <1>2, <2>3, <2>4 DEF Load
<1>3. CASE PackOpen(p)
  <2>1. pc[p] = "pack open" /\ UNCHANGED <<packed, cache>> BY <1>3 DEF PackOpen, files, memory
  <2>2. Goto(p, "pack commit") BY <1>3, <2>1, PackLockFree DEF PackOpen
  <2>3. Rewriting(p) BY <1>0, <2>1, <2>2, GotoDoes DEF Rewriting
  <2> QED BY <2>1, <2>3
<1>4. CASE Drop(p)
  <2>1. task[p].kind # "compress" BY <1>4, AtWork DEF Drop, Fits
  <2>2. task' = task BY <1>4 DEF Drop, Goto
  <2> QED BY <1>0, <2>1, <2>2
<1>5. CASE Begin(p) BY <1>0, <1>5, BeginDoes
<1>6. CASE Look(p) BY <1>0, <1>6, LookDoes DEF Lands
<1>7. CASE Stat(p) \/ Read(p) BY <1>0, <1>7, ReloadDoes DEF UpToDate, Lands
<1>8. CASE Available(p) BY <1>0, <1>8, AvailableDoes
<1>9. CASE Lock(p) BY <1>0, <1>9, LockDoes, EndDoes
<1>10. CASE PackCommit(p) \/ PruneOne(p)
  BY <1>0, <1>10, BaseTyped DEF PackCommit, PruneOne
<1>11. CASE ~(List(p) \/ Load(p) \/ PackOpen(p) \/ Drop(p) \/ Begin(p) \/ Look(p) \/ Stat(p)
              \/ Read(p) \/ Available(p) \/ Lock(p) \/ PackCommit(p) \/ PruneOne(p))
  <2>1. End(p) \/ \E l \in {"done", "unlink", "unlock", "lock to", "commit to", "abandon",
                            "updated", "prune one"} : Goto(p, l)
    BY <1>11 DEF Act, Finish, Commit, CommitFails, Abandon, Unlink, Unlock, LockTo, CommitTo,
       PackFails, Prune, Updated, Kill, Fail
  <2> QED BY <1>0, <2>1, EndDoes, GotoDoes
<1> QED BY <1>1, <1>2, <1>3, <1>4, <1>5, <1>6, <1>7, <1>8, <1>9, <1>10, <1>11

LEMMA PackedFrom ==
  ASSUME NEW p, Act(p), ~PackCommit(p) PROVE packed' = packed
BY DEF Act, files, Begin, Look, Stat, Read, Finish, Available, Lock, Commit, CommitFails,
   Abandon, Drop, Unlink, Unlock, LockTo, CommitTo, List, Load, PackOpen, PackFails, Prune,
   PruneOne, Updated, Kill

LEMMA PendingOfOther ==
  ASSUME SoleMaintainer, Base, SoleInv, NEW p \in Procs, Act(p), NEW o \in Procs, o # p
  PROVE Pending(o)'
<1> SUFFICES ASSUME pc'[o] \in {"stat", "read"}, goal'[o] \in {"answer", "carry"}
             PROVE /\ packed'[task'[o].ref] \in seen'[o]
                   /\ \A m \in Maintainers : Rewriting(m)' => cache'[m][task'[o].ref] \in seen'[o]
  BY DEF Pending, Maintainers
<1> DEFINE r == task[o].ref
<1>1. pc'[o] = pc[o] /\ goal'[o] = goal[o] /\ task'[o] = task[o]
  BY BaseTyped, ActControlApart DEF ControlApart
<1>2. r \in Refs /\ Store!Watches(task[o], r) /\ Value[r] \in seen[o]
  BY <1>1, PendingWatches DEF Lookers, SoleInv, Current
<1>3. /\ packed[r] \in seen[o]
      /\ \A m \in Maintainers : Rewriting(m) => cache[m][r] \in seen[o]
  BY <1>1 DEF SoleInv, Pending
<1>4. seen[o] \subseteq seen'[o] BY ActSees DEF Sees
<1>5. CASE PackCommit(p)
  <2>1. /\ pc[p] = "pack commit" /\ packed' = cache[p] /\ pc'[p] = "prune" /\ task' = task
    BY <1>5, BaseTyped DEF PackCommit
  <2>2. p \in Maintainers /\ task[p].kind \in {"delete", "rename", "compress"}
    BY <2>1, AtWork DEF Fits
  <2>3. packed'[r] \in seen'[o]
    <3>1. CASE task[p].kind = "compress" BY <1>3, <1>4, <2>1, <2>2, <3>1 DEF Rewriting
    <3>2. CASE Store!Deleting(task[p])
      <4>1. cache[p] = [packed EXCEPT ![task[p].ref] = None]
        BY <2>1, <2>2, <3>2 DEF SoleInv, MaintainerCache
      <4>2. CASE r # task[p].ref BY <1>2, <1>3, <1>4, <2>1, <4>1, <4>2, BaseTyped
      <4>3. CASE r = task[p].ref
        <5>1. packed'[r] = None BY <1>2, <2>1, <4>1, <4>3, BaseTyped
        <5>2. None \in seen'[o] BY <1>2, <1>5, <3>2, <4>3, NoneIsValue DEF PackCommit
        <5> QED BY <5>1, <5>2
      <4> QED BY <4>2, <4>3
    <3> QED BY <2>2, <3>1, <3>2 DEF Store!Deleting
  <2>4. ~Rewriting(p)' BY <2>1 DEF Rewriting
  <2>5. \A m \in Maintainers : m = p BY <2>2 DEF SoleMaintainer
  <2> QED BY <1>1, <2>3, <2>4, <2>5
<1>6. CASE ~PackCommit(p)
  <2>1. packed' = packed BY <1>6, PackedFrom
  <2>2. ASSUME NEW m \in Maintainers, Rewriting(m)' PROVE cache'[m][r] \in seen'[o]
    <3>1. CASE m = p
      BY <1>2, <1>3, <1>4, <2>2, <3>1, RewritingFrom
    <3>2. CASE m # p
      <4>1. m \in Procs BY DEF Maintainers
      <4>2. pc'[m] = pc[m] /\ task'[m] = task[m] /\ cache'[m] = cache[m]
        BY <3>2, <4>1, BaseTyped, ActControlApart, ActMemoryApart DEF ControlApart, MemoryApart
      <4>3. Rewriting(m) BY <2>2, <4>2 DEF Rewriting
      <4> QED BY <1>3, <1>4, <4>2, <4>3
    <3> QED BY <3>1, <3>2
  <2> QED BY <1>1, <1>3, <1>4, <2>1, <2>2
<1> QED BY <1>5, <1>6

-----------------------------------------------------------------------------
(* What is answered, and what a rename carries over. *)

LEMMA CarriedOfOther ==
  ASSUME Base, SoleInv, NEW p \in Procs, Act(p), NEW o \in Procs, o # p
  PROVE Carried(o)'
<1>1. pc'[o] = pc[o] /\ goal'[o] = goal[o] /\ task'[o] = task[o] /\ got'[o] = got[o]
  BY BaseTyped, ActControlApart DEF ControlApart
<1>2. seen[o] \subseteq seen'[o] BY ActSees DEF Sees
<1>3. At(o)' = At(o) BY <1>1 DEF At
<1>4. Carried(o) BY DEF SoleInv
<1> QED BY <1>1, <1>2, <1>3, <1>4 DEF Carried

(* A lookup lands with a value that was seen. *)
LEMMA LandsCarried ==
  ASSUME Base, SoleInv, NEW p \in Procs, pc[p] \in Lookers, seen' = seen,
         NEW v \in Values, goal[p] \in {"answer", "carry"} => v \in seen[p], Lands(p, v),
         goal[p] \in {"answer", "expect", "same", "carry", "exists"}
  PROVE Carried(p)'
<1>1. At(p) = goal[p] BY DEF At, Lookers
<1>2. Fits(task[p], goal[p]) BY <1>1, RequestOf
<1>3. v = None \/ v \in Ids BY DEF Values, Store!Values
<1>4. CASE goal[p] = "answer" BY <1>2, <1>4 DEF Lands, Carried, Fits
<1>5. CASE goal[p] = "carry"
  <2>1. got'[p] = v /\ pc'[p] \in {"done", "lock"} /\ (pc'[p] = "lock" => v # None)
    BY <1>5 DEF Lands
  <2>2. At(p)' = pc'[p] BY <2>1 DEF At
  <2> QED BY <1>3, <1>5, <2>1, <2>2 DEF Carried
<1>6. CASE goal[p] \in {"expect", "same"}
  <2>1. task[p].kind # "rename" /\ task'[p] = task[p] BY <1>2, <1>6 DEF Fits, Lands
  <2>2. pc'[p] # "answer" BY <1>6 DEF Lands
  <2> QED BY <2>1, <2>2 DEF Carried
<1>7. CASE goal[p] = "exists"
  <2>1. task'[p] = task[p] /\ pc'[p] # "answer" BY <1>7 DEF Lands
  <2>2. task[p].kind = "rename" => At(p)' \in {"done", "carry"} BY <1>7 DEF Lands, At
  <2> QED BY <2>1, <2>2 DEF Carried
<1> QED BY <1>4, <1>5, <1>6, <1>7

LEMMA CarriedOwn ==
  ASSUME SoleMaintainer, Base, SoleInv, NEW p \in Procs, Act(p)
  PROVE Carried(p)'
<1>0. Carried(p) BY DEF SoleInv
<1>1. CASE Begin(p)
  <2>1. PICK q \in Asks[p] :
          /\ task'[p] = q /\ pc'[p] # "answer"
          /\ q.kind = "rename" => pc'[p] = "stat" /\ goal'[p] = "available"
    BY <1>1, BeginDoes
  <2>2. q.kind = "rename" => At(p)' = "available" BY <2>1 DEF At
  <2> QED BY <2>1, <2>2 DEF Carried
<1>2. CASE Look(p)
  <2> DEFINE r == task[p].ref
  <2>1. /\ pc[p] = "look" /\ At(p) = goal[p] /\ seen' = seen
        /\ goal[p] \in {"answer", "expect", "same", "carry"}
    BY <1>2, LookDoes DEF Look
  <2>2. r \in Refs
    <3>1. task[p].kind \in {"lookup", "write", "delete", "rename"} BY <2>1, RequestOf DEF Fits
    <3> QED BY <3>1, RefOf
  <2>3. CASE loose[r] # None /\ Lands(p, loose[r])
    <3>1. loose[r] \in Values /\ Value[r] = loose[r] BY <2>2, <2>3, BaseTyped, ValueOf
    <3>2. goal[p] \in {"answer", "carry"} => Value[r] \in seen[p]
      BY <2>1, PendingWatches DEF Lookers, SoleInv, Current
    <3> QED BY <2>1, <2>3, <3>1, <3>2, LandsCarried DEF Lookers
  <2>4. CASE pc'[p] = "stat" /\ goal'[p] = goal[p] /\ task'[p] = task[p] /\ got'[p] = got[p]
    <3>1. At(p)' = At(p) BY <2>1, <2>4 DEF At
    <3> QED BY <1>0, <2>1, <2>4, <3>1 DEF Carried
  <2> QED BY <1>2, <2>3, <2>4, LookDoes
<1>3. CASE Stat(p) \/ Read(p)
  <2> DEFINE r == task[p].ref
  <2>1. pc[p] \in {"stat", "read"} /\ At(p) = goal[p] /\ seen' = seen
    BY <1>3, ReloadDoes DEF Stat, Read
  <2>2. CASE pc'[p] = "read" /\ goal'[p] = goal[p] /\ task'[p] = task[p] /\ got'[p] = got[p]
    <3>1. At(p)' = At(p) BY <2>1, <2>2 DEF At
    <3> QED BY <1>0, <2>1, <2>2, <3>1 DEF Carried
  <2>3. CASE goal[p] \in {"list", "available", "drop"} /\ pc'[p] = goal[p]
             /\ task'[p] = task[p] /\ got'[p] = got[p]
    <3>1. At(p)' = At(p) BY <2>1, <2>3 DEF At
    <3> QED BY <1>0, <2>1, <2>3, <3>1 DEF Carried
  <2>4. CASE goal[p] \in {"answer", "expect", "same", "carry"} /\ Lands(p, packed[r])
    <3>1. task[p].kind \in {"lookup", "write", "delete", "rename"}
      BY <2>1, <2>4, RequestOf DEF Fits
    <3>2. packed[r] \in Values BY <3>1, RefOf, BaseTyped
    <3>3. goal[p] \in {"answer", "carry"} => packed[r] \in seen[p]
      BY <2>1 DEF SoleInv, Pending
    <3> QED BY <2>1, <2>4, <3>2, <3>3, LandsCarried DEF Lookers
  <2>5. CASE goal[p] = "exists" /\ \E v : Lands(p, v)
    <3>1. Lands(p, None) BY <2>5 DEF Lands
    <3> QED BY <2>1, <2>5, <3>1, NoneIsValue, LandsCarried DEF Lookers
  <2> QED BY <1>3, <2>2, <2>3, <2>4, <2>5, ReloadDoes DEF UpToDate
<1>4. CASE Available(p)
  <2>1. /\ task'[p] = task[p] /\ pc'[p] # "answer"
        /\ task[p].kind = "rename" => At(p)' \in {"done", "exists", "carry"}
    BY <1>4, AvailableDoes DEF At
  <2> QED BY <2>1 DEF Carried
<1>5. CASE Lock(p) /\ ~End(p)
  <2>1. /\ At(p) = "lock" /\ task'[p] = task[p] /\ got'[p] = got[p] /\ seen' = seen
        /\ pc'[p] # "answer"
    BY <1>5, LockDoes
  <2> QED BY <1>0, <2>1 DEF Carried
<1>6. CASE End(p) BY <1>6, EndDoes, EndedCurrent
<1>7. CASE ~(Begin(p) \/ Look(p) \/ Stat(p) \/ Read(p) \/ Available(p) \/ Lock(p)) /\ ~End(p)
  <2>1. /\ pc[p] \in Working /\ At(p) = pc[p] /\ pc'[p] # "answer"
        /\ task'[p] = task[p] /\ got'[p] = got[p]
    BY <1>7, WorkDoes DEF Working
  <2>2. seen[p] \subseteq seen'[p] BY <1>7, ActSees DEF Sees
  <2> QED BY <1>0, <2>1, <2>2 DEF Carried, Working
<1> QED BY <1>1, <1>2, <1>3, <1>4, <1>5, <1>6, <1>7

-----------------------------------------------------------------------------
(* A reference under its lock. *)

LEMMA HeldOwned ==
  ASSUME Base, NEW p \in Procs, NEW r \in HeldAt(task[p], At(p)) PROVE looseLock[r] = p
<1>1. r \in Held(p) BY HeldIs
<1>2. r \in Mine(p) BY <1>1, BaseTyped DEF Owns
<1> QED BY <1>2 DEF Mine

(* The steps of one process leave the value of what another has locked. *)
LEMMA LockedKept ==
  ASSUME Base, SoleInv, NEW p \in Procs, Act(p), NEW o \in Procs, o # p,
         NEW r \in Refs, looseLock[r] = o
  PROVE loose'[r] = loose[r] /\ Value'[r] = Value[r]
<1>1. CASE Commit(p) \/ Unlink(p) \/ CommitTo(p)
  <2>1. PICK s, v : loose' = [loose EXCEPT ![s] = v] /\ s \in HeldAt(task[p], At(p))
    <3>1. pc[p] \in {"commit", "unlink", "commit to"} /\ At(p) = pc[p]
      BY <1>1 DEF Commit, Unlink, CommitTo, At
    <3>2. CASE CommitTo(p) BY <3>1, <3>2 DEF CommitTo, HeldAt
    <3>3. CASE Commit(p) \/ Unlink(p) BY <3>1, <3>3 DEF Commit, Unlink, HeldAt
    <3> QED BY <1>1, <3>2, <3>3
  <2>2. s # r BY <2>1, HeldOwned
  <2>3. loose'[r] = loose[r] /\ packed' = packed
    BY <1>1, <2>1, <2>2, BaseTyped DEF Commit, Unlink, CommitTo
  <2> QED BY <2>3 DEF Value
<1>2. CASE PruneOne(p)
  <2>1. PICK s \in todo[p] : looseLock[s] = p /\ loose' \in {loose, [loose EXCEPT ![s] = None]}
    BY <1>2 DEF PruneOne
  <2>2. loose'[r] = loose[r] /\ packed' = packed BY <1>2, <2>1, BaseTyped DEF PruneOne
  <2> QED BY <2>2 DEF Value
<1>3. CASE PackCommit(p)
  <2>1. pc[p] = "pack commit" /\ packed' = cache[p] /\ loose' = loose BY <1>3 DEF PackCommit
  <2>2. p \in Maintainers /\ At(p) = "pack commit" /\ task[p].kind \in {"delete", "rename", "compress"}
    BY <2>1, AtWork DEF Fits
  <2>3. MaintainerCache(p) BY <2>2 DEF SoleInv
  <2>4. loose[r] = None => cache[p][r] = packed[r]
    <3>1. CASE task[p].kind = "compress" BY <2>1, <2>3, <3>1 DEF MaintainerCache
    <3>2. CASE Store!Deleting(task[p])
      <4>1. cache[p] = [packed EXCEPT ![task[p].ref] = None]
        BY <2>1, <2>3, <3>2 DEF MaintainerCache
      <4>2. looseLock[task[p].ref] = p BY <2>2, <3>2, HeldOwned DEF HeldAt
      <4> QED BY <4>1, <4>2, BaseTyped
    <3> QED BY <2>2, <3>1, <3>2 DEF Store!Deleting
  <2> QED BY <2>1, <2>4 DEF Value
<1>4. CASE ~(Commit(p) \/ Unlink(p) \/ CommitTo(p) \/ PruneOne(p) \/ PackCommit(p))
  <2>1. UNCHANGED <<loose, packed>>
    BY <1>4 DEF Act, files, Begin, Look, Stat, Read, Finish, Available, Lock, CommitFails, Abandon,
       Drop, Unlock, LockTo, List, Load, PackOpen, PackFails, Prune, Updated, Kill
  <2> QED BY <2>1, SameValue
<1> QED BY <1>1, <1>2, <1>3, <1>4

LEMMA ComparesOfOther ==
  ASSUME Base, SoleInv, NEW p \in Procs, Act(p), NEW o \in Procs, o # p
  PROVE Compares(o)'
<1>1. pc'[o] = pc[o] /\ goal'[o] = goal[o] /\ task'[o] = task[o]
  BY BaseTyped, ActControlApart DEF ControlApart
<1>2. At(o)' = At(o) BY <1>1 DEF At
<1>3. Compares(o) BY DEF SoleInv
<1> DEFINE r == task[o].ref
<1>4. CASE /\ task[o].kind \in {"write", "delete"}
           /\ At(o) \in {"expect", "same", "commit", "drop", "unlink", "pack open", "pack commit",
                        "prune", "prune one", "updated"}
  <2>1. r \in HeldAt(task[o], At(o))
    BY <1>4, RequestOf DEF HeldAt, Store!Deleting, Fits
  <2>2. looseLock[r] = o /\ r \in Refs BY <1>4, <2>1, HeldOwned, RefOf
  <2>3. loose'[r] = loose[r] /\ Value'[r] = Value[r] BY <2>2, LockedKept
  <2> QED BY <1>1, <1>2, <1>3, <2>3 DEF Compares
<1>5. CASE ~(/\ task[o].kind \in {"write", "delete"}
             /\ At(o) \in {"expect", "same", "commit", "drop", "unlink", "pack open", "pack commit",
                          "prune", "prune one", "updated"})
  <2>1. pc[o] \in {"stat", "read"} /\ goal[o] \in {"expect", "same"} =>
          At(o) = goal[o] /\ task[o].kind \in {"write", "delete"}
    BY RequestOf DEF At, Fits
  <2> QED BY <1>1, <1>2, <1>5, <2>1 DEF Compares
<1> QED BY <1>4, <1>5

(* A lookup that lands with the value of the reference. *)
LEMMA LandsCompares ==
  ASSUME Base, SoleInv, NEW p \in Procs, pc[p] \in Lookers, UNCHANGED <<loose, packed>>,
         NEW v, goal[p] = "expect" => v = Value[task[p].ref], Lands(p, v),
         goal[p] \in {"answer", "expect", "same", "carry", "exists"}
  PROVE Compares(p)'
<1>1. At(p) = goal[p] /\ Fits(task[p], goal[p])
  <2>1. At(p) = goal[p] BY DEF At, Lookers
  <2> QED BY <2>1, RequestOf
<1>2. Value' = Value /\ task'[p] = task[p] BY SameValue DEF Lands
<1>3. Compares(p) BY DEF SoleInv
<1>4. CASE goal[p] \in {"answer", "carry"}
  <2>1. task[p].kind \notin {"write", "delete"} BY <1>1, <1>4 DEF Fits
  <2>2. pc'[p] \notin {"stat", "read"} BY <1>4 DEF Lands
  <2> QED BY <1>2, <2>1, <2>2 DEF Compares
<1>5. CASE goal[p] = "exists"
  <2>1. pc'[p] \in {"done", "lock"} \/ task[p].kind = "rename" BY <1>5 DEF Lands
  <2>2. pc'[p] \notin {"stat", "read"} BY <1>5 DEF Lands
  <2>3. pc'[p] \in {"done", "lock"} => At(p)' \in {"done", "lock"} BY DEF At
  <2> QED BY <1>2, <2>1, <2>2, <2>3 DEF Compares
<1>6. CASE goal[p] = "same"
  <2>1. pc'[p] \in {"abandon", "commit"} BY <1>6 DEF Lands
  <2>2. At(p)' = pc'[p] BY <2>1 DEF At
  <2> QED BY <1>1, <1>2, <1>3, <1>6, <2>1, <2>2 DEF Compares
<1>7. CASE goal[p] = "expect"
  <2>1. CASE pc'[p] = "abandon"
    <3>1. At(p)' = "abandon" BY <2>1 DEF At
    <3> QED BY <1>2, <2>1, <3>1 DEF Compares
  <2>2. CASE pc'[p] # "abandon"
    <3>1. /\ Value[task[p].ref] = task[p].old
          /\ (pc'[p] = "look" /\ goal'[p] = "same") \/ (pc'[p] = "stat" /\ goal'[p] = "drop")
      BY <1>7, <2>2 DEF Lands
    <3>2. At(p)' \in {"same", "drop"} BY <3>1 DEF At
    <3> QED BY <1>2, <3>1, <3>2 DEF Compares
  <2> QED BY <2>1, <2>2
<1> QED BY <1>4, <1>5, <1>6, <1>7

LEMMA ComparesWorking ==
  ASSUME SoleMaintainer, Base, SoleInv, NEW p \in Procs, Act(p), ~End(p),
         ~(Begin(p) \/ Look(p) \/ Stat(p) \/ Read(p) \/ Available(p) \/ Lock(p))
  PROVE Compares(p)'
<1> DEFINE q == task[p]
           r == task[p].ref
<1>1. /\ pc[p] \in Working /\ At(p) = pc[p] /\ At(p)' = pc'[p] /\ task'[p] = task[p]
      /\ pc'[p] \in (Working \cup {"done", "abandon"}) \ {"drop", "list", "commit"}
  BY WorkDoes
<1>2. pc'[p] \notin {"stat", "read", "same", "commit", "drop"} BY <1>1 DEF Working
<1>3. Fits(q, pc[p]) /\ Compares(p) BY <1>1, RequestOf DEF SoleInv
<1> SUFFICES ASSUME q.kind \in {"write", "delete"},
                    pc'[p] \in {"pack open", "pack commit", "prune", "prune one", "updated", "unlink"}
             PROVE /\ pc'[p] \in {"pack open", "pack commit"} => q.old \in {AnyId, Value'[r]}
                   /\ pc'[p] \in {"prune", "prune one", "updated", "unlink"}
                        => q.old \in {AnyId, Value'[r]} \/ Value'[r] = None
  BY <1>1, <1>2 DEF Compares
<1>4. r \in Refs BY RefOf
<1>5. CASE Drop(p)
  <2>1. pc[p] = "drop" /\ UNCHANGED <<loose, packed>> BY <1>5 DEF Drop, files
  <2> QED BY <1>1, <1>3, <2>1, SameValue DEF Compares
<1>6. CASE PackOpen(p)
  <2>1. pc[p] = "pack open" /\ UNCHANGED <<loose, packed>> BY <1>6 DEF PackOpen, files
  <2> QED BY <1>1, <1>3, <2>1, SameValue DEF Compares
<1>7. CASE PackCommit(p)
  <2>1. pc[p] = "pack commit" /\ packed' = cache[p] /\ loose' = loose /\ pc'[p] = "prune"
    BY <1>7, BaseTyped DEF PackCommit
  <2>2. Store!Deleting(q) /\ p \in Maintainers BY <1>3, <2>1, AtWork DEF Fits, Store!Deleting
  <2>3. cache[p] = [packed EXCEPT ![r] = None] BY <2>1, <2>2 DEF SoleInv, MaintainerCache
  <2>4. packed'[r] = None BY <1>4, <2>1, <2>3, BaseTyped
  <2>5. Value'[r] = Value[r] \/ Value'[r] = None BY <1>4, <2>1, <2>4 DEF Value
  <2> QED BY <1>1, <1>3, <2>1, <2>5 DEF Compares
<1>8. CASE Prune(p)
  <2>1. pc[p] = "prune" /\ UNCHANGED <<loose, packed>> BY <1>8 DEF Prune, files
  <2>2. pc'[p] \notin {"pack open", "pack commit"}
    <3>1. PICK l \in {"updated", "prune one", "abandon"} : Goto(p, l) BY <1>8 DEF Prune, Fail
    <3> QED BY <3>1, GotoDoes
  <2> QED BY <1>1, <1>3, <2>1, <2>2, SameValue DEF Compares
<1>9. CASE PruneOne(p)
  <2>1. pc[p] = "prune one" /\ packed' = packed /\ pc'[p] = "prune"
    BY <1>9, BaseTyped DEF PruneOne
  <2>2. Store!Deleting(q) BY <1>3, <2>1 DEF Fits, Store!Deleting
  <2>3. r \notin todo[p] BY <2>1, <2>2, BaseTyped DEF NotItsOwn
  <2>4. PICK s \in todo[p] : loose' \in {loose, [loose EXCEPT ![s] = None]} BY <1>9 DEF PruneOne
  <2>5. loose'[r] = loose[r] BY <1>4, <2>3, <2>4, BaseTyped
  <2>6. Value'[r] = Value[r] BY <1>4, <2>1, <2>5 DEF Value
  <2> QED BY <1>1, <1>3, <2>1, <2>6 DEF Compares
<1>10. CASE Updated(p)
  <2>1. pc[p] = "updated" /\ UNCHANGED <<loose, packed>> BY <1>10 DEF Updated, files
  <2>2. pc'[p] = "unlink" BY <1>10, GotoDoes DEF Updated
  <2> QED BY <1>1, <1>3, <2>1, <2>2, SameValue DEF Compares
<1>11. CASE List(p) \/ Load(p)
  <2>1. pc[p] \in {"list", "load"} BY <1>11 DEF List, Load
  <2> QED BY <1>3, <2>1 DEF Fits
<1>12. CASE ~(Drop(p) \/ PackOpen(p) \/ PackCommit(p) \/ Prune(p) \/ PruneOne(p) \/ Updated(p)
              \/ List(p) \/ Load(p))
  <2>1. PICK l \in {"done", "unlock", "lock to", "commit to", "abandon"} : Goto(p, l)
    BY <1>12 DEF Act, Finish, Commit, CommitFails, Abandon, Unlink, Unlock, LockTo, CommitTo,
       PackFails, Kill, Fail
  <2> QED BY <2>1, GotoDoes
<1> QED BY <1>5, <1>6, <1>7, <1>8, <1>9, <1>10, <1>11, <1>12

LEMMA ComparesOwn ==
  ASSUME SoleMaintainer, Base, SoleInv, NEW p \in Procs, Act(p)
  PROVE Compares(p)'
<1>0. Compares(p) BY DEF SoleInv
<1>1. CASE Begin(p)
  <2>1. /\ task'[p].kind \in {"write", "delete"} => At(p)' \in {"available", "lock"}
        /\ pc'[p] = "stat" => goal'[p] \in {"list", "available"}
        /\ pc'[p] # "read"
    BY <1>1, BeginDoes DEF At
  <2> QED BY <2>1 DEF Compares
<1>2. CASE Look(p)
  <2> DEFINE r == task[p].ref
  <2>1. /\ pc[p] = "look" /\ At(p) = goal[p] /\ UNCHANGED <<loose, packed>>
        /\ goal[p] \in {"answer", "expect", "same", "carry"}
    BY <1>2, LookDoes DEF Look, files
  <2>2. r \in Refs
    <3>1. task[p].kind \in {"lookup", "write", "delete", "rename"} BY <2>1, RequestOf DEF Fits
    <3> QED BY <3>1, RefOf
  <2>3. CASE loose[r] # None /\ Lands(p, loose[r])
    <3>1. Value[r] = loose[r] BY <2>2, <2>3, ValueOf
    <3> QED BY <2>1, <2>3, <3>1, LandsCompares DEF Lookers
  <2>4. CASE loose[r] = None /\ pc'[p] = "stat" /\ goal'[p] = goal[p] /\ task'[p] = task[p]
    <3>1. At(p)' = At(p) BY <2>1, <2>4 DEF At
    <3> QED BY <1>0, <2>1, <2>4, <3>1, SameValue DEF Compares
  <2> QED BY <1>2, <2>3, <2>4, LookDoes
<1>3. CASE Stat(p) \/ Read(p)
  <2> DEFINE r == task[p].ref
  <2>1. pc[p] \in {"stat", "read"} /\ At(p) = goal[p] /\ UNCHANGED <<loose, packed>>
    BY <1>3, ReloadDoes DEF Stat, Read, files
  <2>2. CASE pc'[p] = "read" /\ goal'[p] = goal[p] /\ task'[p] = task[p]
    <3>1. At(p)' = At(p) BY <2>1, <2>2 DEF At
    <3> QED BY <1>0, <2>1, <2>2, <3>1, SameValue DEF Compares
  <2>3. CASE goal[p] \in {"list", "available", "drop"} /\ pc'[p] = goal[p] /\ task'[p] = task[p]
    <3>1. At(p)' = At(p) BY <2>1, <2>3 DEF At
    <3> QED BY <1>0, <2>1, <2>3, <3>1, SameValue DEF Compares
  <2>4. CASE goal[p] \in {"answer", "expect", "same", "carry"} /\ Lands(p, packed[r])
    <3>1. task[p].kind \in {"lookup", "write", "delete", "rename"}
      BY <2>1, <2>4, RequestOf DEF Fits
    <3>2. r \in Refs BY <3>1, RefOf
    <3>3. goal[p] = "expect" => packed[r] = Value[r]
      BY <1>0, <2>1, <3>2, ValueOf DEF Compares
    <3> QED BY <2>1, <2>4, <3>3, LandsCompares DEF Lookers
  <2>5. CASE goal[p] = "exists" /\ \E v : Lands(p, v)
    BY <2>1, <2>5, LandsCompares DEF Lookers
  <2> QED BY <1>3, <2>2, <2>3, <2>4, <2>5, ReloadDoes DEF UpToDate
<1>4. CASE Available(p)
  <2>1. /\ task'[p] = task[p]
        /\ task[p].kind # "rename" => At(p)' \in {"done", "exists", "lock"}
        /\ pc'[p] = "stat" => goal'[p] = "exists"
        /\ pc'[p] # "read"
    BY <1>4, AvailableDoes DEF At
  <2> QED BY <2>1 DEF Compares
<1>5. CASE Lock(p) /\ ~End(p)
  <2>1. task'[p] = task[p] BY <1>5, LockDoes
  <2>2. pc'[p] # "read" /\ (pc'[p] = "stat" => goal'[p] = "drop") BY <1>5, LockDoes
  <2>3. task[p].kind \in {"write", "delete"} =>
          At(p)' = "expect" \/ (task[p].old = AnyId /\ At(p)' \in {"same", "drop"})
    BY <1>5, LockDoes DEF At
  <2> QED BY <2>1, <2>2, <2>3 DEF Compares
<1>6. CASE End(p) BY <1>6, EndDoes, EndedCurrent
<1>7. CASE ~(Begin(p) \/ Look(p) \/ Stat(p) \/ Read(p) \/ Available(p) \/ Lock(p)) /\ ~End(p)
  BY <1>7, ComparesWorking
<1> QED BY <1>1, <1>2, <1>3, <1>4, <1>5, <1>6, <1>7

-----------------------------------------------------------------------------
(* The strengthening is inductive. *)

LEMMA BaseInductive ==
  /\ Init => Base
  /\ Base /\ [Next]_vars => Base'
<1>1. Init => Exact
  <2>1. Init => Good /\ NoPackNoLines BY InitGood DEF Init, NoPackNoLines
  <2>2. Init => \A p \in Procs \ Maintainers : CacheFits(p) BY DEF Init, CacheFits
  <2> QED BY <2>1, <2>2 DEF Exact
<1> QED BY <1>1, DisciplineInit, DisciplineStep, ExactStep DEF Base

LEMMA SoleInit == Init => SoleInv
<1> SUFFICES ASSUME Init PROVE SoleInv OBVIOUS
<1>1. packLock # Dead BY LocksApart DEF Init
<1>2. ASSUME NEW p \in Maintainers PROVE MaintainerCache(p)
  <2>1. p \in Procs BY DEF Maintainers
  <2>2. pc[p] = "idle" /\ fresh = {} BY <2>1 DEF Init
  <2> QED BY <2>2 DEF MaintainerCache
<1>3. ASSUME NEW p \in Procs PROVE Current(p) /\ Pending(p) /\ Carried(p) /\ Compares(p)
  <2>1. pc[p] = "idle" /\ task[p] = Store!Nothing BY DEF Init
  <2> QED BY <2>1 DEF Current, Pending, Carried, Compares, Store!Watches, Store!Nothing
<1> QED BY <1>1, <1>2, <1>3 DEF SoleInv

LEMMA SoleStep ==
  ASSUME SoleMaintainer, Base, SoleInv, [Next]_vars PROVE SoleInv'
<1>1. CASE UNCHANGED vars
  <2>1. UNCHANGED <<loose, packed, packLock, cache, fresh, pc, goal, task, got, seen>>
    BY <1>1 DEF vars, files, locks, memory, control
  <2>2. Value' = Value /\ \A p \in Procs : At(p)' = At(p) BY <2>1, SameValue DEF At
  <2>3. ASSUME NEW p \in Maintainers PROVE MaintainerCache(p)'
    <3>1. MaintainerCache(p) BY DEF SoleInv
    <3> QED BY <2>1, <3>1 DEF MaintainerCache
  <2>4. ASSUME NEW p \in Procs PROVE (Current(p) /\ Pending(p))'
    <3>1. Current(p) /\ Pending(p) BY DEF SoleInv
    <3> QED BY <2>1, <2>2, <3>1 DEF Current, Pending, Rewriting, Maintainers
  <2>5. ASSUME NEW p \in Procs PROVE (Carried(p) /\ Compares(p))'
    <3>1. Carried(p) /\ Compares(p) BY DEF SoleInv
    <3> QED BY <2>1, <2>2, <3>1 DEF Carried, Compares
  <2>6. packLock' # Dead BY <2>1 DEF SoleInv
  <2> QED BY <2>3, <2>4, <2>5, <2>6 DEF SoleInv, Maintainers
<1>2. ASSUME NEW p \in Procs, Act(p) PROVE SoleInv'
  <2>1. packLock' # Dead BY <1>2, NeverDead
  <2>2. ASSUME NEW m \in Maintainers PROVE MaintainerCache(m)'
    <3>1. m \in Procs BY DEF Maintainers
    <3>2. CASE m = p BY <1>2, <3>1, <3>2, CacheOfIts
    <3>3. CASE m # p BY <1>2, <3>3, CacheOfOther
    <3> QED BY <3>2, <3>3
  <2>3. ASSUME NEW o \in Procs PROVE (Current(o) /\ Pending(o) /\ Carried(o) /\ Compares(o))'
    <3>1. Current(o)' BY <1>2, CurrentStep
    <3>2. CASE o = p BY <1>2, <3>1, <3>2, PendingOwn, CarriedOwn, ComparesOwn
    <3>3. CASE o # p BY <1>2, <3>1, <3>3, PendingOfOther, CarriedOfOther, ComparesOfOther
    <3> QED BY <3>2, <3>3
  <2> QED BY <2>1, <2>2, <2>3 DEF SoleInv, Maintainers
<1> QED BY <1>1, <1>2 DEF Next

-----------------------------------------------------------------------------
(* The file system implements RefStore: what each step does there. *)

Answered == [p \in Procs |-> IF pc[p] = "answer" THEN got[p] ELSE <<>>]

LEMMA AnsweredKept ==
  ASSUME Base, NEW p \in Procs, ControlApart(p), pc[p] # "answer", pc'[p] # "answer"
  PROVE Answered' = Answered
BY DEF Answered, ControlApart

LEMMA TaskKept ==
  ASSUME Base, Base', NEW p \in Procs, ControlApart(p), task'[p] = task[p] PROVE task' = task
<1>1. \A o \in Procs : task'[o] = task[o] BY DEF ControlApart
<1>2. task \in [Procs -> Store!Requests \cup {Store!Nothing}]
      /\ task' \in [Procs -> Store!Requests \cup {Store!Nothing}]
  BY DEF Base, Discipline, Good, ControlGood, ControlTyped
<1> QED BY <1>1, <1>2

(* Watch is Show where one reference changes, and nothing where none does. *)
LEMMA WatchShows ==
  ASSUME Base, SoleInv, Watch, NEW r \in Refs, NEW v, Value' = [Value EXCEPT ![r] = v]
  PROVE Store!Show(r, v)
<1>1. ASSUME NEW o \in Procs
      PROVE seen[o] \cup {Value'[s] : s \in {t \in Refs : Store!Watches(task[o], t)}}
              = IF Store!Watches(task[o], r) THEN seen[o] \cup {v} ELSE seen[o]
  <2>1. \A s \in Refs : Value'[s] = IF s = r THEN v ELSE Value[s] BY DEF Value
  <2>2. Current(o) BY DEF SoleInv
  <2>3. CASE Store!Watches(task[o], r)
    <3>1. {t \in Refs : Store!Watches(task[o], t)} = {r} BY <2>3 DEF Store!Watches
    <3> QED BY <2>1, <2>3, <3>1
  <2>4. CASE ~Store!Watches(task[o], r)
    <3>1. \A s \in Refs : Store!Watches(task[o], s) => Value'[s] \in seen[o]
      BY <2>1, <2>2, <2>4 DEF Current
    <3> QED BY <2>4, <3>1
  <2> QED BY <2>3, <2>4
<1>2. seen' = [o \in Procs |-> seen[o] \cup
                 {Value'[s] : s \in {t \in Refs : Store!Watches(task[o], t)}}]
  BY DEF Watch
<1> QED BY <1>1, <1>2 DEF Store!Show

LEMMA WatchIdle ==
  ASSUME Base, SoleInv, Watch, Value' = Value
  PROVE seen' = seen
<1>1. ASSUME NEW o \in Procs
      PROVE seen[o] \cup {Value'[s] : s \in {t \in Refs : Store!Watches(task[o], t)}} = seen[o]
  BY DEF SoleInv, Current
<1> QED BY <1>1, BaseTyped DEF Watch

LEMMA BeginAsks ==
  ASSUME Base, NEW p \in Procs, Begin(p) PROVE Store!Ask(p)
<1>1. PICK q \in Asks[p] :
        /\ task' = [task EXCEPT ![p] = q]
        /\ seen' = [seen EXCEPT ![p] = {Value[r] : r \in {s \in Refs : Store!Watches(q, s)}}]
  BY DEF Begin
<1>2. q \in Store!Requests BY AskedRequests
<1>3. pc[p] = "idle" /\ At(p) = "idle" /\ UNCHANGED <<loose, packed>> BY DEF Begin, At, files
<1>4. task[p] = Store!Nothing BY <1>3, RequestOf DEF Fits
<1>5. pc'[p] # "answer" BY BeginDoes
<1>6. ControlApart(p) BY BaseTyped, ActControlApart DEF Act
<1>7. Answered' = Answered BY <1>3, <1>5, <1>6, AnsweredKept
<1> QED BY <1>1, <1>2, <1>3, <1>4, <1>7, SameValue DEF Store!Ask, Answered

LEMMA EndEnds ==
  ASSUME Base, NEW p \in Procs, Act(p), End(p), ~Begin(p) PROVE Store!End(p)
<1>1. pc'[p] = "idle" BY EndDoes
<1>2. UNCHANGED <<loose, packed>>
  <2>1. ~(PackCommit(p) \/ Commit(p) \/ Unlink(p) \/ CommitTo(p) \/ PruneOne(p))
    <3>1. ~(Commit(p) \/ Unlink(p) \/ CommitTo(p))
      <4>1. \A l \in {"done", "unlock"} : ~Goto(p, l) BY <1>1, GotoDoes
      <4> QED BY <4>1 DEF Commit, Unlink, CommitTo
    <3>2. ~(PackCommit(p) \/ PruneOne(p)) BY <1>1, BaseTyped DEF PackCommit, PruneOne
    <3> QED BY <3>1, <3>2
  <2> QED BY <2>1 DEF Act, files, Begin, Look, Stat, Read, Finish, Available, Lock, CommitFails,
       Abandon, Drop, Unlock, LockTo, List, Load, PackOpen, PackFails, Prune, Updated, Kill
<1>3. pc[p] # "idle"
  BY DEF Act, Look, Stat, Read, Finish, Available, Lock, Commit, CommitFails, Abandon, Drop, Unlink,
     Unlock, LockTo, CommitTo, List, Load, PackOpen, PackCommit, PackFails, Prune, PruneOne,
     Updated, Kill
<1>4. task[p] # Store!Nothing
  <2>1. At(p) # "idle" BY <1>3, BaseTyped DEF At, WorksOn, Goals
  <2> QED BY <2>1, RequestOf DEF Fits
<1>5. Answered' = [Answered EXCEPT ![p] = <<>>]
  <2>1. ControlApart(p) BY BaseTyped, ActControlApart
  <2> QED BY <1>1, <2>1 DEF Answered, ControlApart
<1>6. /\ task' = [task EXCEPT ![p] = Store!Nothing]
      /\ seen' = [seen EXCEPT ![p] = {}]
  BY DEF End
<1> QED BY <1>2, <1>4, <1>5, <1>6, SameValue DEF Store!End, Store!NoAnswer, Answered

(* A step that shows in the store only where it answers. *)
LEMMA QuietStep ==
  ASSUME Base, Base', SoleInv, SoleInv', NEW p \in Procs, Act(p), pc[p] # "answer",
         task'[p] = task[p], seen' = seen, Value' = Value
  PROVE Store!Answer(p) \/ UNCHANGED <<Value, task, seen, Answered>>
<1>1. ControlApart(p) BY BaseTyped, ActControlApart
<1>2. task' = task BY <1>1, TaskKept
<1>3. CASE pc'[p] # "answer" BY <1>1, <1>2, <1>3, AnsweredKept
<1>4. CASE pc'[p] = "answer"
  <2>1. Carried(p)' BY DEF SoleInv
  <2>2. got'[p] \in seen[p] BY <1>4, <2>1 DEF Carried
  <2>3. task[p].kind = "lookup"
    <3>1. WorksOn(p)' BY DEF Base, Discipline, Good, ControlGood
    <3>2. At(p)' = "answer" BY <1>4 DEF At
    <3> QED BY <1>2, <3>1, <3>2 DEF WorksOn, Fits
  <2>4. Answered' = [Answered EXCEPT ![p] = got'[p]]
    BY <1>1, <1>4 DEF Answered, ControlApart
  <2>5. Answered[p] = <<>> BY DEF Answered
  <2> QED BY <1>2, <2>2, <2>3, <2>4, <2>5 DEF Store!Answer, Store!NoAnswer, Answered
<1> QED BY <1>3, <1>4

(* A step that changes one value, and answers nothing. *)
LEMMA ChangeStep ==
  ASSUME Base, Base', SoleInv, NEW p \in Procs, Act(p), pc[p] # "answer", pc'[p] # "answer",
         task'[p] = task[p], Watch, NEW r \in Refs, NEW v, Value' = [Value EXCEPT ![r] = v]
  PROVE Store!Change(r, v)
<1>1. ControlApart(p) BY BaseTyped, ActControlApart
<1>2. task' = task /\ Answered' = Answered BY <1>1, TaskKept, AnsweredKept
<1>3. Store!Show(r, v) BY WatchShows
<1> QED BY <1>2, <1>3 DEF Store!Change, Answered

Shown == <<Value, task, seen, Answered>>

LEMMA CommitWrites ==
  ASSUME Base, Base', SoleInv, NEW p \in Procs, Commit(p) PROVE Store!Write(p)
<1> DEFINE q == task[p]
<1>1. /\ pc[p] = "commit" /\ At(p) = "commit" /\ Watch /\ Act(p)
      /\ packed' = packed /\ loose' = [loose EXCEPT ![q.ref] = q.new]
  BY DEF Commit, At, Act, Content
<1>2. pc'[p] = "done" /\ task'[p] = q BY GotoDoes DEF Commit
<1>3. q.kind = "write" /\ q.ref \in Refs /\ q.new \in Ids
  BY <1>1, RequestOf DEF Fits, RequestOK
<1>4. q.old \in {AnyId, Value[q.ref]} BY <1>1, <1>3 DEF SoleInv, Compares
<1>5. Value' = [Value EXCEPT ![q.ref] = q.new]
  <2>1. q.new # None BY <1>3, ValuesApart
  <2> QED BY <1>1, <1>3, <2>1, BaseTyped DEF Value
<1> HIDE DEF q
<1>6. Store!Change(q.ref, q.new) BY <1>1, <1>2, <1>3, <1>5, ChangeStep DEF q
<1> QED BY <1>3, <1>4, <1>6 DEF Store!Write, q

LEMMA CommitToMoves ==
  ASSUME Base, Base', SoleInv, NEW p \in Procs, CommitTo(p) PROVE Store!Move(p)
<1> DEFINE q == task[p]
<1>1. /\ pc[p] = "commit to" /\ At(p) = "commit to" /\ Watch /\ Act(p)
      /\ packed' = packed /\ loose' = [loose EXCEPT ![q.to] = got[p]]
  BY DEF CommitTo, At, Act
<1>2. pc'[p] = "done" /\ task'[p] = q BY GotoDoes DEF CommitTo
<1>3. q.kind = "rename" /\ q.to \in Refs
  BY <1>1, RequestOf DEF Fits, RequestOK
<1>4. got[p] \in seen[p] \cap Ids BY <1>1, <1>3 DEF SoleInv, Carried
<1>5. Value' = [Value EXCEPT ![q.to] = got[p]]
  <2>1. got[p] # None BY <1>4, ValuesApart
  <2> QED BY <1>1, <1>3, <2>1, BaseTyped DEF Value
<1> HIDE DEF q
<1>6. Store!Change(q.to, got[p]) BY <1>1, <1>2, <1>3, <1>5, ChangeStep DEF q
<1> QED BY <1>3, <1>4, <1>6 DEF Store!Move, q

(* Taking away a value, or what was not there. *)
LEMMA UnlinkRemoves ==
  ASSUME Base, Base', SoleInv, SoleInv', NEW p \in Procs, Unlink(p)
  PROVE Store!Remove(p) \/ Store!Answer(p) \/ UNCHANGED Shown
<1> DEFINE q == task[p]
<1>1. /\ pc[p] = "unlink" /\ At(p) = "unlink" /\ Watch /\ Act(p)
      /\ packed' = packed /\ loose' = [loose EXCEPT ![q.ref] = None]
  BY DEF Unlink, At, Act
<1>2. pc'[p] = "unlock" /\ task'[p] = q BY GotoDoes DEF Unlink
<1>3. p \in Maintainers /\ Store!Deleting(q) /\ q.ref \in Refs
  BY <1>1, AtWork DEF Fits, RequestOK, Store!Deleting
<1>4. packed[q.ref] = None BY <1>1, <1>3 DEF SoleInv, MaintainerCache
<1>5. Value' = [Value EXCEPT ![q.ref] = None] BY <1>1, <1>3, <1>4, BaseTyped DEF Value
<1> HIDE DEF q
<1>6. CASE q.kind = "delete" => q.old \in {AnyId, Value[q.ref]}
  <2>1. Store!Change(q.ref, None) BY <1>1, <1>2, <1>3, <1>5, ChangeStep DEF q
  <2> QED BY <1>3, <1>6, <2>1 DEF Store!Remove, q
<1>7. CASE q.kind = "delete" /\ q.old \notin {AnyId, Value[q.ref]}
  <2>1. Value[q.ref] = None BY <1>1, <1>7 DEF SoleInv, Compares, q
  <2>2. Value' = Value BY <1>5, <2>1 DEF Value
  <2>3. seen' = seen BY <1>1, <2>2, WatchIdle
  <2> QED BY <1>1, <1>2, <2>2, <2>3, QuietStep DEF Shown, q
<1> QED BY <1>6, <1>7

(* What is pruned is what packed-refs holds. *)
LEMMA PruneShowsNothing ==
  ASSUME Base, Base', SoleInv, SoleInv', NEW p \in Procs, PruneOne(p)
  PROVE Store!Answer(p) \/ UNCHANGED Shown
<1>1. pc[p] = "prune one" /\ packed' = packed /\ Watch /\ Act(p) /\ task' = task
  BY DEF PruneOne, Act
<1>2. cache[p] = packed
  <2>1. p \in Maintainers BY <1>1, AtWork
  <2> QED BY <1>1, <2>1 DEF SoleInv, MaintainerCache
<1>3. PICK r \in todo[p] :
        loose' = IF loose[r] = cache[p][r] THEN [loose EXCEPT ![r] = None] ELSE loose
  BY DEF PruneOne, StillAsPacked
<1>4. Value' = Value
  <2>1. CASE loose[r] # packed[r] BY <1>1, <1>2, <1>3, <2>1, SameValue
  <2>2. CASE loose[r] = packed[r]
    <3>1. loose' = [loose EXCEPT ![r] = None] BY <1>2, <1>3, <2>2
    <3>2. \A s \in Refs : loose'[s] = IF s = r THEN None ELSE loose[s] BY <3>1, BaseTyped
    <3> QED BY <1>1, <2>2, <3>2 DEF Value
  <2> QED BY <2>1, <2>2
<1>5. seen' = seen BY <1>1, <1>4, WatchIdle
<1> QED BY <1>1, <1>4, <1>5, QuietStep DEF Shown

(* The new packed-refs: a compression changes no value, a deletion takes   *)
(* its own away, or makes it doubtful while the loose file is still there. *)
LEMMA PackCommitShows ==
  ASSUME Base, Base', SoleInv, SoleInv', NEW p \in Procs, PackCommit(p)
  PROVE Store!Remove(p) \/ Store!Doubt(p) \/ UNCHANGED Shown
<1> DEFINE q == task[p]
           seenBy(o) == {v \in Values : \E r \in Refs :
                           /\ Store!Watches(task[o], r)
                           /\ v = Value'[r] \/ (v = None /\ Store!Deleting(q) /\ q.ref = r)}
<1>1. /\ pc[p] = "pack commit" /\ packed' = cache[p] /\ loose' = loose /\ task' = task
      /\ pc'[p] = "prune" /\ Act(p)
      /\ seen' = [o \in Procs |-> seen[o] \cup seenBy(o)]
  BY BaseTyped DEF PackCommit, Act
<1>2. /\ p \in Maintainers /\ MaintainerCache(p) /\ At(p) = "pack commit"
      /\ q.kind \in {"delete", "rename", "compress"}
  BY <1>1, AtWork DEF Fits, SoleInv
<1>3. Answered' = Answered
  <2>1. ControlApart(p) BY <1>1, BaseTyped, ActControlApart
  <2> QED BY <1>1, <2>1, AnsweredKept
<1>4. Value' \in [Refs -> Values]
  BY DEF Base, Discipline, Good, FilesTyped, Value, Values, Store!Values
<1>5. CASE q.kind = "compress"
  <2>1. \A r \in Refs : loose[r] = None => cache[p][r] = packed[r]
    BY <1>1, <1>2, <1>5 DEF MaintainerCache
  <2>2. Value' = Value BY <1>1, <2>1 DEF Value
  <2>3. ~Store!Deleting(q) BY <1>5 DEF Store!Deleting
  <2>4. ASSUME NEW o \in Procs PROVE seen[o] \cup seenBy(o) = seen[o]
    <3>1. Current(o) BY DEF SoleInv
    <3> QED BY <2>2, <2>3, <3>1 DEF Current
  <2> HIDE DEF seenBy
  <2>5. seen' = seen BY <1>1, <2>4, BaseTyped
  <2> QED BY <1>1, <1>3, <2>2, <2>5 DEF Shown
<1>6. CASE Store!Deleting(q)
  <2>1. cache[p] = [packed EXCEPT ![q.ref] = None]
    BY <1>1, <1>2, <1>6 DEF MaintainerCache
  <2>2. q.ref \in Refs BY <1>6, RefOf DEF Store!Deleting
  <2>3. /\ \A r \in Refs : r # q.ref => Value'[r] = Value[r]
        /\ Value'[q.ref] = loose[q.ref]
    BY <1>1, <2>1, <2>2, BaseTyped DEF Value
  <2>4. Value'[q.ref] \in {Value[q.ref], None} BY <2>2, <2>3, ValueOf
  <2>5. Store!Show(q.ref, None)
    <3>1. ASSUME NEW o \in Procs
          PROVE seen[o] \cup seenBy(o)
                  = IF Store!Watches(task[o], q.ref) THEN seen[o] \cup {None} ELSE seen[o]
      <4>1. Current(o) BY DEF SoleInv
      <4>2. CASE Store!Watches(task[o], q.ref)
        <5>1. \A r \in Refs : Store!Watches(task[o], r) <=> r = q.ref
          BY <2>2, <4>2 DEF Store!Watches
        <5>2. Value[q.ref] \in seen[o] BY <2>2, <4>1, <4>2 DEF Current
        <5>3. seenBy(o) = {Value'[q.ref], None}
          BY <1>4, <1>6, <2>2, <5>1, NoneIsValue
        <5> QED BY <2>4, <4>2, <5>2, <5>3
      <4>3. CASE ~Store!Watches(task[o], q.ref)
        <5>1. seenBy(o) \subseteq seen[o] BY <2>3, <4>1, <4>3 DEF Current
        <5> QED BY <4>3, <5>1
      <4> QED BY <4>2, <4>3
    <3> HIDE DEF seenBy
    <3> QED BY <1>1, <3>1 DEF Store!Show
  <2> HIDE DEF q, seenBy
  <2>6. CASE Value'[q.ref] = None
    <3>1. Value' = [Value EXCEPT ![q.ref] = None] BY <2>2, <2>3, <2>6 DEF Value
    <3>2. Store!Change(q.ref, None)
      BY <1>1, <1>3, <2>5, <3>1 DEF Store!Change, Answered
    <3>3. q.kind = "delete" => q.old \in {AnyId, Value[q.ref]}
      BY <1>2 DEF SoleInv, Compares, q
    <3> QED BY <1>6, <3>2, <3>3 DEF Store!Remove, q
  <2>7. CASE Value'[q.ref] = Value[q.ref]
    <3>1. Value' = Value BY <2>2, <2>3, <2>7 DEF Value
    <3> QED BY <1>1, <1>3, <1>6, <2>5, <3>1 DEF Store!Doubt, Answered, q
  <2> QED BY <2>4, <2>6, <2>7
<1> QED BY <1>2, <1>5, <1>6 DEF Store!Deleting

LEMMA LookingShows ==
  ASSUME Base, Base', SoleInv, SoleInv', NEW p \in Procs, ~End(p),
         Look(p) \/ Stat(p) \/ Read(p) \/ Available(p) \/ Lock(p)
  PROVE Store!Answer(p) \/ UNCHANGED Shown
<1>1. UNCHANGED <<loose, packed>> /\ pc[p] # "answer" /\ Act(p)
  BY DEF Look, Stat, Read, Available, Lock, files, Act
<1>2. task'[p] = task[p] /\ seen' = seen
  <2>1. CASE Look(p) BY <2>1, LookDoes DEF Look, Lands
  <2>2. CASE Stat(p) \/ Read(p) BY <2>2, ReloadDoes DEF Stat, Read, UpToDate, Lands
  <2>3. CASE Available(p) BY <2>3, AvailableDoes DEF Available
  <2>4. CASE Lock(p) BY <2>4, LockDoes
  <2> QED BY <2>1, <2>2, <2>3, <2>4
<1> QED BY <1>1, <1>2, SameValue, QuietStep DEF Shown

LEMMA StoreStep ==
  ASSUME Base, Base', SoleInv, SoleInv', [Next]_vars
  PROVE [Store!Next]_Shown
<1>1. CASE UNCHANGED vars
  <2>1. UNCHANGED <<loose, packed, task, seen, pc, got>>
    BY <1>1 DEF vars, files, control
  <2> QED BY <2>1, SameValue DEF Shown, Answered
<1>2. ASSUME NEW p \in Procs, Act(p) PROVE [Store!Next]_Shown
  <2>1. CASE Begin(p) BY <2>1, BeginAsks DEF Store!Next
  <2>2. CASE End(p) /\ ~Begin(p) BY <1>2, <2>2, EndEnds DEF Store!Next
  <2>3. CASE Commit(p) BY <2>3, CommitWrites DEF Store!Next
  <2>4. CASE CommitTo(p) BY <2>4, CommitToMoves DEF Store!Next
  <2>5. CASE Unlink(p) BY <2>5, UnlinkRemoves DEF Store!Next
  <2>6. CASE PruneOne(p) BY <2>6, PruneShowsNothing DEF Store!Next
  <2>7. CASE PackCommit(p) BY <2>7, PackCommitShows DEF Store!Next
  <2>8. CASE ~End(p) /\ (Look(p) \/ Stat(p) \/ Read(p) \/ Available(p) \/ Lock(p))
    BY <2>8, LookingShows DEF Store!Next
  <2>9. CASE /\ ~(Begin(p) \/ End(p) \/ Commit(p) \/ CommitTo(p) \/ Unlink(p) \/ PruneOne(p)
                  \/ PackCommit(p))
             /\ ~(Look(p) \/ Stat(p) \/ Read(p) \/ Available(p) \/ Lock(p))
    <3>1. UNCHANGED <<loose, packed, seen>>
      BY <1>2, <2>9 DEF Act, files, Fail, Finish, CommitFails, Abandon, Drop, Unlock, LockTo, List,
         Load, PackOpen, PackFails, Prune, Updated, Kill
    <3>2. task'[p] = task[p] /\ pc[p] # "answer" BY <1>2, <2>9, WorkDoes DEF Working
    <3>3. Store!Answer(p) \/ UNCHANGED Shown
      BY <1>2, <3>1, <3>2, SameValue, QuietStep DEF Shown
    <3> QED BY <3>3 DEF Store!Next
  <2> QED BY <2>1, <2>2, <2>3, <2>4, <2>5, <2>6, <2>7, <2>8, <2>9
<1> QED BY <1>1, <1>2 DEF Next

LEMMA StoreInit == Init => Store!Init
<1> SUFFICES ASSUME Init PROVE Store!Init OBVIOUS
<1>1. Value \in [Refs -> Store!Values] BY InitGood, ValueTyped DEF Good, Values
<1>2. [p \in Procs |-> IF pc[p] = "answer" THEN got[p] ELSE <<>>] = [p \in Procs |-> <<>>]
  BY DEF Init
<1> QED BY <1>1, <1>2 DEF Init, Store!Init, Store!NoAnswer

LEMMA AlwaysSole ==
  ASSUME SoleMaintainer PROVE Spec => [](Base /\ SoleInv)
<1>1. Init => Base /\ SoleInv BY BaseInductive, SoleInit
<1>2. Base /\ SoleInv /\ [Next]_vars => (Base /\ SoleInv)' BY BaseInductive, SoleStep
<1> QED BY <1>1, <1>2, PTL DEF Spec

(* Where one process maintains the repository and does not fail, refdb_fs.c *)
(* keeps what RefStore promises: a value that was not to be changed from    *)
(* another than the stated one is not, packing and pruning change no value, *)
(* a lookup, loose file first and packed-refs later, answers with a value   *)
(* the reference had meanwhile, and no other process, failing or killed at  *)
(* any point, takes any of it away.                                         *)
THEOREM SoleImplements ==
  ASSUME SoleMaintainer PROVE Spec => Implements
<1>1. Init => Store!Init BY StoreInit
<1>2. (Base /\ SoleInv) /\ (Base /\ SoleInv)' /\ [Next]_vars => [Store!Next]_(Store!vars)
  BY StoreStep DEF Shown, Answered, Store!vars
<1> QED BY <1>1, <1>2, AlwaysSole, PTL DEF Spec, Implements, Store!Spec
=============================================================================
