------------------------------ MODULE RefdbFs -------------------------------
(***************************************************************************)
(* The file-system store of references of libgit2, which Emacs loads with  *)
(* the dynamic module of the libgit package: refdb_fs.c with the cache     *)
(* (sortedcache.c), the lock files (filebuf.c) and the stamps (futils.c)   *)
(* it works with.  A reference is a file of its own ("loose"), a line of   *)
(* packed-refs, or both, and then the loose one counts.  A process is one  *)
(* that has the repository open; each has a cache of packed-refs.          *)
(*                                                                         *)
(* One action is one thing another process can see or be seen by: a read,  *)
(* a stat, the creation, the rename or the removal of a file.  Left out:   *)
(* symbolic references, HEAD and the reflogs, names that are prefixes of   *)
(* each other, iterators, worktrees, and the lock and unlock entry points. *)
(***************************************************************************)
CONSTANTS
  Procs,        (* the processes that have the repository open             *)
  Asks,         (* the requests each of them makes                         *)
  Faulty,       (* those that may be killed and whose writes may fail      *)
  Refs,         (* the names of references                                 *)
  Ids,          (* the objects references point to                         *)
  None, AnyId,    (* no value; no old value stated                           *)
  Free, Dead    (* no lock file; a lock file whose process is gone         *)

ASSUME ValuesApart == None \notin Ids /\ AnyId \notin Ids \cup {None} /\ <<>> \notin Ids \cup {None}
ASSUME LocksApart == Free # Dead /\ {Free, Dead} \cap Procs = {}

VARIABLES
  loose,      (* the loose files                                           *)
  packed,     (* the lines of packed-refs                                  *)
  hasPack,    (* whether there is a packed-refs                            *)
  looseLock,  (* who holds <ref>.lock                                      *)
  packLock,   (* who holds packed-refs.lock                                *)
  cache,      (* refcache: what a process believes packed-refs to hold     *)
  wasLoose,   (* the entries of refcache with PACKREF_WAS_LOOSE            *)
  fresh,      (* those whose stamp is that of the present packed-refs      *)
  pc,         (* where a process is                                        *)
  goal,       (* where it goes on after a lookup or a reload               *)
  task,       (* its request                                               *)
  got,        (* what its last lookup found                                *)
  todo,       (* the references a compression or a pruning has left        *)
  seen        (* the values its reference had since its request (history)  *)

files == <<loose, packed, hasPack>>
locks == <<looseLock, packLock>>
memory == <<cache, wasLoose, fresh>>
control == <<pc, goal, task, got, todo>>
vars == <<files, locks, memory, control, seen>>

Value == [r \in Refs |-> IF loose[r] # None THEN loose[r] ELSE packed[r]]

Store == INSTANCE RefStore WITH
  Procs <- Procs, Refs <- Refs, Ids <- Ids, None <- None, AnyId <- AnyId,
  value <- Value, request <- task, seen <- seen,
  answer <- [p \in Procs |-> IF pc[p] = "answer" THEN got[p] ELSE <<>>]

ASSUME AsksAreRequests == Asks \in [Procs -> SUBSET Store!Requests]

(* Those that do more than look up and write. *)
Maintainers == {p \in Procs : \E q \in Asks[p] : q.kind \notin {"lookup", "write"}}

Values == Store!Values
NoRefs == [r \in Refs |-> None]

Init ==
  /\ hasPack \in BOOLEAN
  /\ loose \in [Refs -> Values]
  /\ packed \in IF hasPack THEN [Refs -> Values] ELSE {NoRefs}
  /\ looseLock = [r \in Refs |-> Free] /\ packLock = Free
  /\ cache = [p \in Procs |-> NoRefs]
  /\ wasLoose = [p \in Procs |-> {}] /\ fresh = {}
  /\ pc = [p \in Procs |-> "idle"] /\ goal = [p \in Procs |-> "none"]
  /\ task = [p \in Procs |-> Store!Nothing]
  /\ got = [p \in Procs |-> None] /\ todo = [p \in Procs |-> {}]
  /\ seen = [p \in Procs |-> {}]

-----------------------------------------------------------------------------
(* Steps that several operations share. *)

Goto(p, l) ==
  /\ pc' = [pc EXCEPT ![p] = l] /\ goal' = [goal EXCEPT ![p] = "none"]
  /\ UNCHANGED <<task, got, todo>>

(* A lookup of the reference of the task, or a reload of the cache, for the step l. *)
Lookup(l) == <<"look", l>>
Reload(l) == <<"stat", l>>
Step(l) == <<l, "none">>

Follow(p, at) ==
  /\ pc' = [pc EXCEPT ![p] = at[1]] /\ goal' = [goal EXCEPT ![p] = at[2]]
  /\ UNCHANGED <<task, todo>>

End(p) ==
  /\ pc' = [pc EXCEPT ![p] = "idle"] /\ goal' = [goal EXCEPT ![p] = "none"]
  /\ task' = [task EXCEPT ![p] = Store!Nothing]
  /\ got' = [got EXCEPT ![p] = None] /\ todo' = [todo EXCEPT ![p] = {}]
  /\ seen' = [seen EXCEPT ![p] = {}]

(* Those whose outcome depends on the value of a reference see the one it has now. *)
Watch == seen' = [p \in Procs |-> seen[p] \cup
                    {Value'[r] : r \in {s \in Refs : Store!Watches(task[p], s)}}]

(* An error path that forgets git_filebuf_cleanup. *)
FailLeaking(p) == End(p)

(* An operation fails: it gives the lock on its reference back, if it has taken one. *)
Fail(p) ==
  IF task[p].kind = "compress" THEN End(p)
  ELSE Goto(p, "abandon") /\ UNCHANGED seen

(* The name that is to be created. *)
Target(q) == IF q.kind = "rename" THEN q.to ELSE q.ref

(* The new name is available: a write goes on to its lock, a rename to what it carries over. *)
Proceed(q) == IF q.kind = "rename" THEN Lookup("carry") ELSE Step("lock")

(* cmp_old_ref with the new value: what is there already is not written. *)
Compared(q) == IF q.kind = "write" THEN Lookup("same") ELSE Reload("drop")

(* Where the task q goes on when a lookup for the step l has found v. *)
Found(q, l, v) ==
  CASE l = "expect" -> IF v = q.old THEN Compared(q) ELSE Step("abandon")
    [] l = "same"   -> Step(IF v = q.new THEN "abandon" ELSE "commit")
    [] l = "carry"  -> Step(IF v = None THEN "done" ELSE "lock")
    [] l = "exists" -> IF v = None THEN Proceed(q) ELSE Step("done")
    [] OTHER        -> Step(l)

Finding(p, v) ==
  /\ Follow(p, Found(task[p], goal[p], v))
  /\ got' = IF goal[p] \in {"answer", "carry"} THEN [got EXCEPT ![p] = v] ELSE got

-----------------------------------------------------------------------------
(* A request is made. *)
Begin(p) ==
  /\ pc[p] = "idle"
  /\ \E q \in Asks[p] :
       /\ task' = [task EXCEPT ![p] = q]
       /\ seen' = [seen EXCEPT ![p] = {Value[r] : r \in {s \in Refs : Store!Watches(q, s)}}]
       /\ LET at == CASE q.kind = "lookup"   -> Lookup("answer")
                      [] q.kind = "delete"   -> Step("lock")
                      [] q.kind = "compress" -> Reload("list")
                      [] OTHER               -> Reload("available")
          IN pc' = [pc EXCEPT ![p] = at[1]] /\ goal' = [goal EXCEPT ![p] = at[2]]
  /\ UNCHANGED <<files, locks, memory, got, todo>>

(* loose_lookup: the loose file, if there is one, else packed_lookup. *)
Look(p) ==
  /\ pc[p] = "look"
  /\ LET v == loose[task[p].ref] IN
     IF v # None THEN Finding(p, v)
     ELSE Follow(p, Reload(goal[p])) /\ UNCHANGED got
  /\ UNCHANGED <<files, locks, memory, seen>>

(* The cache is up to date as far as packed_reload can tell. *)
Reloaded(p) ==
  CASE goal[p] \in {"list", "available", "drop"} -> Goto(p, goal[p])
    [] goal[p] = "exists" -> Finding(p, cache'[p][Target(task[p])])
    [] OTHER              -> Finding(p, cache'[p][task[p].ref])

(* The stamp is taken before packed-refs is opened. *)
Stat(p) ==
  /\ pc[p] = "stat"
  /\ CASE ~hasPack -> /\ cache' = [cache EXCEPT ![p] = NoRefs]
                      /\ wasLoose' = [wasLoose EXCEPT ![p] = {}]
                      /\ UNCHANGED fresh /\ Reloaded(p)
       [] hasPack /\ p \in fresh -> UNCHANGED memory /\ Reloaded(p)
       [] OTHER -> /\ fresh' = fresh \cup {p}
                   /\ pc' = [pc EXCEPT ![p] = "read"]
                   /\ UNCHANGED <<cache, wasLoose, goal, task, got, todo>>
  /\ UNCHANGED <<files, locks, seen>>

Read(p) ==
  /\ pc[p] = "read"
  /\ cache' = [cache EXCEPT ![p] = packed]
  /\ wasLoose' = [wasLoose EXCEPT ![p] = {}]
  /\ Reloaded(p)
  /\ UNCHANGED <<files, locks, fresh, seen>>

(* The operation is over: what it found is answered, or it is done, or had to give up. *)
Finish(p) ==
  /\ pc[p] \in {"answer", "done"}
  /\ End(p)
  /\ UNCHANGED <<files, locks, memory>>

-----------------------------------------------------------------------------
(* Writing. *)

(* reference_path_available: without force the name must be new, in either place. *)
Available(p) ==
  /\ pc[p] = "available"
  /\ LET q == task[p] IN
     Follow(p, IF q.force THEN Proceed(q)
               ELSE IF loose[Target(q)] # None THEN Step("done")
               ELSE Reload("exists"))
  /\ UNCHANGED <<files, locks, memory, got, seen>>

(* loose_lock: a lock file that is there makes the operation fail, nobody waits. *)
Lock(p) ==
  /\ pc[p] = "lock"
  /\ LET q == task[p] IN
     IF looseLock[q.ref] # Free THEN End(p) /\ UNCHANGED looseLock
     ELSE /\ looseLock' = [looseLock EXCEPT ![q.ref] = p]
          /\ Follow(p, IF q.kind # "rename" /\ q.old # AnyId THEN Lookup("expect") ELSE Compared(q))
          /\ UNCHANGED <<got, seen>>
  /\ UNCHANGED <<files, packLock, memory>>

Freed(r) == [looseLock EXCEPT ![r] = Free]

(* The old and the new value are swapped. *)
SwappedContent(q) == q.old

Content(q) == q.new

(* loose_commit: the lock file becomes the loose file. *)
Commit(p) ==
  /\ pc[p] = "commit"
  /\ loose' = [loose EXCEPT ![task[p].ref] = Content(task[p])]
  /\ looseLock' = Freed(task[p].ref)
  /\ Goto(p, "done")
  /\ UNCHANGED <<packed, hasPack, packLock, memory>>
  /\ Watch

CommitFails(p) ==
  /\ p \in Faulty /\ pc[p] \in {"commit", "commit to"}
  /\ looseLock' = Freed(IF pc[p] = "commit" THEN task[p].ref ELSE task[p].to)
  /\ End(p)
  /\ UNCHANGED <<files, packLock, memory>>

(* git_filebuf_cleanup: the lock file is removed. *)
Abandon(p) ==
  /\ pc[p] = "abandon"
  /\ looseLock' = Freed(task[p].ref)
  /\ End(p)
  /\ UNCHANGED <<files, packLock, memory>>

-----------------------------------------------------------------------------
(* Deleting and renaming. *)

(* packed_delete: the entry leaves the cache, and the file if it was there. *)
Drop(p) ==
  /\ pc[p] = "drop"
  /\ LET r == task[p].ref IN
     IF cache[p][r] = None THEN Goto(p, "unlink") /\ UNCHANGED <<cache, wasLoose>>
     ELSE /\ cache' = [cache EXCEPT ![p][r] = None]
          /\ wasLoose' = [wasLoose EXCEPT ![p] = @ \ {r}]
          /\ Goto(p, "pack open")
  /\ UNCHANGED <<files, locks, fresh, seen>>

(* loose_delete, the last word of a deletion. *)
Unlink(p) ==
  /\ pc[p] = "unlink"
  /\ loose' = [loose EXCEPT ![task[p].ref] = None]
  /\ Goto(p, "unlock")
  /\ UNCHANGED <<packed, hasPack, locks, memory>>
  /\ Watch

Unlock(p) ==
  /\ pc[p] = "unlock"
  /\ looseLock' = Freed(task[p].ref)
  /\ IF task[p].kind = "rename" THEN Goto(p, "lock to") /\ UNCHANGED seen ELSE End(p)
  /\ UNCHANGED <<files, packLock, memory>>

(* The old name is gone; the new one may be busy, and then the value is lost. *)
LockTo(p) ==
  /\ pc[p] = "lock to"
  /\ IF looseLock[task[p].to] # Free THEN End(p) /\ UNCHANGED looseLock
     ELSE /\ looseLock' = [looseLock EXCEPT ![task[p].to] = p]
          /\ Goto(p, "commit to") /\ UNCHANGED seen
  /\ UNCHANGED <<files, packLock, memory>>

CommitTo(p) ==
  /\ pc[p] = "commit to"
  /\ loose' = [loose EXCEPT ![task[p].to] = got[p]]
  /\ looseLock' = Freed(task[p].to)
  /\ Goto(p, "done")
  /\ UNCHANGED <<packed, hasPack, packLock, memory>>
  /\ Watch

-----------------------------------------------------------------------------
(* Compressing: packed_loadloose, then packed_write, which a deletion shares. *)

List(p) ==
  /\ pc[p] = "list"
  /\ todo' = [todo EXCEPT ![p] = {r \in Refs : loose[r] # None}]
  /\ pc' = [pc EXCEPT ![p] = "load"]
  /\ UNCHANGED <<files, locks, memory, goal, task, got, seen>>

(* loose_lookup_to_packfile; a file that is gone by now is skipped. *)
Load(p) ==
  /\ pc[p] = "load"
  /\ \/ /\ todo[p] = {}
        /\ Goto(p, "pack open") /\ UNCHANGED <<cache, wasLoose>>
     \/ \E r \in todo[p] :
          /\ todo' = [todo EXCEPT ![p] = @ \ {r}]
          /\ IF loose[r] = None THEN UNCHANGED <<cache, wasLoose>>
             ELSE /\ cache' = [cache EXCEPT ![p][r] = loose[r]]
                  /\ wasLoose' = [wasLoose EXCEPT ![p] = @ \cup {r}]
          /\ UNCHANGED <<pc, goal, task, got>>
  /\ UNCHANGED <<files, locks, fresh, seen>>

PackOpen(p) ==
  /\ pc[p] = "pack open"
  /\ \/ /\ packLock = Free
        /\ packLock' = p
        /\ Goto(p, "pack commit") /\ UNCHANGED seen
     \/ packLock # Free /\ Fail(p) /\ UNCHANGED packLock
  /\ UNCHANGED <<files, looseLock, memory>>

(* A stamp too coarse to tell the new file from the one before. *)
SameStamp == UNCHANGED fresh

(* The new packed-refs is in place: no stamp fits it any more. *)
NewStamp == fresh' = {}

PackCommit(p) ==
  /\ pc[p] = "pack commit"
  /\ packed' = cache[p] /\ hasPack' = TRUE /\ packLock' = Free
  /\ NewStamp
  /\ todo' = [todo EXCEPT ![p] = wasLoose[p]]
  /\ pc' = [pc EXCEPT ![p] = "prune"]
  /\ UNCHANGED <<loose, looseLock, cache, wasLoose, goal, task, got>>
  /\ seen' = [o \in Procs |-> seen[o] \cup
                {v \in Values : \E r \in Refs :
                   /\ Store!Watches(task[o], r)
                   /\ v = Value'[r] \/ (v = None /\ Store!Deleting(task[p]) /\ task[p].ref = r)}]

PackFails(p) ==
  /\ p \in Faulty /\ pc[p] = "pack commit"
  /\ packLock' = Free /\ Fail(p)
  /\ UNCHANGED <<files, looseLock, memory>>

(* packed_remove_loose: one reference after the other, each under its lock. *)
Prune(p) ==
  /\ pc[p] = "prune"
  /\ \/ todo[p] = {} /\ Goto(p, "updated") /\ UNCHANGED <<looseLock, seen>>
     \/ \E r \in todo[p] :
          /\ looseLock[r] = Free
          /\ looseLock' = [looseLock EXCEPT ![r] = p]
          /\ Goto(p, "prune one") /\ UNCHANGED seen
     \/ \E r \in todo[p] : looseLock[r] # Free /\ Fail(p) /\ UNCHANGED looseLock
  /\ UNCHANGED <<files, packLock, memory>>

(* The reference is not read again before it is removed. *)
MayHaveMoved(p, r) == TRUE

(* If the reference moved since it was packed, its loose file must stay. *)
StillAsPacked(p, r) == loose[r] = cache[p][r]

PruneOne(p) ==
  /\ pc[p] = "prune one"
  /\ \E r \in todo[p] :
       /\ looseLock[r] = p
       /\ loose' = IF StillAsPacked(p, r) THEN [loose EXCEPT ![r] = None] ELSE loose
       /\ looseLock' = Freed(r)
       /\ todo' = [todo EXCEPT ![p] = @ \ {r}]
  /\ pc' = [pc EXCEPT ![p] = "prune"]
  /\ UNCHANGED <<packed, hasPack, packLock, memory, goal, task, got>>
  /\ Watch

(* git_sortedcache_updated: the stamp of whatever packed-refs is there now. *)
Updated(p) ==
  /\ pc[p] = "updated"
  /\ fresh' = fresh \cup {p}
  /\ IF task[p].kind = "compress" THEN End(p) ELSE Goto(p, "unlink") /\ UNCHANGED seen
  /\ UNCHANGED <<files, locks, cache, wasLoose>>

-----------------------------------------------------------------------------
(* The process is killed; its lock files stay, and its cache is lost. *)
Kill(p) ==
  /\ p \in Faulty /\ pc[p] # "idle"
  /\ looseLock' = [r \in Refs |-> IF looseLock[r] = p THEN Dead ELSE looseLock[r]]
  /\ packLock' = IF packLock = p THEN Dead ELSE packLock
  /\ cache' = [cache EXCEPT ![p] = NoRefs]
  /\ wasLoose' = [wasLoose EXCEPT ![p] = {}] /\ fresh' = fresh \ {p}
  /\ End(p)
  /\ UNCHANGED files

Act(p) ==
  \/ Begin(p) \/ Look(p) \/ Stat(p) \/ Read(p) \/ Finish(p) \/ Available(p) \/ Lock(p)
  \/ Commit(p) \/ CommitFails(p) \/ Abandon(p)
  \/ Drop(p) \/ Unlink(p) \/ Unlock(p) \/ LockTo(p) \/ CommitTo(p)
  \/ List(p) \/ Load(p) \/ PackOpen(p) \/ PackCommit(p) \/ PackFails(p)
  \/ Prune(p) \/ PruneOne(p) \/ Updated(p) \/ Kill(p)

Next == \E p \in Procs : Act(p)

Spec == Init /\ [][Next]_vars

-----------------------------------------------------------------------------
Goals == {"answer", "expect", "same", "carry", "exists", "available", "drop", "list"}

Labels == {"idle", "look", "stat", "read", "answer", "done", "available", "lock", "commit",
           "abandon", "drop", "unlink", "unlock", "lock to", "commit to", "list", "load",
           "pack open", "pack commit", "prune", "prune one", "updated"}

(* The type of the variables. *)
TypeOK ==
  /\ pc \in [Procs -> Labels] /\ goal \in [Procs -> Goals \cup {"none"}]
  /\ loose \in [Refs -> Values] /\ packed \in [Refs -> Values] /\ hasPack \in BOOLEAN
  /\ looseLock \in [Refs -> Procs \cup {Free, Dead}]
  /\ packLock \in Procs \cup {Free, Dead}
  /\ cache \in [Procs -> [Refs -> Values]]
  /\ wasLoose \in [Procs -> SUBSET Refs] /\ fresh \subseteq Procs
  /\ task \in [Procs -> Store!Requests \cup {Store!Nothing}]
  /\ got \in [Procs -> Values] /\ todo \in [Procs -> SUBSET Refs]
  /\ seen \in [Procs -> SUBSET Values]

(* The step a process is at, or on the way to while it looks something up. *)
At(p) == IF pc[p] \in {"look", "stat", "read"} THEN goal[p] ELSE pc[p]

(* The reference whose lock the operation of a process holds. *)
Held(p) ==
  IF At(p) \in {"expect", "same", "commit", "abandon", "drop", "unlink", "unlock"}
     \/ (At(p) \in {"pack open", "pack commit", "prune", "prune one", "updated"}
         /\ Store!Deleting(task[p]))
  THEN {task[p].ref}
  ELSE IF At(p) = "commit to" THEN {task[p].to} ELSE {}

(* Whoever works on a file holds its lock, and nobody keeps a lock longer: *)
(* every way out of an operation, the errors included, gives it back.      *)
LockDiscipline ==
  \A p \in Procs :
    /\ packLock = p <=> pc[p] = "pack commit"
    /\ LET mine == {r \in Refs : looseLock[r] = p} IN
       IF pc[p] = "prune one" THEN \E r \in todo[p] \ Held(p) : mine = Held(p) \cup {r}
       ELSE mine = Held(p)

(* What a process that only looks up and writes believes packed-refs to    *)
(* hold while its stamp fits is what packed-refs holds, whatever           *)
(* maintainers do, several and failing ones included.                      *)
ReaderCacheExact ==
  \A p \in fresh \ Maintainers : pc[p] # "read" => cache[p] = packed

(* The file system keeps what RefStore promises.                           *)
Implements == Store!Spec
=============================================================================
