--------------------------- MODULE RefdbFsProofs ---------------------------
(***************************************************************************)
(* Theorems about RefdbFs for any processes, requests, references and      *)
(* objects, any number of maintainers, failing writes and kills: the       *)
(* types, the lock discipline and the cache of a reader.                   *)
(***************************************************************************)
EXTENDS RefdbFs, TLAPS

-----------------------------------------------------------------------------
(* What a process works on when it is at the step l, or on the way to it. *)
Fits(q, l) ==
  LET k == q.kind IN
  /\ l = "idle" <=> q = Store!Nothing
  /\ l = "answer" => k = "lookup"
  /\ l \in {"available", "exists"} => k \in {"write", "rename"}
  /\ l \in {"lock", "abandon"} => k \in {"write", "delete", "rename"}
  /\ l = "expect" => k \in {"write", "delete"} /\ q.old # AnyId
  /\ l \in {"same", "commit"} => k = "write"
  /\ l \in {"carry", "lock to", "commit to"} => k = "rename"
  /\ l \in {"drop", "unlink", "unlock"} => k \in {"delete", "rename"}
  /\ l \in {"list", "load"} => k = "compress"
  /\ l \in {"pack open", "pack commit", "prune", "prune one", "updated"}
       => k \in {"delete", "rename", "compress"}

WorksOn(p) ==
  /\ task[p] \in Asks[p] \cup {Store!Nothing}
  /\ Fits(task[p], At(p))
  /\ pc[p] \in {"look", "stat", "read"} <=> goal[p] # "none"
  /\ pc[p] = "look" => goal[p] \in {"answer", "expect", "same", "carry"}

(* A deletion never prunes the reference it deletes. *)
NotItsOwn(p) ==
  Store!Deleting(task[p]) =>
    /\ pc[p] \in {"pack open", "pack commit"} => task[p].ref \notin wasLoose[p]
    /\ pc[p] \in {"prune", "prune one"} => task[p].ref \notin todo[p]

(* Nothing is packed where there is no packed-refs. *)
NoPackNoLines == ~hasPack => packed = NoRefs

(* The parts of the type invariant. *)
ControlTyped ==
  /\ pc \in [Procs -> Labels] /\ goal \in [Procs -> Goals \cup {"none"}]
  /\ task \in [Procs -> Store!Requests \cup {Store!Nothing}]
  /\ got \in [Procs -> Values] /\ todo \in [Procs -> SUBSET Refs]

FilesTyped ==
  /\ loose \in [Refs -> Values] /\ packed \in [Refs -> Values] /\ hasPack \in BOOLEAN

LocksTyped ==
  /\ looseLock \in [Refs -> Procs \cup {Free, Dead}]
  /\ packLock \in Procs \cup {Free, Dead}

MemoryTyped ==
  /\ cache \in [Procs -> [Refs -> Values]]
  /\ wasLoose \in [Procs -> SUBSET Refs] /\ fresh \subseteq Procs

SeenTyped == seen \in [Procs -> SUBSET Values]

LEMMA TypeParts ==
  TypeOK <=> ControlTyped /\ FilesTyped /\ LocksTyped /\ MemoryTyped /\ SeenTyped
BY DEF TypeOK, ControlTyped, FilesTyped, LocksTyped, MemoryTyped, SeenTyped

ControlGood == ControlTyped /\ \A p \in Procs : WorksOn(p)

-----------------------------------------------------------------------------
(* Requests. *)

RequestOK(q) ==
  /\ q.kind \in {"lookup", "write", "delete", "rename", "compress", "nothing"}
  /\ q.kind = "nothing" <=> q = Store!Nothing
  /\ q.kind \in {"lookup", "write", "delete", "rename"} => q.ref \in Refs
  /\ q.kind = "write" => q.new \in Ids
  /\ q.kind \in {"write", "delete"} => q.old \in Ids \cup {AnyId}
  /\ q.kind = "rename" => q.to \in Refs /\ q.to # q.ref

LEMMA Requests == \A q \in Store!Requests \cup {Store!Nothing} : RequestOK(q)
BY DEF RequestOK, Store!Requests, Store!Lookups, Store!Writes, Store!Deletes, Store!Renames,
       Store!Compressions, Store!Nothing

LEMMA AskedRequests ==
  ASSUME NEW p \in Procs, NEW q \in Asks[p]
  PROVE q \in Store!Requests /\ RequestOK(q) /\ q # Store!Nothing
<1>1. q \in Store!Requests BY AsksAreRequests
<1>2. q # Store!Nothing
  BY <1>1 DEF Store!Requests, Store!Lookups, Store!Writes, Store!Deletes, Store!Renames,
       Store!Compressions, Store!Nothing
<1> QED BY <1>1, <1>2, Requests

LEMMA TaskOK == ASSUME ControlTyped, NEW p \in Procs PROVE RequestOK(task[p])
BY Requests DEF ControlTyped

-----------------------------------------------------------------------------
(* Where processes go. *)
Lookers == {"look", "stat", "read"}
Steps == Labels \ Lookers

Places == ({"look", "stat"} \X Goals) \cup (Steps \X {"none"})
Dest(at) == IF at[2] = "none" THEN at[1] ELSE at[2]

Legal(q, at) ==
  /\ at \in Places /\ Fits(q, Dest(at))
  /\ at[1] = "look" => at[2] \in {"answer", "expect", "same", "carry"}

LEMMA GotoGood ==
  ASSUME ControlGood, NEW p \in Procs, NEW l \in Steps, Goto(p, l), Fits(task[p], l)
  PROVE ControlGood'
<1>1. /\ pc' = [pc EXCEPT ![p] = l] /\ goal' = [goal EXCEPT ![p] = "none"]
      /\ task' = task /\ got' = got /\ todo' = todo
  BY DEF Goto
<1>2. ControlTyped' BY <1>1 DEF ControlGood, ControlTyped, Steps
<1>3. ASSUME NEW o \in Procs PROVE WorksOn(o)'
  <2>1. WorksOn(o) BY DEF ControlGood
  <2>2. CASE o = p
    <3>1. pc'[o] = l /\ goal'[o] = "none" /\ task'[o] = task[o]
      BY <1>1, <2>2 DEF ControlGood, ControlTyped
    <3>2. l \notin Lookers BY DEF Steps
    <3>3. At(o)' = l BY <3>1, <3>2 DEF At, Lookers
    <3> QED BY <2>1, <2>2, <3>1, <3>2, <3>3 DEF WorksOn, Fits, Lookers
  <2>3. CASE o # p
    <3>1. pc'[o] = pc[o] /\ goal'[o] = goal[o] /\ task'[o] = task[o]
      BY <1>1, <2>3 DEF ControlGood, ControlTyped
    <3> QED BY <2>1, <3>1 DEF WorksOn, Fits, At
  <2> QED BY <2>2, <2>3
<1> QED BY <1>2, <1>3 DEF ControlGood

LEMMA FollowGood ==
  ASSUME ControlGood, NEW p \in Procs, NEW at, Legal(task[p], at), Follow(p, at),
         got' \in [Procs -> Values]
  PROVE ControlGood'
<1>1. /\ pc' = [pc EXCEPT ![p] = at[1]] /\ goal' = [goal EXCEPT ![p] = at[2]]
      /\ task' = task /\ todo' = todo
  BY DEF Follow
<1>2. /\ at[1] \in Labels /\ at[2] \in Goals \cup {"none"}
      /\ at[1] \in Lookers <=> at[2] # "none"
  BY DEF Legal, Places, Steps, Lookers, Labels, Goals
<1>3. ControlTyped' BY <1>1, <1>2 DEF ControlGood, ControlTyped
<1>4. ASSUME NEW o \in Procs PROVE WorksOn(o)'
  <2>1. WorksOn(o) BY DEF ControlGood
  <2>2. CASE o = p
    <3>1. pc'[o] = at[1] /\ goal'[o] = at[2] /\ task'[o] = task[o]
      BY <1>1, <2>2 DEF ControlGood, ControlTyped
    <3>2. At(o)' = Dest(at) BY <3>1, <1>2 DEF At, Dest, Lookers
    <3> QED BY <2>1, <2>2, <3>1, <3>2, <1>2, ZenonT(30) DEF WorksOn, Fits, Legal, Lookers
  <2>3. CASE o # p
    <3>1. pc'[o] = pc[o] /\ goal'[o] = goal[o] /\ task'[o] = task[o]
      BY <1>1, <2>3 DEF ControlGood, ControlTyped
    <3> QED BY <2>1, <3>1 DEF WorksOn, Fits, At
  <2> QED BY <2>2, <2>3
<1> QED BY <1>3, <1>4 DEF ControlGood

LEMMA EndGood ==
  ASSUME ControlGood, NEW p \in Procs, End(p) PROVE ControlGood'
<1>1. /\ pc' = [pc EXCEPT ![p] = "idle"] /\ goal' = [goal EXCEPT ![p] = "none"]
      /\ task' = [task EXCEPT ![p] = Store!Nothing]
      /\ got' = [got EXCEPT ![p] = None] /\ todo' = [todo EXCEPT ![p] = {}]
  BY DEF End
<1>2. ControlTyped' BY <1>1 DEF ControlGood, ControlTyped, Labels, Values, Store!Values
<1>3. ASSUME NEW o \in Procs PROVE WorksOn(o)'
  <2>1. WorksOn(o) BY DEF ControlGood
  <2>2. CASE o = p
    <3>1. pc'[o] = "idle" /\ goal'[o] = "none" /\ task'[o] = Store!Nothing
      BY <1>1, <2>2 DEF ControlGood, ControlTyped
    <3>2. At(o)' = "idle" BY <3>1 DEF At
    <3> QED BY <3>1, <3>2 DEF WorksOn, Fits
  <2>3. CASE o # p
    <3>1. pc'[o] = pc[o] /\ goal'[o] = goal[o] /\ task'[o] = task[o]
      BY <1>1, <2>3 DEF ControlGood, ControlTyped
    <3> QED BY <2>1, <3>1 DEF WorksOn, Fits, At
  <2> QED BY <2>2, <2>3
<1> QED BY <1>2, <1>3 DEF ControlGood

(* A step that goes nowhere new but may change what is left to do. *)
LEMMA MoveGood ==
  ASSUME ControlGood, NEW p \in Procs, NEW l \in Labels, NEW t \in SUBSET Refs,
         pc' = [pc EXCEPT ![p] = l], todo' = [todo EXCEPT ![p] = t],
         UNCHANGED <<goal, task, got>>,
         (l \in Lookers) <=> (pc[p] \in Lookers), l # "look",
         Fits(task[p], IF l \in Lookers THEN goal[p] ELSE l)
  PROVE ControlGood'
<1>1. ControlTyped' BY DEF ControlGood, ControlTyped
<1>2. ASSUME NEW o \in Procs PROVE WorksOn(o)'
  <2>1. WorksOn(o) BY DEF ControlGood
  <2>2. goal'[o] = goal[o] /\ task'[o] = task[o] OBVIOUS
  <2>3. CASE o = p
    <3>1. pc'[o] = l BY <2>3 DEF ControlGood, ControlTyped
    <3>2. At(o)' = IF l \in Lookers THEN goal[p] ELSE l BY <2>2, <2>3, <3>1 DEF At, Lookers
    <3> QED BY <2>1, <2>2, <2>3, <3>1, <3>2 DEF WorksOn, Lookers, Fits
  <2>4. CASE o # p
    <3>1. pc'[o] = pc[o] BY <2>4 DEF ControlGood, ControlTyped
    <3> QED BY <2>1, <2>2, <3>1 DEF WorksOn, Fits, At
  <2> QED BY <2>3, <2>4
<1> QED BY <1>1, <1>2 DEF ControlGood

LEMMA StepLegal ==
  ASSUME NEW q, NEW l \in Steps, Fits(q, l) PROVE Legal(q, Step(l))
<1>1. Step(l) = <<l, "none">> BY DEF Step
<1>2. Step(l) \in Places BY <1>1 DEF Places
<1>3. Dest(Step(l)) = l BY <1>1 DEF Dest
<1>4. l # "look" BY DEF Steps, Lookers
<1> QED BY <1>1, <1>2, <1>3, <1>4 DEF Legal

LEMMA ReloadLegal ==
  ASSUME NEW q, NEW l \in Goals, Fits(q, l) PROVE Legal(q, Reload(l))
<1>1. Reload(l) = <<"stat", l>> BY DEF Reload
<1>2. Reload(l) \in Places BY <1>1 DEF Places
<1>3. Dest(Reload(l)) = l BY <1>1 DEF Dest, Goals
<1> QED BY <1>1, <1>2, <1>3 DEF Legal

LEMMA LookupLegal ==
  ASSUME NEW q, NEW l \in {"answer", "expect", "same", "carry"}, Fits(q, l)
  PROVE Legal(q, Lookup(l))
<1>1. Lookup(l) = <<"look", l>> /\ l \in Goals BY DEF Lookup, Goals
<1>2. Lookup(l) \in Places BY <1>1 DEF Places
<1>3. Dest(Lookup(l)) = l BY <1>1 DEF Dest, Goals
<1> QED BY <1>1, <1>2, <1>3 DEF Legal

LEMMA ComparedLegal ==
  ASSUME NEW q, q # Store!Nothing, q.kind \in {"write", "delete", "rename"}
  PROVE Legal(q, Compared(q))
<1>1. CASE q.kind = "write"
  <2>1. Fits(q, "same") BY <1>1 DEF Fits
  <2> QED BY <1>1, <2>1, LookupLegal DEF Compared
<1>2. CASE q.kind # "write"
  <2>1. Fits(q, "drop") BY <1>2 DEF Fits
  <2>2. "drop" \in Goals BY DEF Goals
  <2> QED BY <1>2, <2>1, <2>2, ReloadLegal DEF Compared
<1> QED BY <1>1, <1>2

LEMMA ProceedLegal ==
  ASSUME NEW q, q # Store!Nothing, q.kind \in {"write", "rename"}
  PROVE Legal(q, Proceed(q))
<1>1. CASE q.kind = "rename"
  <2>1. Fits(q, "carry") BY <1>1 DEF Fits
  <2> QED BY <1>1, <2>1, LookupLegal DEF Proceed
<1>2. CASE q.kind # "rename"
  <2>1. Fits(q, "lock") BY <1>2 DEF Fits
  <2>2. "lock" \in Steps BY DEF Steps, Labels, Lookers
  <2> QED BY <1>2, <2>1, <2>2, StepLegal DEF Proceed
<1> QED BY <1>1, <1>2

LEMMA FoundLegal ==
  ASSUME NEW q, q # Store!Nothing, NEW v,
         NEW l \in {"answer", "expect", "same", "carry", "exists"}, Fits(q, l)
  PROVE Legal(q, Found(q, l, v))
<1>1. {"abandon", "commit", "done", "lock", "answer"} \subseteq Steps
  BY DEF Steps, Labels, Lookers
<1>2. CASE l = "expect"
  <2>1. Fits(q, "abandon") BY <1>2 DEF Fits
  <2>2. Legal(q, Step("abandon")) BY <2>1, <1>1, StepLegal
  <2>3. Legal(q, Compared(q)) BY <1>2, ComparedLegal DEF Fits
  <2> QED BY <1>2, <2>2, <2>3 DEF Found
<1>3. CASE l = "same"
  <2>1. Fits(q, "abandon") /\ Fits(q, "commit") BY <1>3 DEF Fits
  <2>2. Legal(q, Step("abandon")) /\ Legal(q, Step("commit")) BY <2>1, <1>1, StepLegal
  <2> QED BY <1>3, <2>2 DEF Found
<1>4. CASE l = "carry"
  <2>1. Fits(q, "done") /\ Fits(q, "lock") BY <1>4 DEF Fits
  <2>2. Legal(q, Step("done")) /\ Legal(q, Step("lock")) BY <2>1, <1>1, StepLegal
  <2> QED BY <1>4, <2>2 DEF Found
<1>5. CASE l = "exists"
  <2>1. Fits(q, "done") BY <1>5 DEF Fits
  <2>2. Legal(q, Step("done")) BY <2>1, <1>1, StepLegal
  <2>3. Legal(q, Proceed(q)) BY <1>5, ProceedLegal DEF Fits
  <2> QED BY <1>5, <2>2, <2>3 DEF Found
<1>6. CASE l = "answer"
  <2>1. Legal(q, Step("answer")) BY <1>6, <1>1, StepLegal
  <2> QED BY <1>6, <2>1 DEF Found
<1> QED BY <1>2, <1>3, <1>4, <1>5, <1>6

LEMMA FindingGood ==
  ASSUME ControlGood, NEW p \in Procs, pc[p] \in Lookers,
         goal[p] \in {"answer", "expect", "same", "carry", "exists"},
         NEW v \in Values, Finding(p, v)
  PROVE ControlGood'
<1>1. Fits(task[p], goal[p]) /\ task[p] # Store!Nothing
  BY DEF ControlGood, WorksOn, Fits, At, Lookers
<1>2. Legal(task[p], Found(task[p], goal[p], v)) BY <1>1, FoundLegal
<1>3. got' \in [Procs -> Values] BY DEF Finding, ControlGood, ControlTyped
<1> QED BY <1>2, <1>3, FollowGood DEF Finding

LEMMA ReloadedGood ==
  ASSUME ControlGood, NEW p \in Procs, pc[p] \in {"stat", "read"},
         cache' \in [Procs -> [Refs -> Values]], Reloaded(p)
  PROVE ControlGood'
<1>1. Fits(task[p], goal[p]) /\ goal[p] \in Goals
  BY DEF ControlGood, ControlTyped, WorksOn, Fits, At
<1>2. CASE goal[p] \in {"list", "available", "drop"}
  <2>1. Goto(p, goal[p]) BY <1>2 DEF Reloaded
  <2>2. goal[p] \in Steps BY <1>2 DEF Steps, Labels, Lookers
  <2> QED BY <2>1, <2>2, <1>1, GotoGood
<1>3. CASE goal[p] \notin {"list", "available", "drop"}
  <2>1. goal[p] \in {"answer", "expect", "same", "carry", "exists"} BY <1>1, <1>3 DEF Goals
  <2>2. PICK r : Finding(p, cache'[p][r]) /\ r \in {task[p].ref, Target(task[p])}
                 /\ (r = Target(task[p]) <=> goal[p] = "exists" \/ task[p].ref = Target(task[p]))
    BY <1>3 DEF Reloaded
  <2>3. RequestOK(task[p]) BY TaskOK DEF ControlGood
  <2>4. r \in Refs BY <1>1, <2>1, <2>2, <2>3 DEF Fits, RequestOK, Target
  <2>5. cache'[p][r] \in Values BY <2>4
  <2> QED BY <2>1, <2>2, <2>5, FindingGood DEF Lookers
<1> QED BY <1>2, <1>3

LEMMA FailGood ==
  ASSUME ControlGood, NEW p \in Procs, Fail(p),
         pc[p] \in {"pack open", "pack commit", "prune"}
  PROVE ControlGood'
<1>1. At(p) = pc[p] /\ Fits(task[p], pc[p]) BY DEF ControlGood, WorksOn, At
<1>2. CASE task[p].kind = "compress" BY <1>2, EndGood DEF Fail
<1>3. CASE task[p].kind # "compress"
  <2>1. Goto(p, "abandon") BY <1>3 DEF Fail
  <2>2. Fits(task[p], "abandon") BY <1>1, <1>3 DEF Fits
  <2>3. "abandon" \in Steps BY DEF Steps, Labels, Lookers
  <2> QED BY <2>1, <2>2, <2>3, GotoGood
<1> QED BY <1>2, <1>3

-----------------------------------------------------------------------------
(* The types, and what a process works on, step by step. *)
Good == ControlGood /\ FilesTyped /\ LocksTyped /\ MemoryTyped /\ SeenTyped

LEMMA ValueTyped == FilesTyped => Value \in [Refs -> Values]
BY DEF FilesTyped, Value

LEMMA WatchTyped == SeenTyped /\ FilesTyped' /\ Watch => SeenTyped'
<1> SUFFICES ASSUME SeenTyped, FilesTyped', Watch PROVE SeenTyped' OBVIOUS
<1>1. Value' \in [Refs -> Values] BY DEF FilesTyped, Value, Values, Store!Values
<1> QED BY <1>1 DEF Watch, SeenTyped

LEMMA NoneIsValue == None \in Values /\ Ids \subseteq Values
BY DEF Values, Store!Values

LEMMA EndTyped ==
  ASSUME Good, NEW p \in Procs, End(p) PROVE ControlGood' /\ SeenTyped'
<1>1. SeenTyped' BY DEF Good, SeenTyped, End
<1> QED BY <1>1, EndGood DEF Good

LEMMA FailTyped ==
  ASSUME Good, NEW p \in Procs, Fail(p), pc[p] \in {"pack open", "pack commit", "prune"}
  PROVE ControlGood' /\ SeenTyped'
<1>1. SeenTyped' BY DEF Good, SeenTyped, End, Fail
<1> QED BY <1>1, FailGood DEF Good

LEMMA FreedTyped ==
  ASSUME LocksTyped, NEW r PROVE Freed(r) \in [Refs -> Procs \cup {Free, Dead}]
BY DEF LocksTyped, Freed

LEMMA BeginGood == ASSUME Good, NEW p \in Procs, Begin(p) PROVE Good'
<1>1. PICK q \in Asks[p] :
        /\ task' = [task EXCEPT ![p] = q]
        /\ seen' = [seen EXCEPT ![p] = {Value[r] : r \in {s \in Refs : Store!Watches(q, s)}}]
        /\ LET at == CASE q.kind = "lookup"   -> Lookup("answer")
                       [] q.kind = "delete"   -> Step("lock")
                       [] q.kind = "compress" -> Reload("list")
                       [] OTHER               -> Reload("available")
           IN pc' = [pc EXCEPT ![p] = at[1]] /\ goal' = [goal EXCEPT ![p] = at[2]]
  BY DEF Begin
<1>2. q \in Store!Requests /\ RequestOK(q) /\ q # Store!Nothing BY AskedRequests
<1> DEFINE at == CASE q.kind = "lookup"   -> Lookup("answer")
                   [] q.kind = "delete"   -> Step("lock")
                   [] q.kind = "compress" -> Reload("list")
                   [] OTHER               -> Reload("available")
<1>3. Legal(q, at)
  <2>1. CASE q.kind = "lookup"
    <3>1. Fits(q, "answer") BY <1>2, <2>1 DEF Fits
    <3> QED BY <2>1, <3>1, LookupLegal
  <2>2. CASE q.kind = "delete"
    <3>1. Fits(q, "lock") BY <1>2, <2>2 DEF Fits
    <3>2. "lock" \in Steps BY DEF Steps, Labels, Lookers
    <3> QED BY <2>2, <3>1, <3>2, StepLegal
  <2>3. CASE q.kind = "compress"
    <3>1. Fits(q, "list") /\ "list" \in Goals BY <1>2, <2>3 DEF Fits, Goals
    <3> QED BY <2>3, <3>1, ReloadLegal
  <2>4. CASE q.kind \in {"write", "rename"}
    <3>1. Fits(q, "available") /\ "available" \in Goals BY <1>2, <2>4 DEF Fits, Goals
    <3> QED BY <2>4, <3>1, ReloadLegal
  <2> QED BY <2>1, <2>2, <2>3, <2>4, <1>2 DEF RequestOK
<1>4. pc' = [pc EXCEPT ![p] = at[1]] /\ goal' = [goal EXCEPT ![p] = at[2]] BY <1>1
<1> HIDE DEF at
<1>5. UNCHANGED <<files, locks, memory, got, todo>> BY DEF Begin
<1>6. /\ at[1] \in Labels /\ at[2] \in Goals \cup {"none"}
      /\ at[1] \in Lookers <=> at[2] # "none"
  BY <1>3 DEF Legal, Places, Steps, Lookers, Labels, Goals
<1>7. ControlTyped' BY <1>1, <1>2, <1>4, <1>5, <1>6 DEF Good, ControlGood, ControlTyped
<1>8. ASSUME NEW o \in Procs PROVE WorksOn(o)'
  <2>1. WorksOn(o) BY DEF Good, ControlGood
  <2>2. CASE o = p
    <3>1. pc'[o] = at[1] /\ goal'[o] = at[2] /\ task'[o] = q
      BY <1>1, <1>4, <2>2 DEF Good, ControlGood, ControlTyped
    <3>2. At(o)' = Dest(at) BY <3>1, <1>6 DEF At, Dest, Lookers
    <3> QED BY <2>2, <3>1, <3>2, <1>3, <1>6 DEF WorksOn, Legal, Lookers, Fits
  <2>3. CASE o # p
    <3>1. pc'[o] = pc[o] /\ goal'[o] = goal[o] /\ task'[o] = task[o]
      BY <1>1, <1>4, <2>3 DEF Good, ControlGood, ControlTyped
    <3> QED BY <2>1, <3>1 DEF WorksOn, Fits, At
  <2> QED BY <2>2, <2>3
<1>9. SeenTyped' BY <1>1, ValueTyped DEF Good, SeenTyped
<1>10. FilesTyped' /\ LocksTyped' /\ MemoryTyped'
  BY <1>5 DEF Good, FilesTyped, LocksTyped, MemoryTyped, files, locks, memory
<1> QED BY <1>7, <1>8, <1>9, <1>10 DEF Good, ControlGood

LEMMA LookGood == ASSUME Good, NEW p \in Procs, Look(p) PROVE Good'
<1>1. pc[p] = "look" /\ UNCHANGED <<files, locks, memory, seen>> BY DEF Look
<1>2. FilesTyped' /\ LocksTyped' /\ MemoryTyped' /\ SeenTyped'
  BY <1>1 DEF Good, FilesTyped, LocksTyped, MemoryTyped, SeenTyped, files, locks, memory
<1>3. Fits(task[p], goal[p]) /\ goal[p] \in {"answer", "expect", "same", "carry"}
  BY <1>1 DEF Good, ControlGood, WorksOn, At
<1>4. RequestOK(task[p]) BY TaskOK DEF Good, ControlGood
<1>5. task[p].ref \in Refs BY <1>3, <1>4 DEF Fits, RequestOK
<1>6. CASE loose[task[p].ref] # None
  <2>1. Finding(p, loose[task[p].ref]) BY <1>6 DEF Look
  <2>2. loose[task[p].ref] \in Values BY <1>5 DEF Good, FilesTyped
  <2> QED BY <1>1, <1>2, <1>3, <2>1, <2>2, FindingGood DEF Good, Lookers
<1>7. CASE loose[task[p].ref] = None
  <2>1. Follow(p, Reload(goal[p])) /\ got' = got BY <1>7 DEF Look
  <2>2. goal[p] \in Goals BY <1>3 DEF Goals
  <2>3. Legal(task[p], Reload(goal[p])) BY <1>3, <2>2, ReloadLegal
  <2> QED BY <1>2, <2>1, <2>3, FollowGood DEF Good, ControlGood, ControlTyped
<1> QED BY <1>6, <1>7

LEMMA StatGood == ASSUME Good, NEW p \in Procs, Stat(p) PROVE Good'
<1>1. pc[p] = "stat" /\ UNCHANGED <<files, locks, seen>> BY DEF Stat
<1>2. FilesTyped' /\ LocksTyped' /\ SeenTyped'
  BY <1>1 DEF Good, FilesTyped, LocksTyped, SeenTyped, files, locks
<1>3. CASE ~hasPack
  <2>1. /\ cache' = [cache EXCEPT ![p] = NoRefs] /\ wasLoose' = [wasLoose EXCEPT ![p] = {}]
        /\ UNCHANGED fresh /\ Reloaded(p)
    BY <1>3 DEF Stat
  <2>2. MemoryTyped' BY <2>1, NoneIsValue DEF Good, MemoryTyped, NoRefs, Values
  <2> QED BY <1>1, <1>2, <2>1, <2>2, ReloadedGood DEF Good, MemoryTyped, Values
<1>4. CASE hasPack /\ p \in fresh
  <2>1. UNCHANGED memory /\ Reloaded(p) BY <1>4 DEF Stat
  <2>2. MemoryTyped' BY <2>1 DEF Good, MemoryTyped, memory
  <2> QED BY <1>1, <1>2, <2>1, <2>2, ReloadedGood DEF Good, MemoryTyped, Values
<1>5. CASE hasPack /\ p \notin fresh
  <2>1. /\ fresh' = fresh \cup {p} /\ pc' = [pc EXCEPT ![p] = "read"]
        /\ UNCHANGED <<cache, wasLoose, goal, task, got, todo>>
    BY <1>5 DEF Stat
  <2>2. MemoryTyped' BY <2>1 DEF Good, MemoryTyped
  <2>3. todo' = [todo EXCEPT ![p] = todo[p]] /\ todo[p] \in SUBSET Refs
    BY <2>1 DEF Good, ControlGood, ControlTyped
  <2>4. Fits(task[p], goal[p]) BY <1>1 DEF Good, ControlGood, WorksOn, At
  <2>5. "read" \in Labels BY DEF Labels
  <2>6. ControlGood' BY <1>1, <2>1, <2>3, <2>4, <2>5, MoveGood DEF Good, Lookers
  <2> QED BY <1>2, <2>2, <2>6 DEF Good
<1> QED BY <1>3, <1>4, <1>5 DEF Good, FilesTyped

LEMMA ReadGood == ASSUME Good, NEW p \in Procs, Read(p) PROVE Good'
<1>1. /\ pc[p] = "read" /\ UNCHANGED <<files, locks, fresh, seen>> /\ Reloaded(p)
      /\ cache' = [cache EXCEPT ![p] = packed] /\ wasLoose' = [wasLoose EXCEPT ![p] = {}]
  BY DEF Read
<1>2. FilesTyped' /\ LocksTyped' /\ SeenTyped' /\ MemoryTyped'
  BY <1>1 DEF Good, FilesTyped, LocksTyped, SeenTyped, MemoryTyped, files, locks
<1>3. cache' \in [Procs -> [Refs -> Values]] BY <1>1 DEF Good, FilesTyped, MemoryTyped
<1> QED BY <1>1, <1>2, <1>3, ReloadedGood DEF Good

LEMMA FinishGood == ASSUME Good, NEW p \in Procs, Finish(p) PROVE Good'
<1>1. End(p) /\ UNCHANGED <<files, locks, memory>> BY DEF Finish
<1>2. FilesTyped' /\ LocksTyped' /\ MemoryTyped'
  BY <1>1 DEF Good, FilesTyped, LocksTyped, MemoryTyped, files, locks, memory
<1> QED BY <1>1, <1>2, EndTyped DEF Good

LEMMA AvailableGood == ASSUME Good, NEW p \in Procs, Available(p) PROVE Good'
<1>1. pc[p] = "available" /\ UNCHANGED <<files, locks, memory, got, seen>> BY DEF Available
<1>2. FilesTyped' /\ LocksTyped' /\ MemoryTyped' /\ SeenTyped'
  BY <1>1 DEF Good, FilesTyped, LocksTyped, MemoryTyped, SeenTyped, files, locks, memory
<1>3. Fits(task[p], "available") BY <1>1 DEF Good, ControlGood, WorksOn, At
<1>4. task[p] # Store!Nothing /\ task[p].kind \in {"write", "rename"} BY <1>3 DEF Fits
<1>5. Legal(task[p], Proceed(task[p])) BY <1>4, ProceedLegal
<1>6. Legal(task[p], Step("done"))
  <2>1. Fits(task[p], "done") /\ "done" \in Steps BY <1>4 DEF Fits, Steps, Labels, Lookers
  <2> QED BY <2>1, StepLegal
<1>7. Legal(task[p], Reload("exists"))
  <2>1. Fits(task[p], "exists") /\ "exists" \in Goals BY <1>4 DEF Fits, Goals
  <2> QED BY <2>1, ReloadLegal
<1>8. PICK at \in {Proceed(task[p]), Step("done"), Reload("exists")} : Follow(p, at)
  BY DEF Available
<1>9. Legal(task[p], at) BY <1>5, <1>6, <1>7
<1> QED BY <1>1, <1>2, <1>8, <1>9, FollowGood DEF Good, ControlGood, ControlTyped

LEMMA LockGood == ASSUME Good, NEW p \in Procs, Lock(p) PROVE Good'
<1>1. pc[p] = "lock" /\ UNCHANGED <<files, packLock, memory>> BY DEF Lock
<1>2. FilesTyped' /\ MemoryTyped' BY <1>1 DEF Good, FilesTyped, MemoryTyped, files, memory
<1>3. Fits(task[p], "lock") BY <1>1 DEF Good, ControlGood, WorksOn, At
<1>4. task[p] # Store!Nothing /\ task[p].kind \in {"write", "delete", "rename"} BY <1>3 DEF Fits
<1>5. CASE looseLock[task[p].ref] # Free
  <2>1. End(p) /\ UNCHANGED looseLock BY <1>5 DEF Lock
  <2>2. LocksTyped' BY <1>1, <2>1 DEF Good, LocksTyped
  <2> QED BY <1>2, <2>1, <2>2, EndTyped DEF Good
<1>6. CASE looseLock[task[p].ref] = Free
  <2>1. /\ looseLock' = [looseLock EXCEPT ![task[p].ref] = p] /\ UNCHANGED <<got, seen>>
        /\ Follow(p, IF task[p].kind # "rename" /\ task[p].old # AnyId
                     THEN Lookup("expect") ELSE Compared(task[p]))
    BY <1>6 DEF Lock
  <2>2. LocksTyped' /\ SeenTyped' BY <1>1, <2>1 DEF Good, LocksTyped, SeenTyped
  <2>3. CASE task[p].kind # "rename" /\ task[p].old # AnyId
    <3>1. Fits(task[p], "expect") BY <1>4, <2>3 DEF Fits
    <3>2. Legal(task[p], Lookup("expect")) BY <3>1, LookupLegal
    <3> QED BY <1>2, <2>1, <2>2, <2>3, <3>2, FollowGood DEF Good, ControlGood, ControlTyped
  <2>4. CASE ~(task[p].kind # "rename" /\ task[p].old # AnyId)
    <3>1. Legal(task[p], Compared(task[p])) BY <1>4, ComparedLegal
    <3> QED BY <1>2, <2>1, <2>2, <2>4, <3>1, FollowGood DEF Good, ControlGood, ControlTyped
  <2> QED BY <2>3, <2>4
<1> QED BY <1>5, <1>6

LEMMA CommitGood == ASSUME Good, NEW p \in Procs, Commit(p) PROVE Good'
<1>1. /\ pc[p] = "commit" /\ UNCHANGED <<packed, hasPack, packLock, memory>>
      /\ loose' = [loose EXCEPT ![task[p].ref] = Content(task[p])]
      /\ looseLock' = Freed(task[p].ref) /\ Goto(p, "done") /\ Watch
  BY DEF Commit
<1>2. Fits(task[p], "commit") /\ RequestOK(task[p])
  BY <1>1, TaskOK DEF Good, ControlGood, WorksOn, At
<1>3. Content(task[p]) \in Values BY <1>2, NoneIsValue DEF Fits, RequestOK, Content
<1>4. FilesTyped' /\ MemoryTyped' /\ LocksTyped'
  BY <1>1, <1>3, FreedTyped DEF Good, FilesTyped, MemoryTyped, LocksTyped, memory
<1>5. SeenTyped' BY <1>1, <1>4, WatchTyped DEF Good
<1>6. Fits(task[p], "done") /\ "done" \in Steps BY <1>2 DEF Fits, Steps, Labels, Lookers
<1> QED BY <1>1, <1>4, <1>5, <1>6, GotoGood DEF Good

LEMMA CommitFailsGood == ASSUME Good, NEW p \in Procs, CommitFails(p) PROVE Good'
<1>1. End(p) /\ UNCHANGED <<files, packLock, memory>> /\ \E r : looseLock' = Freed(r)
  BY DEF CommitFails
<1>2. FilesTyped' /\ MemoryTyped' /\ LocksTyped'
  BY <1>1, FreedTyped DEF Good, FilesTyped, MemoryTyped, LocksTyped, files, memory
<1> QED BY <1>1, <1>2, EndTyped DEF Good

LEMMA AbandonGood == ASSUME Good, NEW p \in Procs, Abandon(p) PROVE Good'
<1>1. End(p) /\ UNCHANGED <<files, packLock, memory>> /\ looseLock' = Freed(task[p].ref)
  BY DEF Abandon
<1>2. FilesTyped' /\ MemoryTyped' /\ LocksTyped'
  BY <1>1, FreedTyped DEF Good, FilesTyped, MemoryTyped, LocksTyped, files, memory
<1> QED BY <1>1, <1>2, EndTyped DEF Good

LEMMA DropGood == ASSUME Good, NEW p \in Procs, Drop(p) PROVE Good'
<1>1. pc[p] = "drop" /\ UNCHANGED <<files, locks, fresh, seen>> BY DEF Drop
<1>2. FilesTyped' /\ LocksTyped' /\ SeenTyped'
  BY <1>1 DEF Good, FilesTyped, LocksTyped, SeenTyped, files, locks
<1>3. Fits(task[p], "drop") BY <1>1 DEF Good, ControlGood, WorksOn, At
<1>4. MemoryTyped'
  <2>1. [cache[p] EXCEPT ![task[p].ref] = None] \in [Refs -> Values]
    BY NoneIsValue DEF Good, MemoryTyped
  <2>2. cache' = [cache EXCEPT ![p] = [cache[p] EXCEPT ![task[p].ref] = None]] \/ cache' = cache
    BY DEF Drop
  <2>3. cache' \in [Procs -> [Refs -> Values]] BY <2>1, <2>2 DEF Good, MemoryTyped
  <2>4. wasLoose' \in [Procs -> SUBSET Refs] BY ZenonT(30) DEF Good, MemoryTyped, Drop
  <2> QED BY <1>1, <2>3, <2>4 DEF Good, MemoryTyped
<1>5. PICK l \in {"unlink", "pack open"} : Goto(p, l) BY DEF Drop
<1>6. Fits(task[p], l) /\ l \in Steps BY <1>3 DEF Fits, Steps, Labels, Lookers
<1> QED BY <1>2, <1>4, <1>5, <1>6, GotoGood DEF Good

LEMMA UnlinkGood == ASSUME Good, NEW p \in Procs, Unlink(p) PROVE Good'
<1>1. /\ pc[p] = "unlink" /\ UNCHANGED <<packed, hasPack, locks, memory>>
      /\ loose' = [loose EXCEPT ![task[p].ref] = None] /\ Goto(p, "unlock") /\ Watch
  BY DEF Unlink
<1>2. Fits(task[p], "unlink") BY <1>1 DEF Good, ControlGood, WorksOn, At
<1>3. FilesTyped' /\ MemoryTyped' /\ LocksTyped'
  BY <1>1, NoneIsValue DEF Good, FilesTyped, MemoryTyped, LocksTyped, locks, memory
<1>4. SeenTyped' BY <1>1, <1>3, WatchTyped DEF Good
<1>5. Fits(task[p], "unlock") /\ "unlock" \in Steps BY <1>2 DEF Fits, Steps, Labels, Lookers
<1> QED BY <1>1, <1>3, <1>4, <1>5, GotoGood DEF Good

LEMMA UnlockGood == ASSUME Good, NEW p \in Procs, Unlock(p) PROVE Good'
<1>1. /\ pc[p] = "unlock" /\ UNCHANGED <<files, packLock, memory>>
      /\ looseLock' = Freed(task[p].ref)
  BY DEF Unlock
<1>2. Fits(task[p], "unlock") BY <1>1 DEF Good, ControlGood, WorksOn, At
<1>3. FilesTyped' /\ MemoryTyped' /\ LocksTyped'
  BY <1>1, FreedTyped DEF Good, FilesTyped, MemoryTyped, LocksTyped, files, memory
<1>4. CASE task[p].kind = "rename"
  <2>1. Goto(p, "lock to") /\ UNCHANGED seen BY <1>4 DEF Unlock
  <2>2. Fits(task[p], "lock to") /\ "lock to" \in Steps
    BY <1>2, <1>4 DEF Fits, Steps, Labels, Lookers
  <2> QED BY <1>3, <2>1, <2>2, GotoGood DEF Good, SeenTyped
<1>5. CASE task[p].kind # "rename"
  <2>1. End(p) BY <1>5 DEF Unlock
  <2> QED BY <1>3, <2>1, EndTyped DEF Good
<1> QED BY <1>4, <1>5

LEMMA LockToGood == ASSUME Good, NEW p \in Procs, LockTo(p) PROVE Good'
<1>1. pc[p] = "lock to" /\ UNCHANGED <<files, packLock, memory>> BY DEF LockTo
<1>2. Fits(task[p], "lock to") BY <1>1 DEF Good, ControlGood, WorksOn, At
<1>3. FilesTyped' /\ MemoryTyped' BY <1>1 DEF Good, FilesTyped, MemoryTyped, files, memory
<1>4. LocksTyped' BY <1>1 DEF Good, LocksTyped, LockTo
<1>5. CASE looseLock[task[p].to] # Free
  <2>1. End(p) BY <1>5 DEF LockTo
  <2> QED BY <1>3, <1>4, <2>1, EndTyped DEF Good
<1>6. CASE looseLock[task[p].to] = Free
  <2>1. Goto(p, "commit to") /\ UNCHANGED seen BY <1>6 DEF LockTo
  <2>2. Fits(task[p], "commit to") /\ "commit to" \in Steps
    BY <1>2 DEF Fits, Steps, Labels, Lookers
  <2> QED BY <1>3, <1>4, <2>1, <2>2, GotoGood DEF Good, SeenTyped
<1> QED BY <1>5, <1>6

LEMMA CommitToGood == ASSUME Good, NEW p \in Procs, CommitTo(p) PROVE Good'
<1>1. /\ pc[p] = "commit to" /\ UNCHANGED <<packed, hasPack, packLock, memory>>
      /\ loose' = [loose EXCEPT ![task[p].to] = got[p]]
      /\ looseLock' = Freed(task[p].to) /\ Goto(p, "done") /\ Watch
  BY DEF CommitTo
<1>2. Fits(task[p], "commit to") BY <1>1 DEF Good, ControlGood, WorksOn, At
<1>3. got[p] \in Values BY DEF Good, ControlGood, ControlTyped
<1>4. FilesTyped' /\ MemoryTyped' /\ LocksTyped'
  BY <1>1, <1>3, FreedTyped DEF Good, FilesTyped, MemoryTyped, LocksTyped, memory
<1>5. SeenTyped' BY <1>1, <1>4, WatchTyped DEF Good
<1>6. Fits(task[p], "done") /\ "done" \in Steps BY <1>2 DEF Fits, Steps, Labels, Lookers
<1> QED BY <1>1, <1>4, <1>5, <1>6, GotoGood DEF Good

LEMMA ListGood == ASSUME Good, NEW p \in Procs, List(p) PROVE Good'
<1>1. /\ pc[p] = "list" /\ UNCHANGED <<files, locks, memory, goal, task, got, seen>>
      /\ todo' = [todo EXCEPT ![p] = {r \in Refs : loose[r] # None}]
      /\ pc' = [pc EXCEPT ![p] = "load"]
  BY DEF List
<1>2. FilesTyped' /\ LocksTyped' /\ MemoryTyped' /\ SeenTyped'
  BY <1>1 DEF Good, FilesTyped, LocksTyped, MemoryTyped, SeenTyped, files, locks, memory
<1>3. Fits(task[p], "list") BY <1>1 DEF Good, ControlGood, WorksOn, At
<1>4. Fits(task[p], "load") /\ "load" \in Labels BY <1>3 DEF Fits, Labels
<1>5. {r \in Refs : loose[r] # None} \in SUBSET Refs OBVIOUS
<1>6. ControlGood' BY <1>1, <1>4, <1>5, MoveGood DEF Good, Lookers
<1> QED BY <1>2, <1>6 DEF Good

LEMMA LoadGood == ASSUME Good, NEW p \in Procs, Load(p) PROVE Good'
<1>1. pc[p] = "load" /\ UNCHANGED <<files, locks, fresh, seen>> BY DEF Load
<1>2. FilesTyped' /\ LocksTyped' /\ SeenTyped'
  BY <1>1 DEF Good, FilesTyped, LocksTyped, SeenTyped, files, locks
<1>3. Fits(task[p], "load") BY <1>1 DEF Good, ControlGood, WorksOn, At
<1>4. CASE todo[p] = {} /\ Goto(p, "pack open") /\ UNCHANGED <<cache, wasLoose>>
  <2>1. MemoryTyped' BY <1>1, <1>4 DEF Good, MemoryTyped
  <2>2. Fits(task[p], "pack open") /\ "pack open" \in Steps
    BY <1>3 DEF Fits, Steps, Labels, Lookers
  <2> QED BY <1>2, <1>4, <2>1, <2>2, GotoGood DEF Good
<1>5. ASSUME NEW r \in todo[p], todo' = [todo EXCEPT ![p] = @ \ {r}],
             IF loose[r] = None THEN UNCHANGED <<cache, wasLoose>>
             ELSE /\ cache' = [cache EXCEPT ![p][r] = loose[r]]
                  /\ wasLoose' = [wasLoose EXCEPT ![p] = @ \cup {r}],
             UNCHANGED <<pc, goal, task, got>>
      PROVE Good'
  <2>1. todo[p] \in SUBSET Refs /\ r \in Refs BY <1>5 DEF Good, ControlGood, ControlTyped
  <2>2. MemoryTyped'
    <3>1. [cache[p] EXCEPT ![r] = loose[r]] \in [Refs -> Values]
      BY <2>1 DEF Good, MemoryTyped, FilesTyped
    <3>2. cache' = [cache EXCEPT ![p] = [cache[p] EXCEPT ![r] = loose[r]]] \/ cache' = cache
      BY <1>5
    <3>3. cache' \in [Procs -> [Refs -> Values]] BY <3>1, <3>2 DEF Good, MemoryTyped
    <3>4. wasLoose' \in [Procs -> SUBSET Refs] BY <1>5, <2>1 DEF Good, MemoryTyped
    <3> QED BY <1>1, <3>3, <3>4 DEF Good, MemoryTyped
  <2>3. pc' = [pc EXCEPT ![p] = "load"] BY <1>1, <1>5 DEF Good, ControlGood, ControlTyped
  <2>4. todo[p] \ {r} \in SUBSET Refs /\ todo' = [todo EXCEPT ![p] = todo[p] \ {r}]
    BY <1>5, <2>1
  <2>5. "load" \in Labels BY DEF Labels
  <2>6. ControlGood' BY <1>1, <1>3, <1>5, <2>3, <2>4, <2>5, MoveGood DEF Good, Lookers
  <2> QED BY <1>2, <2>2, <2>6 DEF Good
<1> QED BY <1>4, <1>5 DEF Load

LEMMA PackOpenGood == ASSUME Good, NEW p \in Procs, PackOpen(p) PROVE Good'
<1>1. pc[p] = "pack open" /\ UNCHANGED <<files, looseLock, memory>> BY DEF PackOpen
<1>2. FilesTyped' /\ MemoryTyped' BY <1>1 DEF Good, FilesTyped, MemoryTyped, files, memory
<1>3. Fits(task[p], "pack open") BY <1>1 DEF Good, ControlGood, WorksOn, At
<1>4. LocksTyped' BY <1>1 DEF Good, LocksTyped, PackOpen
<1>5. CASE Goto(p, "pack commit") /\ UNCHANGED seen
  <2>1. Fits(task[p], "pack commit") /\ "pack commit" \in Steps
    BY <1>3 DEF Fits, Steps, Labels, Lookers
  <2> QED BY <1>2, <1>4, <1>5, <2>1, GotoGood DEF Good, SeenTyped
<1>6. CASE Fail(p) BY <1>1, <1>2, <1>4, <1>6, FailTyped DEF Good
<1> QED BY <1>5, <1>6 DEF PackOpen

LEMMA PackCommitGood == ASSUME Good, NEW p \in Procs, PackCommit(p) PROVE Good'
<1>1. /\ pc[p] = "pack commit"
      /\ packed' = cache[p] /\ hasPack' = TRUE /\ packLock' = Free /\ fresh' = {}
      /\ todo' = [todo EXCEPT ![p] = wasLoose[p]]
      /\ pc' = [pc EXCEPT ![p] = "prune"]
      /\ UNCHANGED <<loose, looseLock, cache, wasLoose, goal, task, got>>
      /\ \A o \in Procs : seen'[o] \subseteq seen[o] \cup Values
      /\ \E f : seen' = [o \in Procs |-> f[o]]
  <2>1. seen' = [o \in Procs |-> [o2 \in Procs |-> seen[o2] \cup
                {v \in Values : \E r \in Refs :
                   /\ Store!Watches(task[o2], r)
                   /\ v = Value'[r] \/ (v = None /\ Store!Deleting(task[p]) /\ task[p].ref = r)}][o]]
    BY DEF PackCommit
  <2> QED BY <2>1 DEF PackCommit, NewStamp
<1>2. FilesTyped' /\ LocksTyped' /\ MemoryTyped'
  BY <1>1 DEF Good, FilesTyped, LocksTyped, MemoryTyped
<1>3. SeenTyped' BY <1>1 DEF Good, SeenTyped
<1>4. Fits(task[p], "pack commit") BY <1>1 DEF Good, ControlGood, WorksOn, At
<1>5. Fits(task[p], "prune") /\ "prune" \in Labels BY <1>4 DEF Fits, Labels
<1>6. wasLoose[p] \in SUBSET Refs BY DEF Good, MemoryTyped
<1>7. ControlGood' BY <1>1, <1>5, <1>6, MoveGood DEF Good, Lookers
<1> QED BY <1>2, <1>3, <1>7 DEF Good

LEMMA PackFailsGood == ASSUME Good, NEW p \in Procs, PackFails(p) PROVE Good'
<1>1. pc[p] = "pack commit" /\ packLock' = Free /\ Fail(p) /\ UNCHANGED <<files, looseLock, memory>>
  BY DEF PackFails
<1>2. FilesTyped' /\ MemoryTyped' /\ LocksTyped'
  BY <1>1 DEF Good, FilesTyped, MemoryTyped, LocksTyped, files, memory
<1> QED BY <1>1, <1>2, FailTyped DEF Good

LEMMA PruneGood == ASSUME Good, NEW p \in Procs, Prune(p) PROVE Good'
<1>1. pc[p] = "prune" /\ UNCHANGED <<files, packLock, memory>> BY DEF Prune
<1>2. FilesTyped' /\ MemoryTyped' BY <1>1 DEF Good, FilesTyped, MemoryTyped, files, memory
<1>3. Fits(task[p], "prune") BY <1>1 DEF Good, ControlGood, WorksOn, At
<1>4. LocksTyped' BY <1>1 DEF Good, LocksTyped, Prune
<1>5. ASSUME NEW l \in {"updated", "prune one"}, Goto(p, l), UNCHANGED seen PROVE Good'
  <2>1. Fits(task[p], l) /\ l \in Steps BY <1>3 DEF Fits, Steps, Labels, Lookers
  <2> QED BY <1>2, <1>4, <1>5, <2>1, GotoGood DEF Good, SeenTyped
<1>6. CASE Fail(p) BY <1>1, <1>2, <1>4, <1>6, FailTyped DEF Good
<1> QED BY <1>5, <1>6 DEF Prune

LEMMA PruneOneGood == ASSUME Good, NEW p \in Procs, PruneOne(p) PROVE Good'
<1>1. /\ pc[p] = "prune one" /\ pc' = [pc EXCEPT ![p] = "prune"]
      /\ UNCHANGED <<packed, hasPack, packLock, memory, goal, task, got>> /\ Watch
  BY DEF PruneOne
<1>2. PICK r \in todo[p] :
        /\ loose' = IF StillAsPacked(p, r) THEN [loose EXCEPT ![r] = None] ELSE loose
        /\ looseLock' = Freed(r) /\ todo' = [todo EXCEPT ![p] = todo[p] \ {r}]
  BY DEF PruneOne
<1>3. todo[p] \ {r} \in SUBSET Refs BY DEF Good, ControlGood, ControlTyped
<1>4. FilesTyped' /\ MemoryTyped' /\ LocksTyped'
  BY <1>1, <1>2, FreedTyped, NoneIsValue DEF Good, FilesTyped, MemoryTyped, LocksTyped, memory
<1>5. SeenTyped' BY <1>1, <1>4, WatchTyped DEF Good
<1>6. Fits(task[p], "prune one") BY <1>1 DEF Good, ControlGood, WorksOn, At
<1>7. Fits(task[p], "prune") /\ "prune" \in Labels BY <1>6 DEF Fits, Labels
<1>8. ControlGood' BY <1>1, <1>2, <1>3, <1>7, MoveGood DEF Good, Lookers
<1> QED BY <1>4, <1>5, <1>8 DEF Good

LEMMA UpdatedGood == ASSUME Good, NEW p \in Procs, Updated(p) PROVE Good'
<1>1. pc[p] = "updated" /\ fresh' = fresh \cup {p} /\ UNCHANGED <<files, locks, cache, wasLoose>>
  BY DEF Updated
<1>2. FilesTyped' /\ LocksTyped' /\ MemoryTyped'
  BY <1>1 DEF Good, FilesTyped, LocksTyped, MemoryTyped, files, locks
<1>3. Fits(task[p], "updated") BY <1>1 DEF Good, ControlGood, WorksOn, At
<1>4. CASE task[p].kind = "compress"
  <2>1. End(p) BY <1>4 DEF Updated
  <2> QED BY <1>2, <2>1, EndTyped DEF Good
<1>5. CASE task[p].kind # "compress"
  <2>1. Goto(p, "unlink") /\ UNCHANGED seen BY <1>5 DEF Updated
  <2>2. Fits(task[p], "unlink") /\ "unlink" \in Steps
    BY <1>3, <1>5 DEF Fits, Steps, Labels, Lookers
  <2> QED BY <1>2, <2>1, <2>2, GotoGood DEF Good, SeenTyped
<1> QED BY <1>4, <1>5

LEMMA KillGood == ASSUME Good, NEW p \in Procs, Kill(p) PROVE Good'
<1>1. /\ looseLock' = [r \in Refs |-> IF looseLock[r] = p THEN Dead ELSE looseLock[r]]
      /\ packLock' = IF packLock = p THEN Dead ELSE packLock
      /\ cache' = [cache EXCEPT ![p] = NoRefs]
      /\ wasLoose' = [wasLoose EXCEPT ![p] = {}] /\ fresh' = fresh \ {p}
      /\ End(p) /\ UNCHANGED files
  BY DEF Kill
<1>2. FilesTyped' /\ LocksTyped' BY <1>1 DEF Good, FilesTyped, LocksTyped, files
<1>3. NoRefs \in [Refs -> Values] BY NoneIsValue DEF NoRefs
<1>4. MemoryTyped' BY <1>1, <1>3 DEF Good, MemoryTyped
<1> QED BY <1>1, <1>2, <1>4, EndTyped DEF Good

LEMMA StepGood == Good /\ [Next]_vars => Good'
<1> SUFFICES ASSUME Good, [Next]_vars PROVE Good' OBVIOUS
<1>1. CASE UNCHANGED vars
  <2>1. /\ UNCHANGED <<loose, packed, hasPack, looseLock, packLock, cache, wasLoose, fresh>>
        /\ UNCHANGED <<pc, goal, task, got, todo, seen>>
    BY <1>1 DEF vars, files, locks, memory, control
  <2>2. FilesTyped' /\ LocksTyped' /\ MemoryTyped' /\ SeenTyped' /\ ControlTyped'
    BY <2>1 DEF Good, ControlGood, FilesTyped, LocksTyped, MemoryTyped, SeenTyped, ControlTyped
  <2>3. ASSUME NEW p \in Procs PROVE WorksOn(p)'
    <3>1. WorksOn(p) BY DEF Good, ControlGood
    <3> QED BY <2>1, <3>1 DEF WorksOn, Fits, At
  <2> QED BY <2>2, <2>3 DEF Good, ControlGood
<1>2. ASSUME NEW p \in Procs, Act(p) PROVE Good'
  BY <1>2, BeginGood, LookGood, StatGood, ReadGood, FinishGood, AvailableGood, LockGood,
     CommitGood, CommitFailsGood, AbandonGood, DropGood, UnlinkGood, UnlockGood, LockToGood,
     CommitToGood, ListGood, LoadGood, PackOpenGood, PackCommitGood, PackFailsGood,
     PruneGood, PruneOneGood, UpdatedGood, KillGood DEF Act
<1> QED BY <1>1, <1>2 DEF Next

LEMMA InitGood == Init => Good
<1> SUFFICES ASSUME Init PROVE Good OBVIOUS
<1>1. NoRefs \in [Refs -> Values] BY NoneIsValue DEF NoRefs
<1>2. FilesTyped BY <1>1 DEF Init, FilesTyped
<1>3. LocksTyped /\ MemoryTyped /\ SeenTyped BY <1>1 DEF Init, LocksTyped, MemoryTyped, SeenTyped
<1>4. ControlTyped BY NoneIsValue DEF Init, ControlTyped, Labels
<1>5. \A p \in Procs : WorksOn(p) BY DEF Init, WorksOn, Fits, At
<1> QED BY <1>2, <1>3, <1>4, <1>5 DEF Good, ControlGood

THEOREM TypesAndSteps == Spec => []Good
<1>1. Init => Good BY InitGood
<1>2. Good /\ [Next]_vars => Good' BY StepGood
<1> QED BY <1>1, <1>2, PTL DEF Spec

(* The type of the variables. *)
THEOREM TypeCorrect == Spec => []TypeOK
<1>1. Good => TypeOK BY TypeParts DEF Good, ControlGood
<1> QED BY <1>1, TypesAndSteps, PTL

-----------------------------------------------------------------------------
(* A step of p leaves the others where they are. *)
ControlApart(p) ==
  \A o \in Procs \ {p} :
    pc'[o] = pc[o] /\ goal'[o] = goal[o] /\ task'[o] = task[o] /\ got'[o] = got[o] /\ todo'[o] = todo[o]

MemoryApart(p) ==
  \A o \in Procs \ {p} : cache'[o] = cache[o] /\ wasLoose'[o] = wasLoose[o]

LEMMA GotoApart == ASSUME ControlGood, NEW p, NEW l, Goto(p, l) PROVE ControlApart(p)
BY DEF ControlGood, ControlTyped, Goto, ControlApart

LEMMA FollowApart ==
  ASSUME ControlGood, NEW p, NEW at, Follow(p, at),
         \A o \in Procs \ {p} : got'[o] = got[o]
  PROVE ControlApart(p)
BY DEF ControlGood, ControlTyped, Follow, ControlApart

LEMMA EndApart == ASSUME ControlGood, NEW p, End(p) PROVE ControlApart(p)
BY DEF ControlGood, ControlTyped, End, ControlApart

LEMMA FailApart == ASSUME ControlGood, NEW p, Fail(p) PROVE ControlApart(p)
BY GotoApart, EndApart DEF Fail

LEMMA FindingApart == ASSUME ControlGood, NEW p, NEW v, Finding(p, v) PROVE ControlApart(p)
<1>1. \A o \in Procs \ {p} : got'[o] = got[o] BY DEF Finding, ControlGood, ControlTyped
<1> QED BY <1>1, FollowApart DEF Finding

LEMMA ReloadedApart == ASSUME ControlGood, NEW p, Reloaded(p) PROVE ControlApart(p)
<1>1. Goto(p, goal[p]) \/ \E v : Finding(p, v) BY DEF Reloaded
<1> QED BY <1>1, GotoApart, FindingApart

LEMMA ActControlApart == ASSUME Good, NEW p \in Procs, Act(p) PROVE ControlApart(p)
<1>0. ControlGood BY DEF Good
<1>1. CASE Begin(p) BY <1>0, <1>1 DEF Begin, ControlApart, ControlGood, ControlTyped
<1>2. CASE Look(p)
  <2>1. (Follow(p, Reload(goal[p])) /\ UNCHANGED got) \/ \E v : Finding(p, v) BY <1>2 DEF Look
  <2> QED BY <1>0, <2>1, FollowApart, FindingApart
<1>3. CASE Stat(p)
  <2>1. \/ Reloaded(p)
        \/ pc' = [pc EXCEPT ![p] = "read"] /\ UNCHANGED <<goal, task, got, todo>>
    BY <1>3 DEF Stat
  <2> QED BY <1>0, <2>1, ReloadedApart DEF ControlApart, ControlGood, ControlTyped
<1>4. CASE Read(p) \/ Finish(p) BY <1>0, <1>4, ReloadedApart, EndApart DEF Read, Finish
<1>5. CASE Available(p)
  <2>1. UNCHANGED got /\ \E at : Follow(p, at) BY <1>5 DEF Available
  <2> QED BY <1>0, <2>1, FollowApart
<1>6. CASE Lock(p)
  <2>1. End(p) \/ (UNCHANGED got /\ \E at : Follow(p, at)) BY <1>6 DEF Lock
  <2> QED BY <1>0, <2>1, FollowApart, EndApart
<1>7. CASE Commit(p) \/ CommitFails(p) \/ Abandon(p) \/ Drop(p) \/ Unlink(p) \/ Unlock(p)
           \/ LockTo(p) \/ CommitTo(p)
  <2>1. End(p) \/ \E l : Goto(p, l)
    BY <1>7 DEF Commit, CommitFails, Abandon, Drop, Unlink, Unlock, LockTo, CommitTo
  <2> QED BY <1>0, <2>1, EndApart, GotoApart
<1>8. CASE List(p) BY <1>0, <1>8 DEF List, ControlApart, ControlGood, ControlTyped
<1>9. CASE Load(p)
  <2>1. \/ Goto(p, "pack open")
        \/ (\E t : todo' = [todo EXCEPT ![p] = t]) /\ UNCHANGED <<pc, goal, task, got>>
    BY <1>9 DEF Load
  <2> QED BY <1>0, <2>1, GotoApart DEF ControlApart, ControlGood, ControlTyped
<1>10. CASE PackOpen(p) \/ PackFails(p) \/ Prune(p) \/ Updated(p) \/ Kill(p)
  <2>1. Fail(p) \/ End(p) \/ \E l : Goto(p, l)
    BY <1>10 DEF PackOpen, PackFails, Prune, Updated, Kill
  <2> QED BY <1>0, <2>1, FailApart, EndApart, GotoApart
<1>11. CASE PackCommit(p) BY <1>0, <1>11 DEF PackCommit, ControlApart, ControlGood, ControlTyped
<1>12. CASE PruneOne(p) BY <1>0, <1>12 DEF PruneOne, ControlApart, ControlGood, ControlTyped
<1> QED BY <1>1, <1>2, <1>3, <1>4, <1>5, <1>6, <1>7, <1>8, <1>9, <1>10, <1>11, <1>12 DEF Act

LEMMA ActMemoryApart == ASSUME Good, NEW p \in Procs, Act(p) PROVE MemoryApart(p)
<1>1. CASE Begin(p) \/ Look(p) \/ Finish(p) \/ Available(p) \/ Lock(p) \/ Commit(p)
           \/ CommitFails(p) \/ Abandon(p) \/ Unlink(p) \/ Unlock(p) \/ LockTo(p) \/ CommitTo(p)
           \/ List(p) \/ PackOpen(p) \/ PackCommit(p) \/ PackFails(p) \/ Prune(p) \/ PruneOne(p)
           \/ Updated(p)
  <2>1. cache' = cache /\ wasLoose' = wasLoose
    BY <1>1 DEF Begin, Look, Finish, Available, Lock, Commit, CommitFails, Abandon, Unlink, Unlock,
       LockTo, CommitTo, List, PackOpen, PackCommit, PackFails, Prune, PruneOne, Updated, memory
  <2> QED BY <2>1 DEF MemoryApart
<1>2. CASE Stat(p) BY <1>2 DEF Stat, MemoryApart, Good, MemoryTyped, memory
<1>3. CASE Read(p) BY <1>3 DEF Read, MemoryApart, Good, MemoryTyped
<1>4. CASE Drop(p) BY <1>4 DEF Drop, MemoryApart, Good, MemoryTyped
<1>5. CASE Load(p) BY <1>5 DEF Load, MemoryApart, Good, MemoryTyped
<1>6. CASE Kill(p) BY <1>6 DEF Kill, MemoryApart, Good, MemoryTyped
<1> QED BY <1>1, <1>2, <1>3, <1>4, <1>5, <1>6 DEF Act

(* Where a process is after a step of its own. *)
LEMMA GotoAt ==
  ASSUME ControlGood, NEW p \in Procs, NEW l \in Steps, Goto(p, l)
  PROVE pc'[p] = l /\ At(p)' = l /\ task'[p] = task[p] /\ todo'[p] = todo[p]
<1>1. pc'[p] = l /\ task'[p] = task[p] /\ todo'[p] = todo[p] BY DEF Goto, ControlGood, ControlTyped
<1> QED BY <1>1 DEF At, Steps, Lookers

LEMMA FollowAt ==
  ASSUME ControlGood, NEW p \in Procs, NEW at \in Places, Follow(p, at)
  PROVE pc'[p] = at[1] /\ At(p)' = Dest(at) /\ task'[p] = task[p] /\ todo'[p] = todo[p]
<1>1. /\ pc'[p] = at[1] /\ goal'[p] = at[2] /\ task'[p] = task[p] /\ todo'[p] = todo[p]
  BY DEF Follow, ControlGood, ControlTyped
<1>2. at[1] \in Lookers <=> at[2] # "none" BY DEF Places, Steps, Lookers, Goals
<1> QED BY <1>1, <1>2 DEF At, Lookers, Dest

LEMMA EndAt ==
  ASSUME ControlGood, NEW p \in Procs, End(p)
  PROVE pc'[p] = "idle" /\ At(p)' = "idle" /\ task'[p] = Store!Nothing /\ todo'[p] = {}
<1>1. pc'[p] = "idle" /\ task'[p] = Store!Nothing /\ todo'[p] = {}
  BY DEF End, ControlGood, ControlTyped
<1> QED BY <1>1 DEF At

-----------------------------------------------------------------------------
(* The locks. *)
HeldAt(q, l) ==
  IF l \in {"expect", "same", "commit", "abandon", "drop", "unlink", "unlock"}
     \/ (l \in {"pack open", "pack commit", "prune", "prune one", "updated"} /\ Store!Deleting(q))
  THEN {q.ref}
  ELSE IF l = "commit to" THEN {q.to} ELSE {}

Mine(p) == {r \in Refs : looseLock[r] = p}

Owns(p) ==
  /\ packLock = p <=> pc[p] = "pack commit"
  /\ IF pc[p] = "prune one" THEN \E r \in todo[p] \ Held(p) : Mine(p) = Held(p) \cup {r}
     ELSE Mine(p) = Held(p)

LEMMA OwnsAll == LockDiscipline <=> \A p \in Procs : Owns(p)
BY DEF LockDiscipline, Owns, Mine

LEMMA HeldIs == \A p \in Procs : Held(p) = HeldAt(task[p], At(p))
BY DEF Held, HeldAt

LEMMA HeldIsAfter == \A p \in Procs : Held(p)' = HeldAt(task'[p], At(p)')
BY DEF Held, HeldAt, At

(* A process whose locks and place did not change still owns what it should. *)
LEMMA OwnsKept ==
  ASSUME NEW o \in Procs, Owns(o), Mine(o)' = Mine(o), (packLock' = o) <=> (packLock = o),
         pc'[o] = pc[o], goal'[o] = goal[o], task'[o] = task[o], todo'[o] = todo[o]
  PROVE Owns(o)'
<1>1. Held(o)' = Held(o) BY DEF Held, At
<1> QED BY <1>1 DEF Owns

LEMMA OwnsNow ==
  ASSUME NEW p \in Procs, pc'[p] # "prune one", (packLock' = p) <=> (pc'[p] = "pack commit"),
         Mine(p)' = HeldAt(task'[p], At(p)')
  PROVE Owns(p)'
BY HeldIsAfter DEF Owns

LEMMA FreedMine ==
  ASSUME LocksTyped, NEW r, NEW o \in Procs, looseLock' = Freed(r)
  PROVE Mine(o)' = Mine(o) \ {r}
BY LocksApart DEF Mine, Freed, LocksTyped

LEMMA TakenMine ==
  ASSUME LocksTyped, NEW r \in Refs, looseLock[r] = Free, NEW p \in Procs, NEW o \in Procs,
         looseLock' = [looseLock EXCEPT ![r] = p]
  PROVE Mine(o)' = (IF o = p THEN Mine(o) \cup {r} ELSE Mine(o)) /\ r \notin Mine(o)
BY LocksApart DEF Mine, LocksTyped

(* The steps that leave every lock alone, and both sides of which hold the same. *)
LEMMA SameLocks ==
  ASSUME NEW p \in Procs, Owns(p), UNCHANGED locks,
         pc[p] \notin {"pack commit", "prune one"}, pc'[p] \notin {"pack commit", "prune one"},
         HeldAt(task'[p], At(p)') = HeldAt(task[p], At(p))
  PROVE Owns(p)'
<1>1. Mine(p)' = Mine(p) /\ packLock' = packLock BY DEF Mine, locks
<1>2. Mine(p) = HeldAt(task[p], At(p)) BY HeldIs DEF Owns
<1> QED BY <1>1, <1>2, OwnsNow DEF Owns

Quiet(at) == at[1] \notin {"pack commit", "prune one"}

(* What is looked up under the lock leads to steps under the lock. *)
LEMMA FoundHeld ==
  ASSUME NEW q, q # Store!Nothing, NEW v,
         NEW l \in {"answer", "expect", "same", "carry", "exists"}, Fits(q, l)
  PROVE HeldAt(q, Dest(Found(q, l, v))) = HeldAt(q, l) /\ Quiet(Found(q, l, v))
<1> USE DEF Step, Lookup, Reload, Dest, Quiet
<1>1. CASE l = "expect" BY <1>1 DEF Found, Compared, HeldAt
<1>2. CASE l = "same" BY <1>2 DEF Found, HeldAt
<1>3. CASE l = "carry" BY <1>3 DEF Found, HeldAt
<1>4. CASE l = "exists" BY <1>4 DEF Found, Proceed, HeldAt
<1>5. CASE l = "answer" BY <1>5 DEF Found, HeldAt
<1> QED BY <1>1, <1>2, <1>3, <1>4, <1>5

LEMMA FindingOwns ==
  ASSUME Good, NEW p \in Procs, Owns(p), UNCHANGED locks, pc[p] \in Lookers,
         goal[p] \in {"answer", "expect", "same", "carry", "exists"},
         NEW v, Finding(p, v)
  PROVE Owns(p)'
<1>1. Fits(task[p], goal[p]) /\ task[p] # Store!Nothing /\ At(p) = goal[p]
  BY DEF Good, ControlGood, WorksOn, Fits, At, Lookers
<1> DEFINE at == Found(task[p], goal[p], v)
<1>2. Legal(task[p], at) BY <1>1, FoundLegal
<1>3. HeldAt(task[p], Dest(at)) = HeldAt(task[p], goal[p]) /\ Quiet(at) BY <1>1, FoundHeld
<1>4. Follow(p, at) BY DEF Finding
<1> HIDE DEF at
<1>5. pc'[p] = at[1] /\ At(p)' = Dest(at) /\ task'[p] = task[p]
  BY <1>2, <1>4, FollowAt DEF Legal, Good
<1> QED BY <1>1, <1>3, <1>5, SameLocks DEF Quiet, Lookers

LEMMA ReloadedOwns ==
  ASSUME Good, NEW p \in Procs, Owns(p), UNCHANGED locks, pc[p] \in {"stat", "read"}, Reloaded(p)
  PROVE Owns(p)'
<1>1. At(p) = goal[p] /\ goal[p] \in Goals
  BY DEF At, Good, ControlGood, ControlTyped, WorksOn
<1>2. CASE goal[p] \in {"list", "available", "drop"}
  <2>1. Goto(p, goal[p]) /\ goal[p] \in Steps
    BY <1>2 DEF Reloaded, Steps, Labels, Lookers
  <2>2. pc'[p] = goal[p] /\ At(p)' = goal[p] /\ task'[p] = task[p]
    BY <2>1, GotoAt DEF Good
  <2> QED BY <1>1, <1>2, <2>2, SameLocks
<1>3. CASE goal[p] \notin {"list", "available", "drop"}
  <2>1. goal[p] \in {"answer", "expect", "same", "carry", "exists"} BY <1>1, <1>3 DEF Goals
  <2>2. \E v : Finding(p, v) BY <1>3 DEF Reloaded
  <2> QED BY <2>1, <2>2, FindingOwns DEF Lookers
<1> QED BY <1>2, <1>3

(* p owns what it should after its step, and the locks of the others are as before. *)
LocksStep(p) ==
  /\ Owns(p)'
  /\ \A o \in Procs \ {p} : Mine(o)' = Mine(o) /\ ((packLock' = o) <=> (packLock = o))

LEMMA UnchangedLocksStep ==
  ASSUME NEW p \in Procs, Owns(p)', UNCHANGED locks PROVE LocksStep(p)
BY DEF LocksStep, locks, Mine

LEMMA LookOwns ==
  ASSUME Good, NEW p \in Procs, Owns(p), Begin(p) \/ Look(p) \/ Stat(p) \/ Read(p) \/ Finish(p) \/ Available(p)
  PROVE LocksStep(p)
<1>1. UNCHANGED locks BY DEF Begin, Look, Stat, Read, Finish, Available
<1>2. CASE Begin(p)
  <2>1. PICK q \in Asks[p] :
        /\ task' = [task EXCEPT ![p] = q]
        /\ LET at == CASE q.kind = "lookup"   -> Lookup("answer")
                       [] q.kind = "delete"   -> Step("lock")
                       [] q.kind = "compress" -> Reload("list")
                       [] OTHER               -> Reload("available")
           IN pc' = [pc EXCEPT ![p] = at[1]] /\ goal' = [goal EXCEPT ![p] = at[2]]
    BY <1>2 DEF Begin
  <2>2. PICK at \in {<<"look", "answer">>, <<"lock", "none">>, <<"stat", "list">>, <<"stat", "available">>} :
          pc' = [pc EXCEPT ![p] = at[1]] /\ goal' = [goal EXCEPT ![p] = at[2]]
    BY <2>1 DEF Lookup, Step, Reload
  <2>3. pc'[p] = at[1] /\ goal'[p] = at[2] BY <2>2 DEF Good, ControlGood, ControlTyped
  <2>4. At(p)' \in {"answer", "lock", "list", "available"} /\ pc'[p] \in {"look", "lock", "stat"}
    BY <2>2, <2>3 DEF At
  <2>5. HeldAt(task'[p], At(p)') = {} BY <2>4 DEF HeldAt
  <2>6. pc[p] = "idle" /\ At(p) = "idle" BY <1>2 DEF Begin, At
  <2>7. HeldAt(task[p], At(p)) = {} BY <2>6 DEF HeldAt
  <2>8. Owns(p)' BY <1>1, <2>4, <2>5, <2>6, <2>7, SameLocks
  <2> QED BY <1>1, <2>8, UnchangedLocksStep
<1>3. CASE Look(p)
  <2>1. pc[p] = "look" /\ goal[p] \in {"answer", "expect", "same", "carry"} /\ At(p) = goal[p]
    BY <1>3 DEF Look, Good, ControlGood, WorksOn, At
  <2>2. CASE Finding(p, loose[task[p].ref])
    BY <2>1, <2>2, <1>1, FindingOwns, UnchangedLocksStep DEF Lookers
  <2>3. CASE Follow(p, Reload(goal[p]))
    <3>1. Reload(goal[p]) \in Places BY <2>1 DEF Reload, Places, Goals
    <3>2. pc'[p] = "stat" /\ At(p)' = goal[p] /\ task'[p] = task[p]
      BY <2>1, <2>3, <3>1, FollowAt DEF Reload, Dest, Good
    <3>3. Owns(p)' BY <1>1, <2>1, <3>2, SameLocks
    <3> QED BY <1>1, <3>3, UnchangedLocksStep
  <2> QED BY <1>3, <2>2, <2>3 DEF Look
<1>4. CASE Stat(p)
  <2>1. pc[p] = "stat" BY <1>4 DEF Stat
  <2>2. CASE Reloaded(p) BY <1>1, <2>1, <2>2, ReloadedOwns, UnchangedLocksStep
  <2>3. CASE pc' = [pc EXCEPT ![p] = "read"] /\ UNCHANGED <<goal, task>>
    <3>1. pc'[p] = "read" /\ At(p)' = At(p) /\ task'[p] = task[p]
      BY <2>1, <2>3 DEF At, Good, ControlGood, ControlTyped
    <3>2. Owns(p)' BY <1>1, <2>1, <3>1, SameLocks
    <3> QED BY <1>1, <3>2, UnchangedLocksStep
  <2> QED BY <1>4, <2>2, <2>3 DEF Stat
<1>5. CASE Read(p) BY <1>1, <1>5, ReloadedOwns, UnchangedLocksStep DEF Read
<1>6. CASE Finish(p)
  <2>1. pc[p] \in {"answer", "done"} /\ At(p) = pc[p] /\ End(p) BY <1>6 DEF Finish, At
  <2>2. pc'[p] = "idle" /\ At(p)' = "idle" BY <2>1, EndAt DEF Good
  <2>3. HeldAt(task'[p], At(p)') = {} /\ HeldAt(task[p], At(p)) = {} BY <2>1, <2>2 DEF HeldAt
  <2>4. Owns(p)' BY <1>1, <2>1, <2>2, <2>3, SameLocks
  <2> QED BY <1>1, <2>4, UnchangedLocksStep
<1>7. CASE Available(p)
  <2>1. pc[p] = "available" /\ At(p) = "available" BY <1>7 DEF Available, At
  <2>2. PICK at \in {<<"look", "carry">>, <<"lock", "none">>, <<"done", "none">>, <<"stat", "exists">>} :
          Follow(p, at)
    BY <1>7 DEF Available, Proceed, Lookup, Step, Reload
  <2>3. at \in Places
    <3>1. {"carry", "exists"} \subseteq Goals /\ {"lock", "done"} \subseteq Steps
      BY DEF Steps, Labels, Lookers, Goals
    <3> QED BY <2>2, <3>1 DEF Places
  <2>4. pc'[p] = at[1] /\ At(p)' = Dest(at) BY <2>2, <2>3, FollowAt DEF Good
  <2>5. At(p)' \in {"carry", "lock", "done", "exists"} /\ pc'[p] \in {"look", "lock", "done", "stat"}
    BY <2>2, <2>4 DEF Dest
  <2>6. HeldAt(task'[p], At(p)') = {} /\ HeldAt(task[p], At(p)) = {} BY <2>1, <2>5 DEF HeldAt
  <2>7. Owns(p)' BY <1>1, <2>1, <2>5, <2>6, SameLocks
  <2> QED BY <1>1, <2>7, UnchangedLocksStep
<1> QED BY <1>2, <1>3, <1>4, <1>5, <1>6, <1>7

LEMMA LockOwns ==
  ASSUME Good, NEW p \in Procs, Owns(p), Lock(p) PROVE LocksStep(p)
<1>1. pc[p] = "lock" /\ At(p) = "lock" /\ packLock' = packLock BY DEF Lock, At
<1>2. Fits(task[p], "lock") BY <1>1 DEF Good, ControlGood, WorksOn
<1>3. Mine(p) = {} BY <1>1, HeldIs DEF Owns, HeldAt
<1>4. packLock # p BY <1>1 DEF Owns
<1>5. RequestOK(task[p]) BY TaskOK DEF Good, ControlGood
<1>6. task[p] # Store!Nothing /\ task[p].kind \in {"write", "delete", "rename"} /\ task[p].ref \in Refs
  BY <1>2, <1>5 DEF Fits, RequestOK
<1>7. CASE looseLock[task[p].ref] # Free
  <2>1. End(p) /\ looseLock' = looseLock BY <1>7 DEF Lock
  <2>2. pc'[p] = "idle" /\ At(p)' = "idle" BY <2>1, EndAt DEF Good
  <2>3. HeldAt(task'[p], At(p)') = {} BY <2>2 DEF HeldAt
  <2>4. \A o \in Procs : Mine(o)' = Mine(o) BY <2>1 DEF Mine
  <2>5. Owns(p)' BY <1>1, <1>3, <1>4, <2>2, <2>3, <2>4, OwnsNow
  <2> QED BY <1>1, <2>4, <2>5 DEF LocksStep
<1>8. CASE looseLock[task[p].ref] = Free
  <2>1. looseLock' = [looseLock EXCEPT ![task[p].ref] = p] BY <1>8 DEF Lock
  <2>2. PICK at \in {Lookup("expect"), Compared(task[p])} :
          /\ Follow(p, at)
          /\ \/ at = Lookup("expect") => task[p].kind # "rename" /\ task[p].old # AnyId
             \/ at = Compared(task[p])
    BY <1>8 DEF Lock
  <2>3. at \in Places /\ Quiet(at) /\ Dest(at) \in {"expect", "same", "drop"}
    <3>1. at \in {<<"look", "expect">>, <<"look", "same">>, <<"stat", "drop">>}
      BY <2>2 DEF Lookup, Compared, Reload
    <3>2. {"expect", "same", "drop"} \subseteq Goals BY DEF Goals
    <3>3. at \in Places BY <3>1, <3>2 DEF Places
    <3>4. at[1] \in {"look", "stat"} BY <3>1
    <3>6. Quiet(at) BY <3>4 DEF Quiet
    <3>5. Dest(at) \in {"expect", "same", "drop"} BY <3>1 DEF Dest
    <3> QED BY <3>3, <3>5, <3>6
  <2>4. pc'[p] = at[1] /\ At(p)' = Dest(at) /\ task'[p] = task[p]
    BY <2>2, <2>3, FollowAt DEF Good
  <2>5. HeldAt(task'[p], At(p)') = {task[p].ref} BY <2>3, <2>4 DEF HeldAt
  <2>6. \A o \in Procs : Mine(o)' = IF o = p THEN Mine(o) \cup {task[p].ref} ELSE Mine(o)
    BY <1>6, <1>8, <2>1, TakenMine DEF Good
  <2>7. Owns(p)' BY <1>1, <1>3, <1>4, <2>3, <2>4, <2>5, <2>6, OwnsNow DEF Quiet
  <2> QED BY <1>1, <2>6, <2>7 DEF LocksStep
<1> QED BY <1>7, <1>8

(* A step that gives back the lock it works under. *)
LEMMA FreeingStep ==
  ASSUME Good, \A o \in Procs : Owns(o), NEW p \in Procs, NEW r \in Refs, Mine(p) = {r},
         looseLock' = Freed(r), packLock' = packLock, packLock # p,
         HeldAt(task'[p], At(p)') = {}, pc'[p] \notin {"prune one", "pack commit"}
  PROVE LocksStep(p)
<1>1. \A o \in Procs : Mine(o)' = Mine(o) \ {r} BY FreedMine DEF Good
<1>2. Owns(p)' BY <1>1, OwnsNow
<1>3. ASSUME NEW o \in Procs \ {p} PROVE Mine(o)' = Mine(o)
  BY <1>1 DEF Mine
<1> QED BY <1>2, <1>3 DEF LocksStep

LEMMA WritersOwn ==
  ASSUME Good, \A o \in Procs : Owns(o), NEW p \in Procs,
         Commit(p) \/ CommitFails(p) \/ Abandon(p) \/ Unlock(p) \/ CommitTo(p)
  PROVE LocksStep(p)
<1>1. pc[p] \in {"commit", "abandon", "unlock", "commit to"} /\ At(p) = pc[p]
  BY DEF Commit, CommitFails, Abandon, Unlock, CommitTo, At
<1>2. packLock' = packLock /\ packLock # p
  BY <1>1 DEF Commit, CommitFails, Abandon, Unlock, CommitTo, Owns
<1>3. Fits(task[p], pc[p]) /\ RequestOK(task[p])
  BY <1>1, TaskOK DEF Good, ControlGood, WorksOn
<1> DEFINE r == IF pc[p] = "commit to" THEN task[p].to ELSE task[p].ref
<1>4. r \in Refs BY <1>1, <1>3 DEF Fits, RequestOK
<1>5. Mine(p) = {r} BY <1>1, HeldIs DEF Owns, HeldAt
<1>6. looseLock' = Freed(r) BY <1>1 DEF Commit, CommitFails, Abandon, Unlock, CommitTo
<1>7. End(p) \/ \E l \in {"done", "lock to"} : Goto(p, l)
  BY DEF Commit, CommitFails, Abandon, Unlock, CommitTo
<1>8. At(p)' \in {"idle", "done", "lock to"} /\ pc'[p] \in {"idle", "done", "lock to"}
  <2>1. {"done", "lock to"} \subseteq Steps BY DEF Steps, Labels, Lookers
  <2> QED BY <1>7, <2>1, EndAt, GotoAt DEF Good
<1>9. HeldAt(task'[p], At(p)') = {} BY <1>8 DEF HeldAt
<1> HIDE DEF r
<1> QED BY <1>2, <1>4, <1>5, <1>6, <1>8, <1>9, FreeingStep

LEMMA DeletersOwn ==
  ASSUME Good, NEW p \in Procs, Owns(p),
         Drop(p) \/ Unlink(p) \/ List(p) \/ Load(p) \/ Updated(p)
  PROVE LocksStep(p)
<1>1. UNCHANGED locks BY DEF Drop, Unlink, List, Load, Updated
<1>2. pc[p] \in {"drop", "unlink", "list", "load", "updated"} /\ At(p) = pc[p]
  BY DEF Drop, Unlink, List, Load, Updated, At
<1>3. Fits(task[p], pc[p]) BY <1>2 DEF Good, ControlGood, WorksOn
<1>4. {"unlink", "pack open", "unlock"} \subseteq Steps BY DEF Steps, Labels, Lookers
<1>5. CASE Drop(p)
  <2>1. PICK l \in {"unlink", "pack open"} : Goto(p, l) BY <1>5 DEF Drop
  <2>2. pc'[p] = l /\ At(p)' = l /\ task'[p] = task[p] BY <2>1, <1>4, GotoAt DEF Good
  <2>3. pc[p] = "drop" /\ task[p].kind \in {"delete", "rename"} BY <1>3, <1>5 DEF Drop, Fits
  <2>4. HeldAt(task'[p], At(p)') = HeldAt(task[p], At(p))
    BY <1>2, <2>1, <2>2, <2>3 DEF HeldAt, Store!Deleting
  <2> QED BY <1>1, <1>2, <2>2, <2>4, SameLocks, UnchangedLocksStep
<1>6. CASE Unlink(p)
  <2>1. Goto(p, "unlock") /\ pc[p] = "unlink" BY <1>6 DEF Unlink
  <2>2. pc'[p] = "unlock" /\ At(p)' = "unlock" /\ task'[p] = task[p] BY <2>1, <1>4, GotoAt DEF Good
  <2>3. HeldAt(task'[p], At(p)') = HeldAt(task[p], At(p)) BY <1>2, <2>1, <2>2 DEF HeldAt
  <2> QED BY <1>1, <1>2, <2>2, <2>3, SameLocks, UnchangedLocksStep
<1>7. CASE List(p)
  <2>1. pc[p] = "list" /\ pc'[p] = "load" /\ task'[p] = task[p]
    BY <1>7 DEF List, Good, ControlGood, ControlTyped
  <2>2. At(p)' = "load" BY <2>1 DEF At
  <2>3. HeldAt(task'[p], At(p)') = HeldAt(task[p], At(p)) BY <1>2, <2>1, <2>2 DEF HeldAt
  <2> QED BY <1>1, <1>2, <2>1, <2>3, SameLocks, UnchangedLocksStep
<1>8. CASE Load(p)
  <2>1. pc[p] = "load" /\ task[p].kind = "compress" BY <1>3, <1>8 DEF Load, Fits
  <2>2. CASE Goto(p, "pack open")
    <3>1. pc'[p] = "pack open" /\ At(p)' = "pack open" /\ task'[p] = task[p]
      BY <2>2, <1>4, GotoAt DEF Good
    <3>2. HeldAt(task'[p], At(p)') = HeldAt(task[p], At(p))
      BY <1>2, <2>1, <3>1 DEF HeldAt, Store!Deleting
    <3> QED BY <1>1, <1>2, <3>1, <3>2, SameLocks, UnchangedLocksStep
  <2>3. CASE UNCHANGED <<pc, goal, task, got>>
    <3>1. At(p)' = At(p) BY <2>3 DEF At
    <3> QED BY <1>1, <1>2, <2>3, <3>1, SameLocks, UnchangedLocksStep
  <2> QED BY <1>8, <2>2, <2>3 DEF Load
<1>9. CASE Updated(p)
  <2>1. pc[p] = "updated" BY <1>9 DEF Updated
  <2>2. CASE task[p].kind = "compress"
    <3>1. pc'[p] = "idle" /\ At(p)' = "idle" BY <1>9, <2>2, EndAt DEF Updated, Good
    <3>2. HeldAt(task'[p], At(p)') = HeldAt(task[p], At(p))
      BY <1>2, <2>1, <2>2, <3>1 DEF HeldAt, Store!Deleting
    <3> QED BY <1>1, <1>2, <3>1, <3>2, SameLocks, UnchangedLocksStep
  <2>3. CASE task[p].kind # "compress"
    <3>1. Goto(p, "unlink") BY <1>9, <2>3 DEF Updated
    <3>2. pc'[p] = "unlink" /\ At(p)' = "unlink" /\ task'[p] = task[p]
      BY <3>1, <1>4, GotoAt DEF Good
    <3>3. HeldAt(task'[p], At(p)') = HeldAt(task[p], At(p))
      BY <1>2, <1>3, <2>1, <2>3, <3>2 DEF HeldAt, Store!Deleting, Fits
    <3> QED BY <1>1, <1>2, <3>2, <3>3, SameLocks, UnchangedLocksStep
  <2> QED BY <2>2, <2>3
<1> QED BY <1>5, <1>6, <1>7, <1>8, <1>9

LEMMA LockToOwns ==
  ASSUME Good, NEW p \in Procs, Owns(p), LockTo(p) PROVE LocksStep(p)
<1>1. pc[p] = "lock to" /\ At(p) = "lock to" /\ packLock' = packLock BY DEF LockTo, At
<1>2. Fits(task[p], "lock to") /\ RequestOK(task[p])
  BY <1>1, TaskOK DEF Good, ControlGood, WorksOn
<1>3. Mine(p) = {} /\ packLock # p BY <1>1, HeldIs DEF Owns, HeldAt
<1>4. task[p].to \in Refs BY <1>2 DEF Fits, RequestOK
<1>5. CASE looseLock[task[p].to] # Free
  <2>1. End(p) /\ looseLock' = looseLock BY <1>5 DEF LockTo
  <2>2. pc'[p] = "idle" /\ At(p)' = "idle" BY <2>1, EndAt DEF Good
  <2>3. HeldAt(task'[p], At(p)') = {} BY <2>2 DEF HeldAt
  <2>4. \A o \in Procs : Mine(o)' = Mine(o) BY <2>1 DEF Mine
  <2>5. Owns(p)' BY <1>1, <1>3, <2>2, <2>3, <2>4, OwnsNow
  <2> QED BY <1>1, <2>4, <2>5 DEF LocksStep
<1>6. CASE looseLock[task[p].to] = Free
  <2>1. looseLock' = [looseLock EXCEPT ![task[p].to] = p] /\ Goto(p, "commit to")
    BY <1>6 DEF LockTo
  <2>2. "commit to" \in Steps BY DEF Steps, Labels, Lookers
  <2>3. pc'[p] = "commit to" /\ At(p)' = "commit to" /\ task'[p] = task[p]
    BY <2>1, <2>2, GotoAt DEF Good
  <2>4. HeldAt(task'[p], At(p)') = {task[p].to} BY <2>3 DEF HeldAt
  <2>5. \A o \in Procs : Mine(o)' = IF o = p THEN Mine(o) \cup {task[p].to} ELSE Mine(o)
    BY <1>4, <1>6, <2>1, TakenMine DEF Good
  <2>6. Owns(p)' BY <1>1, <1>3, <2>3, <2>4, <2>5, OwnsNow
  <2> QED BY <1>1, <2>5, <2>6 DEF LocksStep
<1> QED BY <1>5, <1>6

LEMMA PackersOwn ==
  ASSUME Good, NEW p \in Procs, Owns(p),
         PackOpen(p) \/ PackCommit(p) \/ PackFails(p)
  PROVE LocksStep(p)
<1>1. pc[p] \in {"pack open", "pack commit"} /\ At(p) = pc[p] /\ looseLock' = looseLock
  BY DEF PackOpen, PackCommit, PackFails, At
<1>2. Fits(task[p], pc[p]) BY <1>1 DEF Good, ControlGood, WorksOn
<1>3. \A o \in Procs : Mine(o)' = Mine(o) BY <1>1 DEF Mine
<1>4. Mine(p) = HeldAt(task[p], pc[p]) BY <1>1, HeldIs DEF Owns
<1>5. {"pack commit", "abandon"} \subseteq Steps BY DEF Steps, Labels, Lookers
<1>6. ASSUME Fail(p) PROVE pc'[p] \in {"idle", "abandon"} /\ HeldAt(task'[p], At(p)') = HeldAt(task[p], pc[p])
  <2>1. CASE task[p].kind = "compress"
    <3>1. pc'[p] = "idle" /\ At(p)' = "idle" BY <1>6, <2>1, EndAt DEF Fail, Good
    <3> QED BY <1>1, <2>1, <3>1 DEF HeldAt, Store!Deleting
  <2>2. CASE task[p].kind # "compress"
    <3>1. Goto(p, "abandon") BY <1>6, <2>2 DEF Fail
    <3>2. pc'[p] = "abandon" /\ At(p)' = "abandon" /\ task'[p] = task[p]
      BY <1>5, <3>1, GotoAt DEF Good
    <3> QED BY <1>1, <1>2, <2>2, <3>2 DEF HeldAt, Store!Deleting, Fits
  <2> QED BY <2>1, <2>2
<1>7. CASE PackOpen(p)
  <2>1. pc[p] = "pack open" /\ packLock # p BY <1>7 DEF PackOpen, Owns
  <2>2. CASE packLock = Free /\ packLock' = p /\ Goto(p, "pack commit")
    <3>1. pc'[p] = "pack commit" /\ At(p)' = "pack commit" /\ task'[p] = task[p]
      BY <1>5, <2>2, GotoAt DEF Good
    <3>2. HeldAt(task'[p], At(p)') = HeldAt(task[p], pc[p]) BY <2>1, <3>1 DEF HeldAt
    <3>3. Owns(p)' BY <1>3, <1>4, <2>2, <3>1, <3>2, OwnsNow
    <3> QED BY <1>3, <2>2, <3>3, LocksApart DEF LocksStep
  <2>3. CASE Fail(p) /\ UNCHANGED packLock
    <3>1. Owns(p)' BY <1>3, <1>4, <1>6, <2>1, <2>3, OwnsNow
    <3> QED BY <1>3, <2>3, <3>1 DEF LocksStep
  <2> QED BY <1>7, <2>2, <2>3 DEF PackOpen
<1>8. CASE PackCommit(p)
  <2>1. pc[p] = "pack commit" /\ packLock = p /\ packLock' = Free
    BY <1>8 DEF PackCommit, Owns
  <2>2. pc'[p] = "prune" /\ task'[p] = task[p]
    BY <1>8 DEF PackCommit, Good, ControlGood, ControlTyped
  <2>3. At(p)' = "prune" BY <2>2 DEF At
  <2>4. HeldAt(task'[p], At(p)') = HeldAt(task[p], pc[p]) BY <2>1, <2>2, <2>3 DEF HeldAt
  <2>5. Owns(p)' BY <1>3, <1>4, <2>1, <2>2, <2>4, OwnsNow, LocksApart
  <2> QED BY <1>3, <2>1, <2>5, LocksApart DEF LocksStep
<1>9. CASE PackFails(p)
  <2>1. pc[p] = "pack commit" /\ packLock = p /\ packLock' = Free /\ Fail(p)
    BY <1>9 DEF PackFails, Owns
  <2>2. Owns(p)' BY <1>3, <1>4, <1>6, <2>1, OwnsNow, LocksApart
  <2> QED BY <1>3, <2>1, <2>2, LocksApart DEF LocksStep
<1> QED BY <1>7, <1>8, <1>9

LEMMA PrunersOwn ==
  ASSUME Good, \A o \in Procs : Owns(o), NEW p \in Procs, NotItsOwn(p), Prune(p) \/ PruneOne(p)
  PROVE LocksStep(p)
<1>1. pc[p] \in {"prune", "prune one"} /\ At(p) = pc[p] /\ packLock' = packLock /\ packLock # p
  BY DEF Prune, PruneOne, At, Owns
<1>2. Fits(task[p], pc[p]) BY <1>1 DEF Good, ControlGood, WorksOn
<1>3. Held(p) = HeldAt(task[p], pc[p]) BY <1>1, HeldIs
<1>4. {"updated", "prune one", "abandon"} \subseteq Steps BY DEF Steps, Labels, Lookers
<1>5. todo[p] \subseteq Refs BY DEF Good, ControlGood, ControlTyped
<1>6. CASE Prune(p)
  <2>1. pc[p] = "prune" /\ Mine(p) = Held(p) BY <1>6 DEF Prune, Owns
  <2>2. CASE Goto(p, "updated") /\ UNCHANGED looseLock
    <3>1. pc'[p] = "updated" /\ At(p)' = "updated" /\ task'[p] = task[p]
      BY <1>4, <2>2, GotoAt DEF Good
    <3>2. HeldAt(task'[p], At(p)') = HeldAt(task[p], At(p)) BY <1>1, <2>1, <3>1 DEF HeldAt
    <3>3. UNCHANGED locks BY <1>1, <2>2 DEF locks
    <3> QED BY <2>1, <3>1, <3>2, <3>3, SameLocks, UnchangedLocksStep
  <2>3. ASSUME NEW r \in todo[p], looseLock[r] = Free, looseLock' = [looseLock EXCEPT ![r] = p],
               Goto(p, "prune one")
        PROVE LocksStep(p)
    <3>1. pc'[p] = "prune one" /\ At(p)' = "prune one" /\ task'[p] = task[p] /\ todo'[p] = todo[p]
      BY <1>4, <2>3, GotoAt DEF Good
    <3>2. Held(p)' = Held(p) BY <1>3, <2>1, <3>1, HeldIsAfter DEF HeldAt
    <3>3. \A o \in Procs : Mine(o)' = (IF o = p THEN Mine(o) \cup {r} ELSE Mine(o)) /\ r \notin Mine(o)
      BY <1>5, <2>3, TakenMine DEF Good
    <3>4. r \in todo'[p] \ Held(p)' /\ Mine(p)' = Held(p)' \cup {r}
      BY <2>1, <3>1, <3>2, <3>3
    <3>5. Owns(p)' BY <1>1, <3>1, <3>4 DEF Owns
    <3> QED BY <1>1, <3>3, <3>5 DEF LocksStep
  <2>4. CASE Fail(p) /\ UNCHANGED looseLock
    <3>1. pc'[p] \in {"idle", "abandon"} /\ HeldAt(task'[p], At(p)') = HeldAt(task[p], At(p))
      <4>1. CASE task[p].kind = "compress"
        <5>1. pc'[p] = "idle" /\ At(p)' = "idle" BY <2>4, <4>1, EndAt DEF Fail, Good
        <5> QED BY <1>1, <4>1, <5>1 DEF HeldAt, Store!Deleting
      <4>2. CASE task[p].kind # "compress"
        <5>1. Goto(p, "abandon") BY <2>4, <4>2 DEF Fail
        <5>2. pc'[p] = "abandon" /\ At(p)' = "abandon" /\ task'[p] = task[p]
          BY <1>4, <5>1, GotoAt DEF Good
        <5> QED BY <1>1, <1>2, <4>2, <5>2 DEF HeldAt, Store!Deleting, Fits
      <4> QED BY <4>1, <4>2
    <3>2. UNCHANGED locks BY <1>1, <2>4 DEF locks
    <3> QED BY <2>1, <3>1, <3>2, SameLocks, UnchangedLocksStep
  <2> QED BY <1>6, <2>2, <2>3, <2>4 DEF Prune
<1>7. CASE PruneOne(p)
  <2>1. pc[p] = "prune one" BY <1>7 DEF PruneOne
  <2>2. PICK r \in todo[p] : looseLock[r] = p /\ looseLock' = Freed(r) BY <1>7 DEF PruneOne
  <2>3. PICK s \in todo[p] \ Held(p) : Mine(p) = Held(p) \cup {s} BY <2>1 DEF Owns
  <2>4. r \in Mine(p) BY <1>5, <2>2 DEF Mine
  <2>5. r \notin Held(p)
    <3>1. Store!Deleting(task[p]) => task[p].ref \notin todo[p] BY <2>1 DEF NotItsOwn
    <3> QED BY <1>1, <1>3, <2>1, <2>2, <3>1 DEF HeldAt
  <2>6. \A o \in Procs : Mine(o)' = Mine(o) \ {r} BY <2>2, FreedMine DEF Good
  <2>7. Mine(p)' = Held(p) BY <2>3, <2>4, <2>5, <2>6
  <2>8. pc'[p] = "prune" /\ task'[p] = task[p]
    BY <1>7 DEF PruneOne, Good, ControlGood, ControlTyped
  <2>9. At(p)' = "prune" BY <2>8 DEF At
  <2>10. HeldAt(task'[p], At(p)') = Held(p) BY <1>3, <2>1, <2>8, <2>9 DEF HeldAt
  <2>11. Owns(p)' BY <1>1, <2>7, <2>8, <2>10, OwnsNow
  <2>12. ASSUME NEW o \in Procs \ {p} PROVE Mine(o)' = Mine(o)
    BY <2>2, <2>6 DEF Mine
  <2> QED BY <1>1, <2>11, <2>12 DEF LocksStep
<1> QED BY <1>6, <1>7

LEMMA KillOwns ==
  ASSUME Good, NEW p \in Procs, Owns(p), Kill(p) PROVE LocksStep(p)
<1>1. /\ looseLock' = [r \in Refs |-> IF looseLock[r] = p THEN Dead ELSE looseLock[r]]
      /\ packLock' = IF packLock = p THEN Dead ELSE packLock
      /\ End(p)
  BY DEF Kill
<1>2. pc'[p] = "idle" /\ At(p)' = "idle" BY <1>1, EndAt DEF Good
<1>3. HeldAt(task'[p], At(p)') = {} BY <1>2 DEF HeldAt
<1>4. Mine(p)' = {} BY <1>1, LocksApart DEF Mine
<1>5. \A o \in Procs \ {p} : Mine(o)' = Mine(o) BY <1>1, LocksApart DEF Mine
<1>6. packLock' # p BY <1>1, LocksApart
<1>7. \A o \in Procs \ {p} : packLock' = o <=> packLock = o BY <1>1, LocksApart
<1>8. Owns(p)' BY <1>2, <1>3, <1>4, <1>6, OwnsNow
<1> QED BY <1>5, <1>7, <1>8 DEF LocksStep


-----------------------------------------------------------------------------
(* A deletion and the references it prunes. *)
Packing == {"pack open", "pack commit", "prune", "prune one"}

LEMMA FoundOutside ==
  ASSUME NEW q, NEW v, NEW l \in {"answer", "expect", "same", "carry", "exists"}
  PROVE Found(q, l, v)[1] \notin Packing
<1> USE DEF Step, Lookup, Reload, Packing
<1>1. CASE l = "expect" BY <1>1 DEF Found, Compared
<1>2. CASE l = "same" BY <1>2 DEF Found
<1>3. CASE l = "carry" BY <1>3 DEF Found
<1>4. CASE l = "exists" BY <1>4 DEF Found, Proceed
<1>5. CASE l = "answer" BY <1>5 DEF Found
<1> QED BY <1>1, <1>2, <1>3, <1>4, <1>5

LEMMA FindingOutside ==
  ASSUME ControlGood, NEW p \in Procs,
         goal[p] \in {"answer", "expect", "same", "carry", "exists"}, NEW v, Finding(p, v)
  PROVE pc'[p] \notin Packing
<1>1. pc' = [pc EXCEPT ![p] = Found(task[p], goal[p], v)[1]] BY DEF Finding, Follow
<1>2. pc'[p] = Found(task[p], goal[p], v)[1] BY <1>1 DEF ControlGood, ControlTyped
<1> QED BY <1>2, FoundOutside

LEMMA ReloadedOutside ==
  ASSUME ControlGood, NEW p \in Procs, pc[p] \in {"stat", "read"}, Reloaded(p)
  PROVE pc'[p] \notin Packing
<1>1. goal[p] \in Goals BY DEF ControlGood, ControlTyped, WorksOn
<1>2. CASE goal[p] \in {"list", "available", "drop"}
  <2>1. pc'[p] = goal[p] BY <1>2 DEF Reloaded, Goto, ControlGood, ControlTyped
  <2> QED BY <1>2, <2>1 DEF Packing
<1>3. CASE goal[p] \notin {"list", "available", "drop"}
  <2>1. goal[p] \in {"answer", "expect", "same", "carry", "exists"} BY <1>1, <1>3 DEF Goals
  <2>2. \E v : Finding(p, v) BY <1>3 DEF Reloaded
  <2> QED BY <2>1, <2>2, FindingOutside
<1> QED BY <1>2, <1>3

LEMMA OutsideStep ==
  ASSUME Good, NEW p \in Procs,
         \/ Begin(p) \/ Look(p) \/ Stat(p) \/ Read(p) \/ Finish(p) \/ Available(p) \/ Lock(p)
         \/ Commit(p) \/ CommitFails(p) \/ Abandon(p) \/ Unlink(p) \/ Unlock(p) \/ LockTo(p)
         \/ CommitTo(p) \/ List(p) \/ PackFails(p) \/ Updated(p) \/ Kill(p)
  PROVE pc'[p] \notin Packing
<1>0. ControlGood /\ pc \in [Procs -> Labels] BY DEF Good, ControlGood, ControlTyped
<1>1. ASSUME End(p) PROVE pc'[p] \notin Packing BY <1>0, <1>1 DEF End, Packing
<1>2. ASSUME NEW l, l \notin Packing, Goto(p, l) PROVE pc'[p] \notin Packing
  BY <1>0, <1>2 DEF Goto
<1>3. ASSUME NEW at, at[1] \notin Packing, Follow(p, at) PROVE pc'[p] \notin Packing
  BY <1>0, <1>3 DEF Follow
<1>4. CASE Begin(p)
  <2>1. \E l \in {"look", "lock", "stat"} : pc' = [pc EXCEPT ![p] = l]
    BY <1>4 DEF Begin, Lookup, Step, Reload
  <2> QED BY <1>0, <2>1 DEF Packing
<1>5. CASE Look(p)
  <2>1. goal[p] \in {"answer", "expect", "same", "carry"}
    BY <1>0, <1>5 DEF Look, ControlGood, WorksOn
  <2>2. Reload(goal[p])[1] \notin Packing BY DEF Reload, Packing
  <2> QED BY <1>0, <1>3, <1>5, <2>1, <2>2, FindingOutside DEF Look
<1>6. CASE Stat(p)
  <2>1. Reloaded(p) \/ pc' = [pc EXCEPT ![p] = "read"] BY <1>6 DEF Stat
  <2>2. pc[p] = "stat" BY <1>6 DEF Stat
  <2> QED BY <1>0, <2>1, <2>2, ReloadedOutside DEF Packing
<1>7. CASE Read(p) BY <1>0, <1>7, ReloadedOutside DEF Read
<1>8. CASE Available(p)
  <2>1. PICK at \in {<<"look", "carry">>, <<"lock", "none">>, <<"done", "none">>, <<"stat", "exists">>} :
          Follow(p, at)
    BY <1>8 DEF Available, Proceed, Lookup, Step, Reload
  <2>2. at[1] \in {"look", "lock", "done", "stat"} BY <2>1
  <2>3. at[1] \notin Packing BY <2>2 DEF Packing
  <2> QED BY <1>3, <2>1, <2>3
<1>9. CASE Lock(p)
  <2>1. CASE End(p) BY <1>1, <2>1
  <2>2. CASE ~End(p)
    <3>1. PICK at \in {Lookup("expect"), Compared(task[p])} : Follow(p, at) BY <1>9, <2>2 DEF Lock
    <3>2. at \in {<<"look", "expect">>, <<"look", "same">>, <<"stat", "drop">>}
      BY <3>1 DEF Lookup, Compared, Reload
    <3>3. at[1] \in {"look", "stat"} BY <3>2
    <3>4. at[1] \notin Packing BY <3>3 DEF Packing
    <3> QED BY <1>3, <3>1, <3>4
  <2> QED BY <2>1, <2>2
<1>10. CASE Finish(p) \/ CommitFails(p) \/ Abandon(p) \/ Kill(p)
  BY <1>1, <1>10 DEF Finish, CommitFails, Abandon, Kill
<1>11. CASE Commit(p) \/ Unlink(p) \/ Unlock(p) \/ LockTo(p) \/ CommitTo(p) \/ PackFails(p) \/ Updated(p)
  <2>1. End(p) \/ \E l \in {"done", "unlock", "lock to", "commit to", "abandon", "unlink"} : Goto(p, l)
    BY <1>11 DEF Commit, Unlink, Unlock, LockTo, CommitTo, PackFails, Updated, Fail
  <2> QED BY <1>1, <1>2, <2>1 DEF Packing
<1>12. CASE List(p) BY <1>0, <1>12 DEF List, Packing
<1> QED BY <1>4, <1>5, <1>6, <1>7, <1>8, <1>9, <1>10, <1>11, <1>12

LEMMA StaysOffItsOwn ==
  ASSUME Good, NEW p \in Procs, NotItsOwn(p), Act(p) PROVE NotItsOwn(p)'
<1>0. /\ pc \in [Procs -> Labels] /\ task \in [Procs -> Store!Requests \cup {Store!Nothing}]
      /\ todo \in [Procs -> SUBSET Refs] /\ wasLoose \in [Procs -> SUBSET Refs]
  BY DEF Good, ControlGood, ControlTyped, MemoryTyped
<1>1. CASE pc'[p] \notin Packing BY <1>1 DEF NotItsOwn, Packing
<1>2. CASE Drop(p)
  <2>1. task'[p] = task[p] /\ pc'[p] \in {"unlink", "pack open"} BY <1>0, <1>2 DEF Drop, Goto
  <2>2. CASE pc'[p] = "unlink" BY <2>2 DEF NotItsOwn
  <2>3. CASE pc'[p] = "pack open"
    <3>1. wasLoose' = [wasLoose EXCEPT ![p] = wasLoose[p] \ {task[p].ref}]
      BY <1>0, <1>2, <2>3 DEF Drop, Goto
    <3>2. task[p].ref \notin wasLoose'[p] BY <1>0, <3>1
    <3> QED BY <2>1, <2>3, <3>2 DEF NotItsOwn
  <2> QED BY <2>1, <2>2, <2>3
<1>3. CASE Load(p)
  <2>1. pc[p] = "load" /\ task' = task BY <1>3 DEF Load, Goto
  <2>2. task[p].kind = "compress" BY <2>1 DEF Good, ControlGood, WorksOn, Fits, At
  <2>3. ~Store!Deleting(task'[p]) BY <2>1, <2>2 DEF Store!Deleting
  <2> QED BY <2>3 DEF NotItsOwn
<1>4. CASE PackOpen(p)
  <2>1. pc[p] = "pack open" /\ wasLoose' = wasLoose BY <1>4 DEF PackOpen, memory
  <2>2. CASE Goto(p, "pack commit")
    <3>1. task'[p] = task[p] /\ pc'[p] = "pack commit" BY <1>0, <2>2 DEF Goto
    <3> QED BY <2>1, <3>1 DEF NotItsOwn
  <2>3. CASE Fail(p)
    <3>1. pc'[p] \in {"idle", "abandon"} BY <1>0, <2>3 DEF Fail, End, Goto
    <3> QED BY <3>1 DEF NotItsOwn
  <2> QED BY <1>4, <2>2, <2>3 DEF PackOpen
<1>5. CASE PackCommit(p)
  <2>1. pc[p] = "pack commit" /\ pc'[p] = "prune" /\ todo'[p] = wasLoose[p] /\ task' = task
    BY <1>0, <1>5 DEF PackCommit
  <2> QED BY <2>1 DEF NotItsOwn
<1>6. CASE Prune(p)
  <2>1. pc[p] = "prune" BY <1>6 DEF Prune
  <2>2. CASE Fail(p)
    <3>1. pc'[p] \in {"idle", "abandon"} BY <1>0, <2>2 DEF Fail, End, Goto
    <3> QED BY <3>1 DEF NotItsOwn
  <2>3. CASE Goto(p, "updated") \/ Goto(p, "prune one")
    <3>1. task'[p] = task[p] /\ todo'[p] = todo[p] /\ pc'[p] \in {"updated", "prune one"}
      BY <1>0, <2>3 DEF Goto
    <3> QED BY <2>1, <3>1 DEF NotItsOwn
  <2> QED BY <1>6, <2>2, <2>3 DEF Prune
<1>7. CASE PruneOne(p)
  <2>1. pc[p] = "prune one" /\ task' = task /\ pc'[p] = "prune" BY <1>0, <1>7 DEF PruneOne
  <2>2. \E r : todo' = [todo EXCEPT ![p] = todo[p] \ {r}] BY <1>7 DEF PruneOne
  <2>3. todo'[p] \subseteq todo[p] BY <1>0, <2>2
  <2> QED BY <2>1, <2>3 DEF NotItsOwn
<1> QED BY <1>1, <1>2, <1>3, <1>4, <1>5, <1>6, <1>7, OutsideStep DEF Act

-----------------------------------------------------------------------------
(* The lock discipline. *)
Discipline == Good /\ \A p \in Procs : NotItsOwn(p) /\ Owns(p)

LEMMA ActLocks == ASSUME Discipline, NEW p \in Procs, Act(p) PROVE LocksStep(p)
<1>1. Good /\ NotItsOwn(p) /\ \A o \in Procs : Owns(o) BY DEF Discipline
<1>2. CASE Begin(p) \/ Look(p) \/ Stat(p) \/ Read(p) \/ Finish(p) \/ Available(p)
  BY <1>1, <1>2, LookOwns
<1>3. CASE Lock(p) BY <1>1, <1>3, LockOwns
<1>4. CASE Commit(p) \/ CommitFails(p) \/ Abandon(p) \/ Unlock(p) \/ CommitTo(p)
  BY <1>1, <1>4, WritersOwn
<1>5. CASE Drop(p) \/ Unlink(p) \/ List(p) \/ Load(p) \/ Updated(p)
  BY <1>1, <1>5, DeletersOwn
<1>6. CASE LockTo(p) BY <1>1, <1>6, LockToOwns
<1>7. CASE PackOpen(p) \/ PackCommit(p) \/ PackFails(p) BY <1>1, <1>7, PackersOwn
<1>8. CASE Prune(p) \/ PruneOne(p) BY <1>1, <1>8, PrunersOwn
<1>9. CASE Kill(p) BY <1>1, <1>9, KillOwns
<1> QED BY <1>2, <1>3, <1>4, <1>5, <1>6, <1>7, <1>8, <1>9 DEF Act

LEMMA DisciplineStep == Discipline /\ [Next]_vars => Discipline'
<1> SUFFICES ASSUME Discipline, [Next]_vars PROVE Discipline' OBVIOUS
<1>1. Good' BY StepGood DEF Discipline
<1>2. CASE UNCHANGED vars
  <2>1. /\ UNCHANGED <<looseLock, packLock, wasLoose>> /\ UNCHANGED <<pc, goal, task, todo>>
    BY <1>2 DEF vars, locks, memory, control
  <2>2. ASSUME NEW p \in Procs PROVE NotItsOwn(p)' /\ Owns(p)'
    <3>1. NotItsOwn(p) /\ Owns(p) BY DEF Discipline
    <3>2. Mine(p)' = Mine(p) BY <2>1 DEF Mine
    <3>3. Owns(p)' BY <2>1, <3>1, <3>2, OwnsKept
    <3>4. NotItsOwn(p)' BY <2>1, <3>1 DEF NotItsOwn
    <3> QED BY <3>3, <3>4
  <2> QED BY <1>1, <2>2 DEF Discipline
<1>3. ASSUME NEW p \in Procs, Act(p) PROVE Discipline'
  <2>1. LocksStep(p) BY <1>3, ActLocks
  <2>2. ControlApart(p) /\ MemoryApart(p) BY <1>3, ActControlApart, ActMemoryApart DEF Discipline
  <2>3. NotItsOwn(p)' BY <1>3, StaysOffItsOwn DEF Discipline
  <2>4. ASSUME NEW o \in Procs \ {p} PROVE NotItsOwn(o)' /\ Owns(o)'
    <3>1. NotItsOwn(o) /\ Owns(o) BY DEF Discipline
    <3>2. /\ pc'[o] = pc[o] /\ goal'[o] = goal[o] /\ task'[o] = task[o] /\ todo'[o] = todo[o]
          /\ wasLoose'[o] = wasLoose[o]
      BY <2>2 DEF ControlApart, MemoryApart
    <3>3. Mine(o)' = Mine(o) /\ ((packLock' = o) <=> (packLock = o)) BY <2>1 DEF LocksStep
    <3>4. Owns(o)' BY <3>1, <3>2, <3>3, OwnsKept
    <3>5. NotItsOwn(o)' BY <3>1, <3>2 DEF NotItsOwn
    <3> QED BY <3>4, <3>5
  <2>5. Owns(p)' BY <2>1 DEF LocksStep
  <2> QED BY <1>1, <2>3, <2>4, <2>5 DEF Discipline
<1> QED BY <1>2, <1>3 DEF Next

LEMMA DisciplineInit == Init => Discipline
<1> SUFFICES ASSUME Init PROVE Discipline OBVIOUS
<1>1. Good BY InitGood
<1>2. ASSUME NEW p \in Procs PROVE NotItsOwn(p) /\ Owns(p)
  <2>1. pc[p] = "idle" /\ task[p] = Store!Nothing /\ packLock # p /\ Mine(p) = {}
    BY LocksApart DEF Init, Mine
  <2>2. Held(p) = {} BY <2>1 DEF Held, At
  <2> QED BY <2>1, <2>2 DEF NotItsOwn, Owns
<1> QED BY <1>1, <1>2 DEF Discipline

LEMMA AlwaysDiscipline == Spec => []Discipline
<1>1. Init => Discipline BY DisciplineInit
<1>2. Discipline /\ [Next]_vars => Discipline' BY DisciplineStep
<1> QED BY <1>1, <1>2, PTL DEF Spec

(* Whoever works on a file holds its lock and nobody keeps a lock after the *)
(* operation, in refdb_fs.c with any number of processes, the paths of      *)
(* errors and the processes killed half way included.                       *)
THEOREM LocksDisciplined == Spec => []LockDiscipline
<1>1. Discipline => LockDiscipline BY OwnsAll DEF Discipline
<1> QED BY <1>1, AlwaysDiscipline, PTL

-----------------------------------------------------------------------------
(* The cache of a reader. *)
CacheFits(p) == p \in fresh /\ pc[p] # "read" => cache[p] = packed

Exact == Good /\ NoPackNoLines /\ \A p \in Procs \ Maintainers : CacheFits(p)

LEMMA PackedBy ==
  ASSUME NEW p \in Procs, Act(p)
  PROVE UNCHANGED <<packed, hasPack>> \/ (fresh' = {} /\ hasPack' = TRUE)
<1>1. CASE PackCommit(p) BY <1>1 DEF PackCommit, NewStamp
<1>2. CASE ~PackCommit(p)
  BY <1>2 DEF Act, files, Begin, Look, Stat, Read, Finish, Available, Lock, Commit, CommitFails,
     Abandon, Drop, Unlink, Unlock, LockTo, CommitTo, List, Load, PackOpen, PackFails, Prune,
     PruneOne, Updated, Kill
<1> QED BY <1>1, <1>2

LEMMA FreshBy ==
  ASSUME NEW p \in Procs, Act(p) PROVE fresh' \subseteq fresh \cup {p}
BY DEF Act, memory, NewStamp, Begin, Look, Stat, Read, Finish, Available, Lock, Commit, CommitFails,
   Abandon, Drop, Unlink, Unlock, LockTo, CommitTo, List, Load, PackOpen, PackCommit, PackFails,
   Prune, PruneOne, Updated, Kill

LEMMA ReaderKinds ==
  ASSUME Good, NEW p \in Procs \ Maintainers PROVE task[p].kind \in {"lookup", "write", "nothing"}
<1>1. task[p] \in Asks[p] \cup {Store!Nothing} BY DEF Good, ControlGood, WorksOn
<1>2. CASE task[p] = Store!Nothing BY <1>2 DEF Store!Nothing
<1>3. CASE task[p] \in Asks[p] BY <1>3 DEF Maintainers
<1> QED BY <1>1, <1>2, <1>3

(* A reader does none of what maintainers do. *)
LEMMA ReaderActs ==
  ASSUME Good, NEW p \in Procs \ Maintainers, Act(p)
  PROVE \/ Begin(p) \/ Look(p) \/ Finish(p) \/ Available(p) \/ Lock(p) \/ Commit(p)
        \/ CommitFails(p) \/ Abandon(p) \/ Stat(p) \/ Read(p) \/ Kill(p)
<1>1. task[p].kind \in {"lookup", "write", "nothing"} BY ReaderKinds
<1>2. pc[p] \notin {"drop", "unlink", "unlock", "lock to", "commit to", "list", "load", "pack open",
                    "pack commit", "prune", "prune one", "updated"}
  <2>1. pc[p] \notin Lookers => Fits(task[p], pc[p]) BY DEF Good, ControlGood, WorksOn, At, Lookers
  <2> QED BY <1>1, <2>1 DEF Fits, Lookers
<1> QED BY <1>2 DEF Act, Drop, Unlink, Unlock, LockTo, CommitTo, List, Load, PackOpen, PackCommit,
           PackFails, Prune, PruneOne, Updated

LEMMA ReaderFits ==
  ASSUME Good, NoPackNoLines, NEW p \in Procs \ Maintainers, CacheFits(p), Act(p)
  PROVE CacheFits(p)'
<1>0. cache \in [Procs -> [Refs -> Values]] /\ pc \in [Procs -> Labels]
  BY DEF Good, MemoryTyped, ControlGood, ControlTyped
<1>1. CASE Begin(p) \/ Look(p) \/ Finish(p) \/ Available(p) \/ Lock(p) \/ Commit(p)
           \/ CommitFails(p) \/ Abandon(p)
  <2>1. UNCHANGED <<cache, fresh, packed>> /\ pc[p] # "read"
    BY <1>1 DEF Begin, Look, Finish, Available, Lock, Commit, CommitFails, Abandon, files, memory
  <2> QED BY <2>1 DEF CacheFits
<1>2. CASE Stat(p)
  <2>1. packed' = packed /\ pc[p] = "stat" BY <1>2 DEF Stat, files
  <2>2. CASE ~hasPack
    <3>1. cache'[p] = NoRefs BY <1>0, <1>2, <2>2 DEF Stat
    <3> QED BY <2>1, <2>2, <3>1 DEF NoPackNoLines, CacheFits
  <2>3. CASE hasPack /\ p \in fresh
    <3>1. UNCHANGED <<cache, fresh>> BY <1>2, <2>3 DEF Stat, memory
    <3> QED BY <2>1, <2>3, <3>1 DEF CacheFits
  <2>4. CASE hasPack /\ p \notin fresh
    <3>1. pc' = [pc EXCEPT ![p] = "read"] BY <1>2, <2>4 DEF Stat
    <3> QED BY <1>0, <3>1 DEF CacheFits
  <2> QED BY <2>2, <2>3, <2>4
<1>3. CASE Read(p)
  <2>1. cache'[p] = packed /\ packed' = packed BY <1>0, <1>3 DEF Read, files
  <2> QED BY <2>1 DEF CacheFits
<1>4. CASE Kill(p) BY <1>4 DEF Kill, CacheFits
<1> QED BY <1>1, <1>2, <1>3, <1>4, ReaderActs

LEMMA ExactStep == Exact /\ [Next]_vars => Exact'
<1> SUFFICES ASSUME Exact, [Next]_vars PROVE Exact' OBVIOUS
<1>1. Good' BY StepGood DEF Exact
<1>2. CASE UNCHANGED vars
  <2>1. UNCHANGED <<packed, hasPack, cache, fresh, pc>>
    BY <1>2 DEF vars, files, memory, control
  <2>2. NoPackNoLines' BY <2>1 DEF Exact, NoPackNoLines, NoRefs
  <2>3. \A p \in Procs \ Maintainers : CacheFits(p)' BY <2>1 DEF Exact, CacheFits
  <2> QED BY <1>1, <2>2, <2>3 DEF Exact, Maintainers
<1>3. ASSUME NEW p \in Procs, Act(p) PROVE Exact'
  <2>1. UNCHANGED <<packed, hasPack>> \/ (fresh' = {} /\ hasPack' = TRUE) BY <1>3, PackedBy
  <2>2. NoPackNoLines' BY <2>1 DEF Exact, NoPackNoLines, NoRefs
  <2>3. ASSUME NEW o \in Procs \ Maintainers PROVE CacheFits(o)'
    <3>1. CASE o = p BY <1>3, <3>1, ReaderFits DEF Exact
    <3>2. CASE o # p
      <4>1. cache'[o] = cache[o] /\ pc'[o] = pc[o]
        BY <1>3, <3>2, ActControlApart, ActMemoryApart DEF Exact, ControlApart, MemoryApart
      <4>2. o \in fresh' => o \in fresh BY <1>3, <3>2, FreshBy
      <4> QED BY <2>1, <4>1, <4>2 DEF Exact, CacheFits
    <3> QED BY <3>1, <3>2
  <2> QED BY <1>1, <2>2, <2>3 DEF Exact, Maintainers
<1> QED BY <1>2, <1>3 DEF Next

(* Between two changes of packed-refs a process that only looks up and      *)
(* writes uses what packed-refs holds, whatever maintainers do or fail to   *)
(* do: packed_reload and the stamp it takes before it opens the file.       *)
THEOREM ReaderCaches == Spec => []ReaderCacheExact
<1>1. Init => Exact
  <2>1. Init => Good /\ NoPackNoLines BY InitGood DEF Init, NoPackNoLines
  <2>2. Init => \A p \in Procs \ Maintainers : CacheFits(p) BY DEF Init, CacheFits
  <2> QED BY <2>1, <2>2 DEF Exact
<1>2. Exact /\ [Next]_vars => Exact' BY ExactStep
<1>3. Exact => ReaderCacheExact BY DEF Exact, CacheFits, ReaderCacheExact, Good, MemoryTyped
<1> QED BY <1>1, <1>2, <1>3, PTL DEF Spec
=============================================================================
