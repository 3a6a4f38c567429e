------------------------------ MODULE Memoize ------------------------------
(***************************************************************************)
(* The persistent memoizer of src/config/my-memoize.el, which replaces     *)
(* memoize--wrap of the memoize package: a table per wrapped function,     *)
(* loaded from a file when the function is wrapped and saved to it after   *)
(* every computation, shared by every Emacs daemon of the user.            *)
(*                                                                         *)
(* A daemon is single-threaded, but a memoized function waits for the      *)
(* network in accept-process-output, where timers and the server filter    *)
(* run: calls of one daemon nest, calls of two daemons interleave at each  *)
(* file operation.  The files of my-memoize.el hold no lexical-binding     *)
(* cookie and the wrapper is built by (eval `(lambda ...)): its variables  *)
(* are dynamic, and the timer's lambda sees the `args' that is bound when  *)
(* it fires, by a memoized call or by any other function.                  *)
(***************************************************************************)
EXTENDS Naturals, Sequences

CONSTANTS
  Daemons,     (* the Emacs processes that share the cache directory       *)
  Funcs,       (* the memoized functions, one cache file each              *)
  Args,        (* the argument lists                                       *)
  OtherArgs,   (* what functions that are not wrapped here bind `args' to  *)
  Results,     (* what the original functions return                       *)
  Nil,         (* the result nil                                           *)
  MemoizeNil,  (* the symbol MEMOIZE_NIL                                   *)
  Absent,      (* what gethash finds where nothing was put                 *)
  Error,       (* the outcome of a call that signals                       *)
  DiskFaults,  (* may a write to the disk fail?                            *)
  Restarts,    (* may a daemon be killed and started again?                *)
  MaxWraps,    (* bound: how often a session memoizes one function         *)
  MaxDepth     (* bound: how many memoized calls are nested in a daemon    *)

ASSUME ConstantsOK ==
  /\ Nil \in Results
  /\ MemoizeNil \notin Results
  /\ Absent \notin Results \cup {MemoizeNil}
  /\ Error \notin Results
  /\ DiskFaults \in BOOLEAN
  /\ Restarts \in BOOLEAN
  /\ MaxWraps \in Nat \ {0}
  /\ MaxDepth \in Nat \ {0}

Sites == Daemons \X Funcs
Gens == 1..MaxWraps

(* A table object: the one the wrapper number g of f in d has inlined. *)
Tables == Daemons \X Funcs \X Gens

Cells == (Results \ {Nil}) \cup {MemoizeNil, Absent}
Rows == [Args -> Cells]
EmptyRow == [k \in Args |-> Absent]

(***************************************************************************)
(* The cache file of a function.  Its name is the slug of the function's   *)
(* text, or of the md5 of a text longer than 150 characters.  A slug loses *)
(* characters: that two functions have two names is assumed here.  The     *)
(* swap file is the same name with a suffix.                               *)
(***************************************************************************)
PathCollides(f) == <<"persistent-hash-table", CHOOSE g \in Funcs : TRUE>>
Path(f) == <<"persistent-hash-table", f>>
Paths == {Path(f) : f \in Funcs}

(***************************************************************************)
(* A call that missed: the dynamic binding of `args' to key, and how far   *)
(* the wrapper got: the original function is running, the swap file was    *)
(* deleted and is about to be opened, it is being written, or it is about  *)
(* to be renamed.                                                          *)
(***************************************************************************)
Frames == [tbl : Tables, key : Args, res : Results,
           at : {"running", "opening", "writing", "renaming"}]

(***************************************************************************)
(* An inode of the cache directory, and the daemons that still write to    *)
(* it: one, or several at once (mixed; row is then the table that comes    *)
(* out if any does, see Open).  Lock files are off (src/emacs:1600).       *)
(***************************************************************************)
Images == [st : {"missing", "writing", "mixed", "whole", "torn"},
           by : SUBSET Daemons, row : Rows]
NoImage == [st |-> "missing", by |-> {}, row |-> EmptyRow]

VARIABLES
  marked,    (* the sites whose symbol has :memoize-original-function      *)
  wraps,     (* how many wrappers a site has built in this session         *)
  active,    (* the wrapper that is its function definition, 0: original   *)
  table,     (* the contents of each table object                          *)
  armed,     (* the keys for which a table object has an armed timer       *)
  stack,     (* the memoized calls running in a daemon, innermost first    *)
  swap,      (* what the swap file of each cache file holds                *)
  file,      (* what each cache file holds                                 *)
  produced,  (* history: every result the original functions returned      *)
  reply      (* history: the last outcome given to a caller                *)

memory == <<marked, wraps, active>>
vars == <<memory, table, armed, stack, swap, file, produced, reply>>

Init ==
  /\ marked = {}
  /\ wraps = [s \in Sites |-> 0]
  /\ active = [s \in Sites |-> 0]
  /\ table = [t \in Tables |-> EmptyRow]
  /\ armed = [t \in Tables |-> {}]
  /\ stack = [d \in Daemons |-> <<>>]
  /\ swap = [p \in Paths |-> NoImage]
  /\ file = [p \in Paths |-> NoImage]
  /\ produced = {}
  /\ reply = {}

----------------------------------------------------------------------------
(* The calls of a daemon, innermost first. *)
Push(fr, calls) == <<fr>> \o calls

(* Mutant: timers and other calls run even in the middle of a save. *)
CanEnterAnywhere(d) == TRUE

(* Lisp of d can be entered: d is idle, or its innermost call is waiting.  *)
CanEnter(d) == stack[d] # <<>> => Head(stack[d]).at = "running"

At(d, place) == stack[d] # <<>> /\ Head(stack[d]).at = place

(* Mutants: nil is put as nil; MEMOIZE_NIL is handed back. *)
StoredRaw(r) == r
FetchedRaw(c) == c

(* The value put in the table, and the value the wrapper hands back. *)
Stored(r) == IF r = Nil THEN MemoizeNil ELSE r
Fetched(c) == IF c = MemoizeNil THEN Nil ELSE c

(* A wrapper leaves through its unwind form: the old timer of the key is   *)
(* cancelled and a new one armed.  memoize-default-timeout is never nil.   *)
Rearm(t, k) == armed' = [armed EXCEPT ![t] = @ \cup {k}]

(* The innermost call of d ends with outcome r. *)
Leave(d, r) ==
  LET fr == Head(stack[d]) IN
  /\ stack' = [stack EXCEPT ![d] = Tail(@)]
  /\ Rearm(fr.tbl, fr.key)
  /\ reply' = {<<fr.tbl[2], fr.key, r>>}

(***************************************************************************)
(* memoize: the symbol is marked before memoize--wrap reads the file, so   *)
(* an unreadable file leaves it marked and not wrapped.  A marked symbol   *)
(* is refused with a user-error.                                           *)
(***************************************************************************)
Memoize(d, f) ==
  /\ CanEnter(d)
  /\ <<d, f>> \notin marked
  /\ wraps[<<d, f>>] < MaxWraps
  /\ marked' = marked \cup {<<d, f>>}
  /\ \/ /\ file[Path(f)].st \in {"missing", "whole"}
        /\ LET g == wraps[<<d, f>>] + 1 IN
           /\ wraps' = [wraps EXCEPT ![<<d, f>>] = g]
           /\ active' = [active EXCEPT ![<<d, f>>] = g]
           /\ table' = [table EXCEPT ![<<d, f, g>>] = file[Path(f)].row]
     \/ /\ file[Path(f)].st \in {"writing", "mixed", "torn"}
        /\ UNCHANGED <<wraps, active, table>>
  /\ UNCHANGED <<armed, stack, swap, file, produced, reply>>

(* memoize-restore, whose error on an unmarked symbol is ignored. *)
Restore(d, f) ==
  /\ CanEnter(d)
  /\ <<d, f>> \in marked
  /\ marked' = marked \ {<<d, f>>}
  /\ active' = [active EXCEPT ![<<d, f>>] = 0]
  /\ UNCHANGED <<wraps, table, armed, stack, swap, file, produced, reply>>

(* A call whose value is in the table: nothing waits, no step interleaves. *)
CallHit(d, f, k) ==
  LET t == <<d, f, active[<<d, f>>]>> IN
  /\ CanEnter(d)
  /\ active[<<d, f>>] # 0
  /\ table[t][k] # Absent
  /\ Rearm(t, k)
  /\ reply' = {<<f, k, Fetched(table[t][k])>>}
  /\ UNCHANGED <<memory, table, stack, swap, file, produced>>

(* A call whose value is not: args is bound, the original function starts. *)
CallMiss(d, f, k) ==
  LET t == <<d, f, active[<<d, f>>]>> IN
  /\ CanEnter(d)
  /\ Len(stack[d]) < MaxDepth
  /\ active[<<d, f>>] # 0
  /\ table[t][k] = Absent
  /\ stack' = [stack EXCEPT ![d] =
       Push([tbl |-> t, key |-> k, res |-> Nil, at |-> "running"], @)]
  /\ UNCHANGED <<memory, table, armed, swap, file, produced, reply>>

(***************************************************************************)
(* The original function returns r: puthash, then my-ht-cache prints the   *)
(* table and write-to-file deletes the swap file.  write-to-file ignores   *)
(* every error: with DiskFaults the old swap file may stay, nothing is     *)
(* written, and the code goes on to rename it.                             *)
(***************************************************************************)
Return(d, r) ==
  LET fr == Head(stack[d])
      next(place) == [stack EXCEPT ![d] =
                        Push([fr EXCEPT !.res = r, !.at = place], Tail(@))]
  IN
  /\ At(d, "running")
  /\ produced' = produced \cup {<<fr.tbl[2], fr.key, r>>}
  /\ table' = [table EXCEPT ![fr.tbl][fr.key] = Stored(r)]
  /\ \/ /\ stack' = next("opening")
        /\ swap' = [swap EXCEPT ![Path(fr.tbl[2])] = NoImage]
     \/ /\ DiskFaults
        /\ stack' = next("renaming")
        /\ UNCHANGED swap
  /\ UNCHANGED <<memory, armed, file, reply>>

(* The original function signals or is quit: nothing is put or saved, but  *)
(* the unwind form still arms a timer.                                     *)
Fail(d) ==
  /\ At(d, "running")
  /\ Leave(d, Error)
  /\ UNCHANGED <<memory, table, swap, file, produced>>

(* Mutant: the text written is that of the table before puthash. *)
OpenOldText(d) ==
  LET fr == Head(stack[d])
      p == Path(fr.tbl[2])
      old == [table[fr.tbl] EXCEPT ![fr.key] = Absent]
  IN
  /\ At(d, "opening")
  /\ swap[p].by = {}
  /\ swap' = [swap EXCEPT ![p] = [st |-> "writing", by |-> {d}, row |-> old]]
  /\ stack' = [stack EXCEPT ![d] = Push([fr EXCEPT !.at = "writing"], Tail(@))]
  /\ UNCHANGED <<memory, table, armed, file, produced, reply>>

(***************************************************************************)
(* write-file opens the swap file and truncates it.  Another daemon may    *)
(* have opened it since it was deleted: both then write to one inode, and  *)
(* what comes out is the table of one of them or neither.                  *)
(***************************************************************************)
Open(d) ==
  LET fr == Head(stack[d])
      p == Path(fr.tbl[2])
      next(place) == [stack EXCEPT ![d] = Push([fr EXCEPT !.at = place], Tail(@))]
  IN
  /\ At(d, "opening")
  /\ \/ /\ swap[p].by = {}
        /\ swap' = [swap EXCEPT ![p] =
                      [st |-> "writing", by |-> {d}, row |-> table[fr.tbl]]]
        /\ stack' = next("writing")
     \/ /\ swap[p].by # {}
        /\ \E row \in {swap[p].row, table[fr.tbl]} :
             swap' = [swap EXCEPT ![p] =
                        [st |-> "mixed", by |-> @.by \cup {d}, row |-> row]]
        /\ stack' = next("writing")
     \/ /\ DiskFaults
        /\ stack' = next("renaming")
        /\ UNCHANGED swap
  /\ UNCHANGED <<memory, table, armed, file, produced, reply>>

(* d does not write any more to the inode it wrote to, wherever that is    *)
(* now named; if nobody else does, it ends up as st.                       *)
Settle(images, d, st) ==
  [p \in Paths |->
     [images[p] EXCEPT !.by = @ \ {d},
                       !.st = IF images[p].by = {d} THEN st ELSE @]]

(* The inode d writes to, if it still has a name, was written by others. *)
Mixed(d) ==
  \E p \in Paths : \E img \in {swap[p], file[p]} : d \in img.by /\ img.st = "mixed"

(* write-file ends: the inode is complete, or the disk filled up half way  *)
(* and the error is ignored, or the writes of two daemons are mixed in it. *)
EndWrite(d) ==
  /\ At(d, "writing")
  /\ \E st \in {"whole", "torn"} :
       /\ st = "torn" => DiskFaults \/ Mixed(d)
       /\ swap' = Settle(swap, d, st)
       /\ file' = Settle(file, d, st)
  /\ stack' = [stack EXCEPT ![d] =
       Push([Head(@) EXCEPT !.at = "renaming"], Tail(@))]
  /\ UNCHANGED <<memory, table, armed, produced, reply>>

(* Mutant: the swap file is renamed while it is still being written. *)
RenameEarly(d) ==
  LET fr == Head(stack[d])
      f == fr.tbl[2]
  IN
  /\ At(d, "writing")
  /\ swap[Path(f)].st # "missing"
  /\ file' = [file EXCEPT ![Path(f)] = swap[Path(f)]]
  /\ swap' = [swap EXCEPT ![Path(f)] = NoImage]
  /\ Leave(d, fr.res)
  /\ UNCHANGED <<memory, table, produced>>

(* rename-file over the cache file, then the wrapper returns the value. *)
Rename(d) ==
  LET fr == Head(stack[d])
      f == fr.tbl[2]
  IN
  /\ At(d, "renaming")
  /\ swap[Path(f)].st # "missing"
  /\ file' = [file EXCEPT ![Path(f)] = swap[Path(f)]]
  /\ swap' = [swap EXCEPT ![Path(f)] = NoImage]
  /\ Leave(d, fr.res)
  /\ UNCHANGED <<memory, table, produced>>

(* rename-file finds no swap file, or the disk fails, and it signals: the  *)
(* value stays in the table, the caller gets the error.                    *)
RenameFails(d) ==
  /\ At(d, "renaming")
  /\ swap[Path(Head(stack[d]).tbl[2])].st = "missing" \/ DiskFaults
  /\ Leave(d, Error)
  /\ UNCHANGED <<memory, table, swap, file, produced>>

(* Mutant: the lambda is a closure and removes the key it was made for. *)
TimerFiresLexical(t, k) ==
  /\ CanEnter(t[1])
  /\ k \in armed[t]
  /\ armed' = [armed EXCEPT ![t] = @ \ {k}]
  /\ table' = [table EXCEPT ![t][k] = Absent]
  /\ UNCHANGED <<memory, stack, swap, file, produced, reply>>

(***************************************************************************)
(* What `args' can be while a timer of d runs: the key of the innermost    *)
(* memoized call, or what another function that waits has bound it to (an  *)
(* advice with &rest args, as in my-eww.el; a wrapper of memoize-orig).    *)
(* Such a function can run in an idle daemon, or inside a memoized call,   *)
(* whose `args' it then hides.                                             *)
(***************************************************************************)
Bindings(d) ==
  OtherArgs \cup (IF stack[d] = <<>> THEN {} ELSE {Head(stack[d]).key})

(* remhash: an absent key, as a list that is no key of the table, is no    *)
(* error.                                                                  *)
Without(row, b) == [k \in Args |-> IF k = b THEN Absent ELSE row[k]]

(***************************************************************************)
(* The timer of key k of table t fires.  Its lambda removes what `args' is *)
(* bound to at that time; where nothing binds it the variable is void, and *)
(* `try' turns that error into a message.                                  *)
(***************************************************************************)
TimerFires(t, k) ==
  LET d == t[1] IN
  /\ CanEnter(d)
  /\ k \in armed[t]
  /\ armed' = [armed EXCEPT ![t] = @ \ {k}]
  /\ \/ /\ stack[d] = <<>>
        /\ UNCHANGED table
     \/ \E b \in Bindings(d) : table' = [table EXCEPT ![t] = Without(@, b)]
  /\ UNCHANGED <<memory, stack, swap, file, produced, reply>>

(* The daemon is killed and started again: what it was writing is torn. *)
Restart(d) ==
  /\ Restarts
  /\ marked' = {s \in marked : s[1] # d}
  /\ wraps' = [s \in Sites |-> IF s[1] = d THEN 0 ELSE wraps[s]]
  /\ active' = [s \in Sites |-> IF s[1] = d THEN 0 ELSE active[s]]
  /\ table' = [t \in Tables |-> IF t[1] = d THEN EmptyRow ELSE table[t]]
  /\ armed' = [t \in Tables |-> IF t[1] = d THEN {} ELSE armed[t]]
  /\ stack' = [stack EXCEPT ![d] = <<>>]
  /\ swap' = Settle(swap, d, "torn")
  /\ file' = Settle(file, d, "torn")
  /\ UNCHANGED <<produced, reply>>

Next ==
  \/ \E d \in Daemons, f \in Funcs : Memoize(d, f) \/ Restore(d, f)
  \/ \E d \in Daemons, f \in Funcs, k \in Args :
       CallHit(d, f, k) \/ CallMiss(d, f, k)
  \/ \E d \in Daemons, r \in Results : Return(d, r)
  \/ \E d \in Daemons :
       \/ Fail(d) \/ Open(d) \/ EndWrite(d) \/ Rename(d) \/ RenameFails(d)
       \/ Restart(d)
  \/ \E t \in Tables, k \in Args : TimerFires(t, k)

Spec == Init /\ [][Next]_vars

----------------------------------------------------------------------------
(* Every variable keeps its shape; in particular no table, in memory or on *)
(* disk, holds nil, which gethash could not tell from a missing entry.     *)
TypeOK ==
  /\ marked \subseteq Sites
  /\ wraps \in [Sites -> 0..MaxWraps]
  /\ active \in [Sites -> 0..MaxWraps]
  /\ table \in [Tables -> Rows]
  /\ armed \in [Tables -> SUBSET Args]
  /\ stack \in [Daemons -> Seq(Frames)]
  /\ swap \in [Paths -> Images]
  /\ file \in [Paths -> Images]
  /\ produced \subseteq Funcs \X Args \X Results
  /\ reply \subseteq Funcs \X Args \X (Results \cup {Error})

(* The entries of a table or file of f are results of f for those keys. *)
RowSound(f, row) ==
  \A k \in Args : row[k] # Absent => <<f, k, Fetched(row[k])>> \in produced

(* Whatever the daemons, restarts and disk errors did, every entry of every *)
(* table object, swap file and cache file, and every value about to be      *)
(* returned by a wrapper that is saving, is a result of its own function    *)
(* for its own arguments.                                                   *)
EntriesProduced ==
  /\ \A t \in Tables : RowSound(t[2], table[t])
  /\ \A f \in Funcs : RowSound(f, swap[Path(f)].row) /\ RowSound(f, file[Path(f)].row)
  /\ \A d \in Daemons : \A i \in 1..Len(stack[d]) :
       LET fr == stack[d][i] IN
       fr.at # "running" => <<fr.tbl[2], fr.key, fr.res>> \in produced

(* The wrappers implement the promise of MemoPromise. *)
MP == INSTANCE MemoPromise WITH
  Funcs <- Funcs, Args <- Args, Results <- Results, Error <- Error,
  produced <- produced, reply <- reply
KeepsPromise == MP!Spec

(* The shape of a session: a call belongs to a table its daemon has built,  *)
(* only the innermost one can be saving, the wrapper that is installed was  *)
(* built, and a table object that was not built yet holds nothing.          *)
SessionShape ==
  /\ \A d \in Daemons : \A i \in 1..Len(stack[d]) :
       LET t == stack[d][i].tbl IN
       /\ t[1] = d /\ t[3] <= wraps[<<t[1], t[2]>>]
       /\ i > 1 => stack[d][i].at = "running"
  /\ \A s \in Sites : active[s] <= wraps[s]
  /\ \A t \in Tables : t[3] > wraps[<<t[1], t[2]>>] => table[t] = EmptyRow

(* A file said to be in the middle of a write has live writers: daemons    *)
(* whose innermost call is inside write-file for that function; and if it  *)
(* is not known to be mixed there is only one.                             *)
WriterIsWriting ==
  \A f \in Funcs : \A img \in {swap[Path(f)], file[Path(f)]} :
    /\ img.st \in {"writing", "mixed"} <=> img.by # {}
    /\ \A d \in img.by : At(d, "writing") /\ Head(stack[d]).tbl[2] = f
    /\ \A d, e \in img.by : d # e => img.st = "mixed"

(* What a proof about one daemon on a working disk assumes. *)
SoleDaemon == (\A d, e \in Daemons : d = e) /\ ~DiskFaults

(* One daemon and a working disk: from the moment the swap file is opened   *)
(* it is what this call is writing, then complete, and it holds the table   *)
(* that the call belongs to, the new value included; so rename-file never   *)
(* fails and never saves anything else.                                     *)
SwapReady ==
  \A d \in Daemons :
    LET fr == Head(stack[d])
        img == swap[Path(fr.tbl[2])]
    IN
    /\ At(d, "writing") => img.st = "writing" /\ img.by = {d} /\ img.row = table[fr.tbl]
    /\ At(d, "renaming") => img.st = "whole" /\ img.row = table[fr.tbl]

(* One daemon and a working disk: whenever the daemon is killed, the cache  *)
(* file a restart reads is missing or complete.                             *)
Readable(f) == file[Path(f)].st \in {"missing", "whole"}
FileReadable == \A f \in Funcs : Readable(f)

(* d is saving the table of a call of f. *)
Saving(d, f) ==
  /\ At(d, "opening") \/ At(d, "writing") \/ At(d, "renaming")
  /\ Head(stack[d]).tbl[2] = f

(* Several daemons on a working disk, none killed: a cache file that can be *)
(* read stays so unless two daemons are saving the same function at the     *)
(* same time, when one renames what the other writes.                       *)
TwoSavers(f) == \E d, e \in Daemons : d # e /\ Saving(d, f) /\ Saving(e, f)
TearNeedsTwoSavers ==
  [][\A f \in Funcs : Readable(f) /\ ~Readable(f)' => TwoSavers(f)]_vars

(* One daemon, a working disk, a function memoized once in the session:     *)
(* every entry of its table is in the cache file, unless the innermost call *)
(* is saving that table; so a restart loses no value a caller was given.    *)
CompletedCallsDurable ==
  \A d \in Daemons, f \in Funcs :
    wraps[<<d, f>>] = 1 /\ ~Saving(d, f) =>
      \A k \in Args : LET c == table[<<d, f, 1>>][k] IN
        c # Absent => Readable(f) /\ file[Path(f)].row[k] = c

(* An entry leaves a table only when its daemon restarts, or when a timer   *)
(* of that table, for whatever key, fires while `args' is bound to the      *)
(* entry's key: by the innermost memoized call of the daemon, of any        *)
(* function, or by a function that is not wrapped.  Other entries stay.     *)
EvictionNeedsBinding ==
  [][\A t \in Tables, k \in Args :
       table[t][k] # Absent /\ table'[t][k] = Absent =>
         \/ wraps'[<<t[1], t[2]>>] < wraps[<<t[1], t[2]>>]
         \/ ~(armed[t] \subseteq armed'[t]) /\ k \in Bindings(t[1])]_vars

(* What the docstring of memoize--wrap says: a value lasts for the timeout  *)
(* from its last access.  A key that stops being armed, and is not armed    *)
(* again by an access, has no entry any more.                               *)
ExpiryHonoured ==
  [][\A t \in Tables, k \in Args :
       k \in armed[t] /\ k \notin armed'[t] => table'[t][k] = Absent]_vars
=============================================================================
