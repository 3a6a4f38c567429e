--------------------------- MODULE MemoizeProofs ---------------------------
(***************************************************************************)
(* What Memoize guarantees for any daemons, functions, arguments and       *)
(* bounds.  Every theorem is an invariance argument over the actions of    *)
(* Next; the conjuncts of the inductive invariants are defined in Memoize. *)
(***************************************************************************)
EXTENDS Memoize, SequenceTheorems, TLAPS

----------------------------------------------------------------------------
(* Stacks. *)

(* Pushing a call gives a stack with that call on top of the others. *)
LEMMA PushFacts ==
  ASSUME NEW S, NEW s \in Seq(S), NEW e \in S
  PROVE  /\ Push(e, s) \in Seq(S)
         /\ Push(e, s) # <<>>
         /\ Head(Push(e, s)) = e
         /\ Len(Push(e, s)) = Len(s) + 1
         /\ Push(e, s)[1] = e
         /\ \A i \in 2..(Len(s) + 1) : Push(e, s)[i] = s[i - 1]
<1>1. <<e>> \in Seq(S) /\ Len(<<e>>) = 1 /\ <<e>>[1] = e
  OBVIOUS
<1>2. /\ Push(e, s) \in Seq(S)
      /\ Len(Push(e, s)) = 1 + Len(s)
      /\ \A i \in 1..(1 + Len(s)) :
           Push(e, s)[i] = IF i <= 1 THEN <<e>>[i] ELSE s[i - 1]
  BY <1>1, ConcatProperties DEF Push
<1>3. Len(s) \in Nat
  BY LenProperties
<1>4. Push(e, s) # <<>> /\ Head(Push(e, s)) = e
  BY <1>1, <1>2, <1>3
<1>5. QED
  BY <1>1, <1>2, <1>3, <1>4

(* The top of a stack that is not empty, and what is below it. *)
LEMMA PopFacts ==
  ASSUME NEW S, NEW s \in Seq(S), s # <<>>
  PROVE  /\ Head(s) \in S /\ Head(s) = s[1]
         /\ Tail(s) \in Seq(S)
         /\ Len(s) \in Nat \ {0}
         /\ Len(Tail(s)) = Len(s) - 1
         /\ \A i \in 1..(Len(s) - 1) : Tail(s)[i] = s[i + 1]
BY HeadTailProperties, EmptySeq

(* The calls of a popped and of a pushed stack, one by one. *)
LEMMA PopElements ==
  ASSUME NEW S, NEW s \in Seq(S), s # <<>>, NEW i \in 1..Len(Tail(s))
  PROVE  i + 1 \in 1..Len(s) /\ Tail(s)[i] = s[i + 1]
BY PopFacts

LEMMA PushElements ==
  ASSUME NEW S, NEW s \in Seq(S), NEW e \in S, NEW i \in 1..Len(Push(e, s))
  PROVE  \/ i = 1 /\ Push(e, s)[i] = e
         \/ i > 1 /\ i - 1 \in 1..Len(s) /\ Push(e, s)[i] = s[i - 1]
<1>1. Len(s) \in Nat /\ Len(Push(e, s)) = Len(s) + 1
  BY LenProperties, PushFacts
<1>2. CASE i = 1
  BY <1>2, PushFacts
<1>3. CASE i # 1
  <2>1. i \in 2..(Len(s) + 1)
    BY <1>1, <1>3
  <2>2. Push(e, s)[i] = s[i - 1]
    BY <2>1, PushFacts
  <2>3. QED
    BY <1>1, <2>1, <2>2
<1>4. QED
  BY <1>2, <1>3

----------------------------------------------------------------------------
(* Types. *)

(* What is put in a table is never nil and never the missing mark. *)
LEMMA StoredType ==
  ASSUME NEW r \in Results
  PROVE  Stored(r) \in Cells /\ Stored(r) # Absent
BY ConstantsOK DEF Stored, Cells

LEMMA ShapeFacts ==
  /\ EmptyRow \in Rows
  /\ NoImage \in Images
  /\ \A f \in Funcs : Path(f) \in Paths
  /\ \A t \in Tables : t[1] \in Daemons /\ t[2] \in Funcs /\ t[3] \in Gens
                       /\ <<t[1], t[2]>> \in Sites
BY DEF EmptyRow, Rows, Cells, NoImage, Images, Paths, Path, Tables, Sites

(* A daemon whose innermost call is at some place has such a call. *)
LEMMA TopFacts ==
  ASSUME TypeOK, NEW d \in Daemons, stack[d] # <<>>
  PROVE  /\ Head(stack[d]) \in Frames
         /\ Tail(stack[d]) \in Seq(Frames)
         /\ Head(stack[d]).tbl \in Tables
         /\ Head(stack[d]).key \in Args
         /\ Head(stack[d]).res \in Results
<1>1. stack[d] \in Seq(Frames)
  BY DEF TypeOK
<1>2. Head(stack[d]) \in Frames /\ Tail(stack[d]) \in Seq(Frames)
  BY <1>1, PopFacts
<1>3. QED
  BY <1>2 DEF Frames

(* The innermost call of a daemon ends, whatever its outcome. *)
LEMMA LeaveType ==
  ASSUME TypeOK, NEW d \in Daemons, stack[d] # <<>>,
         NEW r \in Results \cup {Error}, Leave(d, r)
  PROVE  /\ stack' \in [Daemons -> Seq(Frames)]
         /\ armed' \in [Tables -> SUBSET Args]
         /\ reply' \subseteq Funcs \X Args \X (Results \cup {Error})
<1>1. Head(stack[d]).tbl[2] \in Funcs
  BY TopFacts, ShapeFacts
<1>2. QED
  BY <1>1, TopFacts DEF Leave, Rearm, TypeOK

LEMMA SettleType ==
  ASSUME NEW images \in [Paths -> Images], NEW d \in Daemons,
         NEW st \in {"whole", "torn"}
  PROVE  Settle(images, d, st) \in [Paths -> Images]
<1>1. ASSUME NEW p \in Paths
      PROVE  [images[p] EXCEPT !.by = @ \ {d},
                              !.st = IF images[p].by = {d} THEN st ELSE @] \in Images
  <2>1. PICK img \in Images : img = images[p]
    OBVIOUS
  <2>2. img.by \ {d} \in SUBSET Daemons
    BY DEF Images
  <2>3. (IF img.by = {d} THEN st ELSE img.st)
          \in {"missing", "writing", "mixed", "whole", "torn"}
    BY DEF Images
  <2>4. QED
    BY <2>1, <2>2, <2>3 DEF Images
<1>2. QED
  BY <1>1 DEF Settle

(* What opening the swap file does to the stack and to the swap file. *)
LEMMA OpenEffect ==
  ASSUME TypeOK, NEW d \in Daemons, Open(d)
  PROVE  /\ stack[d] # <<>> /\ Head(stack[d]).at = "opening"
         /\ \E place \in {"writing", "renaming"} :
              stack' = [stack EXCEPT ![d] =
                Push([Head(stack[d]) EXCEPT !.at = place], Tail(stack[d]))]
         /\ \/ swap' = swap
            \/ \E img \in Images :
                 /\ swap' = [swap EXCEPT ![Path(Head(stack[d]).tbl[2])] = img]
                 /\ \/ img.row = swap[Path(Head(stack[d]).tbl[2])].row
                    \/ img.row = table[Head(stack[d]).tbl]
<1> DEFINE p == Path(Head(stack[d]).tbl[2])
           mine == table[Head(stack[d]).tbl]
<1>1. stack[d] # <<>> /\ Head(stack[d]).at = "opening"
  BY DEF Open, At
<1>2. p \in Paths /\ mine \in Rows
  BY <1>1, TopFacts, ShapeFacts DEF TypeOK
<1>3. PICK old \in Images : old = swap[p]
  BY <1>2 DEF TypeOK
<1>4. CASE swap' = [swap EXCEPT ![p] =
                      [st |-> "writing", by |-> {d}, row |-> mine]]
  <2>1. [st |-> "writing", by |-> {d}, row |-> mine] \in Images
    BY <1>2 DEF Images
  <2>2. QED
    BY <1>1, <1>4, <2>1 DEF Open
<1>5. CASE \E row \in {swap[p].row, mine} :
             swap' = [swap EXCEPT ![p] =
                        [st |-> "mixed", by |-> @.by \cup {d}, row |-> row]]
  <2>1. PICK row \in {old.row, mine} :
          swap' = [swap EXCEPT ![p] =
                     [st |-> "mixed", by |-> old.by \cup {d}, row |-> row]]
    BY <1>2, <1>3, <1>5 DEF TypeOK
  <2>2. row \in Rows /\ old.by \cup {d} \in SUBSET Daemons
    BY <1>2 DEF Images
  <2>3. [st |-> "mixed", by |-> old.by \cup {d}, row |-> row] \in Images
    BY <2>2 DEF Images
  <2>4. QED
    BY <1>1, <1>3, <2>1, <2>3 DEF Open
<1>6. CASE swap' = swap
  BY <1>1, <1>6 DEF Open
<1>7. QED
  BY <1>4, <1>5, <1>6 DEF Open

(* The row a wrapper saves is a row of cells. *)
LEMMA PutType ==
  ASSUME TypeOK, NEW d \in Daemons, NEW r \in Results, stack[d] # <<>>
  PROVE  [table EXCEPT ![Head(stack[d]).tbl][Head(stack[d]).key] = Stored(r)]
           \in [Tables -> Rows]
BY TopFacts, StoredType DEF TypeOK, Rows

LEMMA InitType == Init => TypeOK
<1> SUFFICES ASSUME Init PROVE TypeOK
  OBVIOUS
<1>1. stack \in [Daemons -> Seq(Frames)]
  BY EmptySeq DEF Init
<1>2. wraps \in [Sites -> 0..MaxWraps] /\ active \in [Sites -> 0..MaxWraps]
  BY ConstantsOK DEF Init
<1>3. QED
  BY <1>1, <1>2, ShapeFacts DEF Init, TypeOK

(* A row from which a key was removed. *)
LEMMA WithoutType ==
  \A row \in Rows : \A b : Without(row, b) \in Rows
BY DEF Without, Rows, Cells

LEMMA NextType == TypeOK /\ [Next]_vars => TypeOK'
<1> SUFFICES ASSUME TypeOK, [Next]_vars PROVE TypeOK'
  OBVIOUS
<1>1. ASSUME NEW d \in Daemons, NEW f \in Funcs, Memoize(d, f) PROVE TypeOK'
  <2>1. <<d, f>> \in Sites
    BY DEF Sites
  <2>2. wraps[<<d, f>>] + 1 \in Gens
    BY <1>1, <2>1, ConstantsOK DEF Memoize, TypeOK, Gens
  <2>3. file[Path(f)].row \in Rows
    BY ShapeFacts DEF TypeOK, Images
  <2>4. CASE UNCHANGED <<wraps, active, table>>
    BY <1>1, <2>1, <2>4 DEF Memoize, TypeOK
  <2> DEFINE g == wraps[<<d, f>>] + 1
  <2>5. CASE /\ wraps' = [wraps EXCEPT ![<<d, f>>] = g]
             /\ active' = [active EXCEPT ![<<d, f>>] = g]
             /\ table' = [table EXCEPT ![<<d, f, g>>] = file[Path(f)].row]
    <3>1. g \in 0..MaxWraps /\ <<d, f, g>> \in Tables
      BY <2>2, ConstantsOK DEF Gens, Tables
    <3>2. /\ wraps' \in [Sites -> 0..MaxWraps]
          /\ active' \in [Sites -> 0..MaxWraps]
      BY <2>5, <3>1 DEF TypeOK
    <3>3. table' \in [Tables -> Rows]
      BY <2>3, <2>5, <3>1 DEF TypeOK
    <3>4. QED
      BY <1>1, <2>1, <3>2, <3>3 DEF Memoize, TypeOK
  <2>6. QED
    BY <1>1, <2>4, <2>5 DEF Memoize
<1>2. ASSUME NEW d \in Daemons, NEW f \in Funcs, Restore(d, f) PROVE TypeOK'
  BY <1>2, ConstantsOK DEF Restore, TypeOK, Sites
<1>3. ASSUME NEW d \in Daemons, NEW f \in Funcs, NEW k \in Args,
             CallHit(d, f, k)
      PROVE  TypeOK'
  <2> DEFINE t == <<d, f, active[<<d, f>>]>>
  <2>1. t \in Tables
    BY <1>3, ConstantsOK DEF CallHit, TypeOK, Tables, Sites, Gens
  <2>2. Fetched(table[t][k]) \in Results
    BY <1>3, <2>1, ConstantsOK DEF CallHit, Fetched, TypeOK, Rows, Cells
  <2>3. armed' \in [Tables -> SUBSET Args]
    BY <1>3, <2>1 DEF CallHit, Rearm, TypeOK
  <2>4. reply' \subseteq Funcs \X Args \X (Results \cup {Error})
    BY <1>3, <2>2 DEF CallHit
  <2>5. QED
    BY <1>3, <2>3, <2>4 DEF CallHit, TypeOK, memory
<1>4. ASSUME NEW d \in Daemons, NEW f \in Funcs, NEW k \in Args,
             CallMiss(d, f, k)
      PROVE  TypeOK'
  <2> DEFINE fr == [tbl |-> <<d, f, active[<<d, f>>]>>, key |-> k,
                    res |-> Nil, at |-> "running"]
  <2>1. fr \in Frames
    BY <1>4, ConstantsOK DEF CallMiss, TypeOK, Tables, Sites, Gens, Frames
  <2>2. Push(fr, stack[d]) \in Seq(Frames)
    BY <2>1, PushFacts DEF TypeOK
  <2>3. QED
    BY <1>4, <2>2 DEF CallMiss, TypeOK, memory
<1>5. ASSUME NEW d \in Daemons, NEW r \in Results, Return(d, r) PROVE TypeOK'
  <2> DEFINE fr == Head(stack[d])
             saved(place) == [fr EXCEPT !.res = r, !.at = place]
             put == [table EXCEPT ![fr.tbl][fr.key] = Stored(r)]
  <2>1. stack[d] # <<>>
    BY <1>5 DEF Return, At
  <2>2. /\ fr \in Frames /\ fr.tbl[2] \in Funcs /\ fr.key \in Args
        /\ fr.tbl \in Tables /\ Tail(stack[d]) \in Seq(Frames)
    BY <2>1, TopFacts, ShapeFacts
  <2>3. put \in [Tables -> Rows]
    BY <2>1, PutType
  <2>4. table' = put
    BY <1>5 DEF Return
  <2>5. produced' \subseteq Funcs \X Args \X Results
    BY <1>5, <2>2 DEF Return, TypeOK
  <2>6. ASSUME NEW place \in {"opening", "renaming"}
        PROVE  [stack EXCEPT ![d] = Push(saved(place), Tail(stack[d]))]
                 \in [Daemons -> Seq(Frames)]
    <3>1. saved(place) \in Frames
      BY <2>2 DEF Frames
    <3>2. Push(saved(place), Tail(stack[d])) \in Seq(Frames)
      BY <2>2, <3>1, PushFacts
    <3>3. QED
      BY <3>2 DEF TypeOK
  <2>7. stack' \in [Daemons -> Seq(Frames)]
    BY <1>5, <2>6 DEF Return
  <2>8. swap' \in [Paths -> Images]
    BY <1>5, ShapeFacts DEF Return, TypeOK
  <2>9. QED
    BY <1>5, <2>3, <2>4, <2>5, <2>7, <2>8 DEF Return, TypeOK, memory
<1>6. ASSUME NEW d \in Daemons, Fail(d) PROVE TypeOK'
  <2>1. stack[d] # <<>>
    BY <1>6 DEF Fail, At
  <2>2. QED
    BY <1>6, <2>1, LeaveType DEF Fail, TypeOK, memory
<1>7. ASSUME NEW d \in Daemons, EndWrite(d) PROVE TypeOK'
  <2> DEFINE renaming == [Head(stack[d]) EXCEPT !.at = "renaming"]
  <2>1. stack[d] # <<>>
    BY <1>7 DEF EndWrite, At
  <2>2. renaming \in Frames /\ Tail(stack[d]) \in Seq(Frames)
    BY <2>1, TopFacts DEF Frames
  <2>3. Push(renaming, Tail(stack[d])) \in Seq(Frames)
    BY <2>2, PushFacts
  <2>4. stack' \in [Daemons -> Seq(Frames)]
    BY <1>7, <2>3 DEF EndWrite, TypeOK
  <2>5. PICK st \in {"whole", "torn"} :
          swap' = Settle(swap, d, st) /\ file' = Settle(file, d, st)
    BY <1>7 DEF EndWrite
  <2>6. swap' \in [Paths -> Images] /\ file' \in [Paths -> Images]
    BY <2>5, SettleType DEF TypeOK
  <2>7. QED
    BY <1>7, <2>4, <2>6 DEF EndWrite, TypeOK, memory
<1>8. ASSUME NEW d \in Daemons, Rename(d) PROVE TypeOK'
  <2>1. stack[d] # <<>>
    BY <1>8 DEF Rename, At
  <2>2. Path(Head(stack[d]).tbl[2]) \in Paths /\ NoImage \in Images
    BY <2>1, TopFacts, ShapeFacts
  <2>3. swap' \in [Paths -> Images] /\ file' \in [Paths -> Images]
    BY <1>8, <2>2 DEF Rename, TypeOK
  <2>4. Head(stack[d]).res \in Results \cup {Error}
    BY <2>1, TopFacts
  <2>5. Leave(d, Head(stack[d]).res)
    BY <1>8 DEF Rename
  <2>6. QED
    BY <1>8, <2>1, <2>3, <2>4, <2>5, LeaveType DEF Rename, TypeOK, memory
<1>9. ASSUME NEW d \in Daemons, RenameFails(d) PROVE TypeOK'
  <2>1. stack[d] # <<>>
    BY <1>9 DEF RenameFails, At
  <2>2. QED
    BY <1>9, <2>1, LeaveType DEF RenameFails, TypeOK, memory
<1>10. ASSUME NEW d \in Daemons, Restart(d) PROVE TypeOK'
  <2>1. stack' \in [Daemons -> Seq(Frames)]
    BY <1>10, EmptySeq DEF Restart, TypeOK
  <2>2. swap' \in [Paths -> Images] /\ file' \in [Paths -> Images]
    BY <1>10, SettleType DEF Restart, TypeOK
  <2>3. table' \in [Tables -> Rows] /\ armed' \in [Tables -> SUBSET Args]
    BY <1>10, ShapeFacts DEF Restart, TypeOK
  <2>4. /\ wraps' \in [Sites -> 0..MaxWraps]
        /\ active' \in [Sites -> 0..MaxWraps]
        /\ marked' \subseteq Sites
    BY <1>10, ConstantsOK DEF Restart, TypeOK
  <2>5. QED
    BY <1>10, <2>1, <2>2, <2>3, <2>4 DEF Restart, TypeOK
<1>11. ASSUME NEW t \in Tables, NEW k \in Args, TimerFires(t, k) PROVE TypeOK'
  <2>1. armed' \in [Tables -> SUBSET Args]
    BY <1>11 DEF TimerFires, TypeOK
  <2>2. t[1] \in Daemons
    BY ShapeFacts
  <2>3. CASE UNCHANGED table
    BY <1>11, <2>1, <2>3 DEF TimerFires, TypeOK, memory
  <2>4. CASE \E b \in Bindings(t[1]) : table' = [table EXCEPT ![t] = Without(@, b)]
    <3>1. table' \in [Tables -> Rows]
      BY <2>4, WithoutType DEF TypeOK
    <3>2. QED
      BY <1>11, <2>1, <3>1 DEF TimerFires, TypeOK, memory
  <2>5. QED
    BY <1>11, <2>3, <2>4 DEF TimerFires
<1>12. ASSUME NEW d \in Daemons, Open(d) PROVE TypeOK'
  <2>1. stack[d] # <<>>
    BY <1>12, OpenEffect
  <2>2. PICK fr \in Frames, rest \in Seq(Frames) :
          fr = Head(stack[d]) /\ rest = Tail(stack[d])
    BY <2>1, TopFacts
  <2>3. \A place \in {"writing", "renaming"} :
          Push([fr EXCEPT !.at = place], rest) \in Seq(Frames)
    <3>1. \A place \in {"writing", "renaming"} : [fr EXCEPT !.at = place] \in Frames
      BY DEF Frames
    <3>2. QED
      BY <3>1, PushFacts
  <2>4. stack' \in [Daemons -> Seq(Frames)]
    <3>1. PICK calls \in Seq(Frames) : stack' = [stack EXCEPT ![d] = calls]
      <4>1. PICK place \in {"writing", "renaming"} :
              stack' = [stack EXCEPT ![d] = Push([fr EXCEPT !.at = place], rest)]
        BY <1>12, <2>2, OpenEffect
      <4>2. QED
        BY <2>3, <4>1
    <3>2. QED
      BY <3>1 DEF TypeOK
  <2>5. swap' \in [Paths -> Images]
    BY <1>12, OpenEffect DEF TypeOK
  <2>6. QED
    BY <1>12, <2>4, <2>5 DEF Open, TypeOK, memory
<1>13. CASE UNCHANGED vars
  BY <1>13 DEF vars, memory, TypeOK
<1>14. QED
  BY <1>1, <1>2, <1>3, <1>4, <1>5, <1>6, <1>7, <1>8, <1>9, <1>10, <1>11,
     <1>12, <1>13 DEF Next

(* Every variable of every daemon and file keeps its type; no table in     *)
(* memory or on disk ever holds nil.                                       *)
THEOREM TypeCorrect == Spec => []TypeOK
BY InitType, NextType, PTL DEF Spec

----------------------------------------------------------------------------
(* Entries. *)

LEMMA FetchedStored ==
  ASSUME NEW r \in Results
  PROVE  Fetched(Stored(r)) = r
BY ConstantsOK DEF Fetched, Stored

LEMMA PathInjective ==
  \A f, g \in Funcs : Path(f) = Path(g) => f = g
BY DEF Path

(* The three parts of EntriesProduced. *)
TablesSound == \A t \in Tables : RowSound(t[2], table[t])
ImagesSound ==
  \A f \in Funcs :
    RowSound(f, swap[Path(f)].row) /\ RowSound(f, file[Path(f)].row)
SavesIn(calls, done) ==
  \A i \in 1..Len(calls) :
    calls[i].at # "running" =>
      <<calls[i].tbl[2], calls[i].key, calls[i].res>> \in done
SavesSound == \A d \in Daemons : SavesIn(stack[d], produced)

LEMMA EntriesParts ==
  EntriesProduced <=> TablesSound /\ ImagesSound /\ SavesSound
BY DEF EntriesProduced, TablesSound, ImagesSound, SavesSound, SavesIn

LEMMA InitEntries == Init => EntriesProduced
<1> SUFFICES ASSUME Init PROVE TablesSound /\ ImagesSound /\ SavesSound
  BY EntriesParts
<1>1. TablesSound
  BY DEF Init, TablesSound, RowSound, EmptyRow
<1>2. ImagesSound
  BY ShapeFacts DEF Init, ImagesSound, RowSound, NoImage, EmptyRow
<1>3. SavesSound
  BY EmptySeq DEF Init, SavesSound, SavesIn
<1>4. QED
  BY <1>1, <1>2, <1>3

(* The saves of a stack are sound for any larger set of results, and so    *)
(* are those of the stack below its top and of the stack with fr pushed.   *)
LEMMA SavesMonotone ==
  ASSUME NEW calls, NEW done, NEW more, done \subseteq more, SavesIn(calls, done)
  PROVE  SavesIn(calls, more)
BY DEF SavesIn

LEMMA PopSaves ==
  ASSUME NEW calls \in Seq(Frames), calls # <<>>, NEW done, SavesIn(calls, done)
  PROVE  SavesIn(Tail(calls), done)
BY PopElements DEF SavesIn

LEMMA PushSaves ==
  ASSUME NEW calls \in Seq(Frames), NEW fr \in Frames, NEW done,
         SavesIn(calls, done),
         fr.at # "running" => <<fr.tbl[2], fr.key, fr.res>> \in done
  PROVE  SavesIn(Push(fr, calls), done)
<1> DEFINE Sound(call) ==
      call.at # "running" => <<call.tbl[2], call.key, call.res>> \in done
<1>1. Sound(fr) /\ \A i \in 1..Len(calls) : Sound(calls[i])
  BY DEF SavesIn
<1>2. ASSUME NEW i \in 1..Len(Push(fr, calls)) PROVE Sound(Push(fr, calls)[i])
  <2>1. \/ Push(fr, calls)[i] = fr
        \/ i - 1 \in 1..Len(calls) /\ Push(fr, calls)[i] = calls[i - 1]
    BY PushElements, Zenon
  <2> QED BY <1>1, <2>1
<1> QED BY <1>2 DEF SavesIn

(* Nothing is saved, loaded or forgotten: the images keep their rows. *)
LEMMA SettleRows ==
  ASSUME NEW images \in [Paths -> Images], NEW d \in Daemons,
         NEW st \in {"whole", "torn"}
  PROVE  \A f \in Funcs :
           Settle(images, d, st)[Path(f)].row = images[Path(f)].row
<1> SUFFICES ASSUME NEW f \in Funcs
             PROVE  Settle(images, d, st)[Path(f)].row = images[Path(f)].row
  OBVIOUS
<1>1. PICK img \in Images : img = images[Path(f)]
  BY ShapeFacts
<1>2. Settle(images, d, st)[Path(f)]
        = [img EXCEPT !.by = @ \ {d}, !.st = IF img.by = {d} THEN st ELSE @]
  BY <1>1, ShapeFacts DEF Settle
<1>3. QED
  BY <1>1, <1>2 DEF Images

LEMMA TopSaves ==
  ASSUME TypeOK, SavesSound, NEW d \in Daemons, stack[d] # <<>>
  PROVE  \E fr \in Frames, rest \in Seq(Frames) :
           /\ fr = Head(stack[d]) /\ rest = Tail(stack[d])
           /\ SavesIn(rest, produced)
           /\ fr.at # "running" => <<fr.tbl[2], fr.key, fr.res>> \in produced
<1>1. stack[d] \in Seq(Frames) /\ SavesIn(stack[d], produced)
  BY DEF TypeOK, SavesSound
<1>2. SavesIn(Tail(stack[d]), produced)
  BY <1>1, PopSaves
<1>3. /\ Head(stack[d]) = stack[d][1] /\ 1 \in 1..Len(stack[d])
      /\ Head(stack[d]) \in Frames /\ Tail(stack[d]) \in Seq(Frames)
  BY <1>1, PopFacts
<1>4. QED
  BY <1>1, <1>2, <1>3 DEF SavesIn

(* The innermost call of d ends: the calls below it are as they were. *)
LEMMA LeaveSaves ==
  ASSUME TypeOK, SavesSound, NEW d \in Daemons, stack[d] # <<>>,
         stack' = [stack EXCEPT ![d] = Tail(@)], produced \subseteq produced'
  PROVE  SavesSound'
<1>1. SUFFICES ASSUME NEW e \in Daemons PROVE SavesIn(stack'[e], produced')
  BY DEF SavesSound
<1>2. stack[d] \in Seq(Frames) /\ SavesIn(stack[d], produced)
  BY DEF TypeOK, SavesSound
<1>3. SavesIn(Tail(stack[d]), produced)
  BY <1>2, PopSaves
<1>4. SavesIn(stack'[e], produced)
  BY <1>3 DEF TypeOK, SavesSound
<1>5. QED
  BY <1>4, SavesMonotone

(* A call of d is pushed on, or replaces, the calls above below. *)
LEMMA EnterSaves ==
  ASSUME TypeOK, SavesSound, NEW d \in Daemons, NEW fr \in Frames,
         NEW below \in Seq(Frames), SavesIn(below, produced),
         stack' = [stack EXCEPT ![d] = Push(fr, below)],
         produced \subseteq produced',
         fr.at # "running" => <<fr.tbl[2], fr.key, fr.res>> \in produced'
  PROVE  SavesSound'
<1>1. SUFFICES ASSUME NEW e \in Daemons PROVE SavesIn(stack'[e], produced')
  BY DEF SavesSound
<1>2. SavesIn(below, produced')
  BY SavesMonotone
<1>3. SavesIn(Push(fr, below), produced')
  BY <1>2, PushSaves
<1>4. SavesIn(stack[e], produced')
  BY SavesMonotone DEF SavesSound
<1>5. QED
  BY <1>3, <1>4 DEF TypeOK

(* A write ends: the images keep their rows. *)
LEMMA SettleSound ==
  ASSUME TypeOK, ImagesSound, NEW d \in Daemons, NEW st \in {"whole", "torn"},
         swap' = Settle(swap, d, st), file' = Settle(file, d, st),
         produced' = produced
  PROVE  ImagesSound'
<1>1. \A f \in Funcs : /\ swap'[Path(f)].row = swap[Path(f)].row
                       /\ file'[Path(f)].row = file[Path(f)].row
  BY SettleRows DEF TypeOK
<1>2. QED
  BY <1>1 DEF ImagesSound, RowSound

LEMMA NextEntries == TypeOK /\ EntriesProduced /\ [Next]_vars => EntriesProduced'
<1> SUFFICES ASSUME TypeOK, TablesSound, ImagesSound, SavesSound, [Next]_vars
             PROVE  TablesSound' /\ ImagesSound' /\ SavesSound'
  BY EntriesParts DEF EntriesProduced, TablesSound, ImagesSound, SavesSound, SavesIn
<1> USE DEF memory
<1>1. ASSUME NEW d \in Daemons, NEW f \in Funcs, Memoize(d, f)
      PROVE  TablesSound' /\ ImagesSound' /\ SavesSound'
  <2>1. TablesSound'
    <3>1. CASE UNCHANGED table
      BY <1>1, <3>1 DEF Memoize, TablesSound, RowSound
    <3>2. CASE \E g \in Gens :
                 table' = [table EXCEPT ![<<d, f, g>>] = file[Path(f)].row]
      BY <1>1, <3>2 DEF Memoize, TablesSound, ImagesSound, RowSound, TypeOK, Tables
    <3>3. wraps[<<d, f>>] + 1 \in Gens
      BY <1>1, ConstantsOK DEF Memoize, TypeOK, Gens, Sites
    <3>4. QED
      BY <1>1, <3>1, <3>2, <3>3 DEF Memoize
  <2>2. QED
    BY <1>1, <2>1 DEF Memoize, ImagesSound, RowSound, SavesSound
<1>2. ASSUME NEW d \in Daemons, NEW f \in Funcs, Restore(d, f)
      PROVE  TablesSound' /\ ImagesSound' /\ SavesSound'
  BY <1>2 DEF Restore, TablesSound, ImagesSound, RowSound, SavesSound
<1>3. ASSUME NEW d \in Daemons, NEW f \in Funcs, NEW k \in Args, CallHit(d, f, k)
      PROVE  TablesSound' /\ ImagesSound' /\ SavesSound'
  BY <1>3 DEF CallHit, TablesSound, ImagesSound, RowSound, SavesSound
<1>4. ASSUME NEW d \in Daemons, NEW f \in Funcs, NEW k \in Args, CallMiss(d, f, k)
      PROVE  TablesSound' /\ ImagesSound' /\ SavesSound'
  <2> DEFINE fr == [tbl |-> <<d, f, active[<<d, f>>]>>, key |-> k,
                    res |-> Nil, at |-> "running"]
  <2>1. fr \in Frames
    BY <1>4, ConstantsOK DEF CallMiss, TypeOK, Tables, Sites, Gens, Frames
  <2>2. stack[d] \in Seq(Frames) /\ SavesIn(stack[d], produced)
    BY DEF TypeOK, SavesSound
  <2>3. stack' = [stack EXCEPT ![d] = Push(fr, stack[d])] /\ produced' = produced
    BY <1>4 DEF CallMiss
  <2>4. fr.at = "running"
    OBVIOUS
  <2>5. SavesSound'
    BY <2>1, <2>2, <2>3, <2>4, EnterSaves
  <2>6. QED
    BY <1>4, <2>5 DEF CallMiss, TablesSound, ImagesSound, RowSound
<1>5. ASSUME NEW d \in Daemons, NEW r \in Results, Return(d, r)
      PROVE  TablesSound' /\ ImagesSound' /\ SavesSound'
  <2>1. PICK fr \in Frames, rest \in Seq(Frames) :
          /\ fr = Head(stack[d]) /\ rest = Tail(stack[d])
          /\ SavesIn(rest, produced)
    BY <1>5, TopSaves DEF Return, At
  <2>2. PICK f \in Funcs : f = fr.tbl[2] /\ fr.tbl \in Tables /\ fr.key \in Args
    BY ShapeFacts DEF Frames
  <2>3. PICK row \in Rows : row = [table[fr.tbl] EXCEPT ![fr.key] = Stored(r)]
    BY <2>2, StoredType DEF TypeOK, Rows
  <2>4. /\ table' = [table EXCEPT ![fr.tbl] = row]
        /\ produced' = produced \cup {<<f, fr.key, r>>}
        /\ file' = file
    BY <1>5, <2>1, <2>2, <2>3 DEF Return
  <2>5. \A k \in Args : row[k] # Absent => <<f, k, Fetched(row[k])>> \in produced'
    BY <2>2, <2>3, <2>4, FetchedStored DEF TablesSound, RowSound, TypeOK, Rows
  <2>6. TablesSound'
    BY <2>2, <2>4, <2>5 DEF TablesSound, RowSound, TypeOK
  <2>7. swap' = swap \/ swap' = [swap EXCEPT ![Path(f)] = NoImage]
    BY <1>5, <2>1, <2>2 DEF Return
  <2>8. ImagesSound'
    <3>1. \A g \in Funcs : swap'[Path(g)] = swap[Path(g)] \/ swap'[Path(g)] = NoImage
      BY <2>7, ShapeFacts DEF TypeOK
    <3>2. QED
      BY <2>4, <3>1 DEF ImagesSound, RowSound, NoImage, EmptyRow
  <2>9. SavesSound'
    <3>1. PICK new \in Frames :
            /\ stack' = [stack EXCEPT ![d] = Push(new, rest)]
            /\ new.tbl = fr.tbl /\ new.key = fr.key /\ new.res = r
      <4>1. \A place \in {"opening", "renaming"} :
              /\ [fr EXCEPT !.res = r, !.at = place] \in Frames
              /\ [fr EXCEPT !.res = r, !.at = place].tbl = fr.tbl
              /\ [fr EXCEPT !.res = r, !.at = place].key = fr.key
              /\ [fr EXCEPT !.res = r, !.at = place].res = r
        BY DEF Frames
      <4>2. \E place \in {"opening", "renaming"} : stack' =
              [stack EXCEPT ![d] = Push([fr EXCEPT !.res = r, !.at = place], rest)]
        BY <1>5, <2>1 DEF Return
      <4>3. QED
        BY <4>1, <4>2
    <3>2. <<new.tbl[2], new.key, new.res>> \in produced'
      BY <2>2, <2>4, <3>1
    <3>3. QED
      BY <2>1, <2>4, <3>1, <3>2, EnterSaves
  <2>10. QED
    BY <2>6, <2>8, <2>9
<1>6. ASSUME NEW d \in Daemons, Fail(d)
      PROVE  TablesSound' /\ ImagesSound' /\ SavesSound'
  <2>1. SavesSound'
    BY <1>6, LeaveSaves DEF Fail, Leave, At
  <2>2. QED
    BY <1>6, <2>1 DEF Fail, TablesSound, ImagesSound, RowSound
<1>7. ASSUME NEW d \in Daemons, EndWrite(d)
      PROVE  TablesSound' /\ ImagesSound' /\ SavesSound'
  <2>1. PICK fr \in Frames, rest \in Seq(Frames) :
          /\ fr = Head(stack[d]) /\ rest = Tail(stack[d])
          /\ SavesIn(rest, produced)
          /\ fr.at # "running" => <<fr.tbl[2], fr.key, fr.res>> \in produced
    BY <1>7, TopSaves DEF EndWrite, At
  <2>2. PICK new \in Frames :
          /\ new = [fr EXCEPT !.at = "renaming"]
          /\ new.tbl = fr.tbl /\ new.key = fr.key /\ new.res = fr.res
    <3>1. [fr EXCEPT !.at = "renaming"] \in Frames
      BY DEF Frames
    <3>2. QED
      BY <3>1 DEF Frames
  <2>3. fr.at = "writing" /\ produced' = produced
        /\ stack' = [stack EXCEPT ![d] = Push(new, rest)]
    BY <1>7, <2>1, <2>2 DEF EndWrite, At
  <2>4. <<new.tbl[2], new.key, new.res>> \in produced'
    BY <2>1, <2>2, <2>3
  <2>5. SavesSound'
    BY <2>1, <2>3, <2>4, EnterSaves
  <2>6. ImagesSound'
    BY <1>7, SettleSound DEF EndWrite
  <2>7. QED
    BY <1>7, <2>5, <2>6 DEF EndWrite, TablesSound, RowSound
<1>8. ASSUME NEW d \in Daemons, Rename(d)
      PROVE  TablesSound' /\ ImagesSound' /\ SavesSound'
  <2>1. SavesSound'
    BY <1>8, LeaveSaves DEF Rename, Leave, At
  <2>2. Head(stack[d]).tbl[2] \in Funcs
    BY <1>8, TopFacts, ShapeFacts DEF Rename, At
  <2>3. ImagesSound'
    BY <1>8, <2>2, PathInjective, ShapeFacts
       DEF Rename, ImagesSound, RowSound, TypeOK, NoImage, EmptyRow
  <2>4. QED
    BY <1>8, <2>1, <2>3 DEF Rename, TablesSound, RowSound
<1>9. ASSUME NEW d \in Daemons, RenameFails(d)
      PROVE  TablesSound' /\ ImagesSound' /\ SavesSound'
  <2>1. SavesSound'
    BY <1>9, LeaveSaves DEF RenameFails, Leave, At
  <2>2. QED
    BY <1>9, <2>1 DEF RenameFails, TablesSound, ImagesSound, RowSound
<1>10. ASSUME NEW d \in Daemons, Restart(d)
       PROVE  TablesSound' /\ ImagesSound' /\ SavesSound'
  <2>1. TablesSound'
    BY <1>10 DEF Restart, TablesSound, RowSound, EmptyRow
  <2>2. ImagesSound'
    BY <1>10, SettleSound DEF Restart
  <2>3. SavesSound'
    BY <1>10, EmptySeq DEF Restart, SavesSound, SavesIn, TypeOK
  <2>4. QED
    BY <2>1, <2>2, <2>3
<1>11. ASSUME NEW t \in Tables, NEW k \in Args, TimerFires(t, k)
       PROVE  TablesSound' /\ ImagesSound' /\ SavesSound'
  <2>1. TablesSound'
    <3>1. CASE UNCHANGED table
      BY <1>11, <3>1 DEF TimerFires, TablesSound, RowSound
    <3>2. CASE \E b \in Bindings(t[1]) : table' = [table EXCEPT ![t] = Without(@, b)]
      BY <1>11, <3>2 DEF TimerFires, TablesSound, RowSound, TypeOK, Without
    <3>3. QED
      BY <1>11, <3>1, <3>2 DEF TimerFires
  <2>2. QED
    BY <1>11, <2>1 DEF TimerFires, ImagesSound, RowSound, SavesSound
<1>12. ASSUME NEW d \in Daemons, Open(d)
       PROVE  TablesSound' /\ ImagesSound' /\ SavesSound'
  <2>1. PICK fr \in Frames, rest \in Seq(Frames) :
          /\ fr = Head(stack[d]) /\ rest = Tail(stack[d])
          /\ SavesIn(rest, produced)
          /\ fr.at # "running" => <<fr.tbl[2], fr.key, fr.res>> \in produced
    BY <1>12, TopSaves, OpenEffect
  <2>2. PICK f \in Funcs : f = fr.tbl[2] /\ fr.tbl \in Tables
    BY ShapeFacts DEF Frames
  <2>3. table' = table /\ file' = file /\ produced' = produced
    BY <1>12 DEF Open
  <2>4. ImagesSound'
    <3>1. RowSound(f, table[fr.tbl])
      BY <2>2 DEF TablesSound
    <3>2. \A g \in Funcs : RowSound(g, swap'[Path(g)].row)
      <4>1. CASE swap' = swap
        BY <4>1 DEF ImagesSound
      <4>2. CASE \E img \in Images :
                   /\ swap' = [swap EXCEPT ![Path(f)] = img]
                   /\ img.row = swap[Path(f)].row \/ img.row = table[fr.tbl]
        BY <3>1, <4>2, PathInjective, ShapeFacts DEF ImagesSound, TypeOK
      <4>3. QED
        BY <1>12, <2>1, <2>2, <4>1, <4>2, OpenEffect
    <3>3. QED
      BY <2>3, <3>2 DEF ImagesSound, RowSound
  <2>5. SavesSound'
    <3>1. PICK new \in Frames :
            /\ stack' = [stack EXCEPT ![d] = Push(new, rest)]
            /\ new.tbl = fr.tbl /\ new.key = fr.key /\ new.res = fr.res
      <4>1. \A place \in {"writing", "renaming"} :
              /\ [fr EXCEPT !.at = place] \in Frames
              /\ [fr EXCEPT !.at = place].tbl = fr.tbl
              /\ [fr EXCEPT !.at = place].key = fr.key
              /\ [fr EXCEPT !.at = place].res = fr.res
        BY DEF Frames
      <4>2. \E place \in {"writing", "renaming"} :
              stack' = [stack EXCEPT ![d] = Push([fr EXCEPT !.at = place], rest)]
        BY <1>12, <2>1, OpenEffect
      <4>3. QED
        BY <4>1, <4>2
    <3>2. fr.at = "opening"
      BY <1>12, <2>1, OpenEffect
    <3>3. <<new.tbl[2], new.key, new.res>> \in produced'
      BY <2>1, <2>3, <3>1, <3>2
    <3>4. QED
      BY <2>1, <2>3, <3>1, <3>3, EnterSaves
  <2>6. QED
    BY <2>3, <2>4, <2>5 DEF TablesSound, RowSound
<1>13. CASE UNCHANGED vars
  BY <1>13 DEF vars, TablesSound, ImagesSound, RowSound, SavesSound
<1>14. QED
  BY <1>1, <1>2, <1>3, <1>4, <1>5, <1>6, <1>7, <1>8, <1>9, <1>10, <1>11,
     <1>12, <1>13 DEF Next

(* Whatever the daemons, restarts and disk errors do, every entry of every *)
(* table and file, and every result being saved, was returned by its own   *)
(* function for its own arguments.                                         *)
THEOREM EntriesSound == Spec => []EntriesProduced
BY InitType, NextType, InitEntries, NextEntries, PTL DEF Spec

----------------------------------------------------------------------------
(* The promise. *)

LEMMA InitPromise == Init => MP!Init
BY DEF Init, MP!Init

LEMMA NextPromise ==
  TypeOK /\ EntriesProduced /\ [Next]_vars => [MP!Next]_(MP!promiseVars)
<1> SUFFICES ASSUME TypeOK, TablesSound, SavesSound, [Next]_vars
             PROVE  MP!Next \/ UNCHANGED <<produced, reply>>
  BY EntriesParts DEF MP!promiseVars
<1> USE DEF MP!Next, MP!Compute, MP!Answer, MP!Refuse, memory
<1>1. ASSUME NEW d \in Daemons, NEW f \in Funcs, NEW k \in Args, CallHit(d, f, k)
      PROVE  MP!Answer
  <2>1. <<d, f, active[<<d, f>>]>> \in Tables
    BY <1>1, ConstantsOK DEF CallHit, TypeOK, Tables, Sites, Gens
  <2>2. <<f, k, Fetched(table[<<d, f, active[<<d, f>>]>>][k])>> \in produced
    BY <1>1, <2>1 DEF CallHit, TablesSound, RowSound
  <2>3. QED
    BY <1>1, <2>2 DEF CallHit
<1>2. ASSUME NEW d \in Daemons, NEW r \in Results, Return(d, r)
      PROVE  MP!Compute
  <2>1. Head(stack[d]).tbl[2] \in Funcs /\ Head(stack[d]).key \in Args
    BY <1>2, TopFacts, ShapeFacts DEF Return, At
  <2>2. QED
    BY <1>2, <2>1 DEF Return
<1>3. ASSUME NEW d \in Daemons, Rename(d)
      PROVE  MP!Answer
  <2>1. PICK fr \in Frames :
          /\ fr = Head(stack[d])
          /\ fr.at # "running" => <<fr.tbl[2], fr.key, fr.res>> \in produced
    BY <1>3, TopSaves DEF Rename, At
  <2>2. QED
    BY <1>3, <2>1 DEF Rename, Leave, At
<1>4. ASSUME NEW d \in Daemons, Fail(d) \/ RenameFails(d)
      PROVE  MP!Refuse
  <2>1. Head(stack[d]).tbl[2] \in Funcs /\ Head(stack[d]).key \in Args
    BY <1>4, TopFacts, ShapeFacts DEF Fail, RenameFails, At
  <2>2. QED
    BY <1>4, <2>1 DEF Fail, RenameFails, Leave
<1>5. ASSUME \/ UNCHANGED vars
             \/ \E d \in Daemons, f \in Funcs : Memoize(d, f) \/ Restore(d, f)
             \/ \E d \in Daemons, f \in Funcs, k \in Args : CallMiss(d, f, k)
             \/ \E d \in Daemons : Open(d) \/ EndWrite(d) \/ Restart(d)
             \/ \E t \in Tables, k \in Args : TimerFires(t, k)
      PROVE  UNCHANGED <<produced, reply>>
  BY <1>5 DEF vars, Memoize, Restore, CallMiss, Open, EndWrite, Restart, TimerFires
<1>6. QED
  BY <1>1, <1>2, <1>3, <1>4, <1>5 DEF Next

(* The wrappers implement the promise of a memoized function: every answer *)
(* is one that the original function gave for these arguments, or an error. *)
THEOREM PromiseKept == Spec => KeepsPromise
<1>1. Init => MP!Init
  BY InitPromise
<1>2. TypeOK /\ EntriesProduced /\ [Next]_vars => [MP!Next]_(MP!promiseVars)
  BY NextPromise
<1>3. QED
  BY <1>1, <1>2, TypeCorrect, EntriesSound, PTL DEF Spec, KeepsPromise, MP!Spec

----------------------------------------------------------------------------
(* Sessions. *)

(* The three parts of SessionShape. *)
AllRunning(calls) == \A i \in 1..Len(calls) : calls[i].at = "running"
CallsShaped(d, calls, built) ==
  \A i \in 1..Len(calls) :
    /\ calls[i].tbl[1] = d
    /\ calls[i].tbl[3] <= built[<<calls[i].tbl[1], calls[i].tbl[2]>>]
    /\ i > 1 => calls[i].at = "running"
StacksShaped == \A d \in Daemons : CallsShaped(d, stack[d], wraps)
ActiveBuilt == \A s \in Sites : active[s] <= wraps[s]
UnbuiltEmpty ==
  \A t \in Tables : t[3] > wraps[<<t[1], t[2]>>] => table[t] = EmptyRow

LEMMA ShapeParts ==
  SessionShape <=> StacksShaped /\ ActiveBuilt /\ UnbuiltEmpty
BY DEF SessionShape, StacksShaped, CallsShaped, ActiveBuilt, UnbuiltEmpty

LEMMA FrameTables ==
  ASSUME TypeOK, NEW d \in Daemons, NEW i \in 1..Len(stack[d])
  PROVE  stack[d][i] \in Frames /\ stack[d][i].tbl \in Tables
<1>1. stack[d][i] \in Frames
  BY ElementOfSeq DEF TypeOK
<1>2. QED
  BY <1>1 DEF Frames

LEMMA PopShape ==
  ASSUME NEW d \in Daemons, NEW calls \in Seq(Frames), calls # <<>>,
         NEW built, CallsShaped(d, calls, built)
  PROVE  CallsShaped(d, Tail(calls), built) /\ AllRunning(Tail(calls))
<1>1. \A i \in 1..Len(Tail(calls)) :
        i + 1 \in 2..Len(calls) /\ Tail(calls)[i] = calls[i + 1]
  BY PopElements, PopFacts
<1>2. ASSUME NEW i \in 1..Len(Tail(calls))
      PROVE  /\ Tail(calls)[i].at = "running"
             /\ Tail(calls)[i].tbl[1] = d
             /\ Tail(calls)[i].tbl[3] <= built[<<Tail(calls)[i].tbl[1], Tail(calls)[i].tbl[2]>>]
  <2>1. i + 1 \in 1..Len(calls) /\ i + 1 > 1 /\ Tail(calls)[i] = calls[i + 1]
    BY <1>1, PopFacts
  <2>2. QED
    BY <2>1 DEF CallsShaped
<1>3. QED
  BY <1>2 DEF CallsShaped, AllRunning

LEMMA PushShape ==
  ASSUME NEW d \in Daemons, NEW calls \in Seq(Frames), NEW fr \in Frames,
         NEW built, CallsShaped(d, calls, built), AllRunning(calls),
         fr.tbl[1] = d, fr.tbl[3] <= built[<<fr.tbl[1], fr.tbl[2]>>]
  PROVE  CallsShaped(d, Push(fr, calls), built)
<1>1. ASSUME NEW i \in 1..Len(Push(fr, calls))
      PROVE  /\ Push(fr, calls)[i].tbl[1] = d
             /\ Push(fr, calls)[i].tbl[3]
                  <= built[<<Push(fr, calls)[i].tbl[1], Push(fr, calls)[i].tbl[2]>>]
             /\ i > 1 => Push(fr, calls)[i].at = "running"
  <2>1. CASE i = 1 /\ Push(fr, calls)[i] = fr
    BY <2>1
  <2>2. CASE i > 1 /\ i - 1 \in 1..Len(calls) /\ Push(fr, calls)[i] = calls[i - 1]
    BY <2>2 DEF CallsShaped, AllRunning
  <2>3. QED
    BY <2>1, <2>2, PushElements
<1>2. QED
  BY <1>1 DEF CallsShaped

(* Whatever is entered is entered on running calls only. *)
LEMMA EnterRunning ==
  ASSUME TypeOK, StacksShaped, NEW d \in Daemons, CanEnter(d)
  PROVE  AllRunning(stack[d])
<1>1. stack[d] \in Seq(Frames) /\ CallsShaped(d, stack[d], wraps)
  BY DEF TypeOK, StacksShaped
<1>2. CASE stack[d] = <<>>
  BY <1>2 DEF AllRunning
<1>3. CASE stack[d] # <<>>
  <2>1. stack[d][1].at = "running"
    BY <1>1, <1>3, PopFacts DEF CanEnter
  <2>2. \A i \in 1..Len(stack[d]) : i = 1 \/ i > 1
    OBVIOUS
  <2>3. QED
    BY <1>1, <2>1, <2>2 DEF AllRunning, CallsShaped
<1>4. QED
  BY <1>2, <1>3

(* The top of a shaped stack and what is below it. *)
LEMMA TopShape ==
  ASSUME TypeOK, StacksShaped, NEW d \in Daemons, stack[d] # <<>>
  PROVE  \E fr \in Frames, rest \in Seq(Frames) :
           /\ fr = Head(stack[d]) /\ rest = Tail(stack[d])
           /\ fr.tbl \in Tables /\ fr.tbl[1] = d
           /\ fr.tbl[3] <= wraps[<<fr.tbl[1], fr.tbl[2]>>]
           /\ CallsShaped(d, rest, wraps) /\ AllRunning(rest)
<1>1. stack[d] \in Seq(Frames) /\ CallsShaped(d, stack[d], wraps)
  BY DEF TypeOK, StacksShaped
<1>2. CallsShaped(d, Tail(stack[d]), wraps) /\ AllRunning(Tail(stack[d]))
  BY <1>1, PopShape
<1>3. /\ Head(stack[d]) = stack[d][1] /\ 1 \in 1..Len(stack[d])
      /\ Head(stack[d]) \in Frames /\ Tail(stack[d]) \in Seq(Frames)
  BY <1>1, PopFacts
<1>4. Head(stack[d]).tbl \in Tables
  BY TopFacts
<1>5. QED
  BY <1>1, <1>2, <1>3, <1>4 DEF CallsShaped

LEMMA InitShape == Init => SessionShape
<1> SUFFICES ASSUME Init PROVE StacksShaped /\ ActiveBuilt /\ UnbuiltEmpty
  BY ShapeParts
<1>1. StacksShaped
  BY EmptySeq DEF Init, StacksShaped, CallsShaped
<1>2. QED
  BY <1>1 DEF Init, ActiveBuilt, UnbuiltEmpty

(* The innermost call of d ends, and nothing is built. *)
LEMMA LeaveShape ==
  ASSUME TypeOK, StacksShaped, NEW d \in Daemons, stack[d] # <<>>,
         stack' = [stack EXCEPT ![d] = Tail(@)], wraps' = wraps
  PROVE  StacksShaped'
<1>1. SUFFICES ASSUME NEW e \in Daemons PROVE CallsShaped(e, stack'[e], wraps)
  BY DEF StacksShaped
<1>2. CallsShaped(d, Tail(stack[d]), wraps)
  BY TopShape
<1>3. QED
  BY <1>2 DEF StacksShaped, TypeOK

(* A call is pushed on running calls, and nothing is built. *)
LEMMA EnterShape ==
  ASSUME TypeOK, StacksShaped, NEW d \in Daemons, NEW fr \in Frames,
         NEW below \in Seq(Frames), CallsShaped(d, below, wraps),
         AllRunning(below), fr.tbl[1] = d,
         fr.tbl[3] <= wraps[<<fr.tbl[1], fr.tbl[2]>>],
         stack' = [stack EXCEPT ![d] = Push(fr, below)], wraps' = wraps
  PROVE  StacksShaped'
<1>1. SUFFICES ASSUME NEW e \in Daemons PROVE CallsShaped(e, stack'[e], wraps)
  BY DEF StacksShaped
<1>2. CallsShaped(d, Push(fr, below), wraps)
  BY PushShape
<1>3. QED
  BY <1>2 DEF StacksShaped, TypeOK

LEMMA NextShape == TypeOK /\ SessionShape /\ [Next]_vars => SessionShape'
<1> SUFFICES ASSUME TypeOK, StacksShaped, ActiveBuilt, UnbuiltEmpty, [Next]_vars
             PROVE  StacksShaped' /\ ActiveBuilt' /\ UnbuiltEmpty'
  BY ShapeParts DEF SessionShape, StacksShaped, CallsShaped, ActiveBuilt, UnbuiltEmpty
<1> USE DEF memory
<1>1. ASSUME NEW d \in Daemons, NEW f \in Funcs, Memoize(d, f)
      PROVE  StacksShaped' /\ ActiveBuilt' /\ UnbuiltEmpty'
  <2>1. CASE UNCHANGED <<wraps, active, table>>
    BY <1>1, <2>1 DEF Memoize, StacksShaped, ActiveBuilt, UnbuiltEmpty
  <2> DEFINE g == wraps[<<d, f>>] + 1
  <2>2. CASE /\ wraps' = [wraps EXCEPT ![<<d, f>>] = g]
             /\ active' = [active EXCEPT ![<<d, f>>] = g]
             /\ table' = [table EXCEPT ![<<d, f, g>>] = file[Path(f)].row]
    <3>1. <<d, f>> \in Sites /\ wraps[<<d, f>>] \in Nat
      BY DEF Sites, TypeOK
    <3>2. \A s \in Sites : wraps[s] <= wraps'[s] /\ wraps[s] \in Nat
                           /\ wraps'[s] \in Nat
      <4>1. \A s \in Sites : wraps[s] \in Nat
        BY DEF TypeOK
      <4>2. \A s \in Sites : wraps'[s] = IF s = <<d, f>> THEN g ELSE wraps[s]
        BY <2>2 DEF TypeOK
      <4>3. QED
        BY <3>1, <4>1, <4>2
    <3>3. ActiveBuilt'
      BY <2>2, <3>1, <3>2 DEF ActiveBuilt, TypeOK
    <3>4. UnbuiltEmpty'
      <4>1. SUFFICES ASSUME NEW t \in Tables, t[3] > wraps'[<<t[1], t[2]>>]
                     PROVE  table'[t] = EmptyRow
        BY DEF UnbuiltEmpty
      <4>2. t[3] \in Nat /\ <<t[1], t[2]>> \in Sites
        BY ShapeFacts DEF Gens
      <4>3. t[3] > wraps[<<t[1], t[2]>>]
        BY <3>2, <4>1, <4>2
      <4>4. t # <<d, f, g>>
        BY <2>2, <3>1, <4>1, <4>2 DEF TypeOK
      <4>5. QED
        BY <2>2, <4>3, <4>4 DEF UnbuiltEmpty, TypeOK
    <3>5. StacksShaped'
      <4>1. stack' = stack
        BY <1>1 DEF Memoize
      <4>2. ASSUME NEW e \in Daemons, NEW i \in 1..Len(stack[e])
            PROVE  stack[e][i].tbl[3]
                     <= wraps'[<<stack[e][i].tbl[1], stack[e][i].tbl[2]>>]
        <5>1. PICK t \in Tables : t = stack[e][i].tbl
          BY FrameTables
        <5>2. t[3] \in Nat /\ <<t[1], t[2]>> \in Sites
          BY ShapeFacts DEF Gens
        <5>3. t[3] <= wraps[<<t[1], t[2]>>]
          BY <5>1 DEF StacksShaped, CallsShaped
        <5>4. QED
          BY <3>2, <5>1, <5>2, <5>3
      <4>3. QED
        BY <4>1, <4>2 DEF StacksShaped, CallsShaped
    <3>6. QED
      BY <3>3, <3>4, <3>5
  <2>3. QED
    BY <1>1, <2>1, <2>2 DEF Memoize
<1>2. ASSUME NEW d \in Daemons, NEW f \in Funcs, Restore(d, f)
      PROVE  StacksShaped' /\ ActiveBuilt' /\ UnbuiltEmpty'
  <2>1. ActiveBuilt'
    BY <1>2 DEF Restore, ActiveBuilt, TypeOK
  <2>2. QED
    BY <1>2, <2>1 DEF Restore, StacksShaped, UnbuiltEmpty
<1>3. ASSUME NEW d \in Daemons, NEW f \in Funcs, NEW k \in Args, CallHit(d, f, k)
      PROVE  StacksShaped' /\ ActiveBuilt' /\ UnbuiltEmpty'
  BY <1>3 DEF CallHit, StacksShaped, ActiveBuilt, UnbuiltEmpty
<1>4. ASSUME NEW d \in Daemons, NEW f \in Funcs, NEW k \in Args, CallMiss(d, f, k)
      PROVE  StacksShaped' /\ ActiveBuilt' /\ UnbuiltEmpty'
  <2> DEFINE new == [tbl |-> <<d, f, active[<<d, f>>]>>, key |-> k,
                     res |-> Nil, at |-> "running"]
  <2>1. new \in Frames
    BY <1>4, ConstantsOK DEF CallMiss, TypeOK, Tables, Sites, Gens, Frames
  <2>2. new.tbl[1] = d /\ new.tbl[3] <= wraps[<<new.tbl[1], new.tbl[2]>>]
    BY DEF ActiveBuilt, Sites
  <2>3. AllRunning(stack[d])
    BY <1>4, EnterRunning DEF CallMiss
  <2>4. stack[d] \in Seq(Frames) /\ CallsShaped(d, stack[d], wraps)
    BY DEF TypeOK, StacksShaped
  <2>5. stack' = [stack EXCEPT ![d] = Push(new, stack[d])] /\ wraps' = wraps
    BY <1>4 DEF CallMiss
  <2>6. StacksShaped'
    BY <2>1, <2>2, <2>3, <2>4, <2>5, EnterShape
  <2>7. QED
    BY <1>4, <2>6 DEF CallMiss, ActiveBuilt, UnbuiltEmpty
<1>5. ASSUME NEW d \in Daemons, NEW r \in Results, Return(d, r)
      PROVE  StacksShaped' /\ ActiveBuilt' /\ UnbuiltEmpty'
  <2>1. PICK fr \in Frames, rest \in Seq(Frames) :
          /\ fr = Head(stack[d]) /\ rest = Tail(stack[d])
          /\ fr.tbl \in Tables /\ fr.tbl[1] = d
          /\ fr.tbl[3] <= wraps[<<fr.tbl[1], fr.tbl[2]>>]
          /\ CallsShaped(d, rest, wraps) /\ AllRunning(rest)
    BY <1>5, TopShape DEF Return, At
  <2>2. PICK new \in Frames :
          /\ stack' = [stack EXCEPT ![d] = Push(new, rest)]
          /\ new.tbl = fr.tbl
    <3>1. \A place \in {"opening", "renaming"} :
            /\ [fr EXCEPT !.res = r, !.at = place] \in Frames
            /\ [fr EXCEPT !.res = r, !.at = place].tbl = fr.tbl
      BY DEF Frames
    <3>2. \E place \in {"opening", "renaming"} : stack' =
            [stack EXCEPT ![d] = Push([fr EXCEPT !.res = r, !.at = place], rest)]
      BY <1>5, <2>1 DEF Return
    <3>3. QED
      BY <3>1, <3>2
  <2>3. wraps' = wraps /\ active' = active
    BY <1>5 DEF Return
  <2>4. StacksShaped'
    BY <2>1, <2>2, <2>3, EnterShape
  <2>5. UnbuiltEmpty'
    <3>1. \A t \in Tables : t # fr.tbl => table'[t] = table[t]
      BY <1>5, <2>1 DEF Return, TypeOK
    <3>2. ~(fr.tbl[3] > wraps[<<fr.tbl[1], fr.tbl[2]>>])
      BY <2>1, ShapeFacts DEF Gens, TypeOK
    <3>3. QED
      BY <2>3, <3>1, <3>2 DEF UnbuiltEmpty
  <2>6. QED
    BY <2>3, <2>4, <2>5 DEF ActiveBuilt
<1>6. ASSUME NEW d \in Daemons, Fail(d) \/ Rename(d) \/ RenameFails(d)
      PROVE  StacksShaped' /\ ActiveBuilt' /\ UnbuiltEmpty'
  <2>1. StacksShaped'
    BY <1>6, LeaveShape DEF Fail, Rename, RenameFails, Leave, At
  <2>2. QED
    BY <1>6, <2>1 DEF Fail, Rename, RenameFails, ActiveBuilt, UnbuiltEmpty
<1>7. ASSUME NEW d \in Daemons, Open(d) \/ EndWrite(d)
      PROVE  StacksShaped' /\ ActiveBuilt' /\ UnbuiltEmpty'
  <2>1. PICK fr \in Frames, rest \in Seq(Frames) :
          /\ fr = Head(stack[d]) /\ rest = Tail(stack[d])
          /\ fr.tbl[1] = d /\ fr.tbl[3] <= wraps[<<fr.tbl[1], fr.tbl[2]>>]
          /\ CallsShaped(d, rest, wraps) /\ AllRunning(rest)
    BY <1>7, TopShape DEF Open, EndWrite, At
  <2>2. PICK new \in Frames :
          /\ stack' = [stack EXCEPT ![d] = Push(new, rest)]
          /\ new.tbl = fr.tbl
    <3>1. \A place \in {"writing", "renaming"} :
            [fr EXCEPT !.at = place] \in Frames /\ [fr EXCEPT !.at = place].tbl = fr.tbl
      BY DEF Frames
    <3>2. \E place \in {"writing", "renaming"} :
            stack' = [stack EXCEPT ![d] = Push([fr EXCEPT !.at = place], rest)]
      BY <1>7, <2>1, OpenEffect DEF EndWrite
    <3>3. QED
      BY <3>1, <3>2
  <2>3. wraps' = wraps
    BY <1>7 DEF Open, EndWrite
  <2>4. StacksShaped'
    BY <2>1, <2>2, <2>3, EnterShape
  <2>5. QED
    BY <1>7, <2>4 DEF Open, EndWrite, ActiveBuilt, UnbuiltEmpty
<1>8. ASSUME NEW d \in Daemons, Restart(d)
      PROVE  StacksShaped' /\ ActiveBuilt' /\ UnbuiltEmpty'
  <2>1. StacksShaped'
    <3>1. stack'[d] = <<>> /\ \A e \in Daemons : e # d => stack'[e] = stack[e]
      BY <1>8 DEF Restart, TypeOK
    <3>2. \A e \in Daemons, f \in Funcs : e # d => wraps'[<<e, f>>] = wraps[<<e, f>>]
      BY <1>8 DEF Restart, Sites
    <3>3. SUFFICES ASSUME NEW e \in Daemons, e # d, NEW i \in 1..Len(stack[e])
                   PROVE  wraps'[<<stack[e][i].tbl[1], stack[e][i].tbl[2]>>]
                            = wraps[<<stack[e][i].tbl[1], stack[e][i].tbl[2]>>]
      BY <3>1, EmptySeq DEF StacksShaped, CallsShaped
    <3>4. stack[e][i].tbl \in Tables /\ stack[e][i].tbl[1] = e
      BY <3>3, FrameTables DEF StacksShaped, CallsShaped
    <3>5. QED
      BY <3>2, <3>3, <3>4, ShapeFacts
  <2>2. ActiveBuilt'
    BY <1>8 DEF Restart, ActiveBuilt
  <2>3. UnbuiltEmpty'
    BY <1>8, ShapeFacts DEF Restart, UnbuiltEmpty
  <2>4. QED
    BY <2>1, <2>2, <2>3
<1>9. ASSUME NEW t \in Tables, NEW k \in Args, TimerFires(t, k)
      PROVE  StacksShaped' /\ ActiveBuilt' /\ UnbuiltEmpty'
  <2>1. UnbuiltEmpty'
    <3>1. \A b : Without(EmptyRow, b) = EmptyRow
      BY DEF Without, EmptyRow
    <3>2. QED
      BY <1>9, <3>1 DEF TimerFires, UnbuiltEmpty, TypeOK
  <2>2. QED
    BY <1>9, <2>1 DEF TimerFires, StacksShaped, ActiveBuilt
<1>10. CASE UNCHANGED vars
  BY <1>10 DEF vars, StacksShaped, ActiveBuilt, UnbuiltEmpty
<1>11. QED
  BY <1>1, <1>2, <1>3, <1>4, <1>5, <1>6, <1>7, <1>8, <1>9, <1>10 DEF Next

(* Calls belong to tables their own daemon has built, only the innermost   *)
(* one of a daemon can be saving, and tables not built yet are empty.      *)
THEOREM SessionsShaped == Spec => []SessionShape
BY InitType, NextType, InitShape, NextShape, PTL DEF Spec

LEMMA NextEvictions ==
  TypeOK /\ SessionShape /\ [Next]_vars =>
    \A t \in Tables, k \in Args :
      table[t][k] # Absent /\ table'[t][k] = Absent =>
        \/ wraps'[<<t[1], t[2]>>] < wraps[<<t[1], t[2]>>]
        \/ ~(armed[t] \subseteq armed'[t]) /\ k \in Bindings(t[1])
<1> SUFFICES ASSUME TypeOK, ActiveBuilt, UnbuiltEmpty, [Next]_vars,
                    NEW t \in Tables, NEW k \in Args,
                    table[t][k] # Absent, table'[t][k] = Absent
             PROVE  \/ wraps'[<<t[1], t[2]>>] < wraps[<<t[1], t[2]>>]
                    \/ ~(armed[t] \subseteq armed'[t]) /\ k \in Bindings(t[1])
  BY ShapeParts
<1> USE DEF memory
<1>1. /\ t[3] \in Nat /\ <<t[1], t[2]>> \in Sites /\ t[3] > 0
      /\ wraps[<<t[1], t[2]>>] \in Nat
  BY ShapeFacts DEF Gens, TypeOK
<1>2. ~(t[3] > wraps[<<t[1], t[2]>>])
  BY DEF UnbuiltEmpty, EmptyRow
<1>3. ASSUME NEW d \in Daemons, NEW f \in Funcs, Memoize(d, f) PROVE FALSE
  <2>1. t # <<d, f, wraps[<<d, f>>] + 1>>
    BY <1>1, <1>2
  <2>2. QED
    BY <1>3, <2>1 DEF Memoize, TypeOK
<1>4. ASSUME NEW d \in Daemons, NEW r \in Results, Return(d, r) PROVE FALSE
  <2>1. Head(stack[d]).tbl \in Tables /\ Head(stack[d]).key \in Args
    BY <1>4, TopFacts DEF Return, At
  <2>2. QED
    BY <1>4, <2>1, StoredType DEF Return, TypeOK, Rows
<1>5. ASSUME NEW d \in Daemons, Restart(d)
      PROVE  wraps'[<<t[1], t[2]>>] < wraps[<<t[1], t[2]>>]
  <2>1. t[1] = d
    BY <1>5 DEF Restart, TypeOK
  <2>2. wraps'[<<t[1], t[2]>>] = 0
    BY <1>1, <1>5, <2>1 DEF Restart
  <2>3. QED
    BY <1>1, <1>2, <2>2
<1>6. ASSUME NEW u \in Tables, NEW j \in Args, TimerFires(u, j)
      PROVE  ~(armed[t] \subseteq armed'[t]) /\ k \in Bindings(t[1])
  <2>1. PICK b \in Bindings(u[1]) : table' = [table EXCEPT ![u] = Without(@, b)]
    BY <1>6 DEF TimerFires
  <2>2. u = t /\ b = k
    BY <2>1 DEF TypeOK, Without
  <2>3. j \in armed[u] /\ j \notin armed'[u]
    BY <1>6 DEF TimerFires, TypeOK
  <2>4. QED
    BY <2>1, <2>2, <2>3
<1>7. ASSUME \/ UNCHANGED vars
             \/ \E d \in Daemons, f \in Funcs : Restore(d, f)
             \/ \E d \in Daemons, f \in Funcs, j \in Args :
                  CallHit(d, f, j) \/ CallMiss(d, f, j)
             \/ \E d \in Daemons :
                  Fail(d) \/ Open(d) \/ EndWrite(d) \/ Rename(d) \/ RenameFails(d)
      PROVE  FALSE
  BY <1>7, ZenonT(30) DEF vars, Restore, CallHit, CallMiss, Fail, Open, EndWrite, Rename,
              RenameFails
<1>8. QED
  BY <1>3, <1>4, <1>5, <1>6, <1>7 DEF Next

(* An entry leaves a table only when its daemon restarts, or when a timer  *)
(* of that table fires while `args' is bound to the entry's key, whatever  *)
(* functions bind it: it is not the key of the timer that decides.         *)
THEOREM Evictions == Spec => EvictionNeedsBinding
<1>1. TypeOK /\ SessionShape /\ [Next]_vars =>
        [\A t \in Tables, k \in Args :
           table[t][k] # Absent /\ table'[t][k] = Absent =>
             \/ wraps'[<<t[1], t[2]>>] < wraps[<<t[1], t[2]>>]
             \/ ~(armed[t] \subseteq armed'[t]) /\ k \in Bindings(t[1])]_vars
  BY NextEvictions
<1>2. QED
  BY <1>1, TypeCorrect, SessionsShaped, PTL DEF Spec, EvictionNeedsBinding

=============================================================================
