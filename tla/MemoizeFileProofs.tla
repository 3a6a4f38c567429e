------------------------- MODULE MemoizeFileProofs -------------------------
(***************************************************************************)
(* What Memoize guarantees about the files: who is writing an inode, when  *)
(* a cache file can be read, and what a restart keeps.                     *)
(***************************************************************************)
EXTENDS MemoizeProofs

----------------------------------------------------------------------------
(* What each action does to the stack and to the files, in rigid terms. *)

(* A push shows on top of d's stack and nowhere else. *)
LEMMA PushStep ==
  ASSUME TypeOK, NEW d \in Daemons, NEW fr \in Frames,
         NEW below \in Seq(Frames),
         stack' = [stack EXCEPT ![d] = Push(fr, below)]
  PROVE  /\ stack'[d] # <<>> /\ Head(stack'[d]) = fr
         /\ \A e \in Daemons : e # d => stack'[e] = stack[e]
<1>1. /\ stack'[d] = Push(fr, below)
      /\ \A e \in Daemons : e # d => stack'[e] = stack[e]
  BY DEF TypeOK
<1>2. Push(fr, below) # <<>> /\ Head(Push(fr, below)) = fr
  BY PushFacts
<1>3. QED
  BY <1>1, <1>2

LEMMA CallMissStep ==
  ASSUME TypeOK, NEW d \in Daemons, NEW f \in Funcs, NEW k \in Args,
         CallMiss(d, f, k)
  PROVE  \E new \in Frames :
           /\ new.at = "running"
           /\ stack'[d] # <<>> /\ Head(stack'[d]) = new
           /\ \A e \in Daemons : e # d => stack'[e] = stack[e]
<1> DEFINE new == [tbl |-> <<d, f, active[<<d, f>>]>>, key |-> k,
                   res |-> Nil, at |-> "running"]
<1>1. new \in Frames
  BY ConstantsOK DEF CallMiss, TypeOK, Tables, Sites, Gens, Frames
<1>2. stack' = [stack EXCEPT ![d] = Push(new, stack[d])]
  BY DEF CallMiss
<1>3. stack[d] \in Seq(Frames)
  BY DEF TypeOK
<1>4. /\ stack'[d] # <<>> /\ Head(stack'[d]) = new
      /\ \A e \in Daemons : e # d => stack'[e] = stack[e]
  BY <1>1, <1>2, <1>3, PushStep
<1>5. QED
  BY <1>1, <1>4

(* The innermost call fr of d, of the function f, becomes new. *)
Advances(d, fr, new, f) ==
  /\ stack[d] # <<>> /\ fr = Head(stack[d])
  /\ fr.tbl \in Tables /\ f = fr.tbl[2] /\ new.tbl = fr.tbl
  /\ stack'[d] # <<>> /\ Head(stack'[d]) = new
  /\ \A e \in Daemons : e # d => stack'[e] = stack[e]

(* It starts to save the row: the swap file is deleted, or that fails. *)
StartsSave(new, f) ==
  \/ new.at = "opening" /\ swap' = [swap EXCEPT ![Path(f)] = NoImage]
  \/ DiskFaults /\ new.at = "renaming" /\ swap' = swap

(* It opens the swap file, which becomes img: d writes to it alone, or as  *)
(* one more writer; or the disk fails.                                     *)
OpensSwap(d, fr, new, f, img) ==
  \/ /\ new.at = "writing"
     /\ swap' = [swap EXCEPT ![Path(f)] = img]
     /\ \/ /\ swap[Path(f)].by = {}
           /\ img = [st |-> "writing", by |-> {d}, row |-> table[fr.tbl]]
        \/ /\ swap[Path(f)].by # {}
           /\ img.st = "mixed" /\ img.by = swap[Path(f)].by \cup {d}
  \/ DiskFaults /\ new.at = "renaming" /\ swap' = swap

LEMMA ReturnStep ==
  ASSUME TypeOK, NEW d \in Daemons, NEW r \in Results, Return(d, r)
  PROVE  \E fr \in Frames : \E new \in Frames : \E f \in Funcs : \E row \in Rows :
           /\ At(d, "running")
           /\ Advances(d, fr, new, f)
           /\ StartsSave(new, f)
           /\ table' = [table EXCEPT ![fr.tbl] = row]
<1>1. At(d, "running") /\ stack[d] # <<>>
  BY DEF Return, At
<1>2. PICK fr \in Frames, rest \in Seq(Frames) :
        fr = Head(stack[d]) /\ rest = Tail(stack[d])
  BY <1>1, TopFacts
<1>3. fr.tbl \in Tables /\ fr.key \in Args
  BY DEF Frames
<1>4. PICK f \in Funcs : f = fr.tbl[2]
  BY <1>3, ShapeFacts
<1>5. PICK row \in Rows : row = [table[fr.tbl] EXCEPT ![fr.key] = Stored(r)]
  BY <1>3, StoredType DEF TypeOK, Rows
<1>6. table' = [table EXCEPT ![fr.tbl] = row]
  BY <1>2, <1>5 DEF Return
<1>7. \A place \in {"opening", "renaming"} :
        /\ [fr EXCEPT !.res = r, !.at = place] \in Frames
        /\ [fr EXCEPT !.res = r, !.at = place].tbl = fr.tbl
        /\ [fr EXCEPT !.res = r, !.at = place].at = place
  BY DEF Frames
<1>8. \E place \in {"opening", "renaming"} :
        /\ stack' =
             [stack EXCEPT ![d] = Push([fr EXCEPT !.res = r, !.at = place], rest)]
        /\ \/ /\ place = "opening"
              /\ swap' = [swap EXCEPT ![Path(f)] = NoImage]
           \/ /\ DiskFaults
              /\ place = "renaming"
              /\ swap' = swap
  BY <1>2, <1>4 DEF Return
<1>9. PICK new \in Frames :
         /\ stack' = [stack EXCEPT ![d] = Push(new, rest)]
         /\ new.tbl = fr.tbl
         /\ \/ /\ new.at = "opening"
               /\ swap' = [swap EXCEPT ![Path(f)] = NoImage]
            \/ /\ DiskFaults
               /\ new.at = "renaming"
               /\ swap' = swap
  BY <1>7, <1>8
<1>10. /\ stack'[d] # <<>> /\ Head(stack'[d]) = new
       /\ \A e \in Daemons : e # d => stack'[e] = stack[e]
  BY <1>9, PushStep
<1> WITNESS fr \in Frames
<1> WITNESS new \in Frames
<1> WITNESS f \in Funcs
<1> WITNESS row \in Rows
<1>11. Advances(d, fr, new, f)
  BY <1>1, <1>2, <1>3, <1>4, <1>9, <1>10 DEF Advances
<1>12. StartsSave(new, f)
  BY <1>9 DEF StartsSave
<1>13. QED
  BY <1>1, <1>6, <1>11, <1>12

LEMMA OpenStep ==
  ASSUME TypeOK, NEW d \in Daemons, Open(d)
  PROVE  \E fr \in Frames : \E new \in Frames : \E f \in Funcs : \E img \in Images :
           /\ At(d, "opening")
           /\ Advances(d, fr, new, f)
           /\ OpensSwap(d, fr, new, f, img)
<1>1. At(d, "opening") /\ stack[d] # <<>>
  BY DEF Open, At
<1>2. PICK fr \in Frames, rest \in Seq(Frames) :
        fr = Head(stack[d]) /\ rest = Tail(stack[d])
  BY <1>1, TopFacts
<1>3. PICK f \in Funcs : f = fr.tbl[2] /\ fr.tbl \in Tables
  BY ShapeFacts DEF Frames
<1>4. PICK old \in Images : old = swap[Path(f)]
  BY ShapeFacts DEF TypeOK
<1>5. PICK mine \in Rows : mine = table[fr.tbl]
  BY <1>3 DEF TypeOK
<1>6. \A place \in {"writing", "renaming"} :
        /\ [fr EXCEPT !.at = place] \in Frames
        /\ [fr EXCEPT !.at = place].tbl = fr.tbl
        /\ [fr EXCEPT !.at = place].at = place
  BY DEF Frames
<1>7. ASSUME NEW place \in {"writing", "renaming"},
             stack' = [stack EXCEPT ![d] = Push([fr EXCEPT !.at = place], rest)]
      PROVE  \E new \in Frames : new.at = place /\ Advances(d, fr, new, f)
  <2>1. PICK new \in Frames :
          new = [fr EXCEPT !.at = place] /\ new.at = place /\ new.tbl = fr.tbl
    BY <1>6
  <2>2. stack' = [stack EXCEPT ![d] = Push(new, rest)]
    BY <1>7, <2>1
  <2>3. Advances(d, fr, new, f)
    BY <1>1, <1>2, <1>3, <2>1, <2>2, PushStep DEF Advances
  <2>4. QED
    BY <2>1, <2>3
<1>8. CASE /\ old.by = {}
           /\ swap' = [swap EXCEPT ![Path(f)] =
                         [st |-> "writing", by |-> {d}, row |-> mine]]
           /\ stack' = [stack EXCEPT ![d] = Push([fr EXCEPT !.at = "writing"], rest)]
  <2>1. PICK img \in Images : img = [st |-> "writing", by |-> {d}, row |-> mine]
    BY DEF Images
  <2>2. PICK new \in Frames : new.at = "writing" /\ Advances(d, fr, new, f)
    BY <1>7, <1>8
  <2> WITNESS fr \in Frames
  <2> WITNESS new \in Frames
  <2> WITNESS f \in Funcs
  <2> WITNESS img \in Images
  <2>3. QED
    BY <1>1, <1>4, <1>5, <1>8, <2>1, <2>2 DEF OpensSwap
<1>9. CASE \E row \in {old.row, mine} :
             /\ old.by # {}
             /\ swap' = [swap EXCEPT ![Path(f)] =
                           [st |-> "mixed", by |-> old.by \cup {d}, row |-> row]]
             /\ stack' = [stack EXCEPT ![d] = Push([fr EXCEPT !.at = "writing"], rest)]
  <2>1. PICK row \in {old.row, mine} :
          /\ old.by # {}
          /\ swap' = [swap EXCEPT ![Path(f)] =
                        [st |-> "mixed", by |-> old.by \cup {d}, row |-> row]]
          /\ stack' = [stack EXCEPT ![d] = Push([fr EXCEPT !.at = "writing"], rest)]
    BY <1>9
  <2>2. row \in Rows /\ old.by \cup {d} \in SUBSET Daemons
    BY DEF Images
  <2>3. PICK img \in Images :
          img = [st |-> "mixed", by |-> old.by \cup {d}, row |-> row]
    BY <2>2 DEF Images
  <2>4. PICK new \in Frames : new.at = "writing" /\ Advances(d, fr, new, f)
    BY <1>7, <2>1
  <2> WITNESS fr \in Frames
  <2> WITNESS new \in Frames
  <2> WITNESS f \in Funcs
  <2> WITNESS img \in Images
  <2>5. QED
    BY <1>1, <1>4, <2>1, <2>3, <2>4 DEF OpensSwap
<1>10. CASE /\ DiskFaults /\ swap' = swap
            /\ stack' = [stack EXCEPT ![d] = Push([fr EXCEPT !.at = "renaming"], rest)]
  <2>1. PICK new \in Frames : new.at = "renaming" /\ Advances(d, fr, new, f)
    BY <1>7, <1>10
  <2> WITNESS fr \in Frames
  <2> WITNESS new \in Frames
  <2> WITNESS f \in Funcs
  <2> WITNESS old \in Images
  <2>2. QED
    BY <1>1, <1>10, <2>1 DEF OpensSwap
<1>11. \A row : [swap EXCEPT ![Path(f)] =
                   [st |-> "mixed", by |-> @.by \cup {d}, row |-> row]]
                 = [swap EXCEPT ![Path(f)] =
                     [st |-> "mixed", by |-> old.by \cup {d}, row |-> row]]
  BY <1>4
<1>12. QED
  BY <1>2, <1>3, <1>4, <1>5, <1>8, <1>9, <1>10, <1>11 DEF Open

LEMMA EndWriteStep ==
  ASSUME TypeOK, NEW d \in Daemons, EndWrite(d)
  PROVE  \E fr, new \in Frames, st \in {"whole", "torn"} :
           /\ At(d, "writing") /\ fr = Head(stack[d]) /\ fr.tbl \in Tables
           /\ new.tbl = fr.tbl /\ new.at = "renaming"
           /\ stack'[d] # <<>> /\ Head(stack'[d]) = new
           /\ \A e \in Daemons : e # d => stack'[e] = stack[e]
           /\ swap' = Settle(swap, d, st) /\ file' = Settle(file, d, st)
           /\ st = "torn" => DiskFaults \/ Mixed(d)
<1>1. At(d, "writing") /\ stack[d] # <<>>
  BY DEF EndWrite, At
<1>2. PICK fr \in Frames, rest \in Seq(Frames) :
        fr = Head(stack[d]) /\ rest = Tail(stack[d])
  BY <1>1, TopFacts
<1>3. fr.tbl \in Tables /\ [fr EXCEPT !.at = "renaming"] \in Frames
  BY DEF Frames
<1>4. PICK new \in Frames : new = [fr EXCEPT !.at = "renaming"]
  BY <1>3
<1>5. new.tbl = fr.tbl /\ new.at = "renaming"
  BY <1>4 DEF Frames
<1>6. stack' = [stack EXCEPT ![d] = Push(new, rest)]
  BY <1>2, <1>4 DEF EndWrite
<1>7. PICK st \in {"whole", "torn"} :
        /\ swap' = Settle(swap, d, st) /\ file' = Settle(file, d, st)
        /\ st = "torn" => DiskFaults \/ Mixed(d)
  BY DEF EndWrite
<1>8. QED
  BY <1>1, <1>2, <1>3, <1>5, <1>6, <1>7, PushStep

(* The innermost call of d ends: the others stay, and what is below it, if *)
(* the session has its shape, is running.                                  *)
LEMMA LeaveStep ==
  ASSUME TypeOK, NEW d \in Daemons, stack[d] # <<>>,
         stack' = [stack EXCEPT ![d] = Tail(@)]
  PROVE  /\ stack'[d] = Tail(stack[d])
         /\ \A e \in Daemons : e # d => stack'[e] = stack[e]
BY DEF TypeOK

Settles(old, new, d, st) ==
  /\ new.by = old.by \ {d} /\ new.row = old.row
  /\ old.by = {d} => new.st = st
  /\ old.by # {d} => new.st = old.st
  /\ d \notin old.by => new = old

(* A write of d that ends leaves the images of others alone, and takes d   *)
(* from the writers of its own.                                            *)
LEMMA SettleStep ==
  ASSUME NEW images \in [Paths -> Images], NEW d \in Daemons,
         NEW st \in {"whole", "torn"}, NEW f \in Funcs
  PROVE  \E old \in Images : \E new \in Images :
           /\ old = images[Path(f)] /\ new = Settle(images, d, st)[Path(f)]
           /\ Settles(old, new, d, st)
<1>1. PICK old \in Images : old = images[Path(f)]
  BY ShapeFacts
<1>2. PICK new \in Images : new = Settle(images, d, st)[Path(f)]
  BY SettleType, ShapeFacts
<1>3. new = [old EXCEPT !.by = @ \ {d}, !.st = IF old.by = {d} THEN st ELSE @]
  BY <1>1, <1>2, ShapeFacts DEF Settle
<1>4. /\ new.by = old.by \ {d} /\ new.row = old.row
      /\ old.by = {d} => new.st = st
      /\ old.by # {d} => new.st = old.st
  BY <1>3 DEF Images
<1>5. d \notin old.by => new = old
  <2>1. SUFFICES ASSUME d \notin old.by PROVE new = old
    OBVIOUS
  <2>2. new.by = old.by /\ new.st = old.st /\ new.row = old.row
    BY <1>4, <2>1 DEF Images
  <2>3. QED
    BY <2>2 DEF Images
<1> WITNESS old \in Images
<1> WITNESS new \in Images
<1>6. QED
  BY <1>1, <1>2, <1>4, <1>5 DEF Settles

----------------------------------------------------------------------------
(* Writers. *)

Owned(f, img) ==
  /\ img.st \in {"writing", "mixed"} <=> img.by # {}
  /\ \A d \in img.by : At(d, "writing") /\ Head(stack[d]).tbl[2] = f
  /\ \A d, e \in img.by : d # e => img.st = "mixed"

LEMMA WriterParts ==
  WriterIsWriting <=>
    \A f \in Funcs : Owned(f, swap[Path(f)]) /\ Owned(f, file[Path(f)])
BY DEF WriterIsWriting, Owned

(* A step that leaves the stacks of all daemons but d alone: an image that *)
(* d is not writing stays owned.                                           *)
LEMMA OwnedElsewhere ==
  ASSUME NEW f \in Funcs, NEW img \in Images, Owned(f, img),
         NEW d, d \notin img.by,
         \A e \in Daemons : e # d => stack'[e] = stack[e]
  PROVE  Owned(f, img)'
<1>1. \A e \in img.by : stack'[e] = stack[e]
  BY DEF Images
<1>2. QED
  BY <1>1 DEF Owned, At

LEMMA OwnedAt ==
  ASSUME NEW f \in Funcs, NEW img \in Images, Owned(f, img),
         NEW d \in Daemons, ~At(d, "writing")
  PROVE  d \notin img.by
BY DEF Owned

(* The images of d settle: d does not write them any more. *)
LEMMA OwnedSettled ==
  ASSUME NEW images \in [Paths -> Images], NEW f \in Funcs,
         Owned(f, images[Path(f)]), NEW d \in Daemons,
         NEW st \in {"whole", "torn"},
         \A e \in Daemons : e # d => stack'[e] = stack[e],
         NEW img, img = Settle(images, d, st)[Path(f)]
  PROVE  Owned(f, img)'
<1>1. PICK old \in Images, new \in Images :
        old = images[Path(f)] /\ new = img /\ Settles(old, new, d, st)
  BY SettleStep
<1>2. /\ new = img
      /\ new.by = old.by \ {d}
      /\ old.by = {d} => new.st = st
      /\ old.by # {d} => new.st = old.st
  BY <1>1 DEF Settles
<1>3. Owned(f, old)
  BY <1>1
<1>4. \A e \in new.by : e \in old.by /\ stack'[e] = stack[e]
  BY <1>2 DEF Images
<1>5. \A e \in new.by : At(e, "writing")' /\ Head(stack'[e]).tbl[2] = f
  BY <1>3, <1>4 DEF Owned, At
<1>6. new.st \in {"writing", "mixed"} <=> new.by # {}
  BY <1>2, <1>3 DEF Owned
<1>7. \A e, g \in new.by : e # g => new.st = "mixed"
  BY <1>2, <1>3 DEF Owned
<1>8. QED
  BY <1>2, <1>5, <1>6, <1>7 DEF Owned

LEMMA InitWriters == Init => WriterIsWriting
BY ShapeFacts DEF Init, WriterIsWriting, NoImage

LEMMA NextWriters == TypeOK /\ WriterIsWriting /\ [Next]_vars => WriterIsWriting'
<1> SUFFICES ASSUME TypeOK, [Next]_vars, NEW f \in Funcs,
                    \A g \in Funcs : Owned(g, swap[Path(g)]) /\ Owned(g, file[Path(g)])
             PROVE  Owned(f, swap[Path(f)])' /\ Owned(f, file[Path(f)])'
  BY WriterParts DEF WriterIsWriting, Owned
<1> DEFINE Goal == Owned(f, swap[Path(f)])' /\ Owned(f, file[Path(f)])'
<1> SUFFICES Goal
  OBVIOUS
<1> USE DEF memory
<1>1. PICK sw, fi \in Images :
        sw = swap[Path(f)] /\ fi = file[Path(f)] /\ Owned(f, sw) /\ Owned(f, fi)
  BY ShapeFacts DEF TypeOK
<1>2. ASSUME NEW d \in Daemons, ~At(d, "writing"),
             \A e \in Daemons : e # d => stack'[e] = stack[e],
             NEW img \in Images, Owned(f, img)
      PROVE  Owned(f, img)'
  BY <1>2, OwnedAt, OwnedElsewhere
<1>3. ASSUME NEW d \in Daemons, NEW g \in Funcs, NEW k \in Args, CallMiss(d, g, k)
      PROVE  Goal
  <2>1. ~At(d, "writing")
    BY <1>3 DEF CallMiss, CanEnter, At
  <2>2. \A e \in Daemons : e # d => stack'[e] = stack[e]
    BY <1>3, CallMissStep
  <2>3. Owned(f, sw)' /\ Owned(f, fi)'
    BY <1>1, <1>2, <2>1, <2>2
  <2>4. swap' = swap /\ file' = file
    BY <1>3 DEF CallMiss
  <2>5. QED
    BY <1>1, <2>3, <2>4
<1>4. ASSUME NEW d \in Daemons, NEW r \in Results, Return(d, r)
      PROVE  Goal
  <2>1. PICK fr \in Frames, new \in Frames, g \in Funcs :
          At(d, "running") /\ Advances(d, fr, new, g) /\ StartsSave(new, g)
    BY <1>4, ReturnStep
  <2>2. ~At(d, "writing")
    BY <2>1 DEF At
  <2>3. Owned(f, sw)' /\ Owned(f, fi)' /\ Owned(f, NoImage)'
    BY <1>1, <1>2, <2>1, <2>2 DEF Owned, NoImage, Advances
  <2>4. file' = file
    BY <1>4 DEF Return
  <2>5. swap'[Path(f)] \in {sw, NoImage}
    BY <1>1, <2>1, ShapeFacts DEF StartsSave, TypeOK
  <2>6. QED
    BY <1>1, <2>3, <2>4, <2>5
<1>5. ASSUME NEW d \in Daemons, Open(d)
       PROVE  Goal
  <2>1. PICK fr \in Frames, new \in Frames, g \in Funcs, img \in Images :
          /\ At(d, "opening")
          /\ Advances(d, fr, new, g)
          /\ OpensSwap(d, fr, new, g, img)
    BY <1>5, OpenStep
  <2>2. ~At(d, "writing")
    BY <2>1 DEF At
  <2>3. Owned(f, sw)' /\ Owned(f, fi)'
    BY <1>1, <1>2, <2>1, <2>2 DEF Advances
  <2>4. file' = file
    BY <1>5 DEF Open
  <2>5. CASE swap'[Path(f)] = sw
    BY <1>1, <2>3, <2>4, <2>5
  <2>6. CASE f = g /\ swap' = [swap EXCEPT ![Path(g)] = img] /\ new.at = "writing"
    <3>1. swap'[Path(f)] = img
      BY <2>6, ShapeFacts DEF TypeOK
    <3>2. At(d, "writing")' /\ Head(stack'[d]).tbl[2] = f
      BY <2>1, <2>6 DEF Advances, At
    <3>3. CASE img = [st |-> "writing", by |-> {d}, row |-> table[fr.tbl]]
      <4>1. img.st = "writing" /\ img.by = {d}
        BY <3>3
      <4>2. Owned(f, img)'
        BY <3>2, <4>1 DEF Owned
      <4>3. QED
        BY <1>1, <2>3, <2>4, <3>1, <4>2
    <3>4. CASE img.st = "mixed" /\ img.by = sw.by \cup {d}
      <4>1. Owned(f, img)'
        BY <2>3, <3>2, <3>4 DEF Owned
      <4>2. QED
        BY <1>1, <2>3, <2>4, <3>1, <4>1
    <3>5. QED
      BY <1>1, <2>1, <2>5, <2>6, <3>1, <3>3, <3>4 DEF OpensSwap
  <2>7. swap'[Path(f)] = sw \/
          (f = g /\ swap' = [swap EXCEPT ![Path(g)] = img] /\ new.at = "writing")
    BY <1>1, <2>1, PathInjective, ShapeFacts DEF OpensSwap, TypeOK
  <2>8. QED
    BY <2>5, <2>6, <2>7
<1>6. ASSUME NEW d \in Daemons, EndWrite(d)
      PROVE  Goal
  <2>1. PICK st \in {"whole", "torn"} :
          /\ swap' = Settle(swap, d, st) /\ file' = Settle(file, d, st)
          /\ \A e \in Daemons : e # d => stack'[e] = stack[e]
    BY <1>6, EndWriteStep
  <2>2. QED
    BY <2>1, OwnedSettled DEF TypeOK
<1>7. ASSUME NEW d \in Daemons, Fail(d) \/ RenameFails(d)
      PROVE  Goal
  <2>1. ~At(d, "writing") /\ stack[d] # <<>>
    BY <1>7 DEF Fail, RenameFails, At
  <2>2. \A e \in Daemons : e # d => stack'[e] = stack[e]
    BY <1>7, <2>1, LeaveStep DEF Fail, RenameFails, Leave
  <2>3. Owned(f, sw)' /\ Owned(f, fi)'
    BY <1>1, <1>2, <2>1, <2>2
  <2>4. swap' = swap /\ file' = file
    BY <1>7 DEF Fail, RenameFails
  <2>5. QED
    BY <1>1, <2>3, <2>4
<1>8. ASSUME NEW d \in Daemons, Rename(d)
      PROVE  Goal
  <2>1. ~At(d, "writing") /\ stack[d] # <<>>
    BY <1>8 DEF Rename, At
  <2>2. \A e \in Daemons : e # d => stack'[e] = stack[e]
    BY <1>8, <2>1, LeaveStep DEF Rename, Leave
  <2>3. Owned(f, sw)' /\ Owned(f, fi)' /\ Owned(f, NoImage)'
    BY <1>1, <1>2, <2>1, <2>2 DEF Owned, NoImage
  <2>4. PICK g \in Funcs : /\ swap' = [swap EXCEPT ![Path(g)] = NoImage]
                           /\ file' = [file EXCEPT ![Path(g)] = swap[Path(g)]]
    BY <1>8, <2>1, TopFacts, ShapeFacts DEF Rename
  <2>5. /\ swap'[Path(f)] \in {sw, NoImage}
        /\ file'[Path(f)] \in {sw, fi}
    BY <1>1, <2>4, PathInjective, ShapeFacts DEF TypeOK
  <2>6. QED
    BY <2>3, <2>5
<1>9. ASSUME NEW d \in Daemons, Restart(d)
      PROVE  Goal
  <2>1. /\ swap' = Settle(swap, d, "torn") /\ file' = Settle(file, d, "torn")
        /\ \A e \in Daemons : e # d => stack'[e] = stack[e]
    BY <1>9 DEF Restart, TypeOK
  <2>2. QED
    BY <2>1, OwnedSettled DEF TypeOK
<1>10. ASSUME \/ UNCHANGED vars
              \/ \E d \in Daemons, g \in Funcs : Memoize(d, g) \/ Restore(d, g)
              \/ \E d \in Daemons, g \in Funcs, k \in Args : CallHit(d, g, k)
              \/ \E t \in Tables, k \in Args : TimerFires(t, k)
       PROVE  Goal
  <2>1. UNCHANGED <<stack, swap, file>>
    BY <1>10 DEF vars, Memoize, Restore, CallHit, TimerFires
  <2>2. QED
    BY <2>1 DEF Owned, At
<1> HIDE DEF Goal
<1>11. QED
  BY <1>3, <1>4, <1>5, <1>6, <1>7, <1>8, <1>9, <1>10 DEF Next

(* A file in the middle of a write has live writers, daemons whose         *)
(* innermost call is inside write-file for that function; and only one if  *)
(* it is not known to be mixed.                                            *)
THEOREM WritersLive == Spec => []WriterIsWriting
BY InitType, NextType, InitWriters, NextWriters, PTL DEF Spec

----------------------------------------------------------------------------
(* Several daemons on a disk that works, none killed. *)

(* No daemon writes to a swap file and to the cache file at once. *)
OneInode == \A f \in Funcs : swap[Path(f)].by \cap file[Path(f)].by = {}

(* A swap file is spoilt only while two daemons are saving its function. *)
Spoilt(f) == swap[Path(f)].st \in {"mixed", "torn"}
SpoiltNeedsTwo == \A f \in Funcs : Spoilt(f) => TwoSavers(f)

ShareInv == OneInode /\ SpoiltNeedsTwo

LEMMA KeepSavers ==
  ASSUME NEW f \in Funcs, TwoSavers(f),
         \A d \in Daemons : Saving(d, f) => Saving(d, f)'
  PROVE  TwoSavers(f)'
BY DEF TwoSavers

LEMMA SavingElsewhere ==
  ASSUME NEW d \in Daemons, NEW f \in Funcs, stack'[d] = stack[d], Saving(d, f)
  PROVE  Saving(d, f)'
BY DEF Saving, At

(* The call of d goes on, and goes on saving. *)
LEMMA SavingGoesOn ==
  ASSUME NEW d \in Daemons, NEW fr, NEW new, NEW g \in Funcs,
         Advances(d, fr, new, g), new.at \in {"opening", "writing", "renaming"},
         NEW f \in Funcs, NEW e \in Daemons, Saving(e, f)
  PROVE  Saving(e, f)'
<1>1. CASE e = d
  <2>1. fr.tbl[2] = f /\ Head(stack'[d]) = new /\ stack'[d] # <<>>
    BY <1>1 DEF Saving, Advances
  <2>2. Head(stack'[d]).tbl[2] = f
    BY <2>1 DEF Advances
  <2>3. QED
    BY <1>1, <2>1, <2>2 DEF Saving, At
<1>2. CASE e # d
  BY <1>2, SavingElsewhere DEF Advances
<1>3. QED
  BY <1>1, <1>2

(* A daemon that is not saving cannot have been writing. *)
LEMMA NoWriter ==
  ASSUME WriterIsWriting, NEW f \in Funcs, NEW d \in Daemons, ~At(d, "writing")
  PROVE  d \notin swap[Path(f)].by /\ d \notin file[Path(f)].by
BY DEF WriterIsWriting

LEMMA OpenShare ==
  ASSUME TypeOK, WriterIsWriting, ShareInv, NEW d \in Daemons, Open(d),
         NEW f \in Funcs
  PROVE  /\ swap'[Path(f)].by \cap file'[Path(f)].by = {}
         /\ Spoilt(f)' => TwoSavers(f)'
<1>1. PICK fr \in Frames, new \in Frames, g \in Funcs, img \in Images :
        /\ At(d, "opening")
        /\ Advances(d, fr, new, g)
        /\ OpensSwap(d, fr, new, g, img)
  BY OpenStep
<1>2. new.at \in {"writing", "renaming"}
  BY <1>1 DEF OpensSwap
<1>3. file' = file /\ d \notin swap[Path(f)].by /\ d \notin file[Path(f)].by
  BY <1>1, NoWriter DEF Open, At
<1>4. TwoSavers(f) => TwoSavers(f)'
  BY <1>1, <1>2, SavingGoesOn, KeepSavers
<1>5. CASE swap'[Path(f)] = swap[Path(f)]
  BY <1>3, <1>4, <1>5 DEF ShareInv, OneInode, SpoiltNeedsTwo, Spoilt
<1>6. CASE f = g /\ swap' = [swap EXCEPT ![Path(g)] = img] /\ new.at = "writing"
  <2>1. swap'[Path(f)] = img
    BY <1>6, ShapeFacts DEF TypeOK
  <2>2. PICK old \in Images : old = swap[Path(f)]
    BY ShapeFacts DEF TypeOK
  <2>3. CASE img = [st |-> "writing", by |-> {d}, row |-> table[fr.tbl]]
    BY <1>3, <2>1, <2>3 DEF Spoilt
  <2>4. CASE old.by # {} /\ img.st = "mixed" /\ img.by = old.by \cup {d}
    <3>1. swap'[Path(f)].by \cap file'[Path(f)].by = {}
      BY <1>3, <2>1, <2>2, <2>4 DEF ShareInv, OneInode
    <3>2. PICK e \in old.by : e \in Daemons /\ e # d
      BY <1>3, <2>2, <2>4 DEF Images
    <3>3. Saving(e, f)
      BY <2>2, <3>2 DEF WriterIsWriting, Saving
    <3>4. Saving(e, f)'
      BY <1>1, <1>2, <3>2, <3>3, SavingGoesOn
    <3>5. stack'[d] # <<>> /\ Head(stack'[d]) = new /\ new.tbl[2] = f
      BY <1>1, <1>6 DEF Advances
    <3>6. Saving(d, f)'
      BY <1>6, <3>5 DEF Saving, At
    <3>7. QED
      BY <3>1, <3>2, <3>4, <3>6 DEF TwoSavers
  <2>5. QED
    BY <1>1, <1>5, <1>6, <2>2, <2>3, <2>4 DEF OpensSwap
<1>7. \/ swap'[Path(f)] = swap[Path(f)]
      \/ f = g /\ swap' = [swap EXCEPT ![Path(g)] = img] /\ new.at = "writing"
  BY <1>1, PathInjective, ShapeFacts DEF OpensSwap, TypeOK
<1>8. QED
  BY <1>5, <1>6, <1>7

(* write-file ends: the swap file comes out torn only if it was mixed. *)
LEMMA EndWriteShare ==
  ASSUME TypeOK, WriterIsWriting, ShareInv, ~DiskFaults, NEW d \in Daemons,
         EndWrite(d), NEW f \in Funcs
  PROVE  /\ swap'[Path(f)].by \cap file'[Path(f)].by = {}
         /\ Spoilt(f)' => TwoSavers(f)'
<1>1. PICK fr \in Frames, new \in Frames, st \in {"whole", "torn"} :
        /\ At(d, "writing") /\ fr = Head(stack[d]) /\ fr.tbl \in Tables
        /\ new.tbl = fr.tbl /\ new.at = "renaming"
        /\ stack'[d] # <<>> /\ Head(stack'[d]) = new
        /\ \A e \in Daemons : e # d => stack'[e] = stack[e]
        /\ swap' = Settle(swap, d, st) /\ file' = Settle(file, d, st)
        /\ st = "torn" => DiskFaults \/ Mixed(d)
  BY EndWriteStep
<1>2. PICK old \in Images, img \in Images :
        old = swap[Path(f)] /\ img = swap'[Path(f)] /\ Settles(old, img, d, st)
  BY <1>1, SettleStep DEF TypeOK
<1>3. PICK fold \in Images, fimg \in Images :
        fold = file[Path(f)] /\ fimg = file'[Path(f)] /\ Settles(fold, fimg, d, st)
  BY <1>1, SettleStep DEF TypeOK
<1>4. old.by \cap fold.by = {}
  BY <1>2, <1>3 DEF ShareInv, OneInode
<1>5. img.by \cap fimg.by = {}
  BY <1>2, <1>3, <1>4 DEF Settles
<1>6. TwoSavers(f) => TwoSavers(f)'
  <2>1. PICK g \in Funcs : g = fr.tbl[2]
    BY <1>1, ShapeFacts
  <2>2. Advances(d, fr, new, g)
    BY <1>1, <2>1 DEF Advances, At
  <2>3. QED
    BY <1>1, <2>2, SavingGoesOn, KeepSavers
<1>7. ASSUME img.st \in {"mixed", "torn"}
      PROVE  old.st \in {"mixed", "torn"}
  <2>1. CASE old.by # {d}
    BY <1>2, <1>7, <2>1 DEF Settles
  <2>2. CASE old.by = {d}
    <3>1. st = "torn"
      BY <1>2, <1>7, <2>2 DEF Settles
    <3>2. Mixed(d)
      BY <1>1, <3>1
    <3>3. PICK g \in Funcs :
            \E one \in {swap[Path(g)], file[Path(g)]} : d \in one.by /\ one.st = "mixed"
      BY <3>2 DEF Mixed, Paths
    <3>4. g = f
      <4>1. Head(stack[d]).tbl[2] = g
        BY <3>3 DEF WriterIsWriting
      <4>2. Head(stack[d]).tbl[2] = f
        BY <1>2, <2>2 DEF WriterIsWriting
      <4>3. QED
        BY <4>1, <4>2
    <3>5. d \notin fold.by
      BY <1>4, <2>2
    <3>6. QED
      BY <1>2, <1>3, <3>3, <3>4, <3>5
  <2>3. QED
    BY <2>1, <2>2
<1>8. QED
  BY <1>2, <1>3, <1>5, <1>6, <1>7 DEF ShareInv, SpoiltNeedsTwo, Spoilt

LEMMA NextShare ==
  ASSUME ~DiskFaults, ~Restarts
  PROVE  TypeOK /\ WriterIsWriting /\ ShareInv /\ [Next]_vars => ShareInv'
<1> SUFFICES ASSUME TypeOK, WriterIsWriting, ShareInv, [Next]_vars, NEW f \in Funcs
             PROVE  /\ swap'[Path(f)].by \cap file'[Path(f)].by = {}
                    /\ Spoilt(f)' => TwoSavers(f)'
  BY DEF ShareInv, OneInode, SpoiltNeedsTwo
<1> DEFINE Goal == /\ swap'[Path(f)].by \cap file'[Path(f)].by = {}
                   /\ Spoilt(f)' => TwoSavers(f)'
<1> USE DEF memory
<1>1. /\ swap[Path(f)].by \cap file[Path(f)].by = {}
      /\ Spoilt(f) => TwoSavers(f)
  BY DEF ShareInv, OneInode, SpoiltNeedsTwo
(* The swap file of f is as it was, and a daemon d that is not saving f    *)
(* does something.                                                         *)
<1>2. ASSUME NEW d \in Daemons, ~Saving(d, f),
             \A e \in Daemons : e # d => stack'[e] = stack[e],
             swap'[Path(f)] = swap[Path(f)], file'[Path(f)] = file[Path(f)]
      PROVE  Goal
  <2>1. \A e \in Daemons : Saving(e, f) => Saving(e, f)'
    BY <1>2, SavingElsewhere
  <2>2. TwoSavers(f) => TwoSavers(f)'
    BY <2>1, KeepSavers
  <2>3. QED
    BY <1>1, <1>2, <2>2 DEF Spoilt
(* The swap file of f is gone. *)
<1>3. ASSUME swap'[Path(f)] = NoImage
      PROVE  Goal
  BY <1>3 DEF Spoilt, NoImage
<1>4. ASSUME NEW d \in Daemons, NEW g \in Funcs, NEW k \in Args, CallMiss(d, g, k)
      PROVE  Goal
  <2>1. ~Saving(d, f)
    BY <1>4 DEF CallMiss, CanEnter, Saving, At
  <2>2. swap' = swap /\ file' = file
    BY <1>4 DEF CallMiss
  <2>3. \A e \in Daemons : e # d => stack'[e] = stack[e]
    BY <1>4, CallMissStep
  <2>4. QED
    BY <1>2, <2>1, <2>2, <2>3
<1>5. ASSUME NEW d \in Daemons, NEW r \in Results, Return(d, r) PROVE Goal
  <2>1. PICK fr \in Frames, new \in Frames, g \in Funcs :
          At(d, "running") /\ Advances(d, fr, new, g) /\ StartsSave(new, g)
    BY <1>5, ReturnStep
  <2>2. swap'[Path(f)] \in {swap[Path(f)], NoImage} /\ file' = file
    BY <1>5, <2>1, ShapeFacts DEF Return, StartsSave, TypeOK
  <2>3. ~Saving(d, f)
    BY <2>1 DEF Saving, At
  <2>4. QED
    BY <1>2, <1>3, <2>1, <2>2, <2>3 DEF Advances
<1>6. ASSUME NEW d \in Daemons, Fail(d) PROVE Goal
  <2>1. ~Saving(d, f) /\ stack[d] # <<>>
    BY <1>6 DEF Fail, Saving, At
  <2>2. swap' = swap /\ file' = file
    BY <1>6 DEF Fail
  <2>3. \A e \in Daemons : e # d => stack'[e] = stack[e]
    BY <1>6, <2>1, LeaveStep DEF Fail, Leave
  <2>4. QED
    BY <1>2, <2>1, <2>2, <2>3
<1>7. ASSUME NEW d \in Daemons, Rename(d) \/ RenameFails(d) PROVE Goal
  <2>1. stack[d] # <<>>
    BY <1>7 DEF Rename, RenameFails, At
  <2>2. PICK g \in Funcs : g = Head(stack[d]).tbl[2]
    BY <2>1, TopFacts, ShapeFacts
  <2>3. \A e \in Daemons : e # d => stack'[e] = stack[e]
    BY <1>7, <2>1, LeaveStep DEF Rename, RenameFails, Leave
  <2>4. \/ swap' = swap /\ file' = file /\ swap[Path(g)].st = "missing"
        \/ /\ swap' = [swap EXCEPT ![Path(g)] = NoImage]
           /\ file' = [file EXCEPT ![Path(g)] = swap[Path(g)]]
    BY <1>7, <2>2 DEF Rename, RenameFails
  <2>5. CASE g = f
    <3>1. CASE swap' = swap /\ file' = file /\ swap[Path(g)].st = "missing"
      BY <1>1, <2>5, <3>1 DEF Spoilt
    <3>2. CASE swap' = [swap EXCEPT ![Path(g)] = NoImage]
      BY <1>3, <2>5, <3>2, ShapeFacts DEF TypeOK
    <3>3. QED
      BY <2>4, <3>1, <3>2
  <2>6. CASE g # f
    <3>1. ~Saving(d, f)
      BY <2>2, <2>6 DEF Saving
    <3>2. swap'[Path(f)] = swap[Path(f)] /\ file'[Path(f)] = file[Path(f)]
      BY <2>4, <2>6, PathInjective, ShapeFacts DEF TypeOK
    <3>3. QED
      BY <1>2, <2>3, <3>1, <3>2
  <2>7. QED
    BY <2>5, <2>6
<1>8. ASSUME NEW d \in Daemons, Restart(d) PROVE FALSE
  BY <1>8 DEF Restart
<1>9. ASSUME \/ UNCHANGED vars
             \/ \E d \in Daemons, g \in Funcs : Memoize(d, g) \/ Restore(d, g)
             \/ \E d \in Daemons, g \in Funcs, k \in Args : CallHit(d, g, k)
             \/ \E t \in Tables, k \in Args : TimerFires(t, k)
      PROVE  Goal
  <2>1. UNCHANGED <<stack, swap, file>>
    BY <1>9 DEF vars, Memoize, Restore, CallHit, TimerFires
  <2>2. QED
    BY <1>1, <2>1 DEF Spoilt, TwoSavers, Saving, At
<1>10. QED
  BY <1>4, <1>5, <1>6, <1>7, <1>8, <1>9, OpenShare, EndWriteShare DEF Next

(* Who makes a cache file unreadable. *)
LEMMA TearStep ==
  ASSUME ~DiskFaults, ~Restarts
  PROVE  TypeOK /\ WriterIsWriting /\ ShareInv /\ [Next]_vars =>
           \A f \in Funcs : Readable(f) /\ ~Readable(f)' => TwoSavers(f)
<1> SUFFICES ASSUME TypeOK, WriterIsWriting, ShareInv, [Next]_vars, NEW f \in Funcs,
                    Readable(f), ~Readable(f)'
             PROVE  TwoSavers(f)
  OBVIOUS
<1> USE DEF memory
<1>1. file'[Path(f)] # file[Path(f)]
  BY DEF Readable
<1>2. ASSUME NEW d \in Daemons, Rename(d) PROVE TwoSavers(f)
  <2>1. At(d, "renaming") /\ stack[d] # <<>>
    BY <1>2 DEF Rename, At
  <2>2. PICK g \in Funcs : g = Head(stack[d]).tbl[2]
    BY <2>1, TopFacts, ShapeFacts
  <2>3. file' = [file EXCEPT ![Path(g)] = swap[Path(g)]]
    BY <1>2, <2>2 DEF Rename
  <2>4. g = f
    BY <1>1, <2>3, PathInjective, ShapeFacts DEF TypeOK
  <2>5. PICK img \in Images : img = swap[Path(f)] /\ img = file'[Path(f)]
    BY <2>3, <2>4, ShapeFacts DEF TypeOK
  <2>6. img.st \in {"writing", "mixed", "torn"}
    BY <2>5 DEF Readable, Images
  <2>7. CASE img.st = "writing"
    <3>1. PICK e \in Daemons : e \in img.by
      <4>1. img.by # {}
        BY <2>5, <2>7 DEF WriterIsWriting
      <4>2. QED
        BY <4>1 DEF Images
    <3>2. At(e, "writing") /\ Head(stack[e]).tbl[2] = f
      BY <2>5, <3>1 DEF WriterIsWriting
    <3>3. e # d
      BY <2>1, <3>2 DEF At
    <3>4. Saving(e, f) /\ Saving(d, f)
      BY <2>1, <2>2, <2>4, <3>2 DEF Saving
    <3>5. QED
      BY <3>3, <3>4 DEF TwoSavers
  <2>8. CASE img.st \in {"mixed", "torn"}
    BY <2>5, <2>8 DEF ShareInv, SpoiltNeedsTwo, Spoilt
  <2>9. QED
    BY <2>6, <2>7, <2>8
<1>3. ASSUME NEW d \in Daemons, EndWrite(d) PROVE FALSE
  <2>1. PICK st \in {"whole", "torn"} : file' = Settle(file, d, st)
    BY <1>3 DEF EndWrite
  <2>2. file \in [Paths -> Images]
    BY DEF TypeOK
  <2>3. PICK old \in Images, new \in Images :
          old = file[Path(f)] /\ new = file'[Path(f)] /\ Settles(old, new, d, st)
    BY <2>1, <2>2, SettleStep
  <2>4. old.by = {}
    BY <2>3 DEF Readable, WriterIsWriting
  <2>5. QED
    BY <1>1, <2>3, <2>4 DEF Settles
<1>4. ASSUME NEW d \in Daemons, Restart(d) PROVE FALSE
  BY <1>4 DEF Restart
<1>5. ASSUME \/ UNCHANGED vars
             \/ \E d \in Daemons, g \in Funcs : Memoize(d, g) \/ Restore(d, g)
             \/ \E d \in Daemons, g \in Funcs, k \in Args :
                  CallHit(d, g, k) \/ CallMiss(d, g, k)
             \/ \E d \in Daemons, r \in Results : Return(d, r)
             \/ \E d \in Daemons : Fail(d) \/ Open(d) \/ RenameFails(d)
             \/ \E t \in Tables, k \in Args : TimerFires(t, k)
      PROVE  FALSE
  BY <1>1, <1>5, ZenonT(30) DEF vars, Memoize, Restore, CallHit, CallMiss, Return, Fail, Open,
                    RenameFails, TimerFires
<1>6. QED
  BY <1>2, <1>3, <1>4, <1>5 DEF Next

(* Any number of daemons, none killed, on a disk that works: a cache file  *)
(* that can be read stays so unless two daemons are saving its function at *)
(* the same time.                                                          *)
THEOREM TearsNeedTwoSavers ==
  ASSUME ~DiskFaults, ~Restarts
  PROVE  Spec => TearNeedsTwoSavers
<1>1. Init => ShareInv
  BY ShapeFacts DEF Init, ShareInv, OneInode, SpoiltNeedsTwo, Spoilt, NoImage
<1>2. TypeOK /\ WriterIsWriting /\ ShareInv /\ [Next]_vars => ShareInv'
  BY NextShare
<1>3. TypeOK /\ WriterIsWriting /\ ShareInv /\ [Next]_vars =>
        [\A f \in Funcs : Readable(f) /\ ~Readable(f)' => TwoSavers(f)]_vars
  BY TearStep
<1>4. QED
  BY <1>1, <1>2, <1>3, TypeCorrect, WritersLive, PTL DEF Spec, TearNeedsTwoSavers

-----------------------------------------------------------------------------
(***************************************************************************)
(* One daemon, a disk that works, restarts at any moment: the cache file   *)
(* can always be read, and it keeps every value that was given to a        *)
(* caller.                                                                 *)
(***************************************************************************)

----------------------------------------------------------------------------
(* The strengthening: SwapReady, because a file is replaced by its swap    *)
(* file; and no row is left where a file is missing, because memoize takes *)
(* the row of the file it reads.                                           *)
MissingEmpty ==
  \A f \in Funcs : file[Path(f)].st = "missing" => file[Path(f)].row = EmptyRow

SoleInv == SwapReady /\ FileReadable /\ MissingEmpty /\ CompletedCallsDurable

(* The facts about a session that the other theorems give. *)
Session == TypeOK /\ SessionShape /\ WriterIsWriting

Quiet(d) == ~At(d, "opening") /\ ~At(d, "writing") /\ ~At(d, "renaming")

Lasting(img, row) ==
  \A k \in Args : row[k] # Absent => img.st \in {"missing", "whole"} /\ img.row[k] = row[k]

LEMMA DurableParts ==
  CompletedCallsDurable <=>
    \A d \in Daemons, f \in Funcs :
      wraps[<<d, f>>] = 1 /\ ~Saving(d, f) =>
        Lasting(file[Path(f)], table[<<d, f, 1>>])
BY DEF CompletedCallsDurable, Lasting, Readable

LEMMA Enters ==
  ASSUME NEW d \in Daemons, CanEnter(d)
  PROVE  Quiet(d)
BY DEF CanEnter, Quiet, At

LEMMA FirstTables ==
  \A d \in Daemons, f \in Funcs : <<d, f>> \in Sites /\ <<d, f, 1>> \in Tables
BY ConstantsOK DEF Sites, Tables, Gens

(* The innermost call ends: what it was called from is waiting. *)
LEMMA PopQuiet ==
  ASSUME Session, NEW d \in Daemons, stack[d] # <<>>,
         stack' = [stack EXCEPT ![d] = Tail(@)]
  PROVE  Quiet(d)'
<1>1. PICK rest \in Seq(Frames) : rest = Tail(stack[d]) /\ AllRunning(rest)
  BY TopShape, ShapeParts DEF Session
<1>2. stack'[d] = rest
  BY <1>1, LeaveStep DEF Session
<1>3. ASSUME rest # <<>> PROVE Head(rest).at = "running"
  <2>1. Head(rest) = rest[1] /\ 1 \in 1..Len(rest)
    BY <1>1, <1>3, PopFacts
  <2> QED BY <1>1, <2>1 DEF AllRunning
<1>4. QED
  BY <1>2, <1>3 DEF Quiet, At

(* A step that saves nothing: tables may lose entries, the file stays. *)
LEMMA QuietStep ==
  ASSUME Session, SoleDaemon, SoleInv, NEW d \in Daemons, Quiet(d), Quiet(d)',
         file' = file, wraps' = wraps,
         \A f \in Funcs, k \in Args :
           table'[<<d, f, 1>>][k] \in {table[<<d, f, 1>>][k], Absent}
  PROVE  SoleInv'
<1>1. \A e \in Daemons : e = d
  BY DEF SoleDaemon
<1>2. SwapReady'
  BY <1>1 DEF SwapReady, Quiet
<1>3. FileReadable' /\ MissingEmpty'
  BY DEF SoleInv, FileReadable, Readable, MissingEmpty
<1>4. \A f \in Funcs : wraps[<<d, f>>] = 1 =>
        Lasting(file[Path(f)], table[<<d, f, 1>>])
  BY DurableParts DEF SoleInv, Quiet, Saving
<1>5. \A f \in Funcs : wraps'[<<d, f>>] = 1 =>
        Lasting(file'[Path(f)], table'[<<d, f, 1>>])
  BY <1>4 DEF Lasting
<1>6. CompletedCallsDurable'
  BY <1>1, <1>5 DEF CompletedCallsDurable, Lasting, Readable
<1>7. QED
  BY <1>2, <1>3, <1>6 DEF SoleInv

----------------------------------------------------------------------------
(* The steps that touch the cache file, the swap file or the number   *)
(* of wrappers.                                                            *)

(* memoize: a first wrapper starts with exactly what the file holds. *)
LEMMA MemoizeSole ==
  ASSUME Session, SoleDaemon, SoleInv, NEW d \in Daemons, NEW f \in Funcs,
         Memoize(d, f)
  PROVE  SoleInv'
<1> USE DEF memory
<1>1. \A e \in Daemons : e = d
  BY DEF SoleDaemon
<1>2. Quiet(d) /\ stack' = stack /\ file' = file
  BY Enters DEF Memoize
<1>3. Quiet(d)'
  BY <1>2 DEF Quiet, At
<1>4. SwapReady'
  BY <1>1, <1>3 DEF SwapReady, Quiet
<1>5. FileReadable' /\ MissingEmpty'
  BY <1>2 DEF SoleInv, FileReadable, Readable, MissingEmpty
<1>6. PICK g \in Nat :
        /\ g = wraps[<<d, f>>] + 1 /\ g \in Gens
        /\ wraps' = [wraps EXCEPT ![<<d, f>>] = g]
        /\ table' = [table EXCEPT ![<<d, f, g>>] = file[Path(f)].row]
  <2>1. file[Path(f)].st \in {"missing", "whole"}
    BY DEF SoleInv, FileReadable, Readable
  <2>2. wraps[<<d, f>>] \in 0..MaxWraps /\ wraps[<<d, f>>] < MaxWraps
    BY FirstTables DEF Session, TypeOK, Memoize
  <2>3. wraps[<<d, f>>] + 1 \in Gens /\ wraps[<<d, f>>] + 1 \in Nat
    BY <2>2, ConstantsOK DEF Gens
  <2>4. QED
    BY <2>1, <2>3 DEF Memoize
<1>7. ASSUME NEW h \in Funcs, wraps'[<<d, h>>] = 1
      PROVE  Lasting(file[Path(h)], table'[<<d, h, 1>>])
  <2>1. CASE h = f
    <3>1. g = 1
      BY <1>6, <1>7, <2>1, FirstTables DEF Session, TypeOK
    <3>2. table'[<<d, h, 1>>] = file[Path(h)].row
      BY <1>6, <2>1, <3>1, FirstTables DEF Session, TypeOK
    <3>3. CASE file[Path(h)].st = "missing"
      BY <3>2, <3>3 DEF Lasting, SoleInv, MissingEmpty, EmptyRow
    <3>4. CASE file[Path(h)].st = "whole"
      BY <3>2, <3>4 DEF Lasting
    <3>5. QED
      BY <3>3, <3>4 DEF SoleInv, FileReadable, Readable
  <2>2. CASE h # f
    <3>1. wraps[<<d, h>>] = 1 /\ table'[<<d, h, 1>>] = table[<<d, h, 1>>]
      BY <1>6, <1>7, <2>2, FirstTables DEF Session, TypeOK
    <3>2. ~Saving(d, h)
      BY <1>2 DEF Saving, Quiet
    <3>3. QED
      BY <3>1, <3>2, DurableParts DEF SoleInv
  <2>3. QED
    BY <2>1, <2>2
<1>8. CompletedCallsDurable'
  BY <1>1, <1>2, <1>7 DEF CompletedCallsDurable, Lasting, Readable
<1>9. QED
  BY <1>4, <1>5, <1>8 DEF SoleInv

(* The original function returns: its call is saving from now on. *)
LEMMA ReturnSole ==
  ASSUME Session, SoleDaemon, SoleInv, NEW d \in Daemons, NEW r \in Results,
         Return(d, r)
  PROVE  SoleInv'
<1> USE DEF memory
<1>1. \A e \in Daemons : e = d
  BY DEF SoleDaemon
<1>2. PICK fr \in Frames, new \in Frames, f \in Funcs, row \in Rows :
        /\ At(d, "running")
        /\ Advances(d, fr, new, f)
        /\ StartsSave(new, f)
        /\ table' = [table EXCEPT ![fr.tbl] = row]
  BY ReturnStep DEF Session
<1>3. /\ At(d, "running") /\ fr.tbl \in Tables /\ f = fr.tbl[2]
      /\ new.tbl = fr.tbl /\ new.at = "opening"
      /\ stack'[d] # <<>> /\ Head(stack'[d]) = new
      /\ table' = [table EXCEPT ![fr.tbl] = row]
  BY <1>2 DEF Advances, StartsSave, SoleDaemon
<1>4. file' = file /\ wraps' = wraps
  BY DEF Return
<1>5. At(d, "opening")' /\ ~At(d, "writing")' /\ ~At(d, "renaming")'
  BY <1>3 DEF At
<1>6. SwapReady'
  BY <1>1, <1>5 DEF SwapReady
<1>7. FileReadable' /\ MissingEmpty'
  BY <1>4 DEF SoleInv, FileReadable, Readable, MissingEmpty
<1>8. Quiet(d)
  BY <1>3 DEF Quiet, At
<1>9. ASSUME NEW h \in Funcs, wraps[<<d, h>>] = 1, ~Saving(d, h)'
      PROVE  Lasting(file[Path(h)], table'[<<d, h, 1>>])
  <2>1. h # f
    BY <1>3, <1>9 DEF Saving, At
  <2>2. table'[<<d, h, 1>>] = table[<<d, h, 1>>]
    BY <1>3, <2>1, FirstTables DEF Session, TypeOK
  <2>3. ~Saving(d, h)
    BY <1>8 DEF Saving, Quiet
  <2>4. QED
    BY <1>9, <2>2, <2>3, DurableParts DEF SoleInv
<1>10. CompletedCallsDurable'
  BY <1>1, <1>4, <1>9 DEF CompletedCallsDurable, Lasting, Readable
<1>11. QED
  BY <1>6, <1>7, <1>10 DEF SoleInv

(* No cache file has a writer: it is complete. *)
LEMMA FileUnwritten ==
  ASSUME Session, FileReadable, NEW f \in Funcs
  PROVE  file[Path(f)].by = {}
<1>1. file[Path(f)].st \notin {"writing", "mixed"}
  BY DEF FileReadable, Readable
<1>2. QED
  BY <1>1 DEF Session, WriterIsWriting

(* The swap file is opened: nobody else is writing to it. *)
LEMMA OpenSole ==
  ASSUME Session, SoleDaemon, SoleInv, NEW d \in Daemons, Open(d)
  PROVE  SoleInv'
<1> USE DEF memory
<1>1. \A e \in Daemons : e = d
  BY DEF SoleDaemon
<1>2. PICK fr \in Frames, new \in Frames, f \in Funcs, img \in Images :
        /\ At(d, "opening")
        /\ Advances(d, fr, new, f)
        /\ OpensSwap(d, fr, new, f, img)
  BY OpenStep DEF Session
<1>3. swap[Path(f)].by = {}
  <2>1. PICK old \in Images : old = swap[Path(f)]
    BY ShapeFacts DEF Session, TypeOK
  <2>2. ~At(d, "writing")
    BY <1>2 DEF At
  <2>3. d \notin old.by
    BY <2>1, <2>2, NoWriter DEF Session
  <2>4. QED
    BY <1>1, <2>1, <2>3 DEF Images
<1>4. /\ new.at = "writing"
      /\ swap' = [swap EXCEPT ![Path(f)] = img]
      /\ img.st = "writing" /\ img.by = {d} /\ img.row = table[fr.tbl]
  BY <1>2, <1>3 DEF OpensSwap, SoleDaemon
<1>5. table' = table /\ wraps' = wraps /\ file' = file
  BY DEF Open
<1>6. /\ fr = Head(stack[d]) /\ f = fr.tbl[2] /\ new.tbl = fr.tbl
      /\ stack'[d] # <<>> /\ Head(stack'[d]) = new
  BY <1>2 DEF Advances
<1>7. swap'[Path(f)] = img
  BY <1>4, ShapeFacts DEF Session, TypeOK
<1>8. SwapReady'
  BY <1>1, <1>4, <1>5, <1>6, <1>7 DEF SwapReady, At
<1>9. FileReadable' /\ MissingEmpty'
  BY <1>5 DEF SoleInv, FileReadable, Readable, MissingEmpty
<1>10. \A h \in Funcs : Saving(d, h)' <=> Saving(d, h)
  BY <1>2, <1>4, <1>6 DEF Saving, At
<1>11. \A h \in Funcs : wraps[<<d, h>>] = 1 /\ ~Saving(d, h) =>
         Lasting(file[Path(h)], table[<<d, h, 1>>])
  BY DurableParts DEF SoleInv
<1>12. CompletedCallsDurable'
  BY <1>1, <1>5, <1>10, <1>11 DEF CompletedCallsDurable, Lasting, Readable
<1>13. QED
  BY <1>8, <1>9, <1>12 DEF SoleInv

(* write-file ends: only the swap file changes, and it is complete. *)
LEMMA EndWriteSole ==
  ASSUME Session, SoleDaemon, SoleInv, NEW d \in Daemons, EndWrite(d)
  PROVE  SoleInv'
<1> USE DEF memory
<1>1. \A e \in Daemons : e = d
  BY DEF SoleDaemon
<1>2. PICK fr \in Frames, new \in Frames, st \in {"whole", "torn"} :
        /\ At(d, "writing") /\ fr = Head(stack[d]) /\ fr.tbl \in Tables
        /\ new.tbl = fr.tbl /\ new.at = "renaming"
        /\ stack'[d] # <<>> /\ Head(stack'[d]) = new
        /\ swap' = Settle(swap, d, st) /\ file' = Settle(file, d, st)
        /\ st = "torn" => DiskFaults \/ Mixed(d)
  <2>1. PICK fr \in Frames, new \in Frames, st \in {"whole", "torn"} :
          /\ At(d, "writing") /\ fr = Head(stack[d]) /\ fr.tbl \in Tables
          /\ new.tbl = fr.tbl /\ new.at = "renaming"
          /\ stack'[d] # <<>> /\ Head(stack'[d]) = new
          /\ \A e \in Daemons : e # d => stack'[e] = stack[e]
          /\ swap' = Settle(swap, d, st) /\ file' = Settle(file, d, st)
          /\ st = "torn" => DiskFaults \/ Mixed(d)
    BY EndWriteStep DEF Session
  <2>2. QED
    BY <2>1
<1>3. table' = table /\ wraps' = wraps
  BY DEF EndWrite
<1>4. \A f \in Funcs : file'[Path(f)] = file[Path(f)]
  <2>1. TAKE f \in Funcs
  <2>2. file \in [Paths -> Images]
    BY DEF Session, TypeOK
  <2>3. PICK old \in Images, now \in Images :
          old = file[Path(f)] /\ now = file'[Path(f)] /\ Settles(old, now, d, st)
    BY <1>2, <2>2, SettleStep
  <2>4. old.by = {}
    BY <2>3, FileUnwritten DEF SoleInv
  <2>5. QED
    BY <2>3, <2>4 DEF Settles
<1>5. SwapReady'
  <2>1. PICK f \in Funcs : f = fr.tbl[2]
    BY <1>2, ShapeFacts
  <2>2. swap \in [Paths -> Images]
    BY DEF Session, TypeOK
  <2>3. PICK old \in Images, now \in Images :
          old = swap[Path(f)] /\ now = swap'[Path(f)] /\ Settles(old, now, d, st)
    BY <1>2, <2>2, SettleStep
  <2>4. old.st = "writing" /\ old.by = {d} /\ old.row = table[fr.tbl]
    BY <1>2, <2>1, <2>3 DEF SoleInv, SwapReady
  <2>5. ~Mixed(d)
    <3>1. ASSUME NEW g \in Funcs, NEW one \in {swap[Path(g)], file[Path(g)]},
                 d \in one.by, one.st = "mixed"
          PROVE  FALSE
      <4>1. Head(stack[d]).tbl[2] = g
        BY <3>1 DEF Session, WriterIsWriting
      <4>2. g = f
        BY <1>2, <2>1, <4>1
      <4>3. file[Path(g)].by = {}
        BY FileUnwritten DEF SoleInv
      <4>4. QED
        BY <2>3, <2>4, <3>1, <4>2, <4>3
    <3>2. QED
      BY <3>1 DEF Mixed, Paths
  <2>6. st = "whole"
    BY <1>2, <2>5 DEF SoleDaemon
  <2>7. now.st = "whole" /\ now.row = table[fr.tbl]
    BY <2>3, <2>4, <2>6 DEF Settles
  <2>8. swap'[Path(f)].st = "whole" /\ swap'[Path(f)].row = table[fr.tbl]
    BY <2>3, <2>7
  <2>9. QED
    BY <1>1, <1>2, <1>3, <2>1, <2>8 DEF SwapReady, At
<1>6. FileReadable' /\ MissingEmpty'
  BY <1>4 DEF SoleInv, FileReadable, Readable, MissingEmpty
<1>7. \A f \in Funcs : Saving(d, f)' <=> Saving(d, f)
  BY <1>2 DEF Saving, At
<1>8. \A f \in Funcs : wraps[<<d, f>>] = 1 /\ ~Saving(d, f) =>
        Lasting(file[Path(f)], table[<<d, f, 1>>])
  BY DurableParts DEF SoleInv
<1>9. CompletedCallsDurable'
  BY <1>1, <1>3, <1>4, <1>7, <1>8 DEF CompletedCallsDurable, Lasting, Readable
<1>10. QED
  BY <1>5, <1>6, <1>9 DEF SoleInv

(* rename-file: the cache file becomes the table of the call that ends. *)
LEMMA RenameSole ==
  ASSUME Session, SoleDaemon, SoleInv, NEW d \in Daemons, Rename(d)
  PROVE  SoleInv'
<1> USE DEF memory
<1>1. \A e \in Daemons : e = d
  BY DEF SoleDaemon
<1>2. At(d, "renaming") /\ stack[d] # <<>>
  BY DEF Rename, At
<1>3. Quiet(d)'
  BY <1>2, PopQuiet DEF Rename, Leave
<1>4. PICK fr \in Frames :
        /\ fr = Head(stack[d]) /\ fr.tbl \in Tables /\ fr.tbl[1] = d
        /\ fr.tbl[3] <= wraps[<<fr.tbl[1], fr.tbl[2]>>]
  BY <1>2, TopShape, ShapeParts DEF Session
<1>5. PICK f \in Funcs : f = fr.tbl[2]
  BY <1>4, ShapeFacts
<1>6. file' = [file EXCEPT ![Path(f)] = swap[Path(f)]]
  BY <1>4, <1>5 DEF Rename
<1>7. swap[Path(f)].st = "whole" /\ swap[Path(f)].row = table[fr.tbl]
  BY <1>2, <1>4, <1>5 DEF SoleInv, SwapReady
<1>8. /\ file'[Path(f)] = swap[Path(f)]
      /\ \A h \in Funcs : h # f => file'[Path(h)] = file[Path(h)]
  BY <1>6, PathInjective, ShapeFacts DEF Session, TypeOK
<1>9. SwapReady'
  BY <1>1, <1>3 DEF SwapReady, Quiet
<1>10. FileReadable' /\ MissingEmpty'
  BY <1>7, <1>8 DEF SoleInv, FileReadable, Readable, MissingEmpty
<1>11. ASSUME NEW h \in Funcs, wraps[<<d, h>>] = 1
       PROVE  Lasting(file'[Path(h)], table[<<d, h, 1>>])
  <2>1. CASE h = f
    <3>1. fr.tbl[3] = 1
      BY <1>4, <1>5, <1>11, <2>1, ShapeFacts DEF Gens
    <3>2. fr.tbl = <<d, h, 1>>
      BY <1>4, <1>5, <2>1, <3>1 DEF Tables
    <3>3. QED
      BY <1>7, <1>8, <2>1, <3>2 DEF Lasting
  <2>2. CASE h # f
    <3>1. ~Saving(d, h)
      BY <1>4, <1>5, <2>2 DEF Saving
    <3>2. QED
      BY <1>8, <1>11, <2>2, <3>1, DurableParts DEF SoleInv
  <2>3. QED
    BY <2>1, <2>2
<1>12. table' = table /\ wraps' = wraps
  BY DEF Rename
<1>13. CompletedCallsDurable'
  BY <1>1, <1>11, <1>12 DEF CompletedCallsDurable, Lasting, Readable
<1>14. QED
  BY <1>9, <1>10, <1>13 DEF SoleInv

(* The daemon is killed: what it was writing was the swap file. *)
LEMMA RestartSole ==
  ASSUME Session, SoleDaemon, SoleInv, NEW d \in Daemons, Restart(d)
  PROVE  SoleInv'
<1>1. \A e \in Daemons : e = d
  BY DEF SoleDaemon
<1>2. stack'[d] = <<>> /\ \A f \in Funcs : wraps'[<<d, f>>] = 0
  BY FirstTables DEF Restart, Session, TypeOK
<1>3. \A f \in Funcs : file'[Path(f)] = file[Path(f)]
  <2>1. TAKE f \in Funcs
  <2>2. file \in [Paths -> Images] /\ file' = Settle(file, d, "torn")
    BY DEF Restart, Session, TypeOK
  <2>3. PICK old \in Images, now \in Images :
          /\ old = file[Path(f)] /\ now = file'[Path(f)]
          /\ Settles(old, now, d, "torn")
    BY <2>2, SettleStep
  <2>4. old.by = {}
    BY <2>3, FileUnwritten DEF SoleInv
  <2>5. QED
    BY <2>3, <2>4 DEF Settles
<1>4. SwapReady'
  BY <1>1, <1>2 DEF SwapReady, At
<1>5. FileReadable' /\ MissingEmpty'
  BY <1>3 DEF SoleInv, FileReadable, Readable, MissingEmpty
<1>6. CompletedCallsDurable'
  BY <1>1, <1>2 DEF CompletedCallsDurable
<1>7. QED
  BY <1>4, <1>5, <1>6 DEF SoleInv

----------------------------------------------------------------------------
LEMMA InitSole == Init => SoleInv
<1> SUFFICES ASSUME Init PROVE SoleInv
  OBVIOUS
<1>1. \A d \in Daemons : ~At(d, "opening") /\ ~At(d, "writing") /\ ~At(d, "renaming")
  BY DEF Init, At
<1>2. \A f \in Funcs : file[Path(f)] = NoImage
  BY ShapeFacts DEF Init
<1>3. \A d \in Daemons, f \in Funcs : wraps[<<d, f>>] = 0
  BY FirstTables DEF Init
<1>4. SwapReady
  BY <1>1 DEF SwapReady
<1>5. FileReadable /\ MissingEmpty
  BY <1>2 DEF FileReadable, Readable, MissingEmpty, NoImage
<1>6. CompletedCallsDurable
  BY <1>3 DEF CompletedCallsDurable
<1>7. QED
  BY <1>4, <1>5, <1>6 DEF SoleInv

LEMMA NextSole ==
  ASSUME SoleDaemon
  PROVE  Session /\ SoleInv /\ [Next]_vars => SoleInv'
<1> SUFFICES ASSUME Session, SoleInv, [Next]_vars PROVE SoleInv'
  OBVIOUS
<1> USE DEF memory
<1>1. ASSUME NEW d \in Daemons, NEW f \in Funcs, Restore(d, f) PROVE SoleInv'
  <2>1. Quiet(d) /\ Quiet(d)'
    BY <1>1, Enters DEF Restore, Quiet, At
  <2>2. file' = file /\ wraps' = wraps /\ table' = table
    BY <1>1 DEF Restore
  <2>3. QED
    BY <2>1, <2>2, QuietStep
<1>2. ASSUME NEW d \in Daemons, NEW f \in Funcs, NEW k \in Args, CallHit(d, f, k)
      PROVE  SoleInv'
  <2>1. Quiet(d) /\ Quiet(d)'
    BY <1>2, Enters DEF CallHit, Quiet, At
  <2>2. file' = file /\ wraps' = wraps /\ table' = table
    BY <1>2 DEF CallHit
  <2>3. QED
    BY <2>1, <2>2, QuietStep
<1>3. ASSUME NEW d \in Daemons, NEW f \in Funcs, NEW k \in Args, CallMiss(d, f, k)
      PROVE  SoleInv'
  <2>1. Quiet(d)
    BY <1>3, Enters DEF CallMiss
  <2>2. Quiet(d)'
    BY <1>3, CallMissStep DEF Quiet, At, Session
  <2>3. file' = file /\ wraps' = wraps /\ table' = table
    BY <1>3 DEF CallMiss
  <2>4. QED
    BY <2>1, <2>2, <2>3, QuietStep
<1>4. ASSUME NEW d \in Daemons, Fail(d) PROVE SoleInv'
  <2>1. At(d, "running") /\ stack[d] # <<>>
    BY <1>4 DEF Fail, At
  <2>2. Quiet(d)
    BY <2>1 DEF Quiet, At
  <2>3. Quiet(d)'
    BY <1>4, <2>1, PopQuiet DEF Fail, Leave
  <2>4. file' = file /\ wraps' = wraps /\ table' = table
    BY <1>4 DEF Fail
  <2>5. QED
    BY <2>2, <2>3, <2>4, QuietStep
<1>5. ASSUME NEW d \in Daemons, RenameFails(d) PROVE FALSE
  BY <1>5 DEF RenameFails, SoleInv, SwapReady, SoleDaemon
<1>6. ASSUME NEW t \in Tables, NEW k \in Args, TimerFires(t, k) PROVE SoleInv'
  <2>1. PICK d \in Daemons : d = t[1]
    BY ShapeFacts
  <2>2. Quiet(d) /\ Quiet(d)'
    BY <1>6, <2>1, Enters DEF TimerFires, Quiet, At
  <2>3. file' = file /\ wraps' = wraps
    BY <1>6 DEF TimerFires
  <2>4. ASSUME NEW f \in Funcs, NEW j \in Args
        PROVE  table'[<<d, f, 1>>][j] \in {table[<<d, f, 1>>][j], Absent}
    <3>1. PICK row \in Rows : row = table[<<d, f, 1>>]
      BY FirstTables DEF Session, TypeOK
    <3>2. CASE table' = table
      BY <3>2
    <3>3. CASE \E b : table' = [table EXCEPT ![t] = Without(@, b)]
      <4>1. PICK b : table'[<<d, f, 1>>] \in {row, Without(row, b)}
        BY <3>1, <3>3, FirstTables DEF Session, TypeOK
      <4>2. QED
        BY <3>1, <4>1 DEF Without
    <3>4. QED
      BY <1>6, <2>1, <3>2, <3>3 DEF TimerFires
  <2>5. QED
    BY <2>2, <2>3, <2>4, QuietStep
<1>7. CASE UNCHANGED vars
  BY <1>7, ZenonT(30) DEF vars, SoleInv, SwapReady, FileReadable, Readable, MissingEmpty,
              CompletedCallsDurable, Saving, At
<1>8. QED
  BY <1>1, <1>2, <1>3, <1>4, <1>5, <1>6, <1>7, MemoizeSole, ReturnSole,
     OpenSole, EndWriteSole, RenameSole, RestartSole DEF Next

LEMMA SoleInductive ==
  ASSUME SoleDaemon
  PROVE  Spec => []SoleInv
<1>1. Session /\ SoleInv /\ [Next]_vars => SoleInv'
  BY NextSole
<1>2. TypeOK /\ SessionShape /\ WriterIsWriting => Session
  BY DEF Session
<1>3. QED
  BY <1>1, <1>2, InitSole, TypeCorrect, SessionsShaped, WritersLive, PTL DEF Spec

(* One daemon on a working disk, killed at any moment: the cache file that *)
(* a restart reads is missing or complete.                                 *)
THEOREM FileAlwaysReadable ==
  ASSUME SoleDaemon
  PROVE  Spec => []FileReadable
<1>1. SoleInv => FileReadable
  BY DEF SoleInv
<1>2. QED
  BY <1>1, SoleInductive, PTL

(* One daemon on a working disk: rename-file always finds the complete     *)
(* print of the table whose call is being saved.                           *)
THEOREM SwapAlwaysReady ==
  ASSUME SoleDaemon
  PROVE  Spec => []SwapReady
<1>1. SoleInv => SwapReady
  BY DEF SoleInv
<1>2. QED
  BY <1>1, SoleInductive, PTL

(* One daemon on a working disk, a function memoized once in the session:  *)
(* a restart loses no value that a caller was given.                       *)
THEOREM CallsDurable ==
  ASSUME SoleDaemon
  PROVE  Spec => []CompletedCallsDurable
<1>1. SoleInv => CompletedCallsDurable
  BY DEF SoleInv
<1>2. QED
  BY <1>1, SoleInductive, PTL
=============================================================================
