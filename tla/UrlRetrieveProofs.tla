------------------------- MODULE UrlRetrieveProofs -------------------------
(***************************************************************************)
(* Proofs about UrlRetrieve, for any number of retrievals, connections and *)
(* nested activations: its type invariant, that a retrieval only gets a    *)
(* buffer of somebody else together with retrieval-done, and what the two  *)
(* deletions after a timeout achieve; and, for retrievals that do not      *)
(* nest, that each returns its own buffer.                                 *)
(***************************************************************************)
EXTENDS UrlRetrieve, TLAPS

----------------------------------------------------------------------------
(* Stacks. *)

Stacks == {s \in Seq(Frames) : Len(s) <= MaxDepth}

LEMMA TopFacts ==
  ASSUME NEW s \in Stacks, s # <<>>
  PROVE  /\ Head(s) \in Frames /\ Tail(s) \in Seq(Frames)
         /\ Len(Tail(s)) = Len(s) - 1 /\ Tail(s) \in Stacks
         /\ Head(s) = s[1]
         /\ \A i \in 1..Len(Tail(s)) : i + 1 \in 1..Len(s) /\ Tail(s)[i] = s[i + 1]
<1>1. MaxDepth \in Nat
  BY ConstantsOK
<1>2. QED
  BY <1>1 DEF Stacks

LEMMA SetTopFacts ==
  ASSUME NEW s \in Stacks, s # <<>>, NEW fr \in Frames
  PROVE  /\ <<fr>> \o Tail(s) \in Stacks
         /\ Len(<<fr>> \o Tail(s)) = Len(s)
         /\ (<<fr>> \o Tail(s))[1] = fr
         /\ \A i \in 1..Len(s) : i # 1 => (<<fr>> \o Tail(s))[i] = s[i]
         /\ <<fr>> \o Tail(s) # <<>>
<1>1. PICK rest \in Seq(Frames) : rest = Tail(s) /\ Len(rest) = Len(s) - 1
                                  /\ \A i \in 1..Len(rest) : rest[i] = s[i + 1]
  BY TopFacts
<1>2. <<fr>> \o rest \in Seq(Frames) /\ Len(<<fr>> \o rest) = Len(rest) + 1
  OBVIOUS
<1>3. (<<fr>> \o rest)[1] = fr
  OBVIOUS
<1>4. \A i \in 2..(Len(rest) + 1) : (<<fr>> \o rest)[i] = rest[i - 1]
  OBVIOUS
<1>5. Len(s) \in Nat /\ Len(s) <= MaxDepth /\ Len(s) = Len(rest) + 1
  BY <1>1 DEF Stacks
<1>6. QED
  BY <1>1, <1>2, <1>3, <1>4, <1>5 DEF Stacks

LEMMA PushFacts ==
  ASSUME NEW s \in Stacks, Len(s) < MaxDepth, NEW fr \in Frames
  PROVE  /\ <<fr>> \o s \in Stacks
         /\ Len(<<fr>> \o s) = Len(s) + 1
         /\ (<<fr>> \o s)[1] = fr
         /\ \A i \in 2..(Len(s) + 1) : (<<fr>> \o s)[i] = s[i - 1]
<1>1. Len(s) \in Nat /\ MaxDepth \in Nat
  BY ConstantsOK DEF Stacks
<1>2. QED
  BY <1>1 DEF Stacks

LEMMA TypeParts ==
  TypeOK <=>
    /\ stack \in Stacks
    /\ conn \in [Buffers -> {"none", "open", "kept", "eof", "closed"}]
    /\ opened \in [Buffers -> 0..MaxConns]
    /\ moved \subseteq Buffers /\ killed \subseteq Buffers
    /\ expired \subseteq Timed
    /\ input \in BOOLEAN /\ quit \in BOOLEAN
    /\ result \in [Requests -> Buffers \cup {NoBuffer, Pending, Signalled}]
BY DEF TypeOK, Stacks

----------------------------------------------------------------------------
(* What is kept of an activation: a buffer that is not its own only comes  *)
(* with retrieval-done, and a counter over the limit with abort-hang.      *)
Faithful(fr) ==
  /\ fr.buf \notin Own(fr.req) => fr.done
  /\ fr.counter > InputLimit => fr.abort
AllFaithful(s) == \A i \in 1..Len(s) : Faithful(s[i])

GoodStacks == {s \in Stacks : AllFaithful(s)}

LEMMA BufferFacts ==
  /\ \A r \in Requests : First(r) \in Buffers /\ First(r) \in Own(r)
  /\ \A b \in Buffers : Target(b) \in Buffers /\ b[1] \in Requests
  /\ \A r \in Requests : \A b \in Own(r) : b \in Buffers /\ Target(b) \in Own(r)
BY DEF First, Own, Buffers, Target

LEMMA GoodTop ==
  ASSUME NEW s \in GoodStacks, s # <<>>
  PROVE  /\ Head(s) \in Frames /\ Faithful(Head(s)) /\ Tail(s) \in GoodStacks
<1>1. s \in Stacks /\ AllFaithful(s)
  BY DEF GoodStacks
<1>2. 1 \in 1..Len(s)
  BY <1>1 DEF Stacks
<1>3. QED
  BY <1>1, <1>2, TopFacts DEF GoodStacks, AllFaithful

LEMMA GoodSet ==
  ASSUME NEW s \in GoodStacks, s # <<>>, NEW fr \in Frames, Faithful(fr)
  PROVE  <<fr>> \o Tail(s) \in GoodStacks
<1>1. s \in Stacks /\ AllFaithful(s)
  BY DEF GoodStacks
<1>2. PICK t \in Stacks : t = <<fr>> \o Tail(s) /\ Len(t) = Len(s) /\ t[1] = fr
                          /\ \A i \in 1..Len(s) : i # 1 => t[i] = s[i]
  BY <1>1, SetTopFacts
<1>3. \A i \in 1..Len(t) : Faithful(t[i])
  BY <1>1, <1>2 DEF AllFaithful
<1>4. QED
  BY <1>2, <1>3 DEF GoodStacks, AllFaithful

LEMMA GoodPush ==
  ASSUME NEW s \in GoodStacks, Len(s) < MaxDepth, NEW fr \in Frames, Faithful(fr)
  PROVE  <<fr>> \o s \in GoodStacks
<1>1. s \in Stacks /\ AllFaithful(s) /\ Len(s) \in Nat
  BY DEF GoodStacks, Stacks
<1>2. PICK t \in Stacks : t = <<fr>> \o s /\ Len(t) = Len(s) + 1 /\ t[1] = fr
                          /\ \A i \in 2..(Len(s) + 1) : t[i] = s[i - 1]
  BY <1>1, PushFacts
<1>3. ASSUME NEW i \in 1..Len(t) PROVE Faithful(t[i])
  <2>1. CASE i = 1
    BY <1>2, <2>1
  <2>2. CASE i # 1
    BY <1>1, <1>2, <2>2 DEF AllFaithful
  <2>3. QED
    BY <2>1, <2>2
<1>4. QED
  BY <1>2, <1>3 DEF GoodStacks, AllFaithful

----------------------------------------------------------------------------
(* The network side. *)

ConnOK == conn \in [Buffers -> {"none", "open", "kept", "eof", "closed"}]
(* A connection that is there was opened: process objects are numbered     *)
(* from 1.                                                                 *)
OpenedOK ==
  /\ opened \in [Buffers -> 0..MaxConns]
  /\ \A b \in Buffers : conn[b] \in {"open", "kept", "eof"} => opened[b] # 0
RestOK ==
  /\ moved \subseteq Buffers /\ killed \subseteq Buffers
  /\ expired \subseteq Timed
  /\ input \in BOOLEAN /\ quit \in BOOLEAN
  /\ result \in [Requests -> Buffers \cup {NoBuffer, Pending, Signalled}]
Good == stack \in GoodStacks /\ ConnOK /\ OpenedOK /\ RestOK

LEMMA GoodParts == Good => TypeOK /\ ForeignOnlyWhenDone
<1>1. stack \in GoodStacks => stack \in Stacks /\ ForeignOnlyWhenDone
  BY DEF GoodStacks, AllFaithful, Faithful, ForeignOnlyWhenDone
<1>2. QED
  BY <1>1, TypeParts DEF Good, ConnOK, OpenedOK, RestOK

(* The callback leaves its activation faithful: it sets retrieval-done. *)
LEMMA GoodComplete ==
  ASSUME NEW s \in GoodStacks, NEW b \in Buffers
  PROVE  Complete(s, b) \in GoodStacks
<1>1. CASE s = <<>>
  BY <1>1 DEF Complete
<1>2. CASE s # <<>>
  <2>1. PICK fr \in Frames : fr = Head(s) /\ Faithful(fr)
    BY <1>2, GoodTop
  <2>2. PICK new : new = [fr EXCEPT !.done = TRUE, !.buf = b]
    OBVIOUS
  <2>3. /\ new \in Frames /\ new.done
        /\ new.counter = fr.counter /\ new.abort = fr.abort
    BY <2>2 DEF Frames
  <2>4. Faithful(new)
    BY <2>1, <2>3 DEF Faithful
  <2>5. Complete(s, b) = <<new>> \o Tail(s)
    BY <1>2, <2>1, <2>2 DEF Complete
  <2>6. QED
    BY <1>2, <2>3, <2>4, <2>5, GoodSet
<1>3. QED
  BY <1>1, <1>2

LEMMA GoodSentinel ==
  ASSUME Good, NEW b \in Buffers, NEW s \in GoodStacks, Sentinel(b, s)
  PROVE  stack' \in GoodStacks /\ ConnOK' /\ OpenedOK'
<1>1. CASE /\ conn' = [conn EXCEPT ![b] = "closed"]
           /\ stack' \in {s, Complete(s, b)}
           /\ UNCHANGED opened
  BY <1>1, GoodComplete DEF Good, ConnOK, OpenedOK
<1>2. CASE /\ opened[b] < MaxConns
           /\ conn' = [conn EXCEPT ![b] = "open"]
           /\ opened' = [opened EXCEPT ![b] = @ + 1]
           /\ stack' = s
  <2>1. opened[b] + 1 \in 0..MaxConns
    BY <1>2, ConstantsOK DEF Good, OpenedOK
  <2>2. QED
    BY <1>2, <2>1 DEF Good, ConnOK, OpenedOK
<1>3. QED
  BY <1>1, <1>2 DEF Sentinel

LEMMA GoodDelete ==
  ASSUME Good, NEW p \in Procs \cup {NoProc}, NEW s \in GoodStacks,
         DeleteProcess(p, s)
  PROVE  stack' \in GoodStacks /\ ConnOK' /\ OpenedOK'
<1>1. CASE Alive(p) /\ conn[p[1]] # "kept" /\ Sentinel(p[1], s)
  <2>1. p[1] \in Buffers
    BY <1>1 DEF Alive, Procs
  <2>2. QED
    BY <1>1, <2>1, GoodSentinel
<1>2. CASE /\ conn' = [conn EXCEPT ![p[1]] = "closed"]
           /\ stack' = s /\ UNCHANGED opened
  BY <1>2 DEF Good, ConnOK, OpenedOK
<1>3. CASE stack' = s /\ UNCHANGED net
  BY <1>3 DEF Good, ConnOK, OpenedOK, net
<1>4. QED
  BY <1>1, <1>2, <1>3 DEF DeleteProcess

LEMMA ProcessType ==
  ASSUME Good, NEW b \in Buffers \cup {NoBuffer}
  PROVE  ProcessOf(b) \in Procs \cup {NoProc}
<1>1. CASE ProcessOf(b) = NoProc
  BY <1>1
<1>2. CASE /\ b # NoBuffer /\ conn[b] \in {"open", "eof"}
           /\ ProcessOf(b) = <<b, opened[b]>>
  <2>1. b \in Buffers /\ opened[b] \in 1..MaxConns
    BY <1>2, ConstantsOK DEF Good, OpenedOK
  <2>2. QED
    BY <1>2, <2>1 DEF Procs
<1>3. QED
  BY <1>1, <1>2 DEF ProcessOf

----------------------------------------------------------------------------
LEMMA GoodInit == Init => Good
<1> SUFFICES ASSUME Init PROVE Good
  OBVIOUS
<1>1. stack \in GoodStacks
  BY ConstantsOK DEF Init, GoodStacks, Stacks, AllFaithful
<1>2. ConnOK /\ OpenedOK
  BY ConstantsOK DEF Init, ConnOK, OpenedOK
<1>3. RestOK
  BY DEF Init, RestOK
<1>4. QED
  BY <1>1, <1>2, <1>3 DEF Good

LEMMA GoodNetwork ==
  ASSUME Good, NEW b \in Buffers,
         Response(b) \/ Redirect(b) \/ PeerCloses(b) \/ RunSentinel(b)
  PROVE  Good'
<1>1. CASE Response(b)
  <2>1. stack' \in GoodStacks
    BY <1>1, GoodComplete DEF Response, Good
  <2>2. ConnOK' /\ OpenedOK'
    BY <1>1 DEF Response, Good, ConnOK, OpenedOK
  <2>3. RestOK'
    BY <1>1 DEF Response, Good, RestOK
  <2>4. QED
    BY <2>1, <2>2, <2>3 DEF Good
<1>2. CASE Redirect(b)
  <2>1. Target(b) \in Buffers /\ Target(b) # b
    BY <1>2, BufferFacts DEF Redirect, Target
  <2>2. ConnOK' /\ OpenedOK'
    BY <1>2, <2>1, ConstantsOK DEF Redirect, Good, ConnOK, OpenedOK
  <2>3. stack' \in GoodStacks /\ RestOK'
    BY <1>2 DEF Redirect, Good, RestOK
  <2>4. QED
    BY <2>2, <2>3 DEF Good
<1>3. CASE PeerCloses(b)
  BY <1>3 DEF PeerCloses, Good, ConnOK, OpenedOK, RestOK
<1>4. CASE RunSentinel(b)
  <2>1. stack' \in GoodStacks /\ ConnOK' /\ OpenedOK'
    BY <1>4, GoodSentinel DEF RunSentinel, Good
  <2>2. RestOK'
    BY <1>4 DEF RunSentinel, Good, RestOK
  <2>3. QED
    BY <2>1, <2>2 DEF Good
<1>5. QED
  BY <1>1, <1>2, <1>3, <1>4

LEMMA GoodUser ==
  ASSUME Good,
         \/ TypeAhead \/ ReadInput \/ TypeQuit \/ UNCHANGED vars
         \/ \E r \in Requests : Expire(r)
  PROVE  Good'
<1>1. UNCHANGED <<stack, net, moved, killed, result>>
  BY DEF TypeAhead, ReadInput, TypeQuit, Expire, vars
<1>2. expired' \subseteq Timed /\ input' \in BOOLEAN /\ quit' \in BOOLEAN
  BY DEF TypeAhead, ReadInput, TypeQuit, Expire, vars, Good, RestOK
<1>3. QED
  BY <1>1, <1>2 DEF Good, ConnOK, OpenedOK, RestOK, net

LEMMA GoodKill ==
  ASSUME Good, NEW b \in Buffers, KillResult(b)
  PROVE  Good'
<1>1. stack' \in GoodStacks
  BY GoodComplete DEF KillResult, Good
<1>2. ConnOK' /\ OpenedOK'
  BY DEF KillResult, Good, ConnOK, OpenedOK
<1>3. RestOK'
  BY DEF KillResult, Good, RestOK
<1>4. QED
  BY <1>1, <1>2, <1>3 DEF Good

LEMMA GoodStart ==
  ASSUME Good, NEW r \in Requests, Start(r)
  PROVE  Good'
<1>1. First(r) \in Buffers /\ First(r) \in Own(r) /\ 1 \in 1..MaxConns
  BY BufferFacts, ConstantsOK
<1>2. \A done \in BOOLEAN, proc \in {<<First(r), 1>>, NoProc} :
        NewFrame(r, done, proc) \in Frames /\ Faithful(NewFrame(r, done, proc))
  BY <1>1, ConstantsOK DEF NewFrame, Frames, Procs, Faithful
<1>3. stack' \in GoodStacks
  <2>1. stack \in GoodStacks /\ Len(stack) < MaxDepth
    BY DEF Good, Start
  <2>2. \A done \in BOOLEAN, proc \in {<<First(r), 1>>, NoProc} :
          <<NewFrame(r, done, proc)>> \o stack \in GoodStacks
    BY <1>2, <2>1, GoodPush
  <2>3. QED
    BY <2>1, <2>2 DEF Start
<1>4. ConnOK' /\ OpenedOK'
  <2>1. CASE UNCHANGED net
    BY <2>1 DEF Good, ConnOK, OpenedOK, net
  <2>2. CASE /\ conn' = [conn EXCEPT ![First(r)] = "open"]
             /\ opened' = [opened EXCEPT ![First(r)] = 1]
    BY <1>1, <2>2, ConstantsOK DEF Good, ConnOK, OpenedOK
  <2>3. CASE conn' = [conn EXCEPT ![First(r)] = "closed"] /\ UNCHANGED opened
    BY <1>1, <2>3 DEF Good, ConnOK, OpenedOK
  <2>4. QED
    BY <2>1, <2>2, <2>3 DEF Start
<1>5. RestOK'
  BY DEF Start, Good, RestOK
<1>6. QED
  BY <1>3, <1>4, <1>5 DEF Good

----------------------------------------------------------------------------
(* The loop. *)

(* Only the place and the process of the activation change. *)
LEMMA GoodUpdate ==
  ASSUME Good, stack # <<>>, NEW fr \in Frames,
         fr.req = Top.req, fr.buf = Top.buf, fr.done = Top.done,
         fr.counter = Top.counter, fr.abort = Top.abort
  PROVE  <<fr>> \o Tail(stack) \in GoodStacks
<1>1. stack \in GoodStacks
  BY DEF Good
<1>2. Faithful(fr)
  BY <1>1, GoodTop DEF Faithful, Top
<1>3. QED
  BY <1>1, <1>2, GoodSet

LEMMA GoodFollow ==
  ASSUME Good, FollowRedirect
  PROVE  Good'
<1>1. PICK fr \in Frames : fr = Top /\ Faithful(fr) /\ ~fr.done
  BY GoodTop DEF FollowRedirect, Good, Top, Stops
<1>2. fr.buf \in Own(fr.req) /\ fr.req \in Requests
  BY <1>1 DEF Faithful, Frames
<1>3. Target(fr.buf) \in Buffers /\ Target(fr.buf) \in Own(fr.req)
  BY <1>2, BufferFacts
<1>4. PICK p \in Procs \cup {NoProc} : p = ProcessOf(Target(fr.buf))
  BY <1>3, ProcessType
<1>5. PICK new : new = [fr EXCEPT !.buf = Target(fr.buf), !.proc = p]
  OBVIOUS
<1>6. /\ new \in Frames /\ new.buf = Target(fr.buf) /\ new.req = fr.req
      /\ new.counter = fr.counter /\ new.abort = fr.abort
  BY <1>3, <1>4, <1>5 DEF Frames
<1>7. Faithful(new)
  BY <1>1, <1>3, <1>6 DEF Faithful
<1>8. stack' = <<new>> \o Tail(stack)
  BY <1>1, <1>4, <1>5 DEF FollowRedirect, SetTop
<1>9. stack' \in GoodStacks
  BY <1>6, <1>7, <1>8, GoodSet DEF FollowRedirect, Good
<1>10. QED
  BY <1>9 DEF FollowRedirect, Good, ConnOK, OpenedOK, RestOK, net

(* The loop looks at an activation that is not done, so its buffer is its  *)
(* own, and stays so when a closed connection ends the loop.               *)
LEMMA GoodRound ==
  ASSUME Good, Round
  PROVE  Good'
<1>1. PICK fr \in Frames : fr = Top /\ Faithful(fr) /\ ~fr.done /\ ~fr.abort
  BY GoodTop DEF Round, Good, Top, Stops
<1>2. fr.buf \in Own(fr.req) /\ fr.counter \in 0..InputLimit
  <2>1. fr.buf \in Own(fr.req) /\ ~(fr.counter > InputLimit)
    BY <1>1 DEF Faithful
  <2>2. fr.counter \in 0..(InputLimit + 1)
    BY DEF Frames
  <2>3. QED
    BY <2>1, <2>2, ConstantsOK
<1>3. Count(fr) \in 0..(InputLimit + 1)
  BY <1>2, ConstantsOK DEF Count
<1>4. PICK new : new = [fr EXCEPT !.counter = Count(fr),
                                  !.abort = Count(fr) > InputLimit,
                                  !.done = Dead(fr), !.at = "wait"]
  OBVIOUS
<1>5. Dead(fr) \in BOOLEAN /\ (Count(fr) > InputLimit) \in BOOLEAN
  BY DEF Dead
<1>6. /\ new \in Frames /\ new.buf = fr.buf /\ new.req = fr.req
      /\ new.counter = Count(fr) /\ new.abort = (Count(fr) > InputLimit)
  BY <1>3, <1>4, <1>5 DEF Frames
<1>7. Faithful(new)
  BY <1>2, <1>6 DEF Faithful
<1>8. PICK after \in GoodStacks : after = <<new>> \o Tail(stack)
  BY <1>6, <1>7, GoodSet DEF Round, Good
<1>9. \/ fr.proc # NoProc /\ DeleteProcess(fr.proc, after)
      \/ stack' = after /\ UNCHANGED net
  BY <1>1, <1>4, <1>8 DEF Round, Dead
<1>10. fr.proc \in Procs \cup {NoProc}
  BY DEF Frames
<1>11. stack' \in GoodStacks /\ ConnOK' /\ OpenedOK'
  BY <1>9, <1>10, GoodDelete DEF Good, ConnOK, OpenedOK, net
<1>12. RestOK'
  BY DEF Round, Good, RestOK
<1>13. QED
  BY <1>11, <1>12 DEF Good

LEMMA GoodWake ==
  ASSUME Good, Wake \/ LeaveLate
  PROVE  Good'
<1>1. PICK fr \in Frames : fr = Top
  BY GoodTop DEF Wake, LeaveLate, Good, Top
<1>2. PICK p \in Procs \cup {NoProc} : p = ProcessOf(fr.buf)
  BY ProcessType DEF Frames
<1>3. \E new \in {[fr EXCEPT !.at = "check"], [fr EXCEPT !.at = "kill proc"],
                 [fr EXCEPT !.at = "check", !.proc = p]} :
        stack' = <<new>> \o Tail(stack)
  BY <1>1, <1>2 DEF Wake, LeaveLate, SetTop
<1>4. \A new \in {[fr EXCEPT !.at = "check"], [fr EXCEPT !.at = "kill proc"],
                 [fr EXCEPT !.at = "check", !.proc = p]} :
        /\ new \in Frames /\ new.req = fr.req /\ new.buf = fr.buf
        /\ new.done = fr.done /\ new.counter = fr.counter /\ new.abort = fr.abort
  BY <1>2, ZenonT(30) DEF Frames
<1>5. stack' \in GoodStacks
  BY <1>1, <1>3, <1>4, GoodUpdate, ZenonT(30) DEF Wake, LeaveLate
<1>6. QED
  BY <1>5 DEF Wake, LeaveLate, Good, ConnOK, OpenedOK, RestOK, net

(* delete-process is called on proc, or on the process the buffer has now, *)
(* and the activation moves on.                                            *)
LEMMA GoodStop ==
  ASSUME Good, WakeOnQuit \/ KillProc
  PROVE  Good'
<1>1. PICK fr \in Frames : fr = Top /\ fr.proc \in Procs \cup {NoProc}
  BY GoodTop DEF WakeOnQuit, KillProc, Good, Top, Frames
<1>2. \E new \in {[fr EXCEPT !.at = "check", !.proc = NoProc],
                 [fr EXCEPT !.at = "kill buffer process"]} :
        LET after == <<new>> \o Tail(stack) IN
        DeleteProcess(fr.proc, after) \/ (stack' = after /\ UNCHANGED net)
  BY <1>1 DEF WakeOnQuit, KillProc
<1>3. \A new \in {[fr EXCEPT !.at = "check", !.proc = NoProc],
                 [fr EXCEPT !.at = "kill buffer process"]} :
        /\ new \in Frames /\ new.req = fr.req /\ new.buf = fr.buf
        /\ new.done = fr.done /\ new.counter = fr.counter /\ new.abort = fr.abort
  BY ZenonT(30) DEF Frames
<1>4. \E after \in GoodStacks :
        DeleteProcess(fr.proc, after) \/ (stack' = after /\ UNCHANGED net)
  BY <1>1, <1>2, <1>3, GoodUpdate DEF WakeOnQuit, KillProc
<1>5. stack' \in GoodStacks /\ ConnOK' /\ OpenedOK'
  BY <1>1, <1>4, GoodDelete DEF Good, ConnOK, OpenedOK, net
<1>6. RestOK'
  BY DEF WakeOnQuit, KillProc, Good, RestOK
<1>7. QED
  BY <1>5, <1>6 DEF Good

LEMMA GoodDeliver ==
  ASSUME Good, stack # <<>>, Deliver(Top)
  PROVE  /\ stack' \in GoodStacks /\ quit' \in BOOLEAN
         /\ result' \in [Requests -> Buffers \cup {NoBuffer, Pending, Signalled}]
<1>1. PICK fr \in Frames : fr = Top /\ Tail(stack) \in GoodStacks
  BY GoodTop DEF Good, Top
<1>2. fr.req \in Requests /\ fr.buf \in Buffers \cup {NoBuffer}
  BY DEF Frames
<1>3. result' \in [Requests -> Buffers \cup {NoBuffer, Pending, Signalled}]
  BY <1>1, <1>2 DEF Deliver, Good, RestOK
<1>4. QED
  BY <1>1, <1>3 DEF Deliver, Good, RestOK

LEMMA GoodReturn ==
  ASSUME Good, Return \/ ReturnLate
  PROVE  Good'
<1>1. stack # <<>> /\ Deliver(Top)
  BY DEF Return, ReturnLate
<1>2. UNCHANGED <<net, moved, killed, expired, input>>
  BY DEF Return, ReturnLate
<1>3. QED
  BY <1>1, <1>2, GoodDeliver DEF Good, ConnOK, OpenedOK, RestOK, net

LEMMA GoodKillBuffer ==
  ASSUME Good, KillBufferProcess
  PROVE  Good'
<1>1. PICK fr \in Frames : fr = Top
  BY GoodTop DEF KillBufferProcess, Good, Top
<1>2. UNCHANGED <<moved, killed, expired, input>>
  BY DEF KillBufferProcess
<1>3. CASE Deliver(fr) /\ UNCHANGED net
  BY <1>1, <1>2, <1>3, GoodDeliver
     DEF KillBufferProcess, Good, ConnOK, OpenedOK, RestOK, net
<1>4. CASE /\ DeleteProcess(ProcessOf(fr.buf),
                            <<[fr EXCEPT !.at = "return"]>> \o Tail(stack))
           /\ UNCHANGED <<quit, result>>
  <2>1. PICK p \in Procs \cup {NoProc} : p = ProcessOf(fr.buf)
    BY ProcessType DEF Frames
  <2>2. PICK new : new = [fr EXCEPT !.at = "return"]
    OBVIOUS
  <2>3. /\ new \in Frames /\ new.req = fr.req /\ new.buf = fr.buf
        /\ new.done = fr.done /\ new.counter = fr.counter /\ new.abort = fr.abort
    BY <2>2 DEF Frames
  <2>4. <<new>> \o Tail(stack) \in GoodStacks
    BY <1>1, <2>3, GoodUpdate DEF KillBufferProcess
  <2>5. stack' \in GoodStacks /\ ConnOK' /\ OpenedOK'
    BY <1>4, <2>1, <2>2, <2>4, GoodDelete
  <2>6. RestOK'
    BY <1>2, <1>4 DEF Good, RestOK
  <2>7. QED
    BY <2>5, <2>6 DEF Good
<1>5. QED
  BY <1>1, <1>3, <1>4 DEF KillBufferProcess

----------------------------------------------------------------------------
LEMMA GoodNext == Good /\ [Next]_vars => Good'
<1> SUFFICES ASSUME Good, [Next]_vars PROVE Good'
  OBVIOUS
<1>1. CASE Loop
  BY <1>1, GoodFollow, GoodRound, GoodWake, GoodStop, GoodReturn, GoodKillBuffer
     DEF Loop
<1>2. CASE Network
  BY <1>2, GoodNetwork DEF Network
<1>3. QED
  BY <1>1, <1>2, GoodUser, GoodStart, GoodKill DEF Next

LEMMA GoodAlways == Spec => []Good
BY GoodInit, GoodNext, PTL DEF Spec

(* Every activation keeps its shape; in particular the counter of rounds   *)
(* with pending input never passes the limit by more than one.             *)
THEOREM TypeCorrect == Spec => []TypeOK
BY GoodParts, GoodAlways, PTL

(* Any number of retrievals, nested to any depth, with any reconnections,  *)
(* timeouts, quits and typing: one that ends without its callback having   *)
(* been called, by timeout or by abort-hang, returns its own buffer.       *)
THEOREM ForeignBufferMeansDone == Spec => []ForeignOnlyWhenDone
BY GoodParts, GoodAlways, PTL

----------------------------------------------------------------------------
(* Where the connections are.  An activation that is not done knows the    *)
(* process of its buffer, an earlier one, or none; then the buffer has no  *)
(* connection that talks, or was connected again.  After each deletion of  *)
(* the clean-up a connection that is open is a later one.                  *)
Talking == {"open", "eof"}
Ended == {"kept", "closed"}

(* A process is the Serial-th connection of its buffer. *)
Holder(p) == p[1]
Serial(p) == p[2]

Tracked(fr, c, o) ==
  /\ fr.buf \in Buffers /\ c[fr.buf] # "none"
  /\ ~fr.done /\ fr.proc = NoProc /\ c[fr.buf] \in Talking => o[fr.buf] > 1
  /\ ~fr.done /\ fr.proc # NoProc =>
       Holder(fr.proc) = fr.buf /\ Serial(fr.proc) <= o[fr.buf]
  /\ fr.at = "kill proc" => ~fr.done
  /\ fr.at = "kill buffer process" /\ c[fr.buf] = "open" => o[fr.buf] > 1
  /\ fr.at = "return" /\ c[fr.buf] = "open" => o[fr.buf] > 2

(* Only the innermost activation runs; the others wait. *)
Below(s, c, o) == \A i \in 2..Len(s) : Tracked(s[i], c, o) /\ s[i].at = "wait"
Traced(s, c, o) == Below(s, c, o) /\ (s # <<>> => Tracked(Head(s), c, o))

(* Buffers that were killed, or redirected and marked dead, have nothing   *)
(* more to say; the buffer of a redirect is opened by it; what was         *)
(* returned was opened.                                                    *)
Left == \A b \in killed \cup moved : conn[b] \in Ended
Moves ==
  /\ moved \subseteq {First(r) : r \in Requests}
  /\ \A r \in Requests : First(r) \in moved <=> conn[Target(First(r))] # "none"
Results == \A r \in Requests : result[r] \in Buffers => conn[result[r]] # "none"
Known == Good /\ Traced(stack, conn, opened) /\ Left /\ Moves /\ Results

(* How connections go on: to new ones that are counted, or to their end. *)
Onward(c, o, d, n) ==
  \A b \in Buffers : c[b] # "none" =>
    /\ d[b] # "none" /\ n[b] >= o[b]
    /\ d[b] \in Talking => (c[b] \in Talking /\ n[b] = o[b]) \/ n[b] > 1
(* The same without any buffer's first connection. *)
Settles(c, o, d, n) ==
  /\ Onward(c, o, d, n)
  /\ \A b \in Buffers : (c[b] = "none" <=> d[b] = "none")
                        /\ (c[b] \in Ended => d[b] \in Ended)

Conns == [Buffers -> {"none", "open", "kept", "eof", "closed"}]
Counts == [Buffers -> 0..MaxConns]

(* One of the two processes, or both, have been deleted. *)
CleaningUp(fr) == fr.at = "kill buffer process" \/ fr.at = "return"

LEMMA TrackedOn ==
  ASSUME NEW fr \in Frames, NEW c \in Conns, NEW d \in Conns,
         NEW o \in Counts, NEW n \in Counts,
         Tracked(fr, c, o), Onward(c, o, d, n),
         ~CleaningUp(fr)
  PROVE  Tracked(fr, d, n)
<1>1. PICK b \in Buffers : b = fr.buf
  BY DEF Tracked
<1>2. o[b] \in Nat /\ n[b] \in Nat /\ (fr.proc # NoProc => Serial(fr.proc) \in Nat)
  <2>1. MaxConns \in Nat /\ o[b] \in 0..MaxConns /\ n[b] \in 0..MaxConns
    BY ConstantsOK DEF Counts
  <2>2. fr.proc \in Procs \cup {NoProc}
    BY DEF Frames
  <2>3. fr.proc # NoProc => Serial(fr.proc) \in 1..MaxConns
    BY <2>2 DEF Procs, Serial
  <2>4. QED
    BY <2>1, <2>3
<1>3. /\ c[b] # "none" /\ d[b] # "none" /\ n[b] >= o[b]
      /\ d[b] \in Talking => (c[b] \in Talking /\ n[b] = o[b]) \/ n[b] > 1
  BY <1>1 DEF Tracked, Onward
<1>4. ~fr.done /\ fr.proc = NoProc /\ d[b] \in Talking => n[b] > 1
  BY <1>1, <1>3 DEF Tracked
<1>5. ~fr.done /\ fr.proc # NoProc => Holder(fr.proc) = b /\ Serial(fr.proc) <= n[b]
  <2>1. \A k, l, m \in Nat : k <= l /\ m >= l => k <= m
    OBVIOUS
  <2>2. ~fr.done /\ fr.proc # NoProc => Holder(fr.proc) = b /\ Serial(fr.proc) <= o[b]
    BY <1>1 DEF Tracked
  <2>3. QED
    BY <1>2, <1>3, <2>1, <2>2, Zenon
<1>6. QED
  BY <1>1, <1>3, <1>4, <1>5 DEF Tracked, CleaningUp

LEMMA BelowOn ==
  ASSUME NEW s \in Stacks, NEW c \in Conns, NEW d \in Conns,
         NEW o \in Counts, NEW n \in Counts,
         Below(s, c, o), Onward(c, o, d, n)
  PROVE  Below(s, d, n)
<1> SUFFICES ASSUME NEW i \in 2..Len(s)
             PROVE  Tracked(s[i], d, n) /\ s[i].at = "wait"
  BY DEF Below
<1>1. s[i] \in Frames
  <2>1. i \in 1..Len(s)
    BY DEF Stacks
  <2>2. QED
    BY <2>1 DEF Stacks
<1>2. Tracked(s[i], c, o) /\ s[i].at = "wait"
  BY DEF Below
<1>3. QED
  BY <1>1, <1>2, TrackedOn DEF CleaningUp

(* The top is replaced, removed, or comes to be waiting below another. *)
LEMMA TracedSet ==
  ASSUME NEW s \in Stacks, s # <<>>, NEW fr \in Frames, NEW c, NEW o,
         Below(s, c, o), Tracked(fr, c, o)
  PROVE  Traced(<<fr>> \o Tail(s), c, o)
<1>1. PICK t \in Stacks : t = <<fr>> \o Tail(s) /\ Len(t) = Len(s) /\ t[1] = fr
                          /\ (\A i \in 1..Len(s) : i # 1 => t[i] = s[i]) /\ t # <<>>
  BY SetTopFacts
<1>2. Head(t) = fr
  BY <1>1, TopFacts
<1>3. \A i \in 2..Len(t) : i \in 1..Len(s) /\ i # 1
  BY <1>1 DEF Stacks
<1>4. QED
  BY <1>1, <1>2, <1>3 DEF Traced, Below

LEMMA TracedPop ==
  ASSUME NEW s \in Stacks, s # <<>>, NEW c, NEW o, Below(s, c, o)
  PROVE  Traced(Tail(s), c, o)
<1>1. PICK t \in Stacks : t = Tail(s) /\ Len(t) = Len(s) - 1
                          /\ \A i \in 1..Len(t) : t[i] = s[i + 1]
  BY TopFacts
<1>2. Len(s) \in Nat /\ Len(t) \in Nat
  BY DEF Stacks
<1>3. \A i \in 1..Len(t) : i + 1 \in 2..Len(s) /\ Tracked(t[i], c, o)
                           /\ t[i].at = "wait"
  BY <1>1, <1>2 DEF Below
<1>4. t # <<>> => Head(t) = t[1] /\ 1 \in 1..Len(t)
  BY <1>2, TopFacts DEF Stacks
<1>5. \A i \in 2..Len(t) : i \in 1..Len(t)
  BY <1>2
<1>6. QED
  BY <1>1, <1>3, <1>4, <1>5 DEF Traced, Below

LEMMA TracedPush ==
  ASSUME NEW s \in Stacks, Len(s) < MaxDepth, NEW fr \in Frames, NEW c, NEW o,
         Traced(s, c, o), s # <<>> => Head(s).at = "wait", Tracked(fr, c, o)
  PROVE  Traced(<<fr>> \o s, c, o)
<1>1. PICK t \in Stacks : t = <<fr>> \o s /\ Len(t) = Len(s) + 1 /\ t[1] = fr
                          /\ \A i \in 2..(Len(s) + 1) : t[i] = s[i - 1]
  BY PushFacts
<1>2. Len(s) \in Nat /\ t # <<>>
  BY <1>1 DEF Stacks
<1>3. Head(t) = fr
  BY <1>1, <1>2, TopFacts
<1>4. ASSUME NEW i \in 2..Len(t)
      PROVE  Tracked(t[i], c, o) /\ t[i].at = "wait"
  <2>1. CASE i = 2
    <3>1. s # <<>> /\ t[i] = s[1]
      BY <1>1, <1>2, <2>1
    <3>2. s[1] = Head(s)
      BY <3>1, TopFacts
    <3>3. QED
      BY <3>1, <3>2 DEF Traced
  <2>2. CASE i # 2
    <3>1. i - 1 \in 2..Len(s) /\ t[i] = s[i - 1]
      BY <1>1, <1>2, <2>2
    <3>2. QED
      BY <3>1 DEF Traced, Below
  <2>3. QED
    BY <2>1, <2>2
<1>5. QED
  BY <1>1, <1>3, <1>4 DEF Traced, Below

LEMMA TracedOn ==
  ASSUME NEW s \in Stacks, NEW c \in Conns, NEW d \in Conns,
         NEW o \in Counts, NEW n \in Counts,
         Traced(s, c, o), Onward(c, o, d, n),
         s # <<>> => ~CleaningUp(Head(s))
  PROVE  Traced(s, d, n)
<1>1. Below(s, d, n)
  BY BelowOn DEF Traced
<1>2. s # <<>> => Tracked(Head(s), d, n)
  BY TopFacts, TrackedOn DEF Traced
<1>3. QED
  BY <1>1, <1>2 DEF Traced

(* The callback leaves an activation that is done. *)
LEMMA TracedComplete ==
  ASSUME NEW s \in Stacks, NEW b \in Buffers, NEW c, NEW o,
         Traced(s, c, o), c[b] \in Ended,
         s # <<>> => Head(s).at # "kill proc"
  PROVE  Traced(Complete(s, b), c, o)
<1>1. CASE s = <<>>
  BY <1>1 DEF Complete
<1>2. CASE s # <<>>
  <2>1. PICK fr \in Frames : fr = Head(s)
    BY <1>2, TopFacts
  <2>2. PICK new : new = [fr EXCEPT !.done = TRUE, !.buf = b]
    OBVIOUS
  <2>3. new \in Frames /\ new.done /\ new.buf = b /\ new.at = fr.at
    BY <2>2 DEF Frames
  <2>4. c[b] # "none" /\ c[b] # "open"
    BY DEF Ended
  <2>5. fr.at # "kill proc"
    BY <1>2, <2>1
  <2>6. Tracked(new, c, o)
    BY <2>3, <2>4, <2>5 DEF Tracked
  <2>7. Complete(s, b) = <<new>> \o Tail(s)
    BY <1>2, <2>1, <2>2 DEF Complete
  <2>8. QED
    BY <1>2, <2>3, <2>6, <2>7, TracedSet DEF Traced
<1>3. QED
  BY <1>1, <1>2

----------------------------------------------------------------------------
LEMMA Shapes ==
  ASSUME Good
  PROVE  /\ stack \in Stacks /\ stack \in GoodStacks
         /\ conn \in Conns /\ opened \in Counts
         /\ \A b \in Buffers : conn[b] \in Talking \cup {"kept"} => opened[b] >= 1
<1>1. stack \in Stacks
  BY DEF Good, GoodStacks
<1>2. conn \in Conns /\ opened \in Counts
  BY DEF Good, ConnOK, OpenedOK, Conns, Counts
<1>3. ASSUME NEW b \in Buffers, conn[b] \in Talking \cup {"kept"}
      PROVE  opened[b] >= 1
  <2>1. opened[b] # 0
    BY <1>3 DEF Good, OpenedOK, Talking
  <2>2. opened[b] \in 0..MaxConns
    BY <1>2 DEF Counts
  <2>3. QED
    BY <2>1, <2>2, ConstantsOK
<1>4. QED
  BY <1>1, <1>2, <1>3 DEF Good

LEMMA SettledAlready ==
  ASSUME Good, UNCHANGED net
  PROVE  Settles(conn, opened, conn', opened')
<1>1. \A b \in Buffers : opened[b] \in 0..MaxConns
  BY Shapes DEF Counts
<1>2. \A b \in Buffers : opened[b] >= opened[b]
  BY <1>1, ConstantsOK
<1>3. QED
  BY <1>2 DEF Settles, Onward, net

(* A connection that ends, without being opened again. *)
LEMMA EndSettles ==
  ASSUME Good, NEW b \in Buffers, NEW e \in Ended, conn[b] # "none",
         conn' = [conn EXCEPT ![b] = e], UNCHANGED opened
  PROVE  Settles(conn, opened, conn', opened')
<1>1. conn \in Conns /\ \A x \in Buffers : opened[x] \in 0..MaxConns
  BY Shapes DEF Counts
<1>2. \A x \in Buffers : opened[x] >= opened[x]
  BY <1>1, ConstantsOK
<1>3. conn'[b] = e /\ \A x \in Buffers : x # b => conn'[x] = conn[x]
  BY <1>1 DEF Conns
<1>4. e # "none" /\ e \notin Talking
  BY DEF Ended, Talking
<1>5. Onward(conn, opened, conn', opened')
  <2> SUFFICES ASSUME NEW x \in Buffers, conn[x] # "none"
               PROVE  /\ conn'[x] # "none" /\ opened'[x] >= opened[x]
                      /\ conn'[x] \in Talking =>
                           (conn[x] \in Talking /\ opened'[x] = opened[x])
                             \/ opened'[x] > 1
    BY DEF Onward
  <2>1. QED
    BY <1>2, <1>3, <1>4
<1>6. QED
  BY <1>3, <1>4, <1>5 DEF Settles

LEMMA SentinelDoes ==
  ASSUME Good, NEW b \in Buffers, conn[b] \in Talking,
         NEW s \in GoodStacks, Sentinel(b, s)
  PROVE  /\ Settles(conn, opened, conn', opened')
         /\ \/ conn'[b] = "closed" /\ stack' \in {s, Complete(s, b)}
            \/ /\ conn'[b] = "open" /\ opened'[b] = opened[b] + 1
               /\ stack' = s
<1>1. conn \in Conns /\ opened \in Counts /\ conn[b] # "none"
  BY Shapes DEF Talking
<1>2. CASE /\ conn' = [conn EXCEPT ![b] = "closed"]
           /\ stack' \in {s, Complete(s, b)} /\ UNCHANGED opened
  <2>1. conn'[b] = "closed" /\ "closed" \in Ended
    BY <1>1, <1>2 DEF Conns, Ended
  <2>2. QED
    BY <1>1, <1>2, <2>1, EndSettles
<1>3. CASE /\ conn' = [conn EXCEPT ![b] = "open"]
           /\ opened' = [opened EXCEPT ![b] = @ + 1]
           /\ stack' = s
  <2>1. /\ conn'[b] = "open" /\ opened'[b] = opened[b] + 1
        /\ \A x \in Buffers : x # b => conn'[x] = conn[x] /\ opened'[x] = opened[x]
    BY <1>1, <1>3 DEF Conns, Counts
  <2>2. \A x \in Buffers : opened[x] \in Nat
    BY <1>1, ConstantsOK DEF Counts
  <2>3. opened[b] >= 1 /\ conn[b] \notin Ended
    BY Shapes DEF Talking, Ended
  <2>4. opened[b] + 1 > 1 /\ opened[b] + 1 >= opened[b]
        /\ \A x \in Buffers : opened[x] >= opened[x]
    BY <2>2, <2>3
  <2>5. Onward(conn, opened, conn', opened')
    <3> SUFFICES ASSUME NEW x \in Buffers, conn[x] # "none"
                 PROVE  /\ conn'[x] # "none" /\ opened'[x] >= opened[x]
                        /\ conn'[x] \in Talking =>
                             (conn[x] \in Talking /\ opened'[x] = opened[x])
                               \/ opened'[x] > 1
      BY DEF Onward
    <3>1. CASE x = b
      BY <2>1, <2>4, <3>1
    <3>2. CASE x # b
      BY <2>1, <2>4, <3>2
    <3>3. QED
      BY <3>1, <3>2
  <2>6. \A x \in Buffers : (conn[x] = "none" <=> conn'[x] = "none")
                           /\ (conn[x] \in Ended => conn'[x] \in Ended)
    BY <1>1, <2>1, <2>3
  <2>7. QED
    BY <1>3, <2>1, <2>5, <2>6 DEF Settles
<1>4. QED
  BY <1>2, <1>3 DEF Sentinel

LEMMA DeleteDoes ==
  ASSUME Good, NEW p \in Procs \cup {NoProc}, NEW s \in GoodStacks,
         DeleteProcess(p, s)
  PROVE  /\ Settles(conn, opened, conn', opened')
         /\ \/ /\ Alive(p) /\ conn'[p[1]] = "closed"
               /\ stack' \in {s, Complete(s, p[1])}
            \/ /\ Alive(p) /\ conn'[p[1]] = "open"
               /\ opened'[p[1]] = opened[p[1]] + 1 /\ stack' = s
            \/ ~Alive(p) /\ stack' = s /\ UNCHANGED net
<1>1. CASE Alive(p) /\ conn[p[1]] # "kept" /\ Sentinel(p[1], s)
  <2>1. p[1] \in Buffers /\ conn[p[1]] \in Talking
    BY <1>1 DEF Alive, Procs, Talking
  <2>2. QED
    BY <1>1, <2>1, SentinelDoes
<1>2. CASE /\ Alive(p) /\ conn[p[1]] = "kept"
           /\ conn' = [conn EXCEPT ![p[1]] = "closed"]
           /\ stack' = s /\ UNCHANGED opened
  <2>1. p[1] \in Buffers /\ conn[p[1]] # "none" /\ "closed" \in Ended
    BY <1>2 DEF Alive, Procs, Ended
  <2>2. conn'[p[1]] = "closed"
    BY <1>2, <2>1, Shapes DEF Conns
  <2>3. QED
    BY <1>2, <2>1, <2>2, EndSettles
<1>3. CASE ~Alive(p) /\ stack' = s /\ UNCHANGED net
  BY <1>3, SettledAlready
<1>4. QED
  BY <1>1, <1>2, <1>3 DEF DeleteProcess

(* What became of the buffers stays true while connections go on or end,   *)
(* and nothing is moved, killed or returned.                               *)
LEMMA BuffersKept ==
  ASSUME Known, Settles(conn, opened, conn', opened'),
         UNCHANGED <<moved, killed>>
  PROVE  /\ Left' /\ Moves'
         /\ \A r \in Requests :
              result[r] \in Buffers => conn'[result[r]] # "none"
<1>1. \A b \in killed \cup moved : b \in Buffers
  BY DEF Known, Good, RestOK
<1>2. Left'
  BY <1>1 DEF Known, Left, Settles
<1>3. \A r \in Requests : Target(First(r)) \in Buffers
  BY BufferFacts
<1>4. Moves'
  BY <1>3 DEF Known, Moves, Settles
<1>5. QED
  BY <1>2, <1>4 DEF Known, Results, Settles

(* The innermost activation becomes new, and with it a process is deleted. *)
LEMMA DeletedTraced ==
  ASSUME Known, stack # <<>>, NEW p \in Procs \cup {NoProc}, NEW new \in Frames,
         NEW after \in GoodStacks, after = <<new>> \o Tail(stack),
         DeleteProcess(p, after), ConnOK', OpenedOK',
         new.at # "kill proc", Tracked(new, conn', opened')
  PROVE  Traced(stack', conn', opened')
<1>1. /\ stack \in Stacks /\ conn \in Conns /\ opened \in Counts
      /\ conn' \in Conns /\ opened' \in Counts
  BY Shapes DEF Known, ConnOK, OpenedOK, Conns, Counts
<1>2. Settles(conn, opened, conn', opened')
      /\ \/ stack' = after
         \/ /\ Alive(p) /\ conn'[p[1]] = "closed"
            /\ stack' = Complete(after, p[1])
  BY DeleteDoes DEF Known
<1>3. Below(stack, conn', opened')
  BY <1>1, <1>2, BelowOn DEF Known, Traced, Settles
<1>4. Traced(after, conn', opened')
  BY <1>1, <1>3, TracedSet
<1>5. after \in Stacks /\ after # <<>> /\ Head(after) = new
  <2>1. after \in Stacks /\ after # <<>> /\ after[1] = new
    BY <1>1, SetTopFacts
  <2>2. Head(after) = after[1]
    BY <2>1, TopFacts
  <2>3. QED
    BY <2>1, <2>2
<1>6. CASE /\ Alive(p) /\ conn'[p[1]] = "closed"
           /\ stack' = Complete(after, p[1])
  <2>1. p[1] \in Buffers /\ conn'[p[1]] \in Ended
    BY <1>6 DEF Alive, Procs, Ended
  <2>2. \A c, o : Traced(after, c, o) /\ c[p[1]] \in Ended =>
          Traced(Complete(after, p[1]), c, o)
    BY <1>5, <2>1, TracedComplete
  <2>3. QED
    BY <1>4, <1>6, <2>1, <2>2
<1>7. QED
  BY <1>2, <1>4, <1>6

----------------------------------------------------------------------------
LEMMA NotBuffers ==
  Pending \notin Buffers /\ NoBuffer \notin Buffers /\ Signalled \notin Buffers
<1>1. \A b \in Buffers : Len(b) = 2
  BY DEF Buffers
<1>2. Len(Pending) = 1 /\ Len(NoBuffer) = 0 /\ Len(Signalled) = 1
  BY DEF Pending, NoBuffer, Signalled
<1>3. QED
  BY <1>1, <1>2

LEMMA KnownInit == Init => Known
<1> SUFFICES ASSUME Init PROVE Known
  OBVIOUS
<1>1. Good
  BY GoodInit
<1>2. Traced(stack, conn, opened)
  BY DEF Init, Traced, Below
<1>3. Left
  BY DEF Init, Left
<1>4. \A r \in Requests : conn[Target(First(r))] = "none"
  BY BufferFacts DEF Init
<1>5. Moves
  BY <1>4 DEF Init, Moves
<1>6. Results
  BY NotBuffers DEF Init, Results
<1>7. QED
  BY <1>1, <1>2, <1>3, <1>5, <1>6 DEF Known

LEMMA KnownUser ==
  ASSUME Known,
         \/ TypeAhead \/ ReadInput \/ TypeQuit \/ UNCHANGED vars
         \/ \E r \in Requests : Expire(r)
  PROVE  Known'
<1>1. UNCHANGED <<stack, conn, opened, moved, killed, result>>
  BY DEF TypeAhead, ReadInput, TypeQuit, Expire, vars, net
<1>2. Good'
  BY GoodUser DEF Known
<1>3. QED
  BY <1>1, <1>2 DEF Known, Left, Moves, Results

LEMMA WaitingIsCalm ==
  ASSUME stack # <<>> => Top.at = "wait"
  PROVE  stack # <<>> => ~CleaningUp(Head(stack)) /\ Head(stack).at # "kill proc"
BY DEF Top, CleaningUp

LEMMA KnownAnswers ==
  ASSUME Known, NEW b \in Buffers, Response(b) \/ PeerCloses(b) \/ RunSentinel(b)
  PROVE  Known'
<1>1. Good' /\ Good
  BY GoodNetwork DEF Known
<1>2. /\ stack \in Stacks /\ stack \in GoodStacks /\ conn \in Conns
      /\ opened \in Counts /\ conn' \in Conns /\ opened' \in Counts
  BY <1>1, Shapes DEF Good, ConnOK, OpenedOK, Conns, Counts
<1>3. stack # <<>> => ~CleaningUp(Head(stack)) /\ Head(stack).at # "kill proc"
  BY WaitingIsCalm DEF Response, PeerCloses, RunSentinel, CanRun
<1>4. /\ Settles(conn, opened, conn', opened')
      /\ \/ conn'[b] \in Ended /\ stack' = Complete(stack, b)
         \/ stack' = stack
  <2>1. CASE Response(b)
    <3>1. PICK e \in Ended : conn' = [conn EXCEPT ![b] = e]
      BY <2>1 DEF Response, Ended
    <3>2. conn'[b] = e /\ conn[b] # "none"
      BY <1>2, <2>1, <3>1 DEF Conns, Response
    <3>3. QED
      BY <1>1, <2>1, <3>1, <3>2, EndSettles DEF Response
  <2>2. CASE PeerCloses(b)
    <3>1. conn[b] = "open" /\ conn' = [conn EXCEPT ![b] = "eof"]
          /\ stack' = stack /\ opened' = opened
      BY <2>2 DEF PeerCloses
    <3>2. conn'[b] = "eof" /\ \A x \in Buffers : x # b => conn'[x] = conn[x]
      BY <1>2, <3>1 DEF Conns
    <3>3. \A x \in Buffers : opened[x] \in Nat
      BY <1>2, ConstantsOK DEF Counts
    <3>4. \A x \in Buffers : opened[x] >= opened[x]
      BY <3>3
    <3>5. \A x \in Buffers :
            /\ conn[x] = "none" <=> conn'[x] = "none"
            /\ conn[x] \in Ended => conn'[x] \in Ended
            /\ conn'[x] \in Talking => conn[x] \in Talking
      BY <3>1, <3>2 DEF Ended, Talking
    <3>6. QED
      BY <3>1, <3>4, <3>5 DEF Settles, Onward
  <2>3. CASE RunSentinel(b)
    <3>1. conn[b] \in Talking /\ Sentinel(b, stack)
      BY <2>3 DEF RunSentinel, Talking
    <3>2. Settles(conn, opened, conn', opened')
          /\ \/ conn'[b] = "closed" /\ stack' = Complete(stack, b)
             \/ stack' = stack
      BY <1>1, <1>2, <3>1, SentinelDoes
    <3>3. QED
      BY <3>2 DEF Ended
  <2>4. QED
    BY <2>1, <2>2, <2>3
<1>5. Traced(stack, conn', opened')
  BY <1>2, <1>3, <1>4, TracedOn DEF Known, Settles
<1>6. Traced(stack', conn', opened')
  <2>1. \A c, o : Traced(stack, c, o) /\ c[b] \in Ended =>
          Traced(Complete(stack, b), c, o)
    BY <1>2, <1>3, TracedComplete
  <2>2. QED
    BY <1>4, <1>5, <2>1
<1>7. UNCHANGED <<moved, killed, result>>
  BY DEF Response, PeerCloses, RunSentinel
<1>8. QED
  BY <1>1, <1>4, <1>6, <1>7, BuffersKept DEF Known, Results

LEMMA Targets ==
  \A q, r \in Requests :
    /\ Target(First(r)) # First(q)
    /\ Target(First(q)) = Target(First(r)) => q = r
<1> SUFFICES ASSUME NEW q \in Requests, NEW r \in Requests
             PROVE  /\ Target(First(r)) # First(q)
                    /\ Target(First(q)) = Target(First(r)) => q = r
  OBVIOUS
<1>1. First(q) = <<q, "first">> /\ Target(First(q)) = <<q, "redirect">>
      /\ Target(First(r)) = <<r, "redirect">>
  BY DEF First, Target
<1>2. QED
  BY <1>1

(* A redirect opens the first connection of its buffer: the one redirected *)
(* was not moved before, since a moved buffer has nothing more to say.     *)
LEMMA KnownRedirect ==
  ASSUME Known, NEW b \in Buffers, Redirect(b)
  PROVE  Known'
<1>1. Good' /\ Good
  BY GoodNetwork DEF Known
<1>2. /\ stack \in Stacks /\ conn \in Conns
      /\ opened \in Counts /\ conn' \in Conns /\ opened' \in Counts
  BY <1>1, Shapes DEF Good, ConnOK, OpenedOK, Conns, Counts
<1>3. PICK e \in Ended : conn' = [conn EXCEPT ![b] = e, ![Target(b)] = "open"]
  BY DEF Redirect, Ended
<1>4. PICK t \in Buffers : t = Target(b) /\ t # b
  BY BufferFacts DEF Redirect, Target
<1>5. b[1] \in Requests /\ b = First(b[1]) /\ conn[b] = "open"
  BY BufferFacts DEF Redirect, First, Buffers
<1>6. b \notin moved /\ b \notin killed
  BY <1>5 DEF Known, Left, Ended
<1>7. conn[t] = "none"
  BY <1>4, <1>5, <1>6 DEF Known, Moves
<1>8. /\ conn'[b] = e /\ conn'[t] = "open"
      /\ \A x \in Buffers : x # b /\ x # t => conn'[x] = conn[x]
      /\ \A x \in Buffers : x # t => opened'[x] = opened[x]
  BY <1>2, <1>3, <1>4 DEF Redirect, Conns, Counts
<1>9. \A x \in Buffers : opened[x] \in Nat /\ opened[x] >= opened[x]
  BY <1>2, ConstantsOK DEF Counts
<1>10. Onward(conn, opened, conn', opened')
  <2>1. ASSUME NEW x \in Buffers, conn[x] # "none"
        PROVE  /\ conn'[x] # "none" /\ opened'[x] >= opened[x]
               /\ conn'[x] \in Talking => conn[x] \in Talking /\ opened'[x] = opened[x]
    <3>1. CASE x = b
      BY <1>4, <1>8, <1>9, <3>1 DEF Ended, Talking
    <3>2. CASE x # b
      BY <1>7, <1>8, <1>9, <2>1, <3>2
    <3>3. QED
      BY <3>1, <3>2
  <2>2. QED
    BY <2>1 DEF Onward
<1>11. Traced(stack', conn', opened')
  <2>1. stack # <<>> => ~CleaningUp(Head(stack))
    BY WaitingIsCalm DEF Redirect, CanRun
  <2>2. QED
    BY <1>2, <1>10, <2>1, TracedOn DEF Known, Redirect
<1>12. killed' = killed \cup moved /\ moved' = moved \cup {b} /\ result' = result
  BY DEF Redirect
<1>13. Left'
  <2>1. ASSUME NEW x \in killed \cup moved PROVE conn'[x] \in Ended
    <3>1. conn[x] \in Ended /\ x \in Buffers
      BY DEF Known, Left, Good, RestOK
    <3>2. x # t /\ x # b
      BY <1>5, <1>7, <3>1 DEF Ended
    <3>3. QED
      BY <1>8, <3>1, <3>2
  <2>2. QED
    BY <1>8, <1>12, <2>1 DEF Left
<1>14. Moves'
  <2>1. moved' \subseteq {First(r) : r \in Requests}
    BY <1>5, <1>12 DEF Known, Moves
  <2>2. ASSUME NEW r \in Requests
        PROVE  First(r) \in moved' <=> conn'[Target(First(r))] # "none"
    <3>1. Target(First(r)) \in Buffers /\ Target(First(r)) # b
      BY <1>5, BufferFacts, Targets
    <3>2. CASE First(r) = b
      BY <1>4, <1>8, <1>12, <3>2
    <3>3. CASE First(r) # b
      <4>1. Target(First(r)) # t
        BY <1>4, <1>5, <3>3 DEF First, Target
      <4>2. QED
        BY <1>8, <1>12, <3>1, <3>3, <4>1 DEF Known, Moves
    <3>4. QED
      BY <3>2, <3>3
  <2>3. QED
    BY <2>1, <2>2 DEF Moves
<1>15. Results'
  BY <1>10, <1>12 DEF Known, Results, Onward
<1>16. QED
  BY <1>1, <1>11, <1>13, <1>14, <1>15 DEF Known

(* A retrieval starts in a buffer that had no connection.                  *)
LEMMA KnownStart ==
  ASSUME Known, NEW r \in Requests, Start(r)
  PROVE  Known'
<1>1. Good' /\ Good
  BY GoodStart DEF Known
<1>2. /\ stack \in Stacks /\ conn \in Conns /\ Len(stack) < MaxDepth
      /\ opened \in Counts /\ conn' \in Conns /\ opened' \in Counts
  BY <1>1, Shapes DEF Good, ConnOK, OpenedOK, Conns, Counts, Start
<1>3. PICK b \in Buffers : b = First(r) /\ conn[b] = "none"
  BY BufferFacts DEF Start, Fresh
<1>4. stack # <<>> => Head(stack).at = "wait" /\ ~CleaningUp(Head(stack))
  BY WaitingIsCalm DEF Start, CanRun, Top
<1>5. killed' = killed \cup moved /\ moved' = moved
  BY DEF Start
<1>6. \A x \in Buffers : opened[x] \in Nat /\ opened[x] >= opened[x]
  BY <1>2, ConstantsOK DEF Counts
<1>7. CASE /\ conn' \in {[conn EXCEPT ![b] = "open"], [conn EXCEPT ![b] = "closed"]}
           /\ opened' \in {opened, [opened EXCEPT ![b] = 1]}
           /\ result' = result
           /\ \E done \in BOOLEAN, proc \in {<<b, 1>>, NoProc} :
                /\ stack' = <<NewFrame(r, done, proc)>> \o stack
                /\ done \/ (proc = <<b, 1>> /\ opened'[b] = 1)
  <2>1. conn'[b] # "none" /\ \A x \in Buffers : x # b => conn'[x] = conn[x]
    BY <1>2, <1>7 DEF Conns
  <2>2. \A x \in Buffers : x # b => opened'[x] = opened[x]
    BY <1>2, <1>7 DEF Counts
  <2>3. Onward(conn, opened, conn', opened')
    BY <1>3, <1>6, <2>1, <2>2 DEF Onward
  <2>4. Traced(stack, conn', opened')
    BY <1>2, <1>4, <2>3, TracedOn DEF Known
  <2>5. PICK done \in BOOLEAN, proc \in {<<b, 1>>, NoProc} :
                /\ stack' = <<NewFrame(r, done, proc)>> \o stack
                /\ done \/ (proc = <<b, 1>> /\ opened'[b] = 1)
    BY <1>7
  <2>6. PICK fr : fr = NewFrame(r, done, proc)
    OBVIOUS
  <2>7. /\ fr \in Frames /\ fr.buf = b /\ fr.done = done /\ fr.proc = proc
        /\ fr.at = "check"
    <3>1. 1 \in 1..MaxConns /\ 0 \in 0..(InputLimit + 1)
      BY ConstantsOK
    <3>2. QED
      BY <1>3, <2>6, <3>1 DEF NewFrame, Frames, Procs
  <2>8. Tracked(fr, conn', opened')
    <3>1. <<b, 1>> # NoProc /\ Holder(<<b, 1>>) = b /\ Serial(<<b, 1>>) = 1
      BY DEF NoProc, Holder, Serial
    <3>2. ~done => proc = <<b, 1>> /\ opened'[b] = 1 /\ 1 <= 1
      BY <2>5
    <3>3. ~fr.done => fr.proc # NoProc /\ Holder(fr.proc) = fr.buf
                      /\ Serial(fr.proc) <= opened'[fr.buf]
      BY <2>7, <3>1, <3>2
    <3>4. QED
      BY <2>1, <2>7, <3>3 DEF Tracked
  <2>9. Traced(stack', conn', opened')
    BY <1>2, <1>4, <2>4, <2>5, <2>6, <2>7, <2>8, TracedPush
  <2>10. Left'
    <3>1. ASSUME NEW x \in killed \cup moved PROVE conn'[x] \in Ended
      <4>1. conn[x] \in Ended /\ x \in Buffers
        BY DEF Known, Left, Good, RestOK
      <4>2. x # b
        BY <1>3, <4>1 DEF Ended
      <4>3. QED
        BY <2>1, <4>1, <4>2
    <3>2. QED
      BY <1>5, <3>1 DEF Left
  <2>11. Moves'
    <3>1. \A q \in Requests : Target(First(q)) \in Buffers /\ Target(First(q)) # b
      BY <1>3, BufferFacts DEF First, Target
    <3>2. QED
      BY <1>5, <2>1, <3>1 DEF Known, Moves
  <2>12. Results'
    BY <1>7, <2>1 DEF Known, Results
  <2>13. QED
    BY <1>1, <2>9, <2>10, <2>11, <2>12 DEF Known
<1>8. CASE result' = [result EXCEPT ![r] = NoBuffer] /\ UNCHANGED <<stack, net>>
  <2>1. conn' = conn /\ opened' = opened /\ stack' = stack
    BY <1>8 DEF net
  <2>2. Left' /\ Moves'
    BY <1>5, <2>1 DEF Known, Left, Moves
  <2>3. Results'
    <3>1. result \in [Requests -> Buffers \cup {NoBuffer, Pending, Signalled}]
      BY <1>1 DEF Good, RestOK
    <3>2. QED
      BY <1>8, <2>1, <3>1, NotBuffers DEF Known, Results
  <2>4. QED
    BY <1>1, <2>1, <2>2, <2>3 DEF Known
<1>9. CASE /\ conn' = [conn EXCEPT ![First(r)] = "open"]
           /\ opened' = [opened EXCEPT ![First(r)] = 1]
           /\ stack' = <<NewFrame(r, FALSE, <<First(r), 1>>)>> \o stack
           /\ UNCHANGED result
  <2>1. opened'[b] = 1
    BY <1>2, <1>3, <1>9 DEF Counts
  <2>2. QED
    BY <1>3, <1>7, <1>9, <2>1
<1>10. CASE /\ conn' = [conn EXCEPT ![First(r)] = "closed"]
            /\ stack' = <<NewFrame(r, TRUE, NoProc)>> \o stack
            /\ UNCHANGED <<opened, result>>
  BY <1>3, <1>7, <1>10
<1>11. QED
  BY <1>8, <1>9, <1>10 DEF Start

LEMMA KnownKill ==
  ASSUME Known, NEW b \in Buffers, KillResult(b)
  PROVE  Known'
<1>1. Good' /\ Good
  BY GoodKill DEF Known
<1>2. /\ stack \in Stacks /\ conn \in Conns
      /\ opened \in Counts /\ conn' \in Conns /\ opened' \in Counts
  BY <1>1, Shapes DEF Good, ConnOK, OpenedOK, Conns, Counts
<1>3. conn[b] # "none"
  BY DEF KillResult, Known, Results
<1>4. stack # <<>> => ~CleaningUp(Head(stack)) /\ Head(stack).at # "kill proc"
  BY WaitingIsCalm DEF KillResult
<1>5. /\ Settles(conn, opened, conn', opened') /\ conn'[b] \in Ended
      /\ stack' \in {stack, Complete(stack, b)}
  <2>1. CASE /\ conn' = [conn EXCEPT ![b] = "closed"]
             /\ stack' \in {stack, Complete(stack, b)}
    <3>1. conn'[b] = "closed" /\ "closed" \in Ended /\ opened' = opened
      BY <1>2, <2>1 DEF Conns, Ended, KillResult
    <3>2. QED
      BY <1>1, <1>3, <2>1, <3>1, EndSettles
  <2>2. CASE conn[b] \notin {"open", "eof"} /\ UNCHANGED <<stack, conn>>
    <3>1. UNCHANGED net /\ stack' = stack
      BY <2>2 DEF KillResult, net
    <3>2. conn[b] \in Ended
      BY <1>2, <1>3, <2>2 DEF Conns, Ended
    <3>3. QED
      BY <1>1, <2>2, <3>1, <3>2, SettledAlready
  <2>3. QED
    BY <2>1, <2>2 DEF KillResult
<1>6. Traced(stack, conn', opened')
  BY <1>2, <1>4, <1>5, TracedOn DEF Known, Settles
<1>7. Traced(stack', conn', opened')
  <2>1. \A c, o : Traced(stack, c, o) /\ c[b] \in Ended =>
          Traced(Complete(stack, b), c, o)
    BY <1>2, <1>4, TracedComplete
  <2>2. QED
    BY <1>5, <1>6, <2>1
<1>8. killed' = killed \cup {b} /\ moved' = moved /\ result' = result
  BY DEF KillResult
<1>9. Left'
  <2>1. \A x \in killed \cup moved : x \in Buffers /\ conn[x] \in Ended
    BY <1>1 DEF Known, Left, Good, RestOK
  <2>2. QED
    BY <1>5, <1>8, <2>1 DEF Left, Settles
<1>10. Moves'
  <2>1. \A r \in Requests : Target(First(r)) \in Buffers
    BY BufferFacts
  <2>2. QED
    BY <1>5, <1>8, <2>1 DEF Known, Moves, Settles
<1>11. Results'
  BY <1>5, <1>8 DEF Known, Results, Settles
<1>12. QED
  BY <1>1, <1>7, <1>9, <1>10, <1>11 DEF Known

----------------------------------------------------------------------------
(* The loop, with what it knows of the process. *)

LEMMA KnownTop ==
  ASSUME Known, stack # <<>>
  PROVE  /\ Top \in Frames /\ Tracked(Top, conn, opened)
         /\ Below(stack, conn, opened)
BY GoodTop DEF Known, Traced, Top, Good

LEMMA ProcessTracked ==
  ASSUME Known, NEW b \in Buffers, conn[b] # "none"
  PROVE  \/ ProcessOf(b) = NoProc /\ conn[b] \notin Talking
         \/ /\ ProcessOf(b) = <<b, opened[b]>> /\ ProcessOf(b) # NoProc
            /\ Holder(ProcessOf(b)) = b /\ Serial(ProcessOf(b)) = opened[b]
<1>1. b \in killed => conn[b] \in Ended
  BY DEF Known, Left
<1>2. conn[b] \in Ended => conn[b] \notin Talking
  BY DEF Ended, Talking
<1>3. b # NoBuffer
  BY NotBuffers
<1>4. CASE ProcessOf(b) = NoProc /\ (b \in killed \/ conn[b] \notin Talking)
  BY <1>1, <1>2, <1>4
<1>5. CASE ProcessOf(b) = <<b, opened[b]>>
  <2>1. <<b, opened[b]>> # NoProc /\ Holder(<<b, opened[b]>>) = b
        /\ Serial(<<b, opened[b]>>) = opened[b]
    BY DEF NoProc, Holder, Serial
  <2>2. QED
    BY <1>5, <2>1
<1>6. QED
  BY <1>3, <1>4, <1>5 DEF ProcessOf, Talking

LEMMA KnownUpdate ==
  ASSUME Known, Good', stack # <<>>, NEW new \in Frames,
         Tracked(new, conn, opened), stack' = <<new>> \o Tail(stack),
         UNCHANGED <<net, moved, killed, result>>
  PROVE  Known'
<1>1. conn' = conn /\ opened' = opened
  BY DEF net
<1>2. Traced(stack', conn, opened)
  BY KnownTop, Shapes, TracedSet DEF Known
<1>3. QED
  BY <1>1, <1>2 DEF Known, Left, Moves, Results

LEMMA KnownFollow ==
  ASSUME Known, FollowRedirect
  PROVE  Known'
<1>1. Good'
  BY GoodFollow DEF Known
<1>2. PICK fr \in Frames : fr = Top /\ Tracked(fr, conn, opened)
  BY KnownTop DEF FollowRedirect
<1>3. PICK r \in Requests : fr.buf = First(r) /\ First(r) \in moved
  BY <1>2 DEF FollowRedirect, Known, Moves
<1>4. PICK t \in Buffers : t = Target(fr.buf) /\ conn[t] # "none"
  BY <1>3, BufferFacts DEF Known, Moves
<1>5. PICK p \in Procs \cup {NoProc} : p = ProcessOf(t)
  BY ProcessType DEF Known
<1>6. PICK new : new = [fr EXCEPT !.buf = t, !.proc = p]
  OBVIOUS
<1>7. /\ new \in Frames /\ new.buf = t /\ new.proc = p /\ new.at = fr.at
      /\ new.done = fr.done
  BY <1>6 DEF Frames
<1>8. fr.at = "check"
  BY <1>2 DEF FollowRedirect
<1>9. opened[t] <= opened[t]
  BY Shapes, ConstantsOK DEF Known, Counts
<1>10. Tracked(new, conn, opened)
  BY <1>4, <1>5, <1>7, <1>8, <1>9, ProcessTracked DEF Tracked
<1>11. stack' = <<new>> \o Tail(stack)
  BY <1>2, <1>4, <1>5, <1>6 DEF FollowRedirect, SetTop
<1>12. QED
  BY <1>1, <1>7, <1>10, <1>11, KnownUpdate DEF FollowRedirect

LEMMA KnownWake ==
  ASSUME Known, Wake \/ LeaveLate
  PROVE  Known'
<1>1. Good'
  BY GoodWake DEF Known
<1>2. PICK fr \in Frames : fr = Top /\ Tracked(fr, conn, opened)
  BY KnownTop DEF Wake, LeaveLate
<1>3. PICK b \in Buffers : b = fr.buf /\ conn[b] # "none"
  BY <1>2 DEF Tracked
<1>4. PICK p \in Procs \cup {NoProc} : p = ProcessOf(b)
  BY ProcessType DEF Known
<1>5. opened[b] <= opened[b]
  BY Shapes, ConstantsOK DEF Known, Counts
<1>6. CASE Wake
  <2>1. PICK new \in {[fr EXCEPT !.at = "check"],
                      [fr EXCEPT !.at = "check", !.proc = p]} :
          stack' = <<new>> \o Tail(stack)
    BY <1>2, <1>3, <1>4, <1>6 DEF Wake, SetTop
  <2>2. /\ new \in Frames /\ new.buf = b /\ new.at = "check"
        /\ new.done = fr.done /\ new.proc \in {fr.proc, p}
    BY <1>3, <2>1 DEF Frames
  <2>3. Tracked(new, conn, opened)
    <3>1. CASE new.proc = fr.proc
      BY <1>2, <1>3, <2>2, <3>1 DEF Tracked
    <3>2. CASE new.proc = p
      BY <1>3, <1>4, <1>5, <2>2, <3>2, ProcessTracked DEF Tracked
    <3>3. QED
      BY <2>2, <3>1, <3>2
  <2>4. QED
    BY <1>1, <1>6, <2>1, <2>2, <2>3, KnownUpdate DEF Wake
<1>7. CASE LeaveLate
  <2>1. PICK new : new = [fr EXCEPT !.at = "kill proc"]
    OBVIOUS
  <2>2. /\ new \in Frames /\ new.buf = b /\ new.at = "kill proc"
        /\ new.done = fr.done /\ new.proc = fr.proc
    BY <1>3, <2>1 DEF Frames
  <2>3. ~fr.done
    BY <1>2, <1>7 DEF LeaveLate, TimedOut
  <2>4. Tracked(new, conn, opened)
    BY <1>2, <1>3, <2>2, <2>3 DEF Tracked
  <2>5. stack' = <<new>> \o Tail(stack)
    BY <1>2, <1>7, <2>1 DEF LeaveLate, SetTop
  <2>6. QED
    BY <1>1, <1>7, <2>2, <2>4, <2>5, KnownUpdate DEF LeaveLate
<1>8. QED
  BY <1>6, <1>7

(* An activation that moves on while a process is deleted, or not.         *)
LEMMA KnownStop ==
  ASSUME Known, Good', stack # <<>>, NEW new \in Frames, NEW after \in GoodStacks,
         NEW p \in Procs \cup {NoProc},
         after = <<new>> \o Tail(stack),
         DeleteProcess(p, after) \/ (stack' = after /\ UNCHANGED net),
         new.at # "kill proc", Tracked(new, conn', opened'),
         UNCHANGED <<moved, killed, result>>
  PROVE  Known'
<1>1. Settles(conn, opened, conn', opened')
  BY DeleteDoes, SettledAlready DEF Known
<1>2. ConnOK' /\ OpenedOK' /\ stack \in Stacks
  BY Shapes DEF Good, Known
<1>3. Traced(stack', conn', opened')
  <2>1. CASE DeleteProcess(p, after)
    BY <1>2, <2>1, DeletedTraced
  <2>2. CASE stack' = after /\ UNCHANGED net
    <3>1. Below(stack, conn', opened')
      BY <2>2, KnownTop DEF net
    <3>2. \A c, o : Below(stack, c, o) /\ Tracked(new, c, o) => Traced(after, c, o)
      BY <1>2, TracedSet
    <3>3. QED
      BY <2>2, <3>1, <3>2
  <2>3. QED
    BY <2>1, <2>2
<1>4. QED
  BY <1>1, <1>3, BuffersKept DEF Known, Results

LEMMA KnownRound ==
  ASSUME Known, Round
  PROVE  Known'
<1>1. Good'
  BY GoodRound DEF Known
<1>2. PICK fr \in Frames : fr = Top /\ Tracked(fr, conn, opened)
                           /\ Faithful(fr) /\ ~fr.done /\ ~fr.abort
  BY KnownTop, GoodTop DEF Round, Known, Good, Top, Stops
<1>3. fr.buf \in Own(fr.req) /\ fr.counter \in 0..InputLimit
  <2>1. fr.buf \in Own(fr.req) /\ ~(fr.counter > InputLimit)
    BY <1>2 DEF Faithful
  <2>2. fr.counter \in 0..(InputLimit + 1)
    BY DEF Frames
  <2>3. QED
    BY <2>1, <2>2, ConstantsOK
<1>4. Count(fr) \in 0..(InputLimit + 1)
  BY <1>3, ConstantsOK DEF Count
<1>5. PICK new : new = [fr EXCEPT !.counter = Count(fr),
                                  !.abort = Count(fr) > InputLimit,
                                  !.done = Dead(fr), !.at = "wait"]
  OBVIOUS
<1>6. Dead(fr) \in BOOLEAN /\ (Count(fr) > InputLimit) \in BOOLEAN
  BY DEF Dead
<1>7. /\ new \in Frames /\ new.buf = fr.buf /\ new.req = fr.req
      /\ new.counter = Count(fr) /\ new.abort = (Count(fr) > InputLimit)
      /\ new.proc = fr.proc /\ new.at = "wait"
  BY <1>4, <1>5, <1>6 DEF Frames
<1>8. Tracked(new, conn, opened)
  BY <1>2, <1>7 DEF Tracked
<1>9. PICK after \in GoodStacks : after = <<new>> \o Tail(stack)
  BY <1>3, <1>7, GoodSet DEF Round, Known, Good, Faithful
<1>10. DeleteProcess(fr.proc, after) \/ (stack' = after /\ UNCHANGED net)
  BY <1>2, <1>5, <1>9 DEF Round
<1>11. fr.proc \in Procs \cup {NoProc}
  BY DEF Frames
<1>12. Settles(conn, opened, conn', opened')
  BY <1>10, <1>11, DeleteDoes, SettledAlready DEF Known
<1>13. Tracked(new, conn', opened')
  <2>1. conn \in Conns /\ opened \in Counts /\ conn' \in Conns /\ opened' \in Counts
    BY <1>1, Shapes DEF Known, Good, ConnOK, OpenedOK, Conns, Counts
  <2>2. QED
    BY <1>7, <1>8, <1>12, <2>1, TrackedOn DEF Settles, CleaningUp
<1>14. UNCHANGED <<moved, killed, result>>
  BY DEF Round
<1>15. QED
  BY <1>1, <1>7, <1>9, <1>10, <1>11, <1>13, <1>14, KnownStop DEF Round

(* Once the process that the loop knew is deleted, a connection that is    *)
(* still there is at least the second: its sentinel connected again, now   *)
(* or before.                                                              *)
LEMMA OnceDeleted ==
  ASSUME Known, NEW fr \in Frames, Tracked(fr, conn, opened), ~fr.done,
         NEW s \in GoodStacks, DeleteProcess(fr.proc, s),
         conn'[fr.buf] \in Talking
  PROVE  opened'[fr.buf] > 1
<1>1. PICK b \in Buffers, p \in Procs \cup {NoProc} : b = fr.buf /\ p = fr.proc
  BY DEF Tracked, Frames
<1>2. opened[b] \in Nat /\ (conn[b] \in Talking => opened[b] >= 1)
  BY Shapes, ConstantsOK DEF Known, Counts
<1>3. \/ p = NoProc
      \/ p # NoProc /\ p[1] = b /\ p[2] <= opened[b]
  BY <1>1 DEF Tracked, Holder, Serial
<1>4. \/ Alive(p) /\ conn'[p[1]] = "closed"
      \/ Alive(p) /\ conn'[p[1]] = "open" /\ opened'[p[1]] = opened[p[1]] + 1
      \/ ~Alive(p) /\ UNCHANGED net
  BY <1>1, DeleteDoes DEF Known
<1>5. CASE Alive(p) /\ conn'[p[1]] = "closed"
  BY <1>1, <1>3, <1>5 DEF Alive, Talking
<1>6. CASE Alive(p) /\ conn'[p[1]] = "open" /\ opened'[p[1]] = opened[p[1]] + 1
  <2>1. p # NoProc /\ p[1] = b /\ conn[b] \in Talking \cup {"kept"}
    BY <1>3, <1>6 DEF Alive, Talking
  <2>2. opened[b] >= 1
    BY <2>1, Shapes DEF Known
  <2>3. opened[b] + 1 > 1
    BY <1>2, <2>2
  <2>4. QED
    BY <1>1, <1>6, <2>1, <2>3
<1>7. CASE ~Alive(p) /\ UNCHANGED net
  <2>1. conn' = conn /\ opened' = opened
    BY <1>7 DEF net
  <2>2. CASE p = NoProc
    BY <1>1, <2>1, <2>2 DEF Tracked
  <2>3. CASE p # NoProc /\ p[1] = b /\ p[2] <= opened[b]
    <3>1. p[2] # opened[b]
      BY <1>1, <1>7, <2>1, <2>3 DEF Alive, Talking
    <3>2. p[2] \in 1..MaxConns
      BY <2>3 DEF Procs
    <3>3. opened[b] > 1
      BY <1>2, <2>3, <3>1, <3>2, ConstantsOK
    <3>4. QED
      BY <1>1, <2>1, <3>3
  <2>4. QED
    BY <1>3, <2>2, <2>3
<1>8. QED
  BY <1>4, <1>5, <1>6, <1>7

LEMMA KnownQuit ==
  ASSUME Known, WakeOnQuit
  PROVE  Known'
<1>1. Good'
  BY GoodStop DEF Known
<1>2. PICK fr \in Frames : fr = Top /\ Tracked(fr, conn, opened)
  BY KnownTop DEF WakeOnQuit
<1>3. PICK new : new = [fr EXCEPT !.at = "check", !.proc = NoProc]
  OBVIOUS
<1>4. /\ new \in Frames /\ new.buf = fr.buf /\ new.done = fr.done
      /\ new.at = "check" /\ new.proc = NoProc
      /\ new.req = fr.req /\ new.counter = fr.counter /\ new.abort = fr.abort
  BY <1>3 DEF Frames
<1>5. PICK after \in GoodStacks : after = <<new>> \o Tail(stack)
  BY <1>2, <1>4, GoodUpdate DEF WakeOnQuit, Known
<1>6. DeleteProcess(fr.proc, after) /\ UNCHANGED <<moved, killed, result>>
  BY <1>2, <1>3, <1>5 DEF WakeOnQuit
<1>7. fr.proc \in Procs \cup {NoProc}
  BY DEF Frames
<1>8. Tracked(new, conn', opened')
  <2>1. fr.buf \in Buffers /\ conn'[fr.buf] # "none"
    BY <1>2, <1>6, <1>7, DeleteDoes DEF Known, Settles, Tracked
  <2>2. ~fr.done /\ conn'[fr.buf] \in Talking => opened'[fr.buf] > 1
    BY <1>2, <1>6, OnceDeleted
  <2>3. QED
    BY <1>4, <2>1, <2>2 DEF Tracked
<1>9. QED
  BY <1>1, <1>4, <1>5, <1>6, <1>7, <1>8, KnownStop DEF WakeOnQuit

LEMMA KnownKillProc ==
  ASSUME Known, KillProc
  PROVE  Known'
<1>1. Good'
  BY GoodStop DEF Known
<1>2. PICK fr \in Frames : fr = Top /\ Tracked(fr, conn, opened)
                           /\ fr.at = "kill proc"
  BY KnownTop DEF KillProc
<1>3. ~fr.done
  BY <1>2 DEF Tracked
<1>4. PICK new : new = [fr EXCEPT !.at = "kill buffer process"]
  OBVIOUS
<1>5. /\ new \in Frames /\ new.buf = fr.buf /\ new.done = fr.done
      /\ new.at = "kill buffer process" /\ new.proc = fr.proc
      /\ new.req = fr.req /\ new.counter = fr.counter /\ new.abort = fr.abort
  BY <1>4 DEF Frames
<1>6. PICK after \in GoodStacks : after = <<new>> \o Tail(stack)
  BY <1>2, <1>5, GoodUpdate DEF KillProc, Known
<1>7. /\ \/ DeleteProcess(fr.proc, after)
         \/ ~Live(fr.proc) /\ stack' = after /\ UNCHANGED net
      /\ UNCHANGED <<moved, killed, result>>
  BY <1>2, <1>4, <1>6 DEF KillProc
<1>8. fr.proc \in Procs \cup {NoProc} /\ fr.buf \in Buffers
  BY <1>2 DEF Frames, Tracked
<1>9. Settles(conn, opened, conn', opened')
  BY <1>7, <1>8, DeleteDoes, SettledAlready DEF Known
<1>10. conn'[fr.buf] = "open" => opened'[fr.buf] > 1
  <2>1. CASE DeleteProcess(fr.proc, after)
    BY <1>2, <1>3, <2>1, OnceDeleted DEF Talking
  <2>2. CASE ~Live(fr.proc) /\ UNCHANGED net
    <3>1. SUFFICES ASSUME conn[fr.buf] = "open" PROVE opened[fr.buf] > 1
      BY <2>2 DEF net
    <3>2. CASE fr.proc = NoProc
      BY <1>2, <1>3, <3>1, <3>2 DEF Tracked, Talking
    <3>3. CASE fr.proc # NoProc
      <4>1. PICK p \in Procs : p = fr.proc
        BY <1>8, <3>3
      <4>2. p[1] = fr.buf /\ p[2] <= opened[fr.buf] /\ p # NoProc
        BY <1>2, <1>3, <3>3, <4>1 DEF Tracked, Holder, Serial
      <4>3. p[2] # opened[fr.buf]
        BY <2>2, <3>1, <4>1, <4>2 DEF Live, Alive
      <4>4. p[2] \in 1..MaxConns /\ opened[fr.buf] \in 0..MaxConns
        BY <1>8, Shapes DEF Procs, Known, Counts
      <4>5. QED
        BY <4>2, <4>3, <4>4, ConstantsOK
    <3>4. QED
      BY <3>2, <3>3
  <2>3. QED
    BY <1>7, <2>1, <2>2
<1>11. Tracked(new, conn', opened')
  <2>1. /\ conn'[fr.buf] # "none"
        /\ fr.proc = NoProc /\ conn'[fr.buf] \in Talking => opened'[fr.buf] > 1
        /\ fr.proc # NoProc => /\ Holder(fr.proc) = fr.buf
                               /\ Serial(fr.proc) <= opened'[fr.buf]
    <3>1. PICK rest : rest = [fr EXCEPT !.at = "wait"]
      OBVIOUS
    <3>2. /\ rest \in Frames /\ rest.buf = fr.buf /\ rest.done = fr.done
          /\ rest.at = "wait" /\ rest.proc = fr.proc
      BY <3>1 DEF Frames
    <3>3. Tracked(rest, conn, opened)
      BY <1>2, <3>2 DEF Tracked
    <3>4. conn \in Conns /\ opened \in Counts /\ conn' \in Conns /\ opened' \in Counts
      BY <1>1, Shapes DEF Known, Good, ConnOK, OpenedOK, Conns, Counts
    <3>5. Tracked(rest, conn', opened')
      BY <1>9, <3>2, <3>3, <3>4, TrackedOn DEF Settles, CleaningUp
    <3>6. QED
      BY <1>3, <3>2, <3>5 DEF Tracked
  <2>2. QED
    BY <1>5, <1>8, <1>10, <2>1 DEF Tracked
<1>12. QED
  BY <1>1, <1>5, <1>6, <1>7, <1>8, <1>11, KnownStop DEF KillProc

(* An activation returns: what was below goes on waiting. *)
LEMMA KnownDeliver ==
  ASSUME Known, Good', stack # <<>>, Deliver(Top),
         UNCHANGED <<net, moved, killed>>
  PROVE  Known'
<1>1. conn' = conn /\ opened' = opened /\ stack' = Tail(stack)
  BY DEF net, Deliver
<1>2. Traced(stack', conn, opened)
  BY <1>1, KnownTop, Shapes, TracedPop DEF Known
<1>3. Left' /\ Moves'
  BY <1>1 DEF Known, Left, Moves
<1>4. Results'
  <2>1. PICK fr \in Frames : fr = Top /\ fr.req \in Requests /\ conn[fr.buf] # "none"
    BY KnownTop DEF Tracked, Frames
  <2>2. PICK ans \in {Signalled, fr.buf} : result' = [result EXCEPT ![fr.req] = ans]
    BY <2>1 DEF Deliver
  <2>3. result \in [Requests -> Buffers \cup {NoBuffer, Pending, Signalled}]
    BY DEF Known, Good, RestOK
  <2>4. QED
    BY <1>1, <2>1, <2>2, <2>3, NotBuffers DEF Known, Results
<1>5. QED
  BY <1>1, <1>2, <1>3, <1>4 DEF Known

LEMMA KnownReturn ==
  ASSUME Known, Return \/ ReturnLate
  PROVE  Known'
BY GoodReturn, KnownDeliver DEF Known, Return, ReturnLate

LEMMA KnownKillBuffer ==
  ASSUME Known, KillBufferProcess
  PROVE  Known'
<1>1. Good'
  BY GoodKillBuffer DEF Known
<1>2. PICK fr \in Frames : fr = Top /\ Tracked(fr, conn, opened)
                           /\ fr.at = "kill buffer process"
  BY KnownTop DEF KillBufferProcess
<1>3. PICK b \in Buffers : b = fr.buf /\ conn[b] # "none"
  BY <1>2 DEF Tracked
<1>4. PICK p \in Procs \cup {NoProc} : p = ProcessOf(b)
  BY ProcessType DEF Known
<1>5. CASE ~Live(p) /\ Deliver(fr) /\ UNCHANGED net
  BY <1>1, <1>2, <1>5, KnownDeliver DEF KillBufferProcess
<1>6. CASE /\ Live(p)
           /\ DeleteProcess(p, <<[fr EXCEPT !.at = "return"]>> \o Tail(stack))
           /\ UNCHANGED <<quit, result>>
  <2>1. PICK new : new = [fr EXCEPT !.at = "return"]
    OBVIOUS
  <2>2. /\ new \in Frames /\ new.buf = b /\ new.done = fr.done
        /\ new.at = "return" /\ new.proc = fr.proc
        /\ new.req = fr.req /\ new.counter = fr.counter /\ new.abort = fr.abort
    BY <1>3, <2>1 DEF Frames
  <2>3. PICK after \in GoodStacks : after = <<new>> \o Tail(stack)
    BY <1>2, <1>3, <2>2, GoodUpdate DEF KillBufferProcess, Known
  <2>4. DeleteProcess(p, after) /\ UNCHANGED <<moved, killed, result>>
    BY <1>6, <2>1, <2>3 DEF KillBufferProcess
  <2>5. p = <<b, opened[b]>> /\ p[1] = b
    BY <1>3, <1>4, <1>6, ProcessTracked DEF Live, Alive, NoProc
  <2>6. opened[b] \in Nat /\ opened[b] > 1
    <3>1. conn[b] = "open"
      BY <1>3, <1>4, <1>6, <2>5 DEF Live, Alive, ProcessOf
    <3>2. opened[b] > 1
      BY <1>2, <1>3, <3>1 DEF Tracked
    <3>3. QED
      BY <3>2, Shapes, ConstantsOK DEF Known, Counts
  <2>7. \/ conn'[b] = "closed"
        \/ conn'[b] = "open" /\ opened'[b] = opened[b] + 1
    BY <1>6, <2>4, <2>5, DeleteDoes DEF Known, Live
  <2>8. conn'[b] \in Talking \cup {"closed"} /\ conn'[b] # "none"
        /\ (conn'[b] \in Talking => opened'[b] > 2)
    BY <2>6, <2>7 DEF Talking
  <2>9. Tracked(new, conn', opened')
    <3>1. /\ fr.proc = NoProc /\ conn'[b] \in Talking => opened'[b] > 1
      BY <2>6, <2>7 DEF Talking
    <3>2. ~fr.done /\ fr.proc # NoProc =>
            Holder(fr.proc) = b /\ Serial(fr.proc) <= opened'[b]
      <4>1. Settles(conn, opened, conn', opened')
        BY <2>4, DeleteDoes DEF Known
      <4>2. PICK rest : rest = [fr EXCEPT !.at = "wait"]
        OBVIOUS
      <4>3. /\ rest \in Frames /\ rest.buf = b /\ rest.done = fr.done
            /\ rest.at = "wait" /\ rest.proc = fr.proc
        BY <1>3, <4>2 DEF Frames
      <4>4. Tracked(rest, conn, opened)
        BY <1>2, <1>3, <4>3 DEF Tracked
      <4>5. conn \in Conns /\ opened \in Counts /\ conn' \in Conns /\ opened' \in Counts
        BY <1>1, Shapes DEF Known, Good, ConnOK, OpenedOK, Conns, Counts
      <4>6. Tracked(rest, conn', opened')
        BY <4>1, <4>3, <4>4, <4>5, TrackedOn DEF Settles, CleaningUp
      <4>7. QED
        BY <4>3, <4>6 DEF Tracked
    <3>3. QED
      BY <2>2, <2>8, <3>1, <3>2 DEF Tracked, Talking
  <2>10. QED
    BY <1>1, <2>2, <2>3, <2>4, <2>9, KnownStop DEF KillBufferProcess
<1>7. QED
  BY <1>2, <1>3, <1>4, <1>5, <1>6 DEF KillBufferProcess

----------------------------------------------------------------------------
LEMMA KnownNext == Known /\ [Next]_vars => Known'
<1> SUFFICES ASSUME Known, [Next]_vars PROVE Known'
  OBVIOUS
<1>1. CASE Loop
  BY <1>1, KnownFollow, KnownRound, KnownWake, KnownQuit, KnownKillProc,
     KnownReturn, KnownKillBuffer DEF Loop
<1>2. CASE Network
  BY <1>2, KnownAnswers, KnownRedirect DEF Network
<1>3. QED
  BY <1>1, <1>2, KnownUser, KnownStart, KnownKill DEF Next

LEMMA KnownAlways == Spec => []Known
BY KnownInit, KnownNext, PTL DEF Spec

(* Only the last two steps of the clean-up return after a timeout: one     *)
(* finds no live process in the buffer, the other has deleted a second.    *)
LEMMA SurvivorsAreLater ==
  ASSUME Known, Next, NEW r \in Requests, result[r] = Pending, result'[r] # Pending,
         stack # <<>>, Top.at \in {"kill buffer process", "return"},
         conn'[Top.buf] = "open"
  PROVE  opened'[Top.buf] > 2
<1>1. PICK fr \in Frames : fr = Top /\ Tracked(fr, conn, opened)
  BY KnownTop
<1>2. fr.at = "kill buffer process" \/ fr.at = "return"
  BY <1>1
<1>3. fr.at # "wait" /\ fr.at # "check"
  BY <1>2
<1>4. ~CanRun
  BY <1>1, <1>3 DEF CanRun
<1>5. CASE KillBufferProcess
  <2>1. fr.at = "kill buffer process" /\ ~Live(ProcessOf(fr.buf)) /\ UNCHANGED net
    BY <1>1, <1>5 DEF KillBufferProcess
  <2>2. PICK b \in Buffers : b = fr.buf /\ conn[b] = "open" /\ conn[b] # "none"
    BY <1>1, <2>1 DEF Tracked, net
  <2>3. PICK p : p = ProcessOf(b) /\ p # NoProc
                 /\ Holder(p) = b /\ Serial(p) = opened[b]
    BY <2>2, ProcessTracked DEF Talking
  <2>4. Live(p)
    <3>1. p[1] = b /\ p[2] = opened[b] /\ p[2] = opened[p[1]]
      BY <2>3 DEF Holder, Serial
    <3>2. QED
      BY <2>2, <2>3, <3>1 DEF Live, Alive
  <2>5. QED
    BY <2>1, <2>2, <2>3, <2>4
<1>6. CASE ReturnLate
  <2>1. fr.at = "return" /\ UNCHANGED net
    BY <1>1, <1>6 DEF ReturnLate
  <2>2. QED
    BY <1>1, <2>1 DEF Tracked, net
<1>7. CASE result' = result
  BY <1>7
<1>8. CASE Return
  BY <1>1, <1>3, <1>8 DEF Return
<1>9. CASE \E q \in Requests : Start(q)
  BY <1>4, <1>9 DEF Start
<1>10. QED
  <2>1. CASE Loop
    BY <1>5, <1>6, <1>7, <1>8, <2>1
       DEF Loop, FollowRedirect, Round, Wake, WakeOnQuit, LeaveLate, KillProc
  <2>2. CASE Network
    BY <1>7, <2>2 DEF Network, Response, Redirect, PeerCloses, RunSentinel
  <2>3. CASE TypeAhead \/ ReadInput \/ TypeQuit \/ \E q \in Requests : Expire(q)
    BY <1>7, <2>3 DEF TypeAhead, ReadInput, TypeQuit, Expire
  <2>4. CASE \E b \in Buffers : KillResult(b)
    BY <1>7, <2>4 DEF KillResult
  <2>5. QED
    BY <1>9, <2>1, <2>2, <2>3, <2>4 DEF Next

(* Any number of retrievals, nested to any depth, and sentinels that       *)
(* connect again as often as they like: when a retrieval returns after its *)
(* timeout, a connection of the buffer it waited on is gone, or it is at   *)
(* least the third that was opened for that buffer.                        *)
THEOREM ReconnectionsKilled == Spec => ReconnectionKilled
<1>1. Known /\ [Next]_vars =>
        [\A r \in Requests :
           result[r] = Pending /\ result'[r] # Pending
             /\ stack # <<>> /\ Top.at \in {"kill buffer process", "return"}
             /\ Top.buf # NoBuffer /\ conn'[Top.buf] = "open" =>
             opened'[Top.buf] > 2]_vars
  BY SurvivorsAreLater
<1>2. QED
  BY <1>1, KnownAlways, PTL DEF Spec, ReconnectionKilled

----------------------------------------------------------------------------
(* Retrievals one after the other, without timeout or typing, whose        *)
(* buffers are connected once: the conditions under which the function     *)
(* returns what its docstring says.                                        *)
OneByOne ==
  MaxDepth = 1 /\ (MaxConns = 1 \/ Flaky = {}) /\ Timed = {} /\ ~Typing

Proceeding(fr) ==
  /\ fr.buf \in Own(fr.req) /\ ~fr.abort /\ fr.counter = 0
  /\ result[fr.req] = Pending /\ killed \cap Own(fr.req) = {}
  /\ fr.at = "check" \/ fr.at = "wait"

(* Nobody's connection talks but that of a retrieval that goes on waiting. *)
OneInv ==
  /\ ~input
  /\ \A b \in Buffers : opened[b] <= 1
  /\ \A b \in Buffers : conn[b] \in Talking =>
       stack # <<>> /\ ~Top.done /\ b[1] = Top.req
  /\ stack # <<>> => Proceeding(Top)
  /\ RightBuffer

LEMMA Owners ==
  /\ \A r \in Requests, b \in Buffers : b \in Own(r) <=> b[1] = r
  /\ \A b \in Buffers : b[1] \in Requests
                        /\ (b = First(b[1]) \/ b = Target(First(b[1])))
  /\ \A r \in Requests : First(r)[1] = r /\ Target(First(r))[1] = r
<1>1. \A r \in Requests : First(r) = <<r, "first">> /\ Target(First(r)) = <<r, "redirect">>
  BY DEF First, Target
<1>2. ASSUME NEW b \in Buffers
      PROVE  b[1] \in Requests /\ (b = <<b[1], "first">> \/ b = <<b[1], "redirect">>)
  BY DEF Buffers
<1>3. QED
  BY <1>1, <1>2 DEF Own

(* A redirect has ended the connection that it came by. *)
LEMMA OnlyOneTalks ==
  ASSUME Known, NEW a \in Buffers, NEW b \in Buffers, a[1] = b[1],
         conn[a] \in Talking, conn[b] \notin Ended, conn[b] # "none"
  PROVE  a = b
<1>1. PICK r \in Requests : /\ a = First(r) \/ a = Target(First(r))
                            /\ b = First(r) \/ b = Target(First(r))
  BY Owners
<1>2. conn[a] \notin Ended /\ conn[a] # "none"
  BY DEF Talking, Ended
<1>3. First(r) \in moved => conn[First(r)] \in Ended
  BY DEF Known, Left
<1>4. conn[Target(First(r))] # "none" => First(r) \in moved
  BY DEF Known, Moves
<1>5. QED
  BY <1>1, <1>2, <1>3, <1>4

LEMMA AloneOnStack ==
  ASSUME Known, OneByOne, stack # <<>>
  PROVE  /\ Top \in Frames /\ Tail(stack) = <<>> /\ Top.req \in Requests
         /\ \A fr \in Frames : <<fr>> \o Tail(stack) = <<fr>>
                               /\ <<fr>> # <<>> /\ Head(<<fr>>) = fr
<1>1. stack \in Stacks /\ Top \in Frames
  BY KnownTop, Shapes DEF Known
<1>2. Len(stack) \in Nat /\ Len(stack) <= 1 /\ stack \in Seq(Frames)
  BY <1>1 DEF Stacks, OneByOne
<1>3. Tail(stack) \in Seq(Frames) /\ Len(Tail(stack)) = Len(stack) - 1
  BY <1>1, TopFacts
<1>4. Tail(stack) = <<>>
  BY <1>2, <1>3
<1>5. \A fr \in Frames : <<fr>> \o <<>> = <<fr>> /\ <<fr>> # <<>>
                         /\ Head(<<fr>>) = fr
  OBVIOUS
<1>6. QED
  BY <1>1, <1>4, <1>5 DEF Frames

(* Without a second connection a deleted process is gone. *)
LEMMA SentinelEnds ==
  ASSUME Known, OneInv, OneByOne, NEW b \in Buffers, conn[b] \in Talking,
         NEW s, Sentinel(b, s)
  PROVE  /\ conn' = [conn EXCEPT ![b] = "closed"] /\ opened' = opened
         /\ stack' \in {s, Complete(s, b)}
<1>1. opened[b] \in Nat /\ opened[b] >= 1 /\ opened[b] <= 1
  BY Shapes, ConstantsOK DEF Known, Counts, OneInv
<1>2. ~(b[1] \in Flaky /\ opened[b] < MaxConns)
  BY <1>1 DEF OneByOne
<1>3. QED
  BY <1>2 DEF Sentinel

LEMMA DeleteEnds ==
  ASSUME Known, OneInv, OneByOne, NEW p \in Procs \cup {NoProc},
         NEW s, DeleteProcess(p, s)
  PROVE  /\ opened' = opened
         /\ \A x \in Buffers : conn'[x] \in Talking =>
              conn[x] \in Talking /\ (p # NoProc /\ x = p[1] => ~Alive(p))
         /\ \/ stack' = s
            \/ /\ p # NoProc /\ p[1] \in Buffers /\ conn[p[1]] \in Talking
               /\ stack' = Complete(s, p[1])
<1>1. conn \in Conns
  BY Shapes DEF Known
<1>2. CASE Alive(p) /\ conn[p[1]] # "kept" /\ Sentinel(p[1], s)
  <2>1. p # NoProc /\ p[1] \in Buffers /\ conn[p[1]] \in Talking
    BY <1>2 DEF Alive, Procs, Talking
  <2>2. conn' = [conn EXCEPT ![p[1]] = "closed"] /\ opened' = opened
        /\ stack' \in {s, Complete(s, p[1])}
    BY <1>2, <2>1, SentinelEnds
  <2>3. QED
    BY <1>1, <2>1, <2>2 DEF Conns, Talking
<1>3. CASE /\ Alive(p) /\ conn[p[1]] = "kept"
           /\ conn' = [conn EXCEPT ![p[1]] = "closed"]
           /\ stack' = s /\ UNCHANGED opened
  <2>1. p[1] \in Buffers
    BY <1>3 DEF Alive, Procs
  <2>2. QED
    BY <1>1, <1>3, <2>1 DEF Conns, Talking
<1>4. CASE ~Alive(p) /\ stack' = s /\ UNCHANGED net
  BY <1>4 DEF net
<1>5. QED
  BY <1>2, <1>3, <1>4 DEF DeleteProcess

(* An activation that goes on. *)
LEMMA OneGoesOn ==
  ASSUME Known, OneInv, OneByOne, stack # <<>>, NEW new \in Frames,
         stack' = <<new>>, new.req = Top.req, new.buf \in Own(Top.req),
         ~new.abort, new.counter = 0, new.at = "check" \/ new.at = "wait",
         \A b \in Buffers : opened'[b] <= 1,
         \A b \in Buffers : conn'[b] \in Talking => b[1] = Top.req /\ ~new.done,
         killed' \cap Own(Top.req) = {}, UNCHANGED <<input, result>>
  PROVE  OneInv'
<1>1. stack' # <<>> /\ Top' = new
  BY AloneOnStack DEF Top
<1>2. result[Top.req] = Pending
  BY DEF OneInv, Proceeding
<1>3. Proceeding(Top)'
  BY <1>1, <1>2 DEF Proceeding
<1>4. QED
  BY <1>1, <1>3 DEF OneInv, RightBuffer

(* Its callback runs: nothing of it talks any more. *)
LEMMA OneCompletes ==
  ASSUME Known, OneInv, OneByOne, stack # <<>>, NEW fr \in Frames,
         fr.req = Top.req, ~fr.abort, fr.counter = 0,
         fr.at = "check" \/ fr.at = "wait",
         NEW b \in Buffers, conn[b] \in Talking,
         stack' = Complete(<<fr>>, b), opened' = opened,
         \A x \in Buffers : conn'[x] \in Talking => conn[x] \in Talking /\ x # b,
         UNCHANGED <<killed, input, result>>
  PROVE  OneInv'
<1>1. PICK new : new = [fr EXCEPT !.done = TRUE, !.buf = b]
  OBVIOUS
<1>2. /\ new \in Frames /\ new.req = Top.req /\ new.buf = b /\ ~new.abort
      /\ new.counter = 0 /\ new.at = fr.at
  BY <1>1 DEF Frames
<1>3. Complete(<<fr>>, b) = <<new>>
  <2>1. <<fr>> # <<>> /\ Head(<<fr>>) = fr /\ Tail(<<fr>>) = <<>>
    OBVIOUS
  <2>2. <<new>> \o <<>> = <<new>>
    OBVIOUS
  <2>3. QED
    BY <1>1, <2>1, <2>2 DEF Complete
<1>4. b[1] = Top.req /\ Top.req \in Requests
  BY AloneOnStack DEF OneInv
<1>5. b \in Own(Top.req)
  BY <1>4, Owners
<1>6. ASSUME NEW x \in Buffers, conn'[x] \in Talking
      PROVE  FALSE
  <2>1. conn[x] \in Talking /\ x # b /\ x[1] = b[1]
    BY <1>4, <1>6 DEF OneInv
  <2>2. conn[b] \notin Ended /\ conn[b] # "none"
    BY DEF Talking, Ended
  <2>3. QED
    BY <2>1, <2>2, OnlyOneTalks
<1>7. killed' \cap Own(Top.req) = {} /\ \A x \in Buffers : opened'[x] <= 1
  BY DEF OneInv, Proceeding
<1>8. QED
  BY <1>2, <1>3, <1>5, <1>6, <1>7, OneGoesOn

----------------------------------------------------------------------------
LEMMA OneInit == Init => OneInv
<1> SUFFICES ASSUME Init PROVE OneInv
  OBVIOUS
<1>1. \A b \in Buffers : opened[b] <= 1 /\ conn[b] \notin Talking
  BY DEF Init, Talking
<1>2. RightBuffer
  BY DEF Init, RightBuffer
<1>3. QED
  BY <1>1, <1>2 DEF Init, OneInv

LEMMA OneUser ==
  ASSUME Known, OneInv, OneByOne,
         \/ TypeAhead \/ ReadInput \/ TypeQuit \/ UNCHANGED vars
         \/ \E r \in Requests : Expire(r)
  PROVE  OneInv'
<1>1. ~TypeAhead /\ ~ReadInput /\ \A r \in Requests : ~Expire(r)
  BY DEF OneInv, OneByOne, TypeAhead, ReadInput, Expire
<1>2. UNCHANGED <<stack, conn, opened, killed, input, result>>
  BY <1>1 DEF TypeQuit, vars, net
<1>3. QED
  BY <1>2 DEF OneInv, Proceeding, RightBuffer, Top

LEMMA OneAnswers ==
  ASSUME Known, OneInv, OneByOne, NEW b \in Buffers,
         Response(b) \/ PeerCloses(b) \/ RunSentinel(b) \/ Redirect(b)
  PROVE  OneInv'
<1>1. conn \in Conns /\ opened \in Counts /\ conn[b] \in Talking
  BY Shapes DEF Known, Response, PeerCloses, RunSentinel, Redirect, Talking
<1>2. stack # <<>> /\ ~Top.done /\ b[1] = Top.req /\ Proceeding(Top)
  BY <1>1 DEF OneInv
<1>3. PICK fr \in Frames : /\ fr = Top /\ stack = <<fr>> \o Tail(stack)
                           /\ Tail(stack) = <<>> /\ <<fr>> \o Tail(stack) = <<fr>>
  <2>1. Top \in Frames /\ Tail(stack) = <<>>
        /\ <<Top>> \o Tail(stack) = <<Top>>
    BY <1>2, AloneOnStack
  <2>2. stack = <<Top>>
    <3>1. stack \in Stacks /\ Len(Tail(stack)) = 0
      BY <2>1, Shapes DEF Known
    <3>2. Len(stack) = 1 /\ Top = stack[1] /\ stack \in Seq(Frames)
      BY <1>2, <3>1, TopFacts DEF Top, Stacks
    <3>3. QED
      BY <3>2
  <2>3. QED
    BY <2>1, <2>2
<1>4. UNCHANGED <<input, result>>
  BY DEF Response, PeerCloses, RunSentinel, Redirect
<1>5. CASE Response(b) \/ RunSentinel(b)
  <2>1. /\ opened' = opened /\ killed' = killed
        /\ \E e \in {"kept", "closed"} : conn' = [conn EXCEPT ![b] = e]
        /\ stack' \in {stack, Complete(stack, b)}
    BY <1>1, <1>5, SentinelEnds DEF Response, RunSentinel
  <2>2. \A x \in Buffers : conn'[x] \in Talking => conn[x] \in Talking /\ x # b
    BY <1>1, <2>1 DEF Conns, Talking
  <2>3. CASE stack' = stack
    <3>1. killed' \cap Own(Top.req) = {} /\ \A x \in Buffers : opened'[x] <= 1
      BY <1>2, <2>1 DEF OneInv, Proceeding
    <3>2. \A x \in Buffers : conn'[x] \in Talking => x[1] = Top.req /\ ~fr.done
      BY <1>2, <1>3, <2>2 DEF OneInv
    <3>3. QED
      BY <1>2, <1>3, <1>4, <2>3, <3>1, <3>2, OneGoesOn DEF Proceeding
  <2>4. CASE stack' = Complete(stack, b)
    <3>1. stack = <<fr>>
      BY <1>3
    <3>2. QED
      BY <1>1, <1>2, <1>3, <1>4, <2>1, <2>2, <2>4, <3>1, OneCompletes DEF Proceeding
  <2>5. QED
    BY <2>1, <2>3, <2>4
<1>6. CASE PeerCloses(b)
  <2>1. /\ opened' = opened /\ killed' = killed /\ stack' = stack
        /\ conn' = [conn EXCEPT ![b] = "eof"]
    BY <1>6 DEF PeerCloses
  <2>2. \A x \in Buffers : conn'[x] \in Talking => conn[x] \in Talking
    BY <1>1, <2>1 DEF Conns
  <2>3. killed' \cap Own(Top.req) = {} /\ \A x \in Buffers : opened'[x] <= 1
    BY <1>2, <2>1 DEF OneInv, Proceeding
  <2>4. \A x \in Buffers : conn'[x] \in Talking => x[1] = Top.req /\ ~fr.done
    BY <1>2, <1>3, <2>2 DEF OneInv
  <2>5. QED
    BY <1>2, <1>3, <1>4, <2>1, <2>3, <2>4, OneGoesOn DEF Proceeding
<1>7. CASE Redirect(b)
  <2>1. PICK e \in Ended : conn' = [conn EXCEPT ![b] = e, ![Target(b)] = "open"]
    BY <1>7 DEF Redirect, Ended
  <2>2. /\ opened' = [opened EXCEPT ![Target(b)] = 1] /\ stack' = stack
        /\ killed' = killed \cup moved /\ b[2] = "first"
    BY <1>7 DEF Redirect
  <2>3. PICK r \in Requests : r = Top.req /\ b = First(r)
    BY <1>2, <2>2, Owners DEF First, Target
  <2>4. PICK t \in Buffers : t = Target(b) /\ t[1] = r
    BY <2>3, BufferFacts, Owners
  <2>5. \A x \in Buffers : conn'[x] \in Talking => conn[x] \in Talking \/ x = t
    BY <1>1, <2>1, <2>4 DEF Conns, Ended, Talking
  <2>6. \A x \in Buffers : opened'[x] = opened[x] \/ (x = t /\ opened'[x] = 1)
    BY <1>1, <2>2, <2>4 DEF Counts
  <2>7. \A x \in Buffers : opened'[x] <= 1
    BY <2>6 DEF OneInv
  <2>8. \A x \in Buffers : conn'[x] \in Talking => x[1] = Top.req /\ ~fr.done
    BY <1>2, <1>3, <2>3, <2>4, <2>5 DEF OneInv
  <2>9. moved \cap Own(r) = {}
    <3>1. b \notin moved
      BY <1>1 DEF Known, Left, Talking, Ended
    <3>2. Target(b) \notin moved
      BY <2>3, Targets DEF Known, Moves
    <3>3. QED
      BY <2>3, <3>1, <3>2 DEF Own
  <2>10. killed' \cap Own(Top.req) = {}
    BY <1>2, <2>2, <2>3, <2>9 DEF Proceeding
  <2>11. QED
    BY <1>2, <1>3, <1>4, <2>2, <2>7, <2>8, <2>10, OneGoesOn DEF Proceeding
<1>8. QED
  BY <1>5, <1>6, <1>7

LEMMA OneStarts ==
  ASSUME Known, OneInv, OneByOne, NEW r \in Requests, Start(r)
  PROVE  OneInv'
<1>1. conn \in Conns /\ opened \in Counts /\ stack \in Stacks
  BY Shapes DEF Known
<1>2. stack = <<>>
  <2>1. Len(stack) < 1 /\ Len(stack) \in Nat /\ stack \in Seq(Frames)
    BY <1>1 DEF Start, OneByOne, Stacks
  <2>2. QED
    BY <2>1
<1>3. \A b \in Buffers : conn[b] \notin Talking /\ opened[b] <= 1
  BY <1>2 DEF OneInv
<1>4. First(r) \in Buffers /\ First(r) \in Own(r) /\ First(r)[1] = r
  BY BufferFacts, Owners
<1>5. conn[First(r)] = "none" /\ result[r] = Pending
      /\ killed' = killed \cup moved /\ input' = input
  BY DEF Start, Fresh
<1>6. killed' \cap Own(r) = {}
  <2>1. First(r) \notin killed \cup moved
    BY <1>5 DEF Known, Left, Ended
  <2>2. conn[Target(First(r))] = "none"
    BY <2>1 DEF Known, Moves
  <2>3. Target(First(r)) \notin killed \cup moved
    BY <2>2 DEF Known, Left, Ended
  <2>4. QED
    BY <1>5, <2>1, <2>3 DEF Own
<1>7. CASE /\ conn' \in {[conn EXCEPT ![First(r)] = "open"],
                         [conn EXCEPT ![First(r)] = "closed"]}
           /\ opened' \in {opened, [opened EXCEPT ![First(r)] = 1]}
           /\ result' = result
           /\ \E done \in BOOLEAN : \E proc :
                /\ stack' = <<NewFrame(r, done, proc)>> \o stack
                /\ done => conn'[First(r)] = "closed"
  <2>1. PICK done \in BOOLEAN : \E proc : /\ stack' = <<NewFrame(r, done, proc)>> \o stack
                                          /\ done => conn'[First(r)] = "closed"
    BY <1>7
  <2>1a. PICK proc : /\ stack' = <<NewFrame(r, done, proc)>> \o stack
                     /\ done => conn'[First(r)] = "closed"
    BY <2>1
  <2>2. PICK new : new = NewFrame(r, done, proc)
    OBVIOUS
  <2>3. /\ new.req = r /\ new.buf = First(r) /\ ~new.abort /\ new.counter = 0
        /\ new.at = "check" /\ new.done = done
    BY <2>2 DEF NewFrame
  <2>4. stack' # <<>> /\ Top' = new
    BY <1>2, <2>1a, <2>2 DEF Top
  <2>5. Proceeding(Top)'
    BY <1>4, <1>5, <1>6, <1>7, <2>3, <2>4 DEF Proceeding
  <2>6. \A b \in Buffers : conn'[b] \in Talking => b[1] = r /\ ~done
    <3>1. \A b \in Buffers : b # First(r) => conn'[b] = conn[b]
      BY <1>1, <1>7 DEF Conns
    <3>2. "closed" \notin Talking
      BY DEF Talking
    <3>3. QED
      BY <1>3, <1>4, <2>1a, <3>1, <3>2
  <2>7. \A b \in Buffers : opened'[b] <= 1
    <3>1. \A b \in Buffers : opened'[b] = opened[b] \/ opened'[b] = 1
      BY <1>1, <1>7 DEF Counts
    <3>2. QED
      BY <1>3, <3>1
  <2>8. QED
    BY <1>5, <1>7, <2>1a, <2>3, <2>4, <2>5, <2>6, <2>7 DEF OneInv, RightBuffer
<1>8. CASE result' = [result EXCEPT ![r] = NoBuffer] /\ UNCHANGED <<stack, net>>
  <2>1. result \in [Requests -> Buffers \cup {NoBuffer, Pending, Signalled}]
    BY DEF Known, Good, RestOK
  <2>2. RightBuffer'
    BY <1>8, <2>1 DEF OneInv, RightBuffer
  <2>3. QED
    BY <1>2, <1>3, <1>5, <1>8, <2>2 DEF OneInv, net
<1>9. CASE /\ conn' = [conn EXCEPT ![First(r)] = "open"]
           /\ opened' = [opened EXCEPT ![First(r)] = 1]
           /\ stack' = <<NewFrame(r, FALSE, <<First(r), 1>>)>> \o stack
           /\ UNCHANGED result
  BY <1>7, <1>9
<1>10. CASE /\ conn' = [conn EXCEPT ![First(r)] = "closed"]
            /\ stack' = <<NewFrame(r, TRUE, NoProc)>> \o stack
            /\ UNCHANGED <<opened, result>>
  <2>1. conn'[First(r)] = "closed"
    BY <1>1, <1>4, <1>10 DEF Conns
  <2>2. QED
    BY <1>7, <1>10, <2>1
<1>11. QED
  BY <1>8, <1>9, <1>10 DEF Start

(* The caller kills what was returned, which is nobody's any more. *)
LEMMA OneKill ==
  ASSUME Known, OneInv, OneByOne, NEW b \in Buffers, KillResult(b)
  PROVE  OneInv'
<1>1. PICK r \in Requests : result[r] = b
  BY DEF KillResult
<1>2. b[1] = r
  <2>1. b \in Own(r)
    BY <1>1, NotBuffers DEF OneInv, RightBuffer
  <2>2. QED
    BY <2>1, Owners
<1>3. stack # <<>> => Top.req # r /\ Top.req \in Requests
  BY <1>1, NotBuffers, AloneOnStack DEF OneInv, Proceeding
<1>4. conn[b] \notin {"open", "eof"}
  BY <1>2, <1>3 DEF OneInv, Talking
<1>5. /\ UNCHANGED <<stack, conn, opened, input, result>>
      /\ killed' = killed \cup {b}
  BY <1>4 DEF KillResult
<1>6. stack # <<>> => b \notin Own(Top.req)
  BY <1>2, <1>3, Owners
<1>7. stack # <<>> => Proceeding(Top)'
  BY <1>5, <1>6 DEF OneInv, Proceeding, Top
<1>8. QED
  BY <1>5, <1>7 DEF OneInv, RightBuffer, Top

LEMMA OneFollow ==
  ASSUME Known, OneInv, OneByOne, FollowRedirect
  PROVE  OneInv'
<1>1. stack # <<>> /\ Proceeding(Top) /\ ~Top.done
  BY DEF FollowRedirect, OneInv, Stops
<1>2. PICK fr \in Frames : fr = Top /\ fr.req \in Requests
                           /\ <<fr>> \o Tail(stack) = <<fr>> /\ Tail(stack) = <<>>
  BY <1>1, AloneOnStack
<1>3. PICK t : t = Target(fr.buf) /\ t \in Buffers /\ t \in Own(fr.req)
  BY <1>1, <1>2, BufferFacts DEF Proceeding
<1>4. PICK p \in Procs \cup {NoProc} : p = ProcessOf(t)
  BY <1>3, ProcessType DEF Known
<1>5. PICK new : new = [fr EXCEPT !.buf = t, !.proc = p]
  OBVIOUS
<1>6. /\ new \in Frames /\ new.buf = t /\ new.req = fr.req /\ new.at = fr.at
      /\ new.done = fr.done /\ new.abort = fr.abort /\ new.counter = fr.counter
  BY <1>3, <1>5 DEF Frames
<1>7. stack' = <<new>>
  <2>1. stack' = <<new>> \o Tail(stack)
    BY <1>2, <1>3, <1>4, <1>5 DEF FollowRedirect, SetTop
  <2>2. QED
    BY <1>1, <1>6, <2>1, AloneOnStack
<1>8. UNCHANGED <<conn, opened, killed, input, result>>
  BY DEF FollowRedirect, net
<1>9. /\ \A b \in Buffers : opened'[b] <= 1
      /\ \A b \in Buffers : conn'[b] \in Talking => b[1] = Top.req /\ ~new.done
      /\ killed' \cap Own(Top.req) = {}
  BY <1>1, <1>2, <1>6, <1>8 DEF OneInv, Proceeding
<1>10. QED
  BY <1>1, <1>2, <1>3, <1>6, <1>7, <1>8, <1>9, OneGoesOn DEF Proceeding

LEMMA OneWake ==
  ASSUME Known, OneInv, OneByOne, Wake
  PROVE  OneInv'
<1>1. stack # <<>> /\ Proceeding(Top)
  BY DEF Wake, OneInv
<1>2. PICK fr \in Frames : fr = Top /\ fr.req \in Requests /\ fr.buf \in Buffers
  BY <1>1, AloneOnStack, KnownTop DEF Tracked
<1>3. PICK p \in Procs \cup {NoProc} : p = ProcessOf(fr.buf)
  BY <1>2, ProcessType DEF Known
<1>4. PICK new \in {[fr EXCEPT !.at = "check"],
                    [fr EXCEPT !.at = "check", !.proc = p]} :
        stack' = <<new>> \o Tail(stack)
  BY <1>2, <1>3 DEF Wake, SetTop
<1>5. /\ new \in Frames /\ new.buf = fr.buf /\ new.req = fr.req /\ new.at = "check"
      /\ new.done = fr.done /\ new.abort = fr.abort /\ new.counter = fr.counter
  BY <1>4, ZenonT(30) DEF Frames
<1>6. stack' = <<new>>
  BY <1>1, <1>4, <1>5, AloneOnStack
<1>7. UNCHANGED <<conn, opened, killed, input, result>>
  BY DEF Wake, net
<1>8. /\ \A b \in Buffers : opened'[b] <= 1
      /\ \A b \in Buffers : conn'[b] \in Talking => b[1] = Top.req /\ ~new.done
      /\ killed' \cap Own(Top.req) = {}
  BY <1>1, <1>2, <1>5, <1>7 DEF OneInv, Proceeding
<1>9. QED
  BY <1>1, <1>2, <1>5, <1>6, <1>7, <1>8, OneGoesOn DEF Proceeding

(* The activation moves on while its process is deleted.                   *)
LEMMA OneStops ==
  ASSUME Known, OneInv, OneByOne, stack # <<>>, NEW new \in Frames,
         NEW p \in Procs \cup {NoProc},
         DeleteProcess(p, <<new>> \o Tail(stack)),
         new.req = Top.req, new.buf = Top.buf, ~new.abort, new.counter = 0,
         new.at = "check" \/ new.at = "wait",
         \A x \in Buffers : conn'[x] \in Talking => ~new.done,
         UNCHANGED <<killed, input, result>>
  PROVE  OneInv'
<1>1. <<new>> \o Tail(stack) = <<new>> /\ Proceeding(Top)
  BY AloneOnStack DEF OneInv
<1>2. /\ opened' = opened
      /\ \A x \in Buffers : conn'[x] \in Talking =>
           conn[x] \in Talking /\ (p # NoProc /\ x = p[1] => ~Alive(p))
      /\ \/ stack' = <<new>>
         \/ /\ p # NoProc /\ p[1] \in Buffers /\ conn[p[1]] \in Talking
            /\ stack' = Complete(<<new>>, p[1])
  BY <1>1, DeleteEnds
<1>3. CASE stack' = <<new>>
  <2>1. /\ \A b \in Buffers : opened'[b] <= 1
        /\ \A b \in Buffers : conn'[b] \in Talking => b[1] = Top.req /\ ~new.done
        /\ killed' \cap Own(Top.req) = {}
    BY <1>1, <1>2 DEF OneInv, Proceeding
  <2>2. QED
    BY <1>1, <1>3, <2>1, OneGoesOn DEF Proceeding
<1>4. CASE /\ p # NoProc /\ p[1] \in Buffers /\ conn[p[1]] \in Talking
           /\ stack' = Complete(<<new>>, p[1]) /\ stack' # <<new>>
  <2>1. Alive(p)
    <3>1. CASE ~Alive(p)
      BY <1>1, <1>4, <3>1 DEF DeleteProcess
    <3>2. QED
      BY <3>1
  <2>2. \A x \in Buffers : conn'[x] \in Talking => conn[x] \in Talking /\ x # p[1]
    BY <1>2, <1>4, <2>1
  <2>3. QED
    BY <1>2, <1>4, <2>2, OneCompletes
<1>5. QED
  BY <1>2, <1>3, <1>4

LEMMA OneQuit ==
  ASSUME Known, OneInv, OneByOne, WakeOnQuit
  PROVE  OneInv'
<1>1. stack # <<>> /\ Proceeding(Top)
  BY DEF WakeOnQuit, OneInv
<1>2. PICK fr \in Frames : fr = Top /\ fr.proc \in Procs \cup {NoProc}
  BY <1>1, AloneOnStack DEF Frames
<1>3. PICK new : new = [fr EXCEPT !.at = "check", !.proc = NoProc]
  OBVIOUS
<1>4. /\ new \in Frames /\ new.buf = fr.buf /\ new.req = fr.req /\ new.at = "check"
      /\ new.done = fr.done /\ new.abort = fr.abort /\ new.counter = fr.counter
  BY <1>3 DEF Frames
<1>5. DeleteProcess(fr.proc, <<new>> \o Tail(stack)) /\ UNCHANGED <<killed, input, result>>
  BY <1>2, <1>3 DEF WakeOnQuit
<1>6. \A x \in Buffers : conn'[x] \in Talking => ~new.done
  <2>1. \A x \in Buffers : conn'[x] \in Talking => conn[x] \in Talking
    BY <1>2, <1>5, DeleteEnds
  <2>2. QED
    BY <1>2, <1>4, <2>1 DEF OneInv
<1>7. QED
  BY <1>1, <1>2, <1>4, <1>5, <1>6, OneStops DEF Proceeding

(* A connection that the loop finds closed was the only one: a redirect    *)
(* would have been followed.                                               *)
LEMMA OneRound ==
  ASSUME Known, OneInv, OneByOne, Round
  PROVE  OneInv'
<1>1. stack # <<>> /\ Proceeding(Top) /\ ~Top.done
  BY DEF Round, OneInv, Stops
<1>2. PICK fr \in Frames : /\ fr = Top /\ fr.proc \in Procs \cup {NoProc}
                           /\ Tracked(fr, conn, opened) /\ fr.req \in Requests
  BY <1>1, AloneOnStack, KnownTop DEF Frames
<1>3. Count(fr) = 0 /\ ~(Count(fr) > InputLimit)
  BY <1>1, <1>2, ConstantsOK DEF Count, OneInv, Proceeding
<1>4. Dead(fr) \in BOOLEAN
  BY DEF Dead
<1>5. PICK new : new = [fr EXCEPT !.counter = Count(fr),
                                  !.abort = Count(fr) > InputLimit,
                                  !.done = Dead(fr), !.at = "wait"]
  OBVIOUS
<1>6. /\ new \in Frames /\ new.buf = fr.buf /\ new.req = fr.req /\ new.at = "wait"
      /\ new.done = Dead(fr) /\ ~new.abort /\ new.counter = 0
  <2>1. Count(fr) \in 0..(InputLimit + 1) /\ (Count(fr) > InputLimit) \in BOOLEAN
    BY <1>3, ConstantsOK
  <2>2. /\ new \in Frames /\ new.buf = fr.buf /\ new.req = fr.req
        /\ new.at = "wait" /\ new.done = Dead(fr)
        /\ new.counter = Count(fr) /\ new.abort = (Count(fr) > InputLimit)
    BY <1>4, <1>5, <2>1 DEF Frames
  <2>3. QED
    BY <1>3, <2>2
<1>7. UNCHANGED <<killed, input, result>>
  BY DEF Round
<1>8. \/ Dead(fr) /\ DeleteProcess(fr.proc, <<new>> \o Tail(stack))
      \/ ~Dead(fr) /\ stack' = <<new>> \o Tail(stack) /\ UNCHANGED net
  BY <1>2, <1>5 DEF Round
<1>9. CASE Dead(fr) /\ DeleteProcess(fr.proc, <<new>> \o Tail(stack))
  <2>1. PICK b \in Buffers, p \in Procs : b = fr.buf /\ p = fr.proc
    BY <1>2, <1>9 DEF Dead, Tracked
  <2>2. p[1] = b /\ p[2] <= opened[b] /\ p # NoProc
    BY <1>1, <1>2, <1>9, <2>1 DEF Tracked, Holder, Serial, Dead
  <2>3. opened[b] \in Nat /\ opened[b] <= 1 /\ p[2] \in 1..MaxConns
    BY Shapes, ConstantsOK DEF OneInv, Known, Counts, Procs
  <2>4. ~(p[2] < opened[b]) /\ p[2] = opened[b]
    BY <2>2, <2>3, ConstantsOK
  <2>5. conn[b] = "eof" \/ conn[b] = "closed"
    BY <1>9, <2>1, <2>2, <2>4 DEF Dead, Closed
  <2>6. b \notin moved
    BY <1>1, <1>2, <2>1 DEF Round, Proceeding
  <2>7. b[1] = fr.req
    BY <1>1, <1>2, <2>1, Owners DEF Proceeding
  <2>8. \A x \in Buffers : conn'[x] \in Talking =>
          conn[x] \in Talking /\ (x = b => ~Alive(p)) /\ x[1] = b[1]
    BY <1>2, <1>9, <2>1, <2>2, <2>7, DeleteEnds DEF OneInv
  <2>9. ASSUME NEW x \in Buffers, conn'[x] \in Talking
        PROVE  FALSE
    <3>1. CASE conn[b] = "eof"
      <4>1. x = b
        BY <2>8, <2>9, <3>1, OnlyOneTalks DEF Ended
      <4>2. Alive(p)
        BY <2>2, <2>4, <3>1 DEF Alive
      <4>3. QED
        BY <2>8, <2>9, <4>1, <4>2
    <3>2. CASE conn[b] = "closed"
      <4>1. x # b /\ (x = First(x[1]) \/ x = Target(First(x[1])))
        BY <2>8, <2>9, <3>2, Owners DEF Talking
      <4>2. x[1] = b[1] /\ b[1] \in Requests /\ conn[x] \in Talking
            /\ conn[x] # "none" /\ conn[x] \notin Ended
        BY <2>8, <2>9, Owners DEF Talking, Ended
      <4>3. CASE x = First(b[1])
        <5>1. b = Target(First(b[1]))
          BY <4>1, <4>2, <4>3, Owners
        <5>2. x \in moved
          BY <3>2, <4>2, <4>3, <5>1 DEF Known, Moves
        <5>3. QED
          BY <4>2, <5>2 DEF Known, Left
      <4>4. CASE x = Target(First(b[1]))
        <5>1. b = First(b[1])
          BY <4>1, <4>2, <4>4, Owners
        <5>2. b \in moved
          BY <4>2, <4>4, <5>1 DEF Known, Moves
        <5>3. QED
          BY <2>6, <5>2
      <4>5. QED
        BY <4>1, <4>2, <4>3, <4>4
    <3>3. QED
      BY <2>5, <3>1, <3>2
  <2>10. QED
    BY <1>1, <1>2, <1>6, <1>7, <1>9, <2>9, OneStops
<1>10. CASE ~Dead(fr) /\ stack' = <<new>> \o Tail(stack) /\ UNCHANGED net
  <2>1. stack' = <<new>> /\ conn' = conn /\ opened' = opened
    BY <1>1, <1>6, <1>10, AloneOnStack DEF net
  <2>2. /\ \A b \in Buffers : opened'[b] <= 1
        /\ \A b \in Buffers : conn'[b] \in Talking => b[1] = Top.req /\ ~new.done
        /\ killed' \cap Own(Top.req) = {}
    BY <1>1, <1>6, <1>7, <1>10, <2>1 DEF OneInv, Proceeding
  <2>3. QED
    BY <1>1, <1>2, <1>6, <1>7, <2>1, <2>2, OneGoesOn DEF Proceeding
<1>11. QED
  BY <1>8, <1>9, <1>10

(* Only an activation that is done returns; nothing of it talks.           *)
LEMMA OneReturn ==
  ASSUME Known, OneInv, OneByOne, Return
  PROVE  OneInv'
<1>1. PICK fr \in Frames : /\ fr = Top /\ stack # <<>> /\ Tail(stack) = <<>>
                           /\ fr.req \in Requests /\ Proceeding(fr)
  BY AloneOnStack DEF Return, OneInv
<1>2. fr.done
  BY <1>1 DEF Return, Stops, Proceeding
<1>3. UNCHANGED <<conn, opened, killed, input>> /\ stack' = <<>>
  BY <1>1 DEF Return, Deliver, net
<1>4. \A b \in Buffers : conn[b] \notin Talking
  BY <1>1, <1>2 DEF OneInv
<1>5. RightBuffer'
  <2>1. PICK ans \in {Signalled, fr.buf} : result' = [result EXCEPT ![fr.req] = ans]
    BY <1>1 DEF Return, Deliver
  <2>2. result \in [Requests -> Buffers \cup {NoBuffer, Pending, Signalled}]
    BY DEF Known, Good, RestOK
  <2>3. QED
    BY <1>1, <2>1, <2>2 DEF OneInv, RightBuffer, Proceeding
<1>6. QED
  BY <1>3, <1>4, <1>5 DEF OneInv

LEMMA OneNext ==
  ASSUME Known, OneInv, OneByOne, [Next]_vars
  PROVE  OneInv'
<1>1. ~LeaveLate
  BY DEF OneByOne, LeaveLate, TimedOut, Known, Good, RestOK
<1>2. ~KillProc /\ ~KillBufferProcess /\ ~ReturnLate
  <2>1. stack # <<>> => Top.at # "kill proc" /\ Top.at # "kill buffer process"
                        /\ Top.at # "return"
    BY DEF OneInv, Proceeding
  <2>2. QED
    BY <2>1 DEF KillProc, KillBufferProcess, ReturnLate
<1>3. CASE Loop
  BY <1>1, <1>2, <1>3, OneFollow, OneRound, OneWake, OneQuit, OneReturn DEF Loop
<1>4. CASE Network
  BY <1>4, OneAnswers DEF Network
<1>5. QED
  BY <1>3, <1>4, OneUser, OneStarts, OneKill DEF Next

(* Any number of retrievals, one after the other, with redirects, silent   *)
(* sentinels, quits and connections that die at any moment, as long as     *)
(* none times out, is typed away or is connected again: each returns a     *)
(* buffer of its own, nil, or the quit.                                    *)
THEOREM RightBufferReturned ==
  ASSUME OneByOne
  PROVE  Spec => []RightBuffer
<1>1. Known /\ OneInv /\ [Next]_vars => OneInv'
  BY OneNext
<1>2. OneInv => RightBuffer
  BY DEF OneInv
<1>3. QED
  BY <1>1, <1>2, OneInit, KnownAlways, PTL DEF Spec
=============================================================================
