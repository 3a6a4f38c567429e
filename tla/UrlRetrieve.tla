---------------------------- MODULE UrlRetrieve ----------------------------
(***************************************************************************)
(* url-retrieve-synchronously of src/config/my-url.el: it starts an        *)
(* asynchronous retrieval and waits in a loop until the callback of the    *)
(* retrieval has run, the connection died, the timeout passed or the user  *)
(* kept typing.                                                            *)
(*                                                                         *)
(* my-url.el holds no lexical-binding cookie, so retrieval-done and        *)
(* asynch-buffer are dynamic and the callback, an ordinary lambda, assigns *)
(* those of the innermost retrieval that is waiting when it runs.  While   *)
(* the loop waits, accept-process-output runs filters, sentinels and       *)
(* timers, and these may start a retrieval of their own: retrievals nest.  *)
(*                                                                         *)
(* The network side (url-http and the process code of Emacs) is not in     *)
(* src/config and is modelled as the loop and its comments use it.         *)
(***************************************************************************)
EXTENDS Naturals, Sequences

CONSTANTS
  Requests,    (* the retrievals, each made once                           *)
  Timed,       (* those called with a TIMEOUT                              *)
  Typing,      (* may the user type while a retrieval waits?               *)
  Quits,       (* may the user quit with C-g while a retrieval waits?      *)
  Silent,      (* may a sentinel decide not to call the callback?          *)
  Flaky,       (* those whose sentinels may open a connection again        *)
  Redirected,  (* those whose servers may answer with a redirect           *)
  InputLimit,  (* how many rounds with pending input are tolerated: 20     *)
  MaxConns,    (* bound: connections opened for one buffer                 *)
  MaxDepth     (* bound: nested retrievals                                 *)

ASSUME ConstantsOK ==
  /\ Timed \subseteq Requests /\ Flaky \subseteq Requests
  /\ Redirected \subseteq Requests
  /\ Typing \in BOOLEAN /\ Quits \in BOOLEAN /\ Silent \in BOOLEAN
  /\ InputLimit \in Nat
  /\ MaxConns \in Nat \ {0} /\ MaxDepth \in Nat \ {0}

(* The buffer a retrieval is started in, and the one a redirect goes to. *)
Buffers == Requests \X {"first", "redirect"}
First(r) == <<r, "first">>
Target(b) == <<b[1], "redirect">>
NoBuffer == <<>>
Pending == <<"not returned">>
Signalled == <<"quit">>

(* A process object: the n-th connection opened for a buffer. *)
Procs == Buffers \X (1..MaxConns)
NoProc == <<>>

(* The dynamic bindings and the place of one activation of the function. *)
Frames == [req : Requests, done : BOOLEAN, buf : Buffers \cup {NoBuffer},
           proc : Procs \cup {NoProc}, counter : 0..(InputLimit + 1),
           abort : BOOLEAN,
           at : {"check", "wait", "kill proc", "kill buffer process",
                 "return"}]

VARIABLES
  stack,     (* the activations of the function, innermost first           *)
  conn,      (* the last connection of a buffer: none, open, kept (alive   *)
             (* but detached from the buffer), eof (its sentinel has not   *)
             (* run yet) or closed                                         *)
  opened,    (* how many connections a buffer had                          *)
  moved,     (* the buffers whose url-redirect-buffer is set               *)
  killed,    (* the buffers that were killed                               *)
  expired,   (* the retrievals whose timeout has passed                    *)
  input,     (* input-pending-p                                            *)
  quit,      (* quit-flag                                                  *)
  result     (* history: the buffer each retrieval returned                *)

net == <<conn, opened>>
vars == <<stack, net, moved, killed, expired, input, quit, result>>

Top == Head(stack)
SetTop(fr) == stack' = <<fr>> \o Tail(stack)

Init ==
  /\ stack = <<>>
  /\ conn = [b \in Buffers |-> "none"]
  /\ opened = [b \in Buffers |-> 0]
  /\ moved = {} /\ killed = {} /\ expired = {}
  /\ input = FALSE /\ quit = FALSE
  /\ result = [r \in Requests |-> Pending]

----------------------------------------------------------------------------
(* Filters, sentinels, timers and commands can run: Emacs is idle, or the  *)
(* innermost retrieval is inside accept-process-output.  while-no-input    *)
(* does not enter it, or leaves it, when input is pending.                 *)
CanRun == stack # <<>> => Top.at = "wait" /\ ~input /\ ~quit

Fresh(r) == conn[First(r)] = "none" /\ result[r] = Pending

(* get-buffer-process *)
ProcessOf(b) ==
  IF b # NoBuffer /\ b \notin killed /\ conn[b] \in {"open", "eof"}
    THEN <<b, opened[b]>> ELSE NoProc

(* process-status is one of closed, exit, signal, failed. *)
Closed(p) == p[2] < opened[p[1]] \/ conn[p[1]] \in {"eof", "closed"}

(* Mutant: the callback sets asynch-buffer and forgets retrieval-done. *)
CompleteBufferOnly(s, b) ==
  IF s = <<>> THEN s ELSE <<[Head(s) EXCEPT !.buf = b]>> \o Tail(s)

(* The callback: it assigns the variables of the innermost activation. *)
Complete(s, b) ==
  IF s = <<>> THEN s
  ELSE <<[Head(s) EXCEPT !.done = TRUE, !.buf = b]>> \o Tail(s)

(***************************************************************************)
(* The sentinel of b's connection runs, because the peer closed it or      *)
(* because delete-process was called, and s is the stack it runs on: it    *)
(* may call the callback, give up without calling it (the FIXME of the     *)
(* loop), or open a connection again.                                      *)
(***************************************************************************)
Sentinel(b, s) ==
  \/ /\ conn' = [conn EXCEPT ![b] = "closed"]
     /\ \/ stack' = Complete(s, b)
        \/ Silent /\ stack' = s
     /\ UNCHANGED opened
  \/ /\ b[1] \in Flaky /\ opened[b] < MaxConns
     /\ conn' = [conn EXCEPT ![b] = "open"]
     /\ opened' = [opened EXCEPT ![b] = @ + 1]
     /\ stack' = s

(* p is the current connection of its buffer and still exists. *)
Alive(p) ==
  p # NoProc /\ p[2] = opened[p[1]] /\ conn[p[1]] \in {"open", "eof", "kept"}

(* delete-process of p, while the stack becomes s. *)
DeleteProcess(p, s) ==
  \/ /\ Alive(p) /\ conn[p[1]] # "kept"
     /\ Sentinel(p[1], s)
  \/ /\ Alive(p) /\ conn[p[1]] = "kept"
     /\ conn' = [conn EXCEPT ![p[1]] = "closed"]
     /\ stack' = s /\ UNCHANGED opened
  \/ ~Alive(p) /\ stack' = s /\ UNCHANGED net

----------------------------------------------------------------------------
(* The network. *)

(* The response of b is complete: url-http calls the callback in b. *)
Response(b) ==
  /\ CanRun /\ conn[b] = "open" /\ b \notin killed
  /\ \E c \in {"kept", "closed"} : conn' = [conn EXCEPT ![b] = c]
  /\ stack' = Complete(stack, b)
  /\ UNCHANGED <<opened, moved, killed, expired, input, quit, result>>

(* The response is a redirect: another asynchronous retrieval with the     *)
(* same callback starts, after url-gc-dead-buffers has killed the buffers  *)
(* redirected before; b gets its url-redirect-buffer and is marked dead.   *)
Redirect(b) ==
  /\ CanRun /\ conn[b] = "open" /\ b \notin killed
  /\ b[1] \in Redirected /\ b[2] = "first"
  /\ \E c \in {"kept", "closed"} :
       conn' = [conn EXCEPT ![b] = c, ![Target(b)] = "open"]
  /\ opened' = [opened EXCEPT ![Target(b)] = 1]
  /\ killed' = killed \cup moved
  /\ moved' = moved \cup {b}
  /\ UNCHANGED <<stack, expired, input, quit, result>>

PeerCloses(b) ==
  /\ CanRun /\ conn[b] = "open"
  /\ conn' = [conn EXCEPT ![b] = "eof"]
  /\ UNCHANGED <<stack, opened, moved, killed, expired, input, quit, result>>

RunSentinel(b) ==
  /\ CanRun /\ conn[b] = "eof"
  /\ Sentinel(b, stack)
  /\ UNCHANGED <<moved, killed, expired, input, quit, result>>

(* The user and the clock. *)
TypeAhead ==
  /\ Typing /\ stack # <<>> /\ ~input
  /\ input' = TRUE
  /\ UNCHANGED <<stack, net, moved, killed, expired, quit, result>>

ReadInput ==
  /\ stack = <<>> /\ input
  /\ input' = FALSE
  /\ UNCHANGED <<stack, net, moved, killed, expired, quit, result>>

TypeQuit ==
  /\ Quits /\ stack # <<>> /\ CanRun
  /\ quit' = TRUE
  /\ UNCHANGED <<stack, net, moved, killed, expired, input, result>>

Expire(r) ==
  /\ r \in Timed \ expired
  /\ \E i \in 1..Len(stack) : stack[i].req = r
  /\ expired' = expired \cup {r}
  /\ UNCHANGED <<stack, net, moved, killed, input, quit, result>>

----------------------------------------------------------------------------
(* The function. *)
NewFrame(r, done, proc) ==
  [req |-> r, done |-> done, buf |-> First(r), proc |-> proc,
   counter |-> 0, abort |-> FALSE, at |-> "check"]

(***************************************************************************)
(* Lines 207-228.  url-retrieve-internal first kills the buffers marked    *)
(* dead.  An asynchronous loader opens a connection; a synchronous one     *)
(* leaves a buffer without process and the callback has run; a loader like *)
(* that of mailto returns nil, and so does the function.                   *)
(***************************************************************************)
Start(r) ==
  /\ CanRun /\ Fresh(r) /\ Len(stack) < MaxDepth
  /\ killed' = killed \cup moved
  /\ \/ /\ conn' = [conn EXCEPT ![First(r)] = "open"]
        /\ opened' = [opened EXCEPT ![First(r)] = 1]
        /\ stack' = <<NewFrame(r, FALSE, <<First(r), 1>>)>> \o stack
        /\ UNCHANGED result
     \/ /\ conn' = [conn EXCEPT ![First(r)] = "closed"]
        /\ stack' = <<NewFrame(r, TRUE, NoProc)>> \o stack
        /\ UNCHANGED <<opened, result>>
     \/ /\ result' = [result EXCEPT ![r] = NoBuffer]
        /\ UNCHANGED <<stack, net>>
  /\ UNCHANGED <<moved, expired, input, quit>>

(* Mutant: the clock is looked at only while there is a process. *)
TimedOutWithProcess(fr) ==
  ~fr.done /\ ~fr.abort /\ fr.req \in expired /\ fr.proc # NoProc

TimedOut(fr) == ~fr.done /\ ~fr.abort /\ fr.req \in expired

(* Mutants: abort-hang is not looked at; a lost process ends the loop. *)
StopsDespiteHang(fr) == fr.done \/ TimedOut(fr)
StopsWithoutProcess(fr) ==
  fr.done \/ fr.abort \/ TimedOut(fr) \/ fr.proc = NoProc

Stops(fr) == fr.done \/ fr.abort \/ TimedOut(fr)

(* Mutant: the process of the redirect is taken, its buffer is not. *)
FollowProcessOnly ==
  LET fr == Top IN
  /\ stack # <<>> /\ fr.at = "check" /\ ~Stops(fr)
  /\ fr.buf \in moved \ killed
  /\ SetTop([fr EXCEPT !.proc = ProcessOf(Target(fr.buf))])
  /\ UNCHANGED <<net, moved, killed, expired, input, quit, result>>

(* Lines 246-250: the loop goes on in the buffer of the redirect. *)
FollowRedirect ==
  LET fr == Top IN
  /\ stack # <<>> /\ fr.at = "check" /\ ~Stops(fr)
  /\ fr.buf \in moved \ killed
  /\ SetTop([fr EXCEPT !.buf = Target(fr.buf), !.proc = ProcessOf(Target(fr.buf))])
  /\ UNCHANGED <<net, moved, killed, expired, input, quit, result>>

(* The process closed, and no other was started in the buffer. *)
Dead(fr) ==
  /\ fr.proc # NoProc /\ Closed(fr.proc)
  /\ ProcessOf(fr.buf) \in {fr.proc, NoProc}

(* Mutant: the rounds with pending input are not added up. *)
CountAfresh(fr) == IF input THEN 1 ELSE 0

Count(fr) == fr.counter + (IF input THEN 1 ELSE 0)

(* Lines 251-276: a connection that closed ends the loop, and so do more   *)
(* than InputLimit rounds with pending input; the round then waits.        *)
Round ==
  LET fr == Top
      after == <<[fr EXCEPT !.counter = Count(fr),
                            !.abort = Count(fr) > InputLimit,
                            !.done = Dead(fr), !.at = "wait"]>> \o Tail(stack)
  IN
  /\ stack # <<>> /\ fr.at = "check" /\ ~Stops(fr)
  /\ fr.buf \notin moved \ killed
  /\ \/ Dead(fr) /\ DeleteProcess(fr.proc, after)
     \/ ~Dead(fr) /\ stack' = after /\ UNCHANGED net
  /\ UNCHANGED <<moved, killed, expired, input, quit, result>>

(* Lines 279-290: accept-process-output ends.  Pending input and output of *)
(* the process leave proc alone; after 0.1 s proc becomes the process the  *)
(* buffer has now; after a quit the process is deleted and proc is nil.    *)
Wake ==
  LET fr == Top IN
  /\ stack # <<>> /\ fr.at = "wait" /\ ~quit
  /\ \/ SetTop([fr EXCEPT !.at = "check"])
     \/ /\ ~input /\ fr.proc # NoProc
        /\ SetTop([fr EXCEPT !.at = "check", !.proc = ProcessOf(fr.buf)])
  /\ UNCHANGED <<net, moved, killed, expired, input, quit, result>>

WakeOnQuit ==
  LET fr == Top IN
  /\ stack # <<>> /\ fr.at = "wait" /\ quit
  /\ DeleteProcess(fr.proc,
       <<[fr EXCEPT !.at = "check", !.proc = NoProc]>> \o Tail(stack))
  /\ UNCHANGED <<moved, killed, expired, input, quit, result>>

(* The function returns asynch-buffer; a pending quit is signalled once no *)
(* activation inhibits it any more.                                        *)
Deliver(fr) ==
  LET last == Tail(stack) = <<>> IN
  /\ stack' = Tail(stack)
  /\ quit' = (quit /\ ~last)
  /\ result' = [result EXCEPT ![fr.req] =
                  IF quit /\ last THEN Signalled ELSE fr.buf]

Return ==
  LET fr == Top IN
  /\ stack # <<>> /\ fr.at = "check" /\ Stops(fr) /\ ~TimedOut(fr)
  /\ Deliver(fr)
  /\ UNCHANGED <<net, moved, killed, expired, input>>

(* Lines 293-298: after a timeout proc is deleted if it is live, then the  *)
(* process the buffer has now.                                             *)
LeaveLate ==
  /\ stack # <<>> /\ Top.at = "check" /\ TimedOut(Top)
  /\ SetTop([Top EXCEPT !.at = "kill proc"])
  /\ UNCHANGED <<net, moved, killed, expired, input, quit, result>>

Live(p) == Alive(p) /\ conn[p[1]] # "eof"

KillProc ==
  LET after == <<[Top EXCEPT !.at = "kill buffer process"]>> \o Tail(stack) IN
  /\ stack # <<>> /\ Top.at = "kill proc"
  /\ \/ Live(Top.proc) /\ DeleteProcess(Top.proc, after)
     \/ ~Live(Top.proc) /\ stack' = after /\ UNCHANGED net
  /\ UNCHANGED <<moved, killed, expired, input, quit, result>>

(* Mutant: only the process the loop knew is deleted. *)
KillNothingMore ==
  /\ stack # <<>> /\ Top.at = "kill buffer process"
  /\ Deliver(Top)
  /\ UNCHANGED <<net, moved, killed, expired, input>>

KillBufferProcess ==
  LET fr == Top
      p == ProcessOf(fr.buf)
  IN
  /\ stack # <<>> /\ fr.at = "kill buffer process"
  /\ \/ /\ Live(p)
        /\ DeleteProcess(p, <<[fr EXCEPT !.at = "return"]>> \o Tail(stack))
        /\ UNCHANGED <<quit, result>>
     \/ ~Live(p) /\ Deliver(fr) /\ UNCHANGED net
  /\ UNCHANGED <<moved, killed, expired, input>>

ReturnLate ==
  /\ stack # <<>> /\ Top.at = "return"
  /\ Deliver(Top)
  /\ UNCHANGED <<net, moved, killed, expired, input>>

(* The caller (url-found-p) kills the buffer it got, and with it its       *)
(* connection, whose sentinel may still call the callback.                 *)
KillResult(b) ==
  /\ stack # <<>> => Top.at = "wait"
  /\ b \notin killed /\ \E r \in Requests : result[r] = b
  /\ killed' = killed \cup {b}
  /\ \/ /\ conn[b] \in {"open", "eof"}
        /\ conn' = [conn EXCEPT ![b] = "closed"]
        /\ stack' \in {stack, Complete(stack, b)}
     \/ conn[b] \notin {"open", "eof"} /\ UNCHANGED <<stack, conn>>
  /\ UNCHANGED <<opened, moved, expired, input, quit, result>>

Loop ==
  \/ FollowRedirect \/ Round \/ Wake \/ WakeOnQuit \/ Return
  \/ LeaveLate \/ KillProc \/ KillBufferProcess \/ ReturnLate

Network == \E b \in Buffers :
  Response(b) \/ Redirect(b) \/ PeerCloses(b) \/ RunSentinel(b)

Next ==
  \/ Loop \/ Network \/ TypeAhead \/ ReadInput \/ TypeQuit
  \/ \E r \in Requests : Start(r) \/ Expire(r)
  \/ \E b \in Buffers : KillResult(b)

Spec == Init /\ [][Next]_vars

(* Emacs goes on executing the loop, and time passes. *)
LoopSpec == Spec /\ WF_vars(Loop) /\ \A r \in Requests : WF_vars(Expire(r))

(* Moreover the servers answer, and what a connection has to say is read:  *)
(* accept-process-output reads whatever is there each time it is entered.  *)
FairSpec ==
  /\ LoopSpec
  /\ \A b \in Buffers :
       SF_vars(Response(b) \/ Redirect(b)) /\ SF_vars(RunSentinel(b))

----------------------------------------------------------------------------
TypeOK ==
  /\ stack \in Seq(Frames) /\ Len(stack) <= MaxDepth
  /\ conn \in [Buffers -> {"none", "open", "kept", "eof", "closed"}]
  /\ opened \in [Buffers -> 0..MaxConns]
  /\ moved \subseteq Buffers /\ killed \subseteq Buffers
  /\ expired \subseteq Timed
  /\ input \in BOOLEAN /\ quit \in BOOLEAN
  /\ result \in [Requests -> Buffers \cup {NoBuffer, Pending, Signalled}]

Own(r) == {First(r), Target(First(r))}

(* What the docstring says: the function returns the buffer containing the *)
(* data of its URL, or nil.                                                *)
RightBuffer ==
  \A r \in Requests : result[r] \in Own(r) \cup {NoBuffer, Pending, Signalled}

(* However retrievals nest and connections come back, one that ends        *)
(* because its time is up, or because the user kept typing, returns its    *)
(* own buffer: somebody else's buffer comes only from somebody else's      *)
(* callback, and such a retrieval counts as done.                          *)
ForeignOnlyWhenDone ==
  \A i \in 1..Len(stack) : stack[i].buf \notin Own(stack[i].req) => stack[i].done

(* What the two deletions of the clean-up achieve, even when the sentinel  *)
(* of the first connects again, or had connected again unseen while the    *)
(* loop waited: a connection of the buffer waited on survives the timeout  *)
(* only if it is at least the third that was opened for that buffer.       *)
ReconnectionKilled ==
  [][\A r \in Requests :
       result[r] = Pending /\ result'[r] # Pending
         /\ stack # <<>> /\ Top.at \in {"kill buffer process", "return"}
         /\ Top.buf # NoBuffer /\ conn'[Top.buf] = "open" =>
         opened'[Top.buf] > 2]_vars

OnStack(r) == \E i \in 1..Len(stack) : stack[i].req = r

(* A retrieval called with a timeout returns, whatever the server does,    *)
(* the user types or sentinels do, unless it is left waiting for one that  *)
(* was nested in it and has no timeout itself.                             *)
TimedReturn ==
  \A r \in Timed : OnStack(r) ~> ~OnStack(r) \/ Top.req \notin Timed

(* A user who keeps typing gets Emacs back. *)
TypingReturns == input ~> stack = <<>>

(* With servers that do not send data forever every retrieval returns.     *)
EveryReturn == \A r \in Requests : OnStack(r) ~> ~OnStack(r)
=============================================================================
