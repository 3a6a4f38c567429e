------------------------------ MODULE RefStore ------------------------------
(***************************************************************************)
(* What a process that works on the references of a repository may rely    *)
(* on.  A reference has one value, or none.  A request changes the value   *)
(* of its own reference only, and a request that states the old value      *)
(* changes it only from that value, whatever other processes do meanwhile. *)
(* A lookup answers with a value the reference had between question and    *)
(* answer.  A rename is a deletion followed by a creation: it is not       *)
(* atomic, and what it creates is a value that the old name had while the  *)
(* rename ran.                                                             *)
(***************************************************************************)
CONSTANTS
  Procs,     (* the processes                                              *)
  Refs,      (* the names of references                                    *)
  Ids,       (* the objects references point to                            *)
  None,      (* no value                                                   *)
  AnyId      (* no old value was stated                                    *)

Values == Ids \cup {None}

Lookups == [kind : {"lookup"}, ref : Refs]
Writes == [kind : {"write"}, ref : Refs, old : Ids \cup {AnyId}, new : Ids, force : BOOLEAN]
Deletes == [kind : {"delete"}, ref : Refs, old : Ids \cup {AnyId}]
Renames == {q \in [kind : {"rename"}, ref : Refs, to : Refs, force : BOOLEAN] : q.to # q.ref}
Compressions == [kind : {"compress"}]

Requests == Lookups \cup Writes \cup Deletes \cup Renames \cup Compressions

Nothing == [kind |-> "nothing"]
NoAnswer == <<>>

(* Those whose outcome depends on the values they come across. *)
Watches(q, r) == q.kind \in {"lookup", "rename"} /\ q.ref = r

Deleting(q) == q.kind \in {"delete", "rename"}

VARIABLES
  value,     (* the value of every reference                               *)
  request,   (* what each process asked for                                *)
  seen,      (* the values its reference had since it asked                *)
  answer     (* what a lookup answered                                     *)

vars == <<value, request, seen, answer>>

Init ==
  /\ value \in [Refs -> Values]
  /\ request = [p \in Procs |-> Nothing]
  /\ seen = [p \in Procs |-> {}]
  /\ answer = [p \in Procs |-> NoAnswer]

Ask(p) ==
  /\ request[p] = Nothing
  /\ \E q \in Requests :
       /\ request' = [request EXCEPT ![p] = q]
       /\ seen' = [seen EXCEPT ![p] = {value[r] : r \in {s \in Refs : Watches(q, s)}}]
  /\ UNCHANGED <<value, answer>>

(* All those who watch r see v. *)
Show(r, v) ==
  seen' = [p \in Procs |-> IF Watches(request[p], r) THEN seen[p] \cup {v} ELSE seen[p]]

Change(r, v) ==
  /\ value' = [value EXCEPT ![r] = v]
  /\ Show(r, v)
  /\ UNCHANGED <<request, answer>>

Write(p) ==
  LET q == request[p] IN
  /\ q.kind = "write"
  /\ q.old \in {AnyId, value[q.ref]}
  /\ Change(q.ref, q.new)

Remove(p) ==
  LET q == request[p] IN
  /\ Deleting(q)
  /\ q.kind = "delete" => q.old \in {AnyId, value[q.ref]}
  /\ Change(q.ref, None)

Move(p) ==
  LET q == request[p] IN
  /\ q.kind = "rename"
  /\ \E v \in seen[p] \cap Ids : Change(q.to, v)

(* While its deletion is under way a reference may already be missed. *)
Doubt(p) ==
  /\ Deleting(request[p])
  /\ Show(request[p].ref, None)
  /\ UNCHANGED <<value, request, answer>>

Answer(p) ==
  /\ request[p].kind = "lookup" /\ answer[p] = NoAnswer
  /\ \E v \in seen[p] : answer' = [answer EXCEPT ![p] = v]
  /\ UNCHANGED <<value, request, seen>>

(* The request ends, in success, in an error or with its process. *)
End(p) ==
  /\ request[p] # Nothing
  /\ request' = [request EXCEPT ![p] = Nothing]
  /\ seen' = [seen EXCEPT ![p] = {}]
  /\ answer' = [answer EXCEPT ![p] = NoAnswer]
  /\ UNCHANGED value

Next ==
  \E p \in Procs :
    \/ Ask(p) \/ Write(p) \/ Remove(p) \/ Move(p) \/ Doubt(p) \/ Answer(p) \/ End(p)

Spec == Init /\ [][Next]_vars
=============================================================================
