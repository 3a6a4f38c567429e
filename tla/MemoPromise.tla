---------------------------- MODULE MemoPromise ----------------------------
(***************************************************************************)
(* What a memoized function promises its callers, whatever tables, timers, *)
(* files and processes stand behind it: an answer for some arguments is a  *)
(* value the original function once returned for those arguments, or an    *)
(* error.  It does not promise the latest such value, nor that the         *)
(* original function is called only once.                                  *)
(***************************************************************************)
CONSTANTS
  Funcs,     (* the memoized functions                                     *)
  Args,      (* the argument lists                                         *)
  Results,   (* what the original functions return                         *)
  Error      (* the outcome of a call that signals                         *)

VARIABLES
  produced,  (* every <<function, arguments, result>> computed so far      *)
  reply      (* the last outcome given to a caller: {} or one triple       *)

promiseVars == <<produced, reply>>

Init == produced = {} /\ reply = {}

(* The original function returns. *)
Compute ==
  /\ \E t \in Funcs \X Args \X Results : produced' = produced \cup {t}
  /\ UNCHANGED reply

(* A caller gets an answer. *)
Answer ==
  /\ \E t \in produced : reply' = {t}
  /\ UNCHANGED produced

(* A call signals: the original did, or the table could not be saved. *)
Refuse ==
  /\ \E f \in Funcs, k \in Args : reply' = {<<f, k, Error>>}
  /\ UNCHANGED produced

Next == Compute \/ Answer \/ Refuse

Spec == Init /\ [][Next]_promiseVars
=============================================================================
