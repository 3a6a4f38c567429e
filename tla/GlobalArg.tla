----------------------------- MODULE GlobalArg -----------------------------
(***************************************************************************)
(* The second prefix argument of src/config/my-global-argument.el: H-u,    *)
(* digits and a minus make up an argument beside that of C-u, for the      *)
(* command that follows.  Every key runs a command; command-execute, which *)
(* the file redefines, hands both arguments to it and forgets them, and    *)
(* the commands of the prefix keys store them again.                       *)
(*                                                                         *)
(* C-u, set-transient-map and handle-switch-frame are Emacs's own and are  *)
(* modelled as the file uses them; simple.el builds the argument of C-u by *)
(* the same rules.  The echo area is left out, and a command read in the   *)
(* minibuffer is a command like any other.                                 *)
(***************************************************************************)
EXTENDS Integers, Sequences, FiniteSets

CONSTANTS
  Digits,      (* the digits that are typed                                *)
  Prefix,      (* the key that begins the argument: H-u, or C-u            *)
  Dash,        (* the minus sign                                           *)
  MaxKeys      (* bound: keys typed for one argument                       *)

ASSUME ConstantsOK ==
  /\ Digits \subseteq 0..9 /\ MaxKeys \in Nat
  /\ Prefix # Dash /\ Prefix \notin Digits /\ Dash \notin Digits

(* Arguments: none, a lone minus, (4) and its multiples, numbers. *)
None == <<"none", 0>>
Minus == <<"minus", 0>>
List(n) == <<"list", n>>
Number(n) == <<"number", n>>

IsList(a) == a[1] = "list"
IsNumber(a) == a[1] = "number"

Keys == {Prefix, Dash} \cup Digits

VARIABLES
  arg,         (* global-prefix-arg, for the next command                  *)
  current,     (* current-global-prefix-arg                                *)
  uarg,        (* prefix-arg                                               *)
  ucurrent,    (* current-prefix-arg                                       *)
  map,         (* the transient map in force: none, global or universal    *)
  typed,       (* history: the keys typed for arg                          *)
  utyped,      (* history: the keys typed for uarg                         *)
  dropped      (* history: keys of this argument came to nothing           *)

vars == <<arg, current, uarg, ucurrent, map, typed, utyped, dropped>>

Init ==
  /\ arg = None /\ current = None /\ uarg = None /\ ucurrent = None
  /\ map = "none"
  /\ typed = <<>> /\ utyped = <<>> /\ dropped = FALSE

----------------------------------------------------------------------------
(* The next argument, from the last one. *)

(* H-u again: four times as much, unless the argument is a number. *)
Again(a) ==
  IF IsList(a) THEN List(4 * a[2])
  ELSE IF a = Minus THEN List(-4) ELSE a

Negated(a) ==
  IF IsNumber(a) THEN Number(-a[2]) ELSE IF a = Minus THEN None ELSE Minus

(* Mutant: a digit is added to a negative number. *)
WithDigitAdded(a, d) ==
  IF IsNumber(a) THEN Number(10 * a[2] + d)
  ELSE IF a = Minus THEN (IF d = 0 THEN Minus ELSE Number(-d))
  ELSE Number(d)

(* -0 counts as -, so that -01 works. *)
WithDigit(a, d) ==
  IF IsNumber(a) THEN Number(10 * a[2] + (IF a[2] < 0 THEN -d ELSE d))
  ELSE IF a = Minus THEN (IF d = 0 THEN Minus ELSE Number(-d))
  ELSE Number(d)

(* A minus after digits is no part of the argument: the filter of the map. *)
TakesMinus(a) == ~IsNumber(a)

(* command-execute sets the arguments of the command it runs. *)
CommandExecute ==
  /\ current' = arg
  /\ ucurrent' = uarg

(* Mutant: only the argument that is being typed is stored again. *)
ForgetState == uarg' = None

(* The commands of H-u store the argument of C-u again. *)
PreserveState == uarg' = uarg

(* The next keys still belong to the argument. *)
GlobalArgumentMode == map' = "global"

(* Mutant: H-u ends every argument. *)
EndAlways(a) == map' = "none"

(* H-u ends an argument that is no list any more. *)
EndUnlessList(a) == map' = IF IsList(a) THEN "global" ELSE "none"

(* A key of the argument: the argument was a, and is b with it. *)
Types(key, b) ==
  /\ CommandExecute /\ PreserveState
  /\ arg' = b
  /\ typed' = Append(typed, key)
  /\ UNCHANGED <<utyped, dropped>>

GlobalArgument ==
  /\ map # "global" /\ MaxKeys > 0
  /\ CommandExecute /\ PreserveState /\ GlobalArgumentMode
  /\ arg' = List(4)
  /\ typed' = <<Prefix>> /\ dropped' = FALSE
  /\ UNCHANGED utyped

GlobalArgumentMore ==
  /\ map = "global" /\ Len(typed) < MaxKeys
  /\ Types(Prefix, Again(arg))
  /\ EndUnlessList(Again(arg))

GlobalNegativeArgument ==
  /\ map = "global" /\ TakesMinus(arg) /\ Len(typed) < MaxKeys
  /\ Types(Dash, Negated(arg))
  /\ GlobalArgumentMode

GlobalDigitArgument ==
  \E d \in Digits :
    /\ map = "global" /\ Len(typed) < MaxKeys
    /\ Types(d, WithDigit(arg, d))
    /\ GlobalArgumentMode

(* A frame is selected while an argument is typed, or after.  Emacs stores *)
(* the argument of C-u again.                                              *)
SwitchFrame ==
  /\ CommandExecute
  /\ arg' = None /\ uarg' = uarg
  /\ typed' = <<>> /\ dropped' = (dropped \/ typed # <<>>)
  /\ UNCHANGED <<map, utyped>>

(* C-u stores its own argument again, and not that of H-u. *)
Universal(key, keys, b, m) ==
  /\ Len(keys) < MaxKeys
  /\ CommandExecute
  /\ arg' = None /\ uarg' = b
  /\ map' = m
  /\ utyped' = Append(keys, key)
  /\ typed' = <<>> /\ dropped' = (dropped \/ typed # <<>>)

UniversalArgument ==
  \/ map # "universal" /\ Universal(Prefix, <<>>, List(4), "universal")
  \/ /\ map = "universal"
     /\ LET b == Again(uarg) IN
        Universal(Prefix, utyped, b, IF IsList(b) THEN "universal" ELSE "none")
  \/ /\ map = "universal" /\ TakesMinus(uarg)
     /\ Universal(Dash, utyped, Negated(uarg), "universal")
  \/ \E d \in Digits :
       /\ map = "universal"
       /\ Universal(d, utyped, WithDigit(uarg, d), "universal")

(* Any other command. *)
Command ==
  /\ CommandExecute
  /\ arg' = None /\ uarg' = None
  /\ map' = "none"
  /\ typed' = <<>> /\ utyped' = <<>> /\ dropped' = FALSE

Next ==
  \/ GlobalArgument \/ GlobalArgumentMore
  \/ GlobalNegativeArgument \/ GlobalDigitArgument
  \/ SwitchFrame \/ UniversalArgument \/ Command

Spec == Init /\ [][Next]_vars

----------------------------------------------------------------------------
(***************************************************************************)
(* What a sequence of keys means by the docstring of global-argument:      *)
(* signs and digits that follow H-u make up the argument, and H-u after    *)
(* them ends it; H-u alone is 4, and each one more multiplies it by 4.     *)
(***************************************************************************)

Decimal(keys) ==
  LET value[i \in 0..Len(keys)] ==
        IF i = 0 THEN 0
        ELSE IF keys[i] \in Digits THEN 10 * value[i - 1] + keys[i]
        ELSE value[i - 1]
  IN value[Len(keys)]

(* The last key that is no prefix key is a minus. *)
EndsInDash(keys) ==
  \E i \in DOMAIN keys : keys[i] = Dash /\ \A j \in DOMAIN keys : j > i => keys[j] = Prefix

(* Signs and digits: every minus changes the sign, and zeros do not count  *)
(* after one.  The docstrings leave this open; it is what the comment "so  *)
(* that -01 will work" and the unary minus of the code intend.             *)
Figures(keys) ==
  LET v == Decimal(keys)
      negative == Cardinality({i \in DOMAIN keys : keys[i] = Dash}) % 2 = 1
  IN IF v # 0 THEN Number(IF negative THEN -v ELSE v)
     ELSE IF negative THEN Minus
     ELSE IF EndsInDash(keys) THEN None ELSE Number(0)

(* Four times as much for each of k prefix keys. *)
Fourfold(k) ==
  LET power[i \in 0..k] == IF i = 0 THEN 1 ELSE 4 * power[i - 1] IN power[k]

OnlyPrefix(keys) == \A i \in DOMAIN keys : keys[i] = Prefix

Meaning(keys) ==
  IF keys = <<>> THEN None
  ELSE IF OnlyPrefix(keys) THEN List(Fourfold(Len(keys)))
  ELSE Figures(keys)

(* H-u was typed where the argument was a lone minus.  By the docstrings   *)
(* (lines 161 and 198) and the comment in global-argument-more that ends   *)
(* the argument, as it stands; the code makes it (-4) and goes on.         *)
PrefixAfterMinus(keys) ==
  \E n \in 1..(Len(keys) - 1) : keys[n + 1] = Prefix /\ Meaning(SubSeq(keys, 1, n)) = Minus

----------------------------------------------------------------------------
ArgOK(a) ==
  /\ a[1] \in {"none", "minus", "list", "number"} /\ a[2] \in Int
  /\ a = <<a[1], a[2]>>
  /\ a[1] \in {"none", "minus"} => a[2] = 0

(* An argument that is not finished keeps its map: the keys that finish it *)
(* are not taken for ordinary ones.                                        *)
TypeOK ==
  /\ ArgOK(arg) /\ ArgOK(current) /\ ArgOK(uarg) /\ ArgOK(ucurrent)
  /\ map \in {"none", "global", "universal"}
  /\ map # "global" => arg = None \/ IsNumber(arg)
  /\ map = "universal" => arg = None
  /\ typed \in Seq(Keys) /\ utyped \in Seq(Keys) /\ dropped \in BOOLEAN

(* The command that follows gets the argument its keys denote by the      *)
(* docstring, and the one after it none: whatever keys, arguments and      *)
(* commands came before, and unless C-u or another frame came in between,  *)
(* or H-u was typed behind a lone minus, where code and docstring differ.  *)
GlobalDelivered ==
  [][Command /\ ~dropped /\ ~PrefixAfterMinus(typed) => current' = Meaning(typed)]_vars

(* The argument of C-u is not disturbed by that of H-u: it reaches its     *)
(* command however many keys of H-u are typed in between.  Emacs's own     *)
(* universal-argument-more treats a lone minus as that of H-u does.        *)
UniversalDelivered ==
  [][Command /\ ~PrefixAfterMinus(utyped) => ucurrent' = Meaning(utyped)]_vars
=============================================================================
