---------------------------- MODULE FirstUsable ----------------------------
(***************************************************************************)
(* What a chain of options promises: they are considered in order, the     *)
(* first that will do is taken, and there is none only when each of them   *)
(* has been passed over.                                                   *)
(***************************************************************************)
EXTENDS Naturals

CONSTANT Option   (* natural numbers: the lower is preferred               *)

VARIABLES
  todo,    (* the options not passed over yet                              *)
  taken,   (* the option taken, if any                                     *)
  closed   (* whether the choice is made                                   *)

choice == <<todo, taken, closed>>

Preferred(o) == o \in todo /\ \A p \in todo : o <= p

Init ==
  /\ todo \in SUBSET Option
  /\ taken = {}
  /\ closed = FALSE

PassOver ==
  /\ ~closed
  /\ \E o \in todo : Preferred(o) /\ todo' = todo \ {o}
  /\ UNCHANGED <<taken, closed>>

Take ==
  /\ ~closed
  /\ \E o \in todo : Preferred(o) /\ taken' = {o}
  /\ closed' = TRUE
  /\ UNCHANGED todo

GiveUp ==
  /\ ~closed
  /\ todo = {}
  /\ closed' = TRUE
  /\ UNCHANGED <<todo, taken>>

Next == PassOver \/ Take \/ GiveUp

SafeSpec == Init /\ [][Next]_choice

Fairness == WF_choice(Next)

(* A choice is always made.                                                *)
Spec == SafeSpec /\ Fairness
=============================================================================
