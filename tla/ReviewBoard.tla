---------------------------- MODULE ReviewBoard ----------------------------
(***************************************************************************)
(* What the review process promises, without runs, sessions or restarts: a *)
(* ticket is worked on, waits for review, may be sent back for more work,  *)
(* and is resolved once, for good, by the one reviewer who answers for it. *)
(***************************************************************************)
CONSTANTS Ticket, Reviewer, Nobody

VARIABLES
  stage,    (* where each ticket is                                        *)
  answerer  (* who approved the answer that was sent, Nobody before        *)

board == <<stage, answerer>>

Init ==
  /\ stage = [t \in Ticket |-> "absent"]
  /\ answerer = [t \in Ticket |-> Nobody]

Move(t, from, to) ==
  /\ stage[t] = from
  /\ stage' = [stage EXCEPT ![t] = to]

Submit(t) == Move(t, "absent", "working") /\ UNCHANGED answerer

Deliver(t) == Move(t, "working", "waiting") /\ UNCHANGED answerer

SendBack(t) == Move(t, "waiting", "working") /\ UNCHANGED answerer

Resolve(t) ==
  /\ Move(t, "waiting", "resolved")
  /\ \E h \in Reviewer : answerer' = [answerer EXCEPT ![t] = h]

Next == \E t \in Ticket : Submit(t) \/ Deliver(t) \/ SendBack(t) \/ Resolve(t)

SafeSpec == Init /\ [][Next]_board

(* Work is always delivered; reviewers review when they like.              *)
Fairness == \A t \in Ticket : WF_board(Deliver(t))

Spec == SafeSpec /\ Fairness
=============================================================================
