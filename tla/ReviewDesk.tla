----------------------------- MODULE ReviewDesk -----------------------------
(***************************************************************************)
(* TicketLifecycle used the way the web application uses it when its       *)
(* requests do not overlap: one reviewer at a time has a page open or a    *)
(* request in flight, a rerun is asked for from the page of a ticket       *)
(* awaiting review (TicketDetail.tsx shows the button there only), and the *)
(* API gets no request before its resume task has read its list. The       *)
(* server is TicketLifecycle's, every action of it; only the clients are   *)
(* restricted. What holds here and fails in TicketLifecycle is what the    *)
(* code leaves to its clients.                                             *)
(***************************************************************************)
EXTENDS TicketLifecycle

Alone(h) == \A g \in Reviewer \ {h} : desk[g].pc = "idle"

DeskStep(h) ==
  /\ api = "up"
  /\ Alone(h)
  /\ CreateTicket(h) \/ OpenTicket(h) \/ ReadForApprove(h)
     \/ (desk[h].pc = "viewing" /\ ReadForRerun(h))
  /\ UNCHANGED <<api, queue, crashes>>

DeskRequestStep(h) ==
  /\ api = "up"
  /\ RequestStep(h)

DeskNext ==
  \/ \E r \in Run : RunStep(r)
  \/ \E h \in Reviewer : DeskStep(h) \/ DeskRequestStep(h)
  \/ Crash \/ Start
  \/ ResumeSelect \/ ResumeNext

DeskSpec == Init /\ [][DeskNext]_vars

DeskFairness ==
  /\ \A r \in Run : WF_vars(RunStep(r))
  /\ \A h \in Reviewer : WF_vars(DeskRequestStep(h))
  /\ WF_vars(Start) /\ WF_vars(ResumeSelect) /\ WF_vars(ResumeNext)

FairDeskSpec == DeskSpec /\ DeskFairness

-----------------------------------------------------------------------------
(* A ticket has at most one run, counting the one a request or the resume  *)
(* task still owes it: what prepare_rerun's status check and "any such     *)
(* ticket is orphaned by definition" are for.                              *)
OneRunPerTicket ==
  \A t \in Ticket :
    /\ \A r, s \in Run :
         Alive(r) /\ Alive(s) /\ run[r].ticket = t /\ run[s].ticket = t => r = s
    /\ \A g, h \in Reviewer :
         /\ desk[g].pc = "owes_run" /\ desk[g].ticket = t
         /\ desk[h].pc = "owes_run" /\ desk[h].ticket = t
         => g = h
    /\ ~(Running(t) /\ RunOwed(t))
    /\ ~(t \in queue /\ (Running(t) \/ RunOwed(t)))

(* A ticket has an escalation reason exactly when it is flagged, whatever  *)
(* runs, failed runs and reruns it went through: the panel shows the       *)
(* reason of a flag, and the column-wise writes of a session must not mix  *)
(* the outcomes of two runs.                                               *)
ReasonMatchesFlag ==
  \A t \in Ticket : (ticket[t].reason # "null") <=> (ticket[t].flag = "yes")

(* The draft a reviewer approves is the one the page showed: the request   *)
(* names the ticket, not the draft, so nothing may add a draft between.    *)
ApprovesWhatWasSeen ==
  \A h \in Reviewer : desk[h].pc = "commit" => desk[h].draft = desk[h].seen

(* At most one approved draft per ticket, what services/metrics.py counts  *)
(* on: "the draft a reviewer approved, one per resolved ticket".           *)
OneApproval ==
  \A t \in Ticket : \A i, j \in 1 .. Len(drafts[t]) :
    drafts[t][i].approved /\ drafts[t][j].approved => i = j

(* An edited answer is signed by the reviewer who wrote it.                *)
EditIsSigned ==
  \A t \in Ticket : \A i \in 1 .. Len(drafts[t]) :
    drafts[t][i].text \in {Nobody, drafts[t][i].by}

(* A reviewer's rerun or approval never meets a run in progress.           *)
DeskSeesNoRun ==
  \A h \in Reviewer :
    desk[h].pc \in {"viewing", "rerun", "approve", "commit"} => ~Running(desk[h].ticket)

(* Two run slots never hold one ticket, nor does a page a running one.     *)
RunsAreSingle == OneRunPerTicket /\ DeskSeesNoRun

(* What is sent to the customer is one answer, by whoever signed it.       *)
OneSignedAnswer == OneApproval /\ EditIsSigned

-----------------------------------------------------------------------------
(* The refinement: a ticket's stage and the reviewer who signed its answer.*)

Stage(t) ==
  CASE ticket[t].status \in {"new", "in_progress"} -> "working"
    [] ticket[t].status = "awaiting_review"        -> "waiting"
    [] OTHER                                       -> ticket[t].status

Answerer(t) ==
  IF \E i \in 1 .. Len(drafts[t]) : drafts[t][i].approved
    THEN drafts[t][CHOOSE i \in 1 .. Len(drafts[t]) : drafts[t][i].approved].by
    ELSE Nobody

Board == INSTANCE ReviewBoard WITH
           stage    <- [t \in Ticket |-> Stage(t)],
           answerer <- [t \in Ticket |-> Answerer(t)]

(* Used by its own clients, the server takes no step ReviewBoard does not: *)
(* crashes, failed nodes, resumed runs and half-done requests are stutters.*)
BoardInOrder == Board!SafeSpec

(* It keeps the whole promise of ReviewBoard: all work is delivered.       *)
BoardKept == BoardInOrder /\ Board!Fairness

=============================================================================
