-------------------------- MODULE TicketLifecycle --------------------------
(***************************************************************************)
(* A ticket's life in the RAPT API: it is created, the agent graph runs    *)
(* over it in a background task, a reviewer approves or edits the draft,   *)
(* or asks for a rerun; the API may stop at any moment and, when it starts *)
(* again, resumes the runs it finds unfinished.                            *)
(*                                                                         *)
(* A step is what one session does between two awaits on the database: a   *)
(* SELECT, or the UPDATEs and INSERTs of one COMMIT. Everything else may   *)
(* happen between two steps. The ORM keeps, per session, the values it     *)
(* loaded and writes only the columns whose value differs from them        *)
(* (Flush); sessions keep these values across commits                      *)
(* (expire_on_commit=False).                                               *)
(***************************************************************************)
EXTENDS Naturals, Sequences, FiniteSets

CONSTANTS
  NumTickets,   (* tickets are 1..NumTickets, in the order of created_at   *)
  HasOrder,     (* the tickets created with a linked order                 *)
  Run,          (* slots for agent runs: how many may be alive at once     *)
  Reviewer,     (* signed-in users, each with one page and one request     *)
  Nobody,       (* the null of reviewer_id and of edited_text              *)
  MaxReruns,    (* bound on the rerun requests that are accepted           *)
  MaxCrashes    (* bound on the times the API process stops                *)

Ticket == 1 .. NumTickets

ASSUME NumTicketsAssumption == NumTickets \in Nat
ASSUME HasOrderAssumption == HasOrder \subseteq Ticket
ASSUME NobodyAssumption == Nobody \notin Reviewer
ASSUME BoundsAssumption == MaxReruns \in Nat /\ MaxCrashes \in Nat

VARIABLES
  ticket,   (* table tickets, the columns that change after the insert     *)
  drafts,   (* table draft_responses: each ticket's rows by created_at     *)
  run,      (* the agent runs in the API process, with what they cached    *)
  desk,     (* each reviewer's open page and request in flight             *)
  api,      (* the API process: "starting" until the resume task has read  *)
            (* its list of unfinished runs, then "up"; "down" if stopped   *)
  queue,    (* the tickets the resume task still has to run                *)
  reruns, crashes

vars == <<ticket, drafts, run, desk, api, queue, reruns, crashes>>

-----------------------------------------------------------------------------
(* The rows *)

Status == {"absent", "new", "in_progress", "awaiting_review", "resolved"}

(* triage stands for the columns category and urgency, set together.       *)
Row == [status : Status,
        triage : {"null", "set"},
        flag   : {"null", "no", "yes"},             \* needs_escalation
        reason : {"null", "rules", "failure"}]      \* escalation_reason

Absent == [status |-> "absent", triage |-> "null", flag |-> "null", reason |-> "null"]

(* approved is never set to false by the code: it is null until approval.  *)
DraftRow == [approved : BOOLEAN, by : Reviewer \cup {Nobody}, text : Reviewer \cup {Nobody}]

Pending == [approved |-> FALSE, by |-> Nobody, text |-> Nobody]

(* What a COMMIT leaves in a column: the session's value if it differs     *)
(* from the value the session loaded, otherwise what the row holds by now. *)
Column(stored, loaded, value) == IF value = loaded THEN stored ELSE value

Flush(stored, loaded, value) ==
  [status |-> Column(stored.status, loaded.status, value.status),
   triage |-> Column(stored.triage, loaded.triage, value.triage),
   flag   |-> Column(stored.flag, loaded.flag, value.flag),
   reason |-> Column(stored.reason, loaded.reason, value.reason)]

FlushDraft(stored, loaded, value) ==
  [approved |-> Column(stored.approved, loaded.approved, value.approved),
   by       |-> Column(stored.by, loaded.by, value.by),
   text     |-> Column(stored.text, loaded.text, value.text)]

-----------------------------------------------------------------------------
(* Processes *)

Node == {"triage", "knowledge", "order_lookup", "draft", "escalation"}

(* scheduled: the task has not begun; started: the ticket is loaded;       *)
(* finish: the graph has ended; failed: a node raised; reloaded: the       *)
(* exception handler has read the ticket again.                            *)
RunPC == {"idle", "scheduled", "started", "finish", "failed", "reloaded"} \cup Node

RunState == [pc     : RunPC,
             ticket : 0 .. NumTickets,
             cached : Row,
             origin : {"request", "resume"}]

Idle == [pc |-> "idle", ticket |-> 0, cached |-> Absent, origin |-> "request"]

Scheduled(t, origin) == [pc |-> "scheduled", ticket |-> t, cached |-> Absent, origin |-> origin]

Alive(r) == run[r].pc # "idle"

(* viewing: the page shows the ticket, whose newest draft was `seen` (0 if *)
(* none); owes_run: the request committed, its task is not yet scheduled.  *)
DeskPC == {"idle", "viewing", "rerun", "approve", "commit", "owes_run"}

DeskState == [pc     : DeskPC,
              ticket : 0 .. NumTickets,
              seen   : Nat,
              draft  : Nat]

Free == [pc |-> "idle", ticket |-> 0, seen |-> 0, draft |-> 0]

TypeOK ==
  /\ ticket \in [Ticket -> Row]
  /\ drafts \in [Ticket -> Seq(DraftRow)]
  /\ run \in [Run -> RunState]
  /\ desk \in [Reviewer -> DeskState]
  /\ api \in {"down", "starting", "up"}
  /\ queue \in SUBSET Ticket
  /\ reruns \in 0 .. MaxReruns
  /\ crashes \in 0 .. MaxCrashes
  /\ \A r \in Run : Alive(r) => run[r].ticket \in Ticket
  /\ \A h \in Reviewer : desk[h].pc # "idle" => desk[h].ticket \in Ticket

Init ==
  /\ ticket = [t \in Ticket |-> Absent]
  /\ drafts = [t \in Ticket |-> <<>>]
  /\ run = [r \in Run |-> Idle]
  /\ desk = [h \in Reviewer |-> Free]
  /\ api = "starting"
  /\ queue = {}
  /\ reruns = 0
  /\ crashes = 0

-----------------------------------------------------------------------------
(* An agent run: run_agent_graph and the nodes *)

(* The session commits the values `row` and goes on holding them.          *)
Commit(r, row, next) ==
  LET t == run[r].ticket
  IN  /\ ticket' = [ticket EXCEPT ![t] = Flush(ticket[t], run[r].cached, row)]
      /\ run' = [run EXCEPT ![r].cached = row, ![r].pc = next]

(* The last commit of a run: its session and its task end.                 *)
CommitAndEnd(r, row) ==
  LET t == run[r].ticket
  IN  /\ ticket' = [ticket EXCEPT ![t] = Flush(ticket[t], run[r].cached, row)]
      /\ run' = [run EXCEPT ![r] = Idle]

Advance(r, next) ==
  /\ run' = [run EXCEPT ![r].pc = next]
  /\ UNCHANGED ticket

Begin(r) ==
  /\ run[r].pc = "scheduled"
  /\ run' = [run EXCEPT ![r].pc = "started", ![r].cached = ticket[run[r].ticket]]
  /\ UNCHANGED <<ticket, drafts>>

MarkInProgress(r) ==
  /\ run[r].pc = "started"
  /\ Commit(r, [run[r].cached EXCEPT !.status = "in_progress"], "triage")
  /\ UNCHANGED drafts

Triage(r) ==
  /\ run[r].pc = "triage"
  /\ Commit(r, [run[r].cached EXCEPT !.triage = "set"], "knowledge")
  /\ UNCHANGED drafts

AfterKnowledge(t) == IF t \in HasOrder THEN "order_lookup" ELSE "draft"

Knowledge(r) ==
  /\ run[r].pc = "knowledge"
  /\ Advance(r, AfterKnowledge(run[r].ticket))
  /\ UNCHANGED drafts

OrderLookup(r) ==
  /\ run[r].pc = "order_lookup"
  /\ Advance(r, "draft")
  /\ UNCHANGED drafts

Draft(r) ==
  /\ run[r].pc = "draft"
  /\ drafts' = [drafts EXCEPT ![run[r].ticket] = Append(@, Pending)]
  /\ Advance(r, "escalation")

(* The rules fire or they do not; a reason is stored exactly when they do. *)
Decision == {[flag |-> "yes", reason |-> "rules"], [flag |-> "no", reason |-> "null"]}

MutantEscalation(r) ==
  /\ run[r].pc = "escalation"
  /\ \E d \in Decision :
       Commit(r, [run[r].cached EXCEPT
                    !.flag = d.flag,
                    !.reason = IF d.flag = "yes" THEN d.reason ELSE @], "finish")
  /\ UNCHANGED drafts

Escalation(r) ==
  /\ run[r].pc = "escalation"
  /\ \E d \in Decision :
       Commit(r, [run[r].cached EXCEPT !.flag = d.flag, !.reason = d.reason], "finish")
  /\ UNCHANGED drafts

Finish(r) ==
  /\ run[r].pc = "finish"
  /\ CommitAndEnd(r, [run[r].cached EXCEPT !.status = "awaiting_review"])
  /\ UNCHANGED drafts

(* A node raises: the rollback discards what it had not committed and      *)
(* expires what the session had loaded.                                    *)
NodeFails(r) ==
  /\ run[r].pc \in Node
  /\ run' = [run EXCEPT ![r].pc = "failed", ![r].cached = Absent]
  /\ UNCHANGED <<ticket, drafts>>

Reload(r) ==
  /\ run[r].pc = "failed"
  /\ run' = [run EXCEPT ![r].pc = "reloaded", ![r].cached = ticket[run[r].ticket]]
  /\ UNCHANGED <<ticket, drafts>>

MutantSilentFailure(r) ==
  /\ run[r].pc = "reloaded"
  /\ CommitAndEnd(r, [run[r].cached EXCEPT !.status = "awaiting_review"])
  /\ UNCHANGED drafts

MutantFailureStalls(r) ==
  /\ run[r].pc = "reloaded"
  /\ CommitAndEnd(r, [run[r].cached EXCEPT !.flag = "yes", !.reason = "failure"])
  /\ UNCHANGED drafts

EndFailed(r) ==
  /\ run[r].pc = "reloaded"
  /\ CommitAndEnd(r, [run[r].cached EXCEPT
                        !.status = "awaiting_review", !.flag = "yes", !.reason = "failure"])
  /\ UNCHANGED drafts

RunStep(r) ==
  /\ \/ Begin(r) \/ MarkInProgress(r)
     \/ Triage(r) \/ Knowledge(r) \/ OrderLookup(r) \/ Draft(r) \/ Escalation(r)
     \/ Finish(r)
     \/ NodeFails(r) \/ Reload(r) \/ EndFailed(r)
  /\ UNCHANGED <<desk, api, queue, reruns, crashes>>

-----------------------------------------------------------------------------
(* Requests: tickets, rerun, approve and edit *)

Goto(h, next) == desk' = [desk EXCEPT ![h].pc = next]

Leave(h) == desk' = [desk EXCEPT ![h] = Free]

(* POST /tickets: the insert, status `new` by default.                     *)
CreateTicket(h) ==
  /\ desk[h].pc = "idle"
  /\ \E t \in Ticket :
       /\ ticket[t].status = "absent"
       /\ \A u \in 1 .. t - 1 : ticket[u].status # "absent"
       /\ ticket' = [ticket EXCEPT ![t].status = "new"]
       /\ desk' = [desk EXCEPT ![h].pc = "owes_run", ![h].ticket = t]
  /\ UNCHANGED <<drafts, run, reruns>>

(* The response is out: the background task of a create or a rerun.        *)
ScheduleRun(h) ==
  /\ desk[h].pc = "owes_run"
  /\ \E r \in Run :
       /\ ~Alive(r)
       /\ run' = [run EXCEPT ![r] = Scheduled(desk[h].ticket, "request")]
  /\ Leave(h)
  /\ UNCHANGED <<ticket, drafts, reruns>>

(* GET /tickets/{id}: the page for reviewing the newest draft, if there is *)
(* one.                                                                    *)
OpenTicket(h) ==
  /\ desk[h].pc = "idle"
  /\ \E t \in Ticket :
       /\ ticket[t].status = "awaiting_review"
       /\ desk' = [desk EXCEPT ![h].pc = "viewing", ![h].ticket = t,
                               ![h].seen = Len(drafts[t])]
  /\ UNCHANGED <<ticket, drafts, run, reruns>>

(* prepare_rerun: the read and its 409, then the commit. The status read   *)
(* is not in_progress, so the commit writes the column.                    *)
ReadForRerun(h) ==
  /\ desk[h].pc \in {"idle", "viewing"}
  /\ reruns < MaxReruns
  /\ \E t \in Ticket :
       /\ desk[h].pc = "viewing" => t = desk[h].ticket
       /\ ticket[t].status # "absent"
       /\ IF ticket[t].status = "in_progress"
            THEN Leave(h)
            ELSE desk' = [desk EXCEPT ![h] = [Free EXCEPT !.pc = "rerun", !.ticket = t]]
  /\ UNCHANGED <<ticket, drafts, run, reruns>>

MutantCommitRerun(h) ==
  /\ desk[h].pc = "rerun"
  /\ reruns < MaxReruns
  /\ reruns' = reruns + 1
  /\ Goto(h, "owes_run")
  /\ UNCHANGED <<ticket, drafts, run>>

CommitRerun(h) ==
  /\ desk[h].pc = "rerun"
  /\ reruns < MaxReruns
  /\ ticket' = [ticket EXCEPT ![desk[h].ticket].status = "in_progress"]
  /\ reruns' = reruns + 1
  /\ Goto(h, "owes_run")
  /\ UNCHANGED <<drafts, run>>

(* approve and edit: _pending_draft reads the ticket, then the newest      *)
(* draft; a 409 at either read ends the request.                           *)
ReadForApprove(h) ==
  /\ desk[h].pc = "viewing"
  /\ IF ticket[desk[h].ticket].status = "awaiting_review"
       THEN Goto(h, "approve")
       ELSE Leave(h)
  /\ UNCHANGED <<ticket, drafts, run, reruns>>

MutantNewest(t) == IF drafts[t] = <<>> THEN 0 ELSE 1

Newest(t) == Len(drafts[t])

ReadDraft(h) ==
  LET t == desk[h].ticket
      i == Newest(t)
  IN  /\ desk[h].pc = "approve"
      /\ IF i = 0
           THEN Leave(h)
           ELSE IF drafts[t][i].approved
                  THEN Leave(h)
                  ELSE desk' = [desk EXCEPT ![h].pc = "commit", ![h].draft = i]
      /\ UNCHANGED <<ticket, drafts, run, reruns>>

MutantResolveOnly(h) ==
  LET t == desk[h].ticket
  IN  /\ desk[h].pc = "commit"
      /\ ticket' = [ticket EXCEPT ![t].status = "resolved"]
      /\ Leave(h)
      /\ UNCHANGED <<drafts, run, reruns>>

MutantApproveOnly(h) ==
  LET t == desk[h].ticket
      approval == [approved |-> TRUE, by |-> h, text |-> Nobody]
  IN  /\ desk[h].pc = "commit"
      /\ drafts' = [drafts EXCEPT ![t][desk[h].draft] = FlushDraft(@, Pending, approval)]
      /\ Leave(h)
      /\ UNCHANGED <<ticket, run, reruns>>

(* The draft was loaded pending, the ticket awaiting review. `text` is the *)
(* reviewer's edit, or null for an approval of the draft as written.       *)
CommitApprove(h) ==
  LET t == desk[h].ticket
  IN  /\ desk[h].pc = "commit"
      /\ \E text \in {h, Nobody} :
           drafts' = [drafts EXCEPT ![t][desk[h].draft] =
                        FlushDraft(@, Pending, [approved |-> TRUE, by |-> h, text |-> text])]
      /\ ticket' = [ticket EXCEPT ![t].status = "resolved"]
      /\ Leave(h)
      /\ UNCHANGED <<run, reruns>>

(* What the server still has to do for a request it has accepted.          *)
RequestStep(h) ==
  /\ api # "down"
  /\ ScheduleRun(h) \/ CommitRerun(h) \/ ReadDraft(h) \/ CommitApprove(h)
  /\ UNCHANGED <<api, queue, crashes>>

(* What a reviewer may start.                                              *)
ReviewerStep(h) ==
  /\ api # "down"
  /\ CreateTicket(h) \/ OpenTicket(h) \/ ReadForRerun(h) \/ ReadForApprove(h)
  /\ UNCHANGED <<api, queue, crashes>>

-----------------------------------------------------------------------------
(* Stopping, starting, resuming *)

(* The process ends: its runs and requests are gone, the rows and the      *)
(* pages in the browsers stay.                                             *)
Crash ==
  /\ api # "down"
  /\ crashes < MaxCrashes
  /\ crashes' = crashes + 1
  /\ api' = "down"
  /\ queue' = {}
  /\ run' = [r \in Run |-> Idle]
  /\ desk' = [h \in Reviewer |-> IF desk[h].pc = "viewing" THEN desk[h] ELSE Free]
  /\ UNCHANGED <<ticket, drafts, reruns>>

Start ==
  /\ api = "down"
  /\ api' = "starting"
  /\ UNCHANGED <<ticket, drafts, run, desk, queue, reruns, crashes>>

MutantUnfinished == {"in_progress"}

(* unfinished_agent_runs()                                                 *)
Unfinished == {"new", "in_progress"}

(* The resume task's one SELECT; requests are served already.              *)
ResumeSelect ==
  /\ api = "starting"
  /\ api' = "up"
  /\ queue' = {t \in Ticket : ticket[t].status \in Unfinished}
  /\ UNCHANGED <<ticket, drafts, run, desk, reruns, crashes>>

(* One ticket at a time, oldest first, whatever became of it since.        *)
ResumeNext ==
  /\ \A r \in Run : Alive(r) => run[r].origin # "resume"
  /\ \E r \in Run, t \in queue :
       /\ ~Alive(r)
       /\ \A u \in queue : t <= u
       /\ run' = [run EXCEPT ![r] = Scheduled(t, "resume")]
       /\ queue' = queue \ {t}
  /\ UNCHANGED <<ticket, drafts, desk, api, reruns, crashes>>

-----------------------------------------------------------------------------
Next ==
  \/ \E r \in Run : RunStep(r)
  \/ \E h \in Reviewer : RequestStep(h) \/ ReviewerStep(h)
  \/ Crash \/ Start
  \/ ResumeSelect \/ ResumeNext

Spec == Init /\ [][Next]_vars

(* The event loop runs what it has started, and the container is           *)
(* restarted (restart: unless-stopped); nothing is asked of reviewers.     *)
Fairness ==
  /\ \A r \in Run : WF_vars(RunStep(r))
  /\ \A h \in Reviewer : WF_vars(RequestStep(h))
  /\ WF_vars(Start) /\ WF_vars(ResumeSelect) /\ WF_vars(ResumeNext)

FairSpec == Spec /\ Fairness

-----------------------------------------------------------------------------
(* Properties *)

(* Who is going to run ticket t: a run, a request that owes one, or the    *)
(* resume task.                                                            *)
Running(t) == \E r \in Run : Alive(r) /\ run[r].ticket = t

RunOwed(t) == \E h \in Reviewer : desk[h].pc = "owes_run" /\ desk[h].ticket = t

(* A ticket that is new or in progress is never forgotten: some process is *)
(* going to move it on, or the next start will find it ("instead of        *)
(* silently stalling in_progress").                                        *)
NoOrphan ==
  \A t \in Ticket :
    ticket[t].status \in {"new", "in_progress"} =>
      Running(t) \/ RunOwed(t) \/ t \in queue \/ api # "up"

(* A resolved ticket has an approved draft: no interleaving of approvals,  *)
(* reruns and crashes resolves a ticket whose answer nobody approved.      *)
ResolvedIsApproved ==
  \A t \in Ticket :
    ticket[t].status = "resolved" => \E i \in 1 .. Len(drafts[t]) : drafts[t][i].approved

(* No ticket comes to the review queue without a flag (the queue would sort *)
(* it last): the escalation rules have decided on it, or its run failed    *)
(* before them. One that no run has drafted an answer for shows that a run *)
(* failed, and never what a rule decided.                                  *)
QueueFlagged ==
  \A t \in Ticket :
    ticket[t].status \in {"awaiting_review", "resolved"} =>
      /\ ticket[t].flag # "null"
      /\ drafts[t] = <<>> => ticket[t].flag = "yes" /\ ticket[t].reason = "failure"

(* Every ticket comes to a reviewer, whatever fails and whatever restarts. *)
ReachesReview ==
  \A t \in Ticket :
    ticket[t].status \in {"new", "in_progress"}
      ~> ticket[t].status \in {"awaiting_review", "resolved"}

=============================================================================
