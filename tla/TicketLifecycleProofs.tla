----------------------- MODULE TicketLifecycleProofs -----------------------
(***************************************************************************)
(* Proofs about TicketLifecycle and, in its second half, about ReviewDesk, *)
(* for every number of tickets, run slots, reviewers, reruns and crashes.  *)
(***************************************************************************)
EXTENDS ReviewDesk, TLAPS

(* What a commit leaves in a row is a row.                                 *)
LEMMA FlushType ==
  ASSUME NEW stored \in Row, NEW loaded \in Row, NEW value \in Row
  PROVE  Flush(stored, loaded, value) \in Row
  BY DEF Flush, Column, Row, Status

LEMMA FlushDraftType ==
  ASSUME NEW stored \in DraftRow, NEW loaded \in DraftRow, NEW value \in DraftRow
  PROVE  FlushDraft(stored, loaded, value) \in DraftRow
  BY DEF FlushDraft, Column, DraftRow

LEMMA ConstantTypes ==
  /\ Absent \in Row
  /\ Pending \in DraftRow
  /\ Idle \in RunState
  /\ Free \in DeskState
  /\ \A t \in Ticket, origin \in {"request", "resume"} : Scheduled(t, origin) \in RunState
  BY NumTicketsAssumption
     DEF Absent, Row, Status, Pending, DraftRow, Idle, RunState, RunPC, Free, DeskState,
         DeskPC, Scheduled, Ticket

(* Replacing an element of a sequence, if it has it, keeps its type.       *)
LEMMA UpdateType ==
  ASSUME NEW S, NEW s \in Seq(S), NEW i, NEW e, i \in 1 .. Len(s) => e \in S
  PROVE  /\ [s EXCEPT ![i] = e] \in Seq(S)
         /\ Len([s EXCEPT ![i] = e]) = Len(s)
<1>1. CASE i \in 1 .. Len(s)
  BY <1>1
<1>2. CASE i \notin 1 .. Len(s)
  <2>1. [s EXCEPT ![i] = e] = s
    BY <1>2
  <2> QED BY <2>1
<1> QED BY <1>1, <1>2

(* Tickets are a run's and a desk's tickets, and none is ticket 0.         *)
LEMMA TicketRange == Ticket \subseteq 0 .. NumTickets
  BY NumTicketsAssumption DEF Ticket

-----------------------------------------------------------------------------
(* Type correctness: one lemma per kind of step. *)

(* A desk that is freed or takes a step of its own keeps its type.         *)
DeskOK == /\ desk \in [Reviewer -> DeskState]
          /\ \A h \in Reviewer : desk[h].pc # "idle" => desk[h].ticket \in Ticket

LEMMA DeskType ==
  ASSUME TypeOK, NEW h \in Reviewer, NEW d \in DeskState,
         d.pc # "idle" => d.ticket \in Ticket,
         desk' = [desk EXCEPT ![h] = d]
  PROVE  DeskOK'
  BY DEF DeskOK, TypeOK

LEMMA LeaveType ==
  ASSUME TypeOK, NEW h \in Reviewer, Leave(h)
  PROVE  DeskOK'
  BY DeskType, ConstantTypes DEF Leave, Free

LEMMA GotoType ==
  ASSUME TypeOK, NEW h \in Reviewer, desk[h].pc # "idle", NEW next \in DeskPC, Goto(h, next)
  PROVE  DeskOK'
<1> DEFINE d == [desk[h] EXCEPT !.pc = next]
<1>1. desk[h] \in DeskState /\ desk[h].ticket \in Ticket
  BY DEF TypeOK
<1>2. d \in DeskState /\ d.ticket = desk[h].ticket
  BY <1>1 DEF DeskState
<1>3. desk' = [desk EXCEPT ![h] = d]
  BY DEF Goto, TypeOK
<1> QED BY <1>1, <1>2, <1>3, DeskType

LEMMA CommitType ==
  ASSUME TypeOK, NEW r \in Run, Alive(r), NEW row \in Row, NEW next \in RunPC \ {"idle"},
         Commit(r, row, next), UNCHANGED <<drafts, desk, api, queue, reruns, crashes>>
  PROVE  TypeOK'
<1>1. run[r].ticket \in Ticket /\ run[r].cached \in Row
  BY DEF TypeOK, RunState
<1>2. ticket' \in [Ticket -> Row]
  BY <1>1, FlushType DEF TypeOK, Commit
<1>3. run' \in [Run -> RunState]
  BY DEF TypeOK, Commit, RunState
<1>4. \A s \in Run : Alive(s)' => run'[s].ticket \in Ticket
  BY <1>1 DEF TypeOK, Commit, RunState, Alive
<1> QED BY <1>2, <1>3, <1>4 DEF TypeOK

LEMMA CommitAndEndType ==
  ASSUME TypeOK, NEW r \in Run, Alive(r), NEW row \in Row,
         CommitAndEnd(r, row), UNCHANGED <<drafts, desk, api, queue, reruns, crashes>>
  PROVE  TypeOK'
<1>1. run[r].ticket \in Ticket /\ run[r].cached \in Row
  BY DEF TypeOK, RunState
<1>2. ticket' \in [Ticket -> Row]
  BY <1>1, FlushType DEF TypeOK, CommitAndEnd
<1>3. run' \in [Run -> RunState]
  BY ConstantTypes DEF TypeOK, CommitAndEnd
<1>4. \A s \in Run : Alive(s)' => run'[s].ticket \in Ticket
  BY <1>1 DEF TypeOK, CommitAndEnd, RunState, Alive, Idle
<1> QED BY <1>2, <1>3, <1>4 DEF TypeOK

(* A run that goes on with other cached values keeps its type.             *)
LEMMA RunType ==
  ASSUME TypeOK, NEW r \in Run, Alive(r), NEW cached \in Row, NEW next \in RunPC,
         run' = [run EXCEPT ![r].pc = next, ![r].cached = cached],
         UNCHANGED <<ticket, drafts, desk, api, queue, reruns, crashes>>
  PROVE  TypeOK'
<1> DEFINE s == [run[r] EXCEPT !.pc = next, !.cached = cached]
<1>1. run[r] \in RunState /\ run[r].ticket \in Ticket
  BY DEF TypeOK
<1>2. s \in RunState /\ s.ticket \in Ticket
  BY <1>1 DEF RunState
<1>3. run' = [run EXCEPT ![r] = s]
  BY DEF TypeOK
<1>4. run' \in [Run -> RunState]
  BY <1>2, <1>3 DEF TypeOK
<1>5. \A u \in Run : Alive(u)' => run'[u].ticket \in Ticket
  BY <1>2, <1>3 DEF TypeOK, Alive
<1> QED BY <1>4, <1>5 DEF TypeOK

(* Writing a status keeps the flag, its reason and the other rows.         *)
LEMMA StatusWrite ==
  ASSUME TypeOK, NEW t \in Ticket, NEW status \in Status,
         ticket' = [ticket EXCEPT ![t].status = status]
  PROVE  /\ ticket' \in [Ticket -> Row]
         /\ ticket'[t].status = status
         /\ \A u \in Ticket : ticket'[u].flag = ticket[u].flag /\ ticket'[u].reason = ticket[u].reason
         /\ \A u \in Ticket \ {t} : ticket'[u] = ticket[u]
<1> DEFINE row == [ticket[t] EXCEPT !.status = status]
<1>1. ticket[t] \in Row
  BY DEF TypeOK
<1>2. row \in Row /\ row.status = status /\ row.flag = ticket[t].flag /\ row.reason = ticket[t].reason
  BY <1>1 DEF Row
<1>3. ticket' = [ticket EXCEPT ![t] = row]
  OBVIOUS
<1>4. ticket \in [Ticket -> Row]
  BY DEF TypeOK
<1> HIDE DEF row
<1>5. ticket'[t] = row /\ \A u \in Ticket \ {t} : ticket'[u] = ticket[u]
  BY <1>3, <1>4
<1> QED BY <1>2, <1>3, <1>4, <1>5

LEMMA RunStepType ==
  ASSUME TypeOK, NEW r \in Run, RunStep(r)
  PROVE  TypeOK'
<1> USE DEF RunStep
<1>1. run[r].cached \in Row
  BY DEF TypeOK, RunState
<1>2. CASE Begin(r)
  <2>1. Alive(r) /\ ticket[run[r].ticket] \in Row /\ "started" \in RunPC
    BY <1>2 DEF Begin, TypeOK, RunPC, Alive
  <2> QED BY <1>2, <2>1, RunType DEF Begin
<1>3. CASE MarkInProgress(r)
  <2>1. [run[r].cached EXCEPT !.status = "in_progress"] \in Row
    BY <1>1 DEF Row, Status
  <2> QED BY <1>3, <2>1, CommitType DEF MarkInProgress, Alive, RunPC, Node
<1>4. CASE Triage(r)
  <2>1. [run[r].cached EXCEPT !.triage = "set"] \in Row
    BY <1>1 DEF Row, Status
  <2> QED BY <1>4, <2>1, CommitType DEF Triage, Alive, RunPC, Node
<1>5. CASE Knowledge(r)
  <2> DEFINE next == AfterKnowledge(run[r].ticket)
  <2>1. next \in RunPC
    BY DEF AfterKnowledge, RunPC, Node
  <2>2. run' = [run EXCEPT ![r].pc = next, ![r].cached = run[r].cached]
    BY <1>5 DEF Knowledge, Advance, TypeOK, RunState
  <2> HIDE DEF next
  <2> QED BY <1>1, <1>5, <2>1, <2>2, RunType DEF Knowledge, Advance, Alive
<1>6. CASE OrderLookup(r)
  <2>1. "draft" \in RunPC
    BY DEF RunPC, Node
  <2>2. run' = [run EXCEPT ![r].pc = "draft", ![r].cached = run[r].cached]
    BY <1>6 DEF OrderLookup, Advance, TypeOK, RunState
  <2> QED BY <1>1, <1>6, <2>1, <2>2, RunType DEF OrderLookup, Advance, Alive
<1>7. CASE Draft(r)
  <2>1. run[r].ticket \in Ticket
    BY <1>7 DEF TypeOK, Draft, Alive
  <2>2. drafts' \in [Ticket -> Seq(DraftRow)]
    BY <1>7, <2>1, ConstantTypes DEF Draft, TypeOK
  <2>3. run' \in [Run -> RunState]
    <3>1. "escalation" \in RunPC
      BY DEF RunPC, Node
    <3>2. [run[r] EXCEPT !.pc = "escalation"] \in RunState
      BY <3>1 DEF TypeOK, RunState
    <3> QED BY <1>7, <3>2 DEF Draft, Advance, TypeOK
  <2>4. \A s \in Run : Alive(s)' => run'[s].ticket \in Ticket
    BY <1>7, <2>1 DEF Draft, Advance, TypeOK, RunState, Alive
  <2> QED BY <1>7, <2>2, <2>3, <2>4 DEF TypeOK, Draft, Advance
<1>8. CASE Escalation(r)
  <2>1. PICK d \in Decision :
          Commit(r, [run[r].cached EXCEPT !.flag = d.flag, !.reason = d.reason], "finish")
    BY <1>8 DEF Escalation
  <2>2. d.flag \in {"no", "yes"} /\ d.reason \in {"null", "rules"}
    BY DEF Decision
  <2>3. [run[r].cached EXCEPT !.flag = d.flag, !.reason = d.reason] \in Row
    BY <1>1, <2>2 DEF Row, Status
  <2>4. Alive(r) /\ UNCHANGED <<drafts, desk, api, queue, reruns, crashes>>
    BY <1>8 DEF Escalation, Alive
  <2>5. "finish" \in RunPC \ {"idle"}
    BY DEF RunPC
  <2> QED BY <2>1, <2>3, <2>4, <2>5, CommitType
<1>9. CASE Finish(r)
  <2>1. [run[r].cached EXCEPT !.status = "awaiting_review"] \in Row
    BY <1>1 DEF Row, Status
  <2> QED BY <1>9, <2>1, CommitAndEndType DEF Finish, Alive
<1>10. CASE NodeFails(r)
  <2>1. Alive(r) /\ "failed" \in RunPC
    BY <1>10 DEF NodeFails, Alive, Node, RunPC
  <2> QED BY <1>10, <2>1, ConstantTypes, RunType DEF NodeFails
<1>11. CASE Reload(r)
  <2>1. Alive(r) /\ ticket[run[r].ticket] \in Row /\ "reloaded" \in RunPC
    BY <1>11 DEF Reload, TypeOK, RunPC, Alive
  <2> QED BY <1>11, <2>1, RunType DEF Reload
<1>12. CASE EndFailed(r)
  <2>1. [run[r].cached EXCEPT !.status = "awaiting_review", !.flag = "yes", !.reason = "failure"]
          \in Row
    BY <1>1 DEF Row, Status
  <2> QED BY <1>12, <2>1, CommitAndEndType DEF EndFailed, Alive
<1> QED
  BY <1>2, <1>3, <1>4, <1>5, <1>6, <1>7, <1>8, <1>9, <1>10, <1>11, <1>12

LEMMA RequestStepType ==
  ASSUME TypeOK, NEW h \in Reviewer, RequestStep(h)
  PROVE  TypeOK'
<1> USE DEF RequestStep
<1>1. CASE ScheduleRun(h)
  <2>1. PICK r \in Run : ~Alive(r) /\ run' = [run EXCEPT ![r] = Scheduled(desk[h].ticket, "request")]
    BY <1>1 DEF ScheduleRun
  <2>2. desk[h].ticket \in Ticket
    BY <1>1 DEF ScheduleRun, TypeOK
  <2>3. run' \in [Run -> RunState]
    BY <2>1, <2>2, ConstantTypes DEF TypeOK
  <2>4. \A s \in Run : Alive(s)' => run'[s].ticket \in Ticket
    BY <2>1, <2>2 DEF TypeOK, Alive, Scheduled
  <2>5. DeskOK'
    BY <1>1, LeaveType DEF ScheduleRun
  <2> QED BY <1>1, <2>3, <2>4, <2>5 DEF TypeOK, DeskOK, ScheduleRun
<1>2. CASE CommitRerun(h)
  <2>1. desk[h].ticket \in Ticket
    BY <1>2 DEF CommitRerun, TypeOK
  <2>2. ticket' \in [Ticket -> Row]
    BY <1>2, <2>1, StatusWrite DEF CommitRerun, Status
  <2>3. DeskOK'
    BY <1>2, GotoType DEF CommitRerun, DeskPC
  <2>4. reruns' \in 0 .. MaxReruns
    BY <1>2, BoundsAssumption DEF CommitRerun, TypeOK
  <2> QED BY <1>2, <2>2, <2>3, <2>4 DEF TypeOK, DeskOK, CommitRerun, Alive
<1>3. CASE ReadDraft(h)
  <2> DEFINE i == Newest(desk[h].ticket)
             d == [desk[h] EXCEPT !.pc = "commit", !.draft = i]
  <2>1. desk[h] \in DeskState /\ desk[h].ticket \in Ticket
    BY <1>3 DEF ReadDraft, TypeOK
  <2>2. i \in Nat
    BY <2>1 DEF TypeOK, Newest
  <2>3. d \in DeskState /\ d.ticket \in Ticket
    BY <2>1, <2>2 DEF DeskState, DeskPC
  <2>4. Leave(h) \/ desk' = [desk EXCEPT ![h] = d]
    BY <1>3, Zenon DEF ReadDraft, TypeOK
  <2>5. DeskOK'
    BY <2>3, <2>4, LeaveType, DeskType
  <2> QED BY <1>3, <2>5 DEF TypeOK, DeskOK, ReadDraft, Alive
<1>4. CASE CommitApprove(h)
  <2> DEFINE t == desk[h].ticket
             i == desk[h].draft
  <2>1. t \in Ticket
    BY <1>4 DEF CommitApprove, TypeOK
  <2>2. ticket' = [ticket EXCEPT ![t].status = "resolved"]
    BY <1>4 DEF CommitApprove
  <2>3. ticket' \in [Ticket -> Row]
    BY <2>1, <2>2, StatusWrite DEF Status
  <2>4. PICK text \in {h, Nobody} :
          drafts' = [drafts EXCEPT ![t][i] =
                       FlushDraft(@, Pending, [approved |-> TRUE, by |-> h, text |-> text])]
    BY <1>4 DEF CommitApprove
  <2> DEFINE approval == [approved |-> TRUE, by |-> h, text |-> text]
  <2>5. drafts[t] \in Seq(DraftRow)
    BY <2>1 DEF TypeOK
  <2>6. [drafts[t] EXCEPT ![i] = FlushDraft(@, Pending, approval)] \in Seq(DraftRow)
    <3>1. approval \in DraftRow
      BY DEF DraftRow
    <3>2. ASSUME i \in 1 .. Len(drafts[t])
          PROVE  FlushDraft(drafts[t][i], Pending, approval) \in DraftRow
      BY <2>5, <3>1, <3>2, ConstantTypes, FlushDraftType
    <3> QED BY <2>5, <3>2, UpdateType
  <2>7. drafts' \in [Ticket -> Seq(DraftRow)]
    BY <2>1, <2>4, <2>6 DEF TypeOK
  <2>8. DeskOK'
    BY <1>4, LeaveType DEF CommitApprove
  <2> QED BY <1>4, <2>3, <2>7, <2>8 DEF TypeOK, DeskOK, CommitApprove, Alive
<1> QED BY <1>1, <1>2, <1>3, <1>4

LEMMA ReviewerStepType ==
  ASSUME TypeOK, NEW h \in Reviewer, ReviewerStep(h)
  PROVE  TypeOK'
<1> USE DEF ReviewerStep
<1>1. desk[h] \in DeskState
  BY DEF TypeOK
<1>2. CASE CreateTicket(h)
  <2>1. PICK t \in Ticket : /\ ticket' = [ticket EXCEPT ![t].status = "new"]
                            /\ desk' = [desk EXCEPT ![h].pc = "owes_run", ![h].ticket = t]
    BY <1>2 DEF CreateTicket
  <2> DEFINE d == [desk[h] EXCEPT !.pc = "owes_run", !.ticket = t]
  <2>2. d \in DeskState /\ d.ticket \in Ticket
    BY <1>1, TicketRange DEF DeskState, DeskPC
  <2>3. desk' = [desk EXCEPT ![h] = d]
    BY <2>1 DEF TypeOK
  <2>4. ticket' \in [Ticket -> Row]
    BY <2>1, StatusWrite DEF Status
  <2>5. DeskOK'
    BY <2>2, <2>3, DeskType
  <2> QED BY <1>2, <2>4, <2>5 DEF TypeOK, DeskOK, CreateTicket, Alive
<1>3. CASE OpenTicket(h)
  <2>1. PICK t \in Ticket :
          desk' = [desk EXCEPT ![h].pc = "viewing", ![h].ticket = t, ![h].seen = Len(drafts[t])]
    BY <1>3 DEF OpenTicket
  <2> DEFINE d == [desk[h] EXCEPT !.pc = "viewing", !.ticket = t, !.seen = Len(drafts[t])]
  <2>2. Len(drafts[t]) \in Nat
    BY DEF TypeOK
  <2>3. d \in DeskState /\ d.ticket \in Ticket
    BY <1>1, <2>2, TicketRange DEF DeskState, DeskPC
  <2>4. desk' = [desk EXCEPT ![h] = d]
    BY <2>1 DEF TypeOK
  <2>5. DeskOK'
    BY <2>3, <2>4, DeskType
  <2> QED BY <1>3, <2>5 DEF TypeOK, DeskOK, OpenTicket, Alive
<1>4. CASE ReadForRerun(h)
  <2>1. PICK t \in Ticket :
          IF ticket[t].status = "in_progress"
            THEN Leave(h)
            ELSE desk' = [desk EXCEPT ![h] = [Free EXCEPT !.pc = "rerun", !.ticket = t]]
    BY <1>4 DEF ReadForRerun
  <2> DEFINE d == [Free EXCEPT !.pc = "rerun", !.ticket = t]
  <2>2. d \in DeskState /\ d.ticket \in Ticket
    BY TicketRange DEF Free, DeskState, DeskPC
  <2>3. DeskOK'
    BY <2>1, <2>2, LeaveType, DeskType
  <2> QED BY <1>4, <2>3 DEF TypeOK, DeskOK, ReadForRerun, Alive
<1>5. CASE ReadForApprove(h)
  <2>1. desk[h].pc # "idle"
    BY <1>5 DEF ReadForApprove
  <2>2. DeskOK'
    BY <1>5, <2>1, LeaveType, GotoType DEF ReadForApprove, DeskPC
  <2> QED BY <1>5, <2>2 DEF TypeOK, DeskOK, ReadForApprove, Alive
<1> QED BY <1>2, <1>3, <1>4, <1>5

LEMMA ProcessStepType ==
  ASSUME TypeOK, Crash \/ Start \/ ResumeSelect \/ ResumeNext
  PROVE  TypeOK'
<1>1. CASE Crash
  <2>1. crashes' \in 0 .. MaxCrashes
    BY <1>1, BoundsAssumption DEF Crash, TypeOK
  <2>2. run' \in [Run -> RunState] /\ desk' \in [Reviewer -> DeskState]
    BY <1>1, ConstantTypes DEF Crash, TypeOK
  <2>3. \A s \in Run : ~Alive(s)'
    BY <1>1 DEF Crash, Alive, Idle
  <2>4. \A g \in Reviewer : desk'[g].pc # "idle" => desk'[g].ticket \in Ticket
    BY <1>1 DEF Crash, TypeOK, Free
  <2> QED BY <1>1, <2>1, <2>2, <2>3, <2>4 DEF Crash, TypeOK
<1>2. CASE Start
  BY <1>2 DEF Start, TypeOK, Alive
<1>3. CASE ResumeSelect
  BY <1>3 DEF ResumeSelect, TypeOK, Alive
<1>4. CASE ResumeNext
  <2>1. PICK r \in Run, t \in queue :
          /\ run' = [run EXCEPT ![r] = Scheduled(t, "resume")]
          /\ queue' = queue \ {t}
    BY <1>4 DEF ResumeNext
  <2>2. t \in Ticket
    BY DEF TypeOK
  <2>3. run' \in [Run -> RunState]
    BY <2>1, <2>2, ConstantTypes DEF TypeOK
  <2>4. \A s \in Run : Alive(s)' => run'[s].ticket \in Ticket
    BY <2>1, <2>2 DEF TypeOK, Alive, Scheduled
  <2> QED BY <1>4, <2>1, <2>3, <2>4 DEF ResumeNext, TypeOK
<1> QED BY <1>1, <1>2, <1>3, <1>4

(* Every row, draft, run and page has its type in every reachable state,   *)
(* and every run and page that is not idle is about a ticket.              *)
THEOREM TypeCorrect == Spec => []TypeOK
<1>1. Init => TypeOK
  BY ConstantTypes, BoundsAssumption DEF Init, TypeOK, Alive, Idle, Free
<1>2. TypeOK /\ [Next]_vars => TypeOK'
  <2> SUFFICES ASSUME TypeOK, [Next]_vars PROVE TypeOK'
    OBVIOUS
  <2>1. CASE Next
    BY <2>1, RunStepType, RequestStepType, ReviewerStepType, ProcessStepType DEF Next
  <2>2. CASE UNCHANGED vars
    BY <2>2 DEF vars, TypeOK, Alive
  <2> QED BY <2>1, <2>2
<1> QED BY <1>1, <1>2, PTL DEF Spec

-----------------------------------------------------------------------------
(* NoOrphan. A run whose exception handler found the ticket awaiting       *)
(* review will not write the status again, so it cannot be the one that    *)
(* moves an unfinished ticket on: the inductive invariant leaves such runs *)
(* out, and says that inside the graph a session holds in_progress.        *)

Mover(r, t) ==
  /\ Alive(r) /\ run[r].ticket = t
  /\ ~(run[r].pc = "reloaded" /\ run[r].cached.status = "awaiting_review")

Moved(t) == (\E r \in Run : Mover(r, t)) \/ RunOwed(t) \/ t \in queue \/ api # "up"

SomeoneMoves ==
  \A t \in Ticket : ticket[t].status \in {"new", "in_progress"} => Moved(t)

HoldsInProgress ==
  \A r \in Run :
    run[r].pc \in Node \cup {"finish"} => run[r].cached.status = "in_progress"

OrphanInv == TypeOK /\ HoldsInProgress /\ SomeoneMoves

(* A commit changes a status only to a value the session had not loaded.   *)
LEMMA CommitStatus ==
  ASSUME TypeOK, NEW r \in Run, Alive(r), NEW row, NEW next,
         Commit(r, row, next) \/ CommitAndEnd(r, row)
  PROVE  /\ row.status = run[r].cached.status =>
              \A t \in Ticket : ticket'[t].status = ticket[t].status
         /\ row.status # run[r].cached.status =>
              ticket'[run[r].ticket].status = row.status
         /\ \A t \in Ticket \ {run[r].ticket} : ticket'[t] = ticket[t]
<1> DEFINE t == run[r].ticket
           new == Flush(ticket[t], run[r].cached, row)
<1>1. t \in Ticket /\ ticket' = [ticket EXCEPT ![t] = new]
  BY DEF Commit, CommitAndEnd, TypeOK, Alive
<1>2. ticket'[t] = new /\ \A u \in Ticket \ {t} : ticket'[u] = ticket[u]
  BY <1>1 DEF TypeOK
<1>3. new.status = Column(ticket[t].status, run[r].cached.status, row.status)
  BY DEF Flush
<1> QED BY <1>1, <1>2, <1>3 DEF Column

(* A step that keeps every status, and keeps a mover for each ticket that  *)
(* run r was moving, keeps SomeoneMoves.                                   *)
LEMMA StatusKept ==
  ASSUME TypeOK, SomeoneMoves, NEW r \in Run,
         \A t \in Ticket : ticket'[t].status = ticket[t].status,
         \A s \in Run \ {r} : run'[s] = run[s],
         \A t \in Ticket : Mover(r, t) => Mover(r, t)',
         UNCHANGED <<desk, api, queue>>
  PROVE  SomeoneMoves'
<1> SUFFICES ASSUME NEW t \in Ticket, ticket[t].status \in {"new", "in_progress"}
             PROVE  Moved(t)'
  BY DEF SomeoneMoves
<1>1. Moved(t)
  BY DEF SomeoneMoves
<1>2. ASSUME NEW s \in Run, Mover(s, t) PROVE Mover(s, t)'
  BY <1>2 DEF Mover, Alive
<1>3. RunOwed(t) => RunOwed(t)'
  BY DEF RunOwed
<1> QED BY <1>1, <1>2, <1>3 DEF Moved

LEMMA RunStepMoves ==
  ASSUME OrphanInv, NEW r \in Run, RunStep(r)
  PROVE  HoldsInProgress' /\ SomeoneMoves'
<1> USE DEF RunStep, OrphanInv
<1>0. run[r] \in RunState /\ (Alive(r) => run[r].ticket \in Ticket)
  BY DEF TypeOK
<1>1. ASSUME Alive(r), NEW next \in {"started", "triage", "failed", "finish"} \cup Node,
             run'[r].pc = next, run'[r].ticket = run[r].ticket,
             \A s \in Run \ {r} : run'[s] = run[s],
             next \in Node \cup {"finish"} => run'[r].cached.status = "in_progress",
             \A t \in Ticket : ticket'[t].status = ticket[t].status
      PROVE  HoldsInProgress' /\ SomeoneMoves'
  <2>1. HoldsInProgress'
    BY <1>1 DEF HoldsInProgress
  <2>2. \A t \in Ticket : Mover(r, t) => Mover(r, t)'
    BY <1>1 DEF Mover, Alive, Node
  <2> QED BY <1>1, <2>1, <2>2, StatusKept
<1>2. CASE Begin(r)
  BY <1>0, <1>1, <1>2 DEF Begin, TypeOK, Alive, Node
<1>3. CASE MarkInProgress(r)
  <2> DEFINE row == [run[r].cached EXCEPT !.status = "in_progress"]
             t == run[r].ticket
  <2>1. Alive(r) /\ t \in Ticket /\ row.status = "in_progress" /\ Commit(r, row, "triage")
    BY <1>0, <1>3 DEF MarkInProgress, Alive, RunState, Row
  <2>2. /\ run'[r].pc = "triage" /\ run'[r].ticket = t /\ run'[r].cached = row
        /\ \A s \in Run \ {r} : run'[s] = run[s]
    BY <2>1 DEF Commit, TypeOK, RunState
  <2>3. HoldsInProgress'
    BY <2>1, <2>2 DEF HoldsInProgress
  <2>4. ASSUME NEW u \in Ticket, u = t PROVE Moved(u)'
    BY <2>2, <2>4 DEF Moved, Mover, Alive
  <2>5. ASSUME NEW u \in Ticket \ {t}, ticket'[u].status \in {"new", "in_progress"}
        PROVE  Moved(u)'
    <3>1. ticket'[u] = ticket[u]
      BY <2>1, CommitStatus
    <3>2. Moved(u)
      BY <2>5, <3>1 DEF SomeoneMoves
    <3>3. ASSUME NEW s \in Run, Mover(s, u) PROVE Mover(s, u)'
      BY <2>2, <2>5, <3>3 DEF Mover, Alive
    <3> QED BY <3>2, <3>3 DEF Moved, RunOwed
  <2> QED BY <2>3, <2>4, <2>5 DEF SomeoneMoves
<1>4. CASE Triage(r)
  <2> DEFINE row == [run[r].cached EXCEPT !.triage = "set"]
  <2>1. Alive(r) /\ run[r].cached.status = "in_progress" /\ Commit(r, row, "knowledge")
    BY <1>4 DEF Triage, Alive, HoldsInProgress, Node
  <2>2. row.status = "in_progress"
    BY <1>0, <2>1 DEF RunState, Row
  <2>3. /\ run'[r].pc = "knowledge" /\ run'[r].ticket = run[r].ticket /\ run'[r].cached = row
        /\ \A s \in Run \ {r} : run'[s] = run[s]
    BY <2>1 DEF Commit, TypeOK, RunState
  <2> HIDE DEF row
  <2>4. \A t \in Ticket : ticket'[t].status = ticket[t].status
    BY <1>0, <2>1, <2>2, CommitStatus
  <2>5. "knowledge" \in Node
    BY DEF Node
  <2> QED BY <1>1, <2>1, <2>2, <2>3, <2>4, <2>5
<1>5. CASE Knowledge(r)
  BY <1>0, <1>1, <1>5
     DEF Knowledge, Advance, AfterKnowledge, TypeOK, RunState, Alive, Node, HoldsInProgress
<1>6. CASE OrderLookup(r)
  BY <1>0, <1>1, <1>6 DEF OrderLookup, Advance, TypeOK, RunState, Alive, Node, HoldsInProgress
<1>7. CASE Draft(r)
  BY <1>0, <1>1, <1>7 DEF Draft, Advance, TypeOK, RunState, Alive, Node, HoldsInProgress
<1>8. CASE Escalation(r)
  <2>1. PICK d \in Decision :
          Commit(r, [run[r].cached EXCEPT !.flag = d.flag, !.reason = d.reason], "finish")
    BY <1>8 DEF Escalation
  <2> DEFINE row == [run[r].cached EXCEPT !.flag = d.flag, !.reason = d.reason]
  <2>2. Alive(r) /\ run[r].cached.status = "in_progress"
    BY <1>8 DEF Escalation, Alive, HoldsInProgress, Node
  <2>3. row.status = "in_progress"
    BY <1>0, <2>2 DEF RunState, Row
  <2>4. /\ run'[r].pc = "finish" /\ run'[r].ticket = run[r].ticket /\ run'[r].cached = row
        /\ \A s \in Run \ {r} : run'[s] = run[s]
    BY <2>1 DEF Commit, TypeOK, RunState
  <2> HIDE DEF row
  <2>5. \A t \in Ticket : ticket'[t].status = ticket[t].status
    <3>1. Commit(r, row, "finish")
      BY <2>1 DEF row
    <3> QED BY <1>0, <2>2, <2>3, <3>1, CommitStatus
  <2> QED BY <1>1, <2>2, <2>3, <2>4, <2>5
<1>9. ASSUME run[r].pc \in {"finish", "reloaded"}, Alive(r), NEW row \in Row, row.status = "awaiting_review", CommitAndEnd(r, row)
      PROVE  HoldsInProgress' /\ SomeoneMoves'
  <2> DEFINE t == run[r].ticket
  <2>1. run'[r] = Idle /\ \A s \in Run \ {r} : run'[s] = run[s]
    BY <1>9 DEF CommitAndEnd, TypeOK
  <2>2. HoldsInProgress'
    BY <2>1 DEF HoldsInProgress, Idle, Node
  <2>3. ASSUME NEW u \in Ticket, ticket'[u].status \in {"new", "in_progress"}
        PROVE  Moved(u)'
    <3>1. u # t \/ run[r].cached.status = "awaiting_review"
      BY <1>0, <1>9, <2>3, CommitStatus
    <3>2. ticket'[u].status = ticket[u].status
      BY <1>9, <3>1, CommitStatus
    <3>3. Moved(u)
      BY <2>3, <3>2 DEF SomeoneMoves
    <3>4. UNCHANGED <<desk, api, queue>>
      OBVIOUS
    <3>5. ASSUME Mover(r, u) PROVE FALSE
      <4>1. u = t /\ run[r].cached.status = "awaiting_review"
        BY <3>1, <3>5 DEF Mover
      <4>2. run[r].pc = "finish"
        BY <1>9, <3>5, <4>1 DEF Mover
      <4> QED BY <4>1, <4>2 DEF HoldsInProgress
    <3>6. ASSUME NEW s \in Run, Mover(s, u) PROVE Mover(s, u)'
      BY <2>1, <3>5, <3>6 DEF Mover, Alive
    <3> QED BY <3>3, <3>4, <3>6 DEF Moved, RunOwed
  <2> QED BY <2>2, <2>3 DEF SomeoneMoves
<1>10. CASE Finish(r)
  <2> DEFINE row == [run[r].cached EXCEPT !.status = "awaiting_review"]
  <2>1. row \in Row /\ row.status = "awaiting_review"
    BY <1>0 DEF RunState, Row, Status
  <2> QED BY <1>9, <1>10, <2>1 DEF Finish, Alive
<1>11. CASE NodeFails(r)
  BY <1>0, <1>1, <1>11 DEF NodeFails, TypeOK, RunState, Alive, Node
<1>12. CASE Reload(r)
  <2> DEFINE t == run[r].ticket
  <2>1. /\ run'[r].pc = "reloaded" /\ run'[r].ticket = t /\ run'[r].cached = ticket[t]
        /\ \A s \in Run \ {r} : run'[s] = run[s]
        /\ UNCHANGED <<ticket, desk, api, queue>>
    BY <1>12 DEF Reload, TypeOK, RunState
  <2>2. HoldsInProgress'
    BY <2>1 DEF HoldsInProgress, Node
  <2>3. ASSUME NEW u \in Ticket, ticket'[u].status \in {"new", "in_progress"}
        PROVE  Moved(u)'
    <3>1. Moved(u)
      BY <2>1, <2>3 DEF SomeoneMoves
    <3>2. ASSUME NEW s \in Run, Mover(s, u) PROVE Mover(s, u)'
      BY <2>1, <2>3, <3>2 DEF Mover, Alive
    <3> QED BY <2>1, <3>1, <3>2 DEF Moved, RunOwed
  <2> QED BY <2>2, <2>3 DEF SomeoneMoves
<1>13. CASE EndFailed(r)
  <2> DEFINE row == [run[r].cached EXCEPT
                       !.status = "awaiting_review", !.flag = "yes", !.reason = "failure"]
  <2>1. row \in Row /\ row.status = "awaiting_review"
    BY <1>0 DEF RunState, Row, Status
  <2> QED BY <1>9, <1>13, <2>1 DEF EndFailed, Alive
<1> QED
  BY <1>2, <1>3, <1>4, <1>5, <1>6, <1>7, <1>8, <1>10, <1>11, <1>12, <1>13

(* The other steps move no run but by starting it, and write only statuses *)
(* that come with an owner, or none that needs one.                        *)
LEMMA RequestStepMoves ==
  ASSUME OrphanInv, NEW h \in Reviewer, RequestStep(h)
  PROVE  HoldsInProgress' /\ SomeoneMoves'
<1> USE DEF RequestStep, OrphanInv
<1>1. CASE ScheduleRun(h)
  <2>1. PICK r \in Run : ~Alive(r) /\ run' = [run EXCEPT ![r] = Scheduled(desk[h].ticket, "request")]
    BY <1>1 DEF ScheduleRun
  <2>2. HoldsInProgress'
    BY <2>1 DEF HoldsInProgress, TypeOK, Scheduled, Node
  <2>3. ASSUME NEW t \in Ticket, ticket[t].status \in {"new", "in_progress"}
        PROVE  Moved(t)'
    <3>1. ASSUME NEW s \in Run, Mover(s, t) PROVE Mover(s, t)'
      BY <2>1, <3>1 DEF Mover, Alive, TypeOK
    <3>2. desk[h].ticket = t => Mover(r, t)'
      BY <2>1 DEF Mover, Alive, TypeOK, Scheduled
    <3>3. RunOwed(t) => desk[h].ticket = t \/ RunOwed(t)'
      BY <1>1 DEF RunOwed, ScheduleRun, Leave, TypeOK
    <3> QED BY <2>3, <3>1, <3>2, <3>3 DEF SomeoneMoves, Moved
  <2> QED BY <1>1, <2>2, <2>3 DEF SomeoneMoves, ScheduleRun
<1>2. CASE CommitRerun(h)
  <2> DEFINE u == desk[h].ticket
  <2>1. u \in Ticket /\ ticket' = [ticket EXCEPT ![u].status = "in_progress"] /\ run' = run
    BY <1>2 DEF CommitRerun, TypeOK
  <2>2. ASSUME NEW t \in Ticket, ticket'[t].status \in {"new", "in_progress"}
        PROVE  Moved(t)'
    <3>1. CASE t = u
      BY <1>2, <3>1 DEF CommitRerun, Goto, RunOwed, Moved, TypeOK, DeskState
    <3>2. CASE t # u
      <4>1. Moved(t)
        BY <2>1, <2>2, <3>2 DEF SomeoneMoves, TypeOK
      <4>2. RunOwed(t) => RunOwed(t)'
        BY <1>2 DEF RunOwed, CommitRerun, Goto, TypeOK
      <4> QED BY <2>1, <4>1, <4>2 DEF Moved, Mover, Alive
    <3> QED BY <3>1, <3>2
  <2> QED BY <2>1, <2>2 DEF SomeoneMoves, HoldsInProgress
<1>3. CASE ReadDraft(h)
  <2>1. ASSUME NEW t \in Ticket, RunOwed(t) PROVE RunOwed(t)'
    <3>1. PICK g \in Reviewer : desk[g].pc = "owes_run" /\ desk[g].ticket = t
      BY <2>1 DEF RunOwed
    <3>2. g # h /\ desk'[g] = desk[g]
      BY <1>3, <3>1 DEF ReadDraft, Leave, TypeOK
    <3> QED BY <3>1, <3>2 DEF RunOwed
  <2> QED BY <1>3, <2>1 DEF ReadDraft, SomeoneMoves, HoldsInProgress, Moved, Mover, Alive
<1>4. CASE CommitApprove(h)
  <2>1. ticket' = [ticket EXCEPT ![desk[h].ticket].status = "resolved"] /\ run' = run
    BY <1>4 DEF CommitApprove
  <2>2. ASSUME NEW t \in Ticket, RunOwed(t) PROVE RunOwed(t)'
    BY <1>4, <2>2 DEF RunOwed, CommitApprove, Leave, TypeOK
  <2>3. \A t \in Ticket : ticket'[t].status \in {"new", "in_progress"} =>
                           ticket[t].status \in {"new", "in_progress"}
    BY <2>1 DEF TypeOK, Row
  <2> QED BY <2>1, <2>2, <2>3 DEF SomeoneMoves, HoldsInProgress, Moved, Mover, Alive
<1> QED BY <1>1, <1>2, <1>3, <1>4

LEMMA ReviewerStepMoves ==
  ASSUME OrphanInv, NEW h \in Reviewer, ReviewerStep(h)
  PROVE  HoldsInProgress' /\ SomeoneMoves'
<1> USE DEF ReviewerStep, OrphanInv
<1>1. run' = run /\ desk[h].pc # "owes_run" /\ \A g \in Reviewer \ {h} : desk'[g] = desk[g]
  BY DEF CreateTicket, OpenTicket, ReadForRerun, ReadForApprove, Goto, Leave, TypeOK
<1>2. ASSUME NEW t \in Ticket, Moved(t) PROVE Moved(t)'
  <2>1. RunOwed(t) => RunOwed(t)'
    BY <1>1 DEF RunOwed
  <2> QED BY <1>1, <1>2, <2>1 DEF Moved, Mover, Alive
<1>3. CASE CreateTicket(h)
  <2>1. PICK u \in Ticket : /\ ticket' = [ticket EXCEPT ![u].status = "new"]
                            /\ desk' = [desk EXCEPT ![h].pc = "owes_run", ![h].ticket = u]
    BY <1>3 DEF CreateTicket
  <2>2. Moved(u)'
    BY <2>1 DEF Moved, RunOwed, TypeOK, DeskState
  <2>3. \A t \in Ticket \ {u} : ticket'[t] = ticket[t]
    BY <2>1 DEF TypeOK
  <2> QED BY <1>1, <1>2, <2>2, <2>3 DEF SomeoneMoves, HoldsInProgress
<1>4. CASE ~CreateTicket(h)
  <2>1. ticket' = ticket
    BY <1>4 DEF OpenTicket, ReadForRerun, ReadForApprove
  <2> QED BY <1>1, <1>2, <2>1 DEF SomeoneMoves, HoldsInProgress
<1> QED BY <1>3, <1>4

LEMMA ProcessStepMoves ==
  ASSUME OrphanInv, Crash \/ Start \/ ResumeSelect \/ ResumeNext
  PROVE  HoldsInProgress' /\ SomeoneMoves'
<1> USE DEF OrphanInv
<1>1. CASE Crash
  BY <1>1 DEF Crash, HoldsInProgress, SomeoneMoves, Moved, Idle, Node
<1>2. CASE Start
  BY <1>2 DEF Start, HoldsInProgress, SomeoneMoves, Moved
<1>3. CASE ResumeSelect
  BY <1>3 DEF ResumeSelect, Unfinished, HoldsInProgress, SomeoneMoves, Moved
<1>4. CASE ResumeNext
  <2>1. PICK r \in Run, u \in queue :
          ~Alive(r) /\ run' = [run EXCEPT ![r] = Scheduled(u, "resume")] /\ queue' = queue \ {u}
    BY <1>4 DEF ResumeNext
  <2>2. HoldsInProgress'
    BY <2>1 DEF HoldsInProgress, TypeOK, Scheduled, Node
  <2>3. ASSUME NEW t \in Ticket, Moved(t) PROVE Moved(t)'
    <3>1. ASSUME NEW s \in Run, Mover(s, t) PROVE Mover(s, t)'
      BY <2>1, <3>1 DEF Mover, Alive, TypeOK
    <3>2. t = u => Mover(r, t)'
      BY <2>1 DEF Mover, Alive, TypeOK, Scheduled
    <3>3. RunOwed(t) => RunOwed(t)'
      BY <1>4 DEF RunOwed, ResumeNext
    <3> QED BY <1>4, <2>1, <2>3, <3>1, <3>2, <3>3 DEF Moved, ResumeNext
  <2> QED BY <1>4, <2>2, <2>3 DEF SomeoneMoves, ResumeNext
<1> QED BY <1>1, <1>2, <1>3, <1>4

(* No ticket is ever new or in progress without a run, a request or the    *)
(* resume task that is going to run it (runner.py: "instead of silently    *)
(* stalling in_progress"): parallel runs, failures of any node and crashes *)
(* at any point included.                                                  *)
THEOREM NothingIsForgotten == Spec => []NoOrphan
<1>1. Init => HoldsInProgress /\ SomeoneMoves
  BY DEF Init, HoldsInProgress, SomeoneMoves, Absent, Idle, Node
<1>2. OrphanInv /\ [Next]_vars => (HoldsInProgress /\ SomeoneMoves)'
  <2> SUFFICES ASSUME OrphanInv, [Next]_vars PROVE HoldsInProgress' /\ SomeoneMoves'
    OBVIOUS
  <2>1. CASE Next
    BY <2>1, RunStepMoves, RequestStepMoves, ReviewerStepMoves, ProcessStepMoves DEF Next
  <2>2. CASE UNCHANGED vars
    BY <2>2 DEF vars, OrphanInv, HoldsInProgress, SomeoneMoves, Moved, Mover, Alive, RunOwed
  <2> QED BY <2>1, <2>2
<1>3. OrphanInv => NoOrphan
  BY DEF OrphanInv, SomeoneMoves, Moved, Mover, NoOrphan, Running
<1> QED BY <1>1, <1>2, <1>3, TypeCorrect, PTL DEF Spec, OrphanInv

-----------------------------------------------------------------------------
(* QueueFlagged. needs_escalation is null only until it is first written;  *)
(* FlagKnown follows what was written from the session that wrote it to    *)
(* the row, and from the queue to the request that approves.               *)

HasFlag ==
  \A t \in Ticket :
    ticket[t].status \in {"awaiting_review", "resolved"} => ticket[t].flag # "null"

FlagKnown ==
  /\ HasFlag
  /\ \A r \in Run : Alive(r) /\ run[r].cached.flag # "null" => ticket[run[r].ticket].flag # "null"
  /\ \A r \in Run : run[r].pc = "finish" => run[r].cached.flag # "null"
  /\ \A h \in Reviewer :
       desk[h].pc \in {"approve", "commit"} => ticket[desk[h].ticket].flag # "null"

(* A flag is never unset: a commit writes null over nothing else.          *)
LEMMA CommitFlag ==
  ASSUME TypeOK, FlagKnown, NEW r \in Run, Alive(r), NEW row, NEW next,
         Commit(r, row, next) \/ CommitAndEnd(r, row),
         row.flag = "null" => run[r].cached.flag = "null"
  PROVE  /\ \A t \in Ticket : ticket[t].flag # "null" => ticket'[t].flag # "null"
         /\ row.flag # "null" => ticket'[run[r].ticket].flag # "null"
         /\ \A t \in Ticket \ {run[r].ticket} : ticket'[t] = ticket[t]
<1> DEFINE t == run[r].ticket
           new == Flush(ticket[t], run[r].cached, row)
<1>1. t \in Ticket /\ ticket' = [ticket EXCEPT ![t] = new]
  BY DEF Commit, CommitAndEnd, TypeOK, Alive
<1>2. ticket'[t] = new /\ \A u \in Ticket \ {t} : ticket'[u] = ticket[u]
  BY <1>1 DEF TypeOK
<1>3. new.flag = Column(ticket[t].flag, run[r].cached.flag, row.flag)
  BY DEF Flush
<1> QED BY <1>1, <1>2, <1>3 DEF Column, FlagKnown

(* A commit inside a run keeps the invariant if a run that is to finish    *)
(* holds the flag its rules have set.                                      *)
LEMMA CommitKeepsFlag ==
  ASSUME TypeOK, FlagKnown, NEW r \in Run, Alive(r), NEW row \in Row, NEW next \in RunPC,
         Commit(r, row, next), UNCHANGED desk,
         row.flag = "null" => run[r].cached.flag = "null",
         row.status \in {"awaiting_review", "resolved"} => row.status = run[r].cached.status,
         next = "finish" => row.flag # "null"
  PROVE  FlagKnown'
<1> DEFINE t == run[r].ticket
<1>1. t \in Ticket
  BY DEF TypeOK
<1>2. /\ run'[r].cached = row /\ run'[r].pc = next /\ run'[r].ticket = t
      /\ \A s \in Run \ {r} : run'[s] = run[s]
  BY DEF Commit, TypeOK, RunState
<1>3. /\ \A u \in Ticket : ticket[u].flag # "null" => ticket'[u].flag # "null"
      /\ row.flag # "null" => ticket'[t].flag # "null"
  BY CommitFlag
<1>4. HasFlag'
  BY <1>1, <1>3, CommitStatus DEF HasFlag, FlagKnown
<1>5. \A s \in Run : Alive(s)' /\ run'[s].cached.flag # "null" => ticket'[run'[s].ticket].flag # "null"
  BY <1>2, <1>3 DEF FlagKnown, Alive, TypeOK
<1>6. \A s \in Run : run'[s].pc = "finish" => run'[s].cached.flag # "null"
  BY <1>2 DEF FlagKnown
<1>7. \A h \in Reviewer :
        desk'[h].pc \in {"approve", "commit"} => ticket'[desk'[h].ticket].flag # "null"
  BY <1>3 DEF FlagKnown, TypeOK
<1> QED BY <1>4, <1>5, <1>6, <1>7 DEF FlagKnown

(* The commit that ends a run leaves a flagged ticket in the queue.        *)
LEMMA EndKeepsFlag ==
  ASSUME TypeOK, FlagKnown, NEW r \in Run, Alive(r), NEW row \in Row,
         CommitAndEnd(r, row), UNCHANGED desk, row.flag # "null"
  PROVE  FlagKnown'
<1> DEFINE t == run[r].ticket
<1>1. t \in Ticket
  BY DEF TypeOK
<1>2. run'[r] = Idle /\ \A s \in Run \ {r} : run'[s] = run[s]
  BY DEF CommitAndEnd, TypeOK
<1>3. /\ \A u \in Ticket : ticket[u].flag # "null" => ticket'[u].flag # "null"
      /\ ticket'[t].flag # "null"
      /\ \A u \in Ticket \ {t} : ticket'[u] = ticket[u]
  BY CommitFlag
<1>4. HasFlag'
  BY <1>1, <1>3 DEF HasFlag, FlagKnown
<1>5. \A s \in Run : Alive(s)' /\ run'[s].cached.flag # "null" => ticket'[run'[s].ticket].flag # "null"
  BY <1>2, <1>3 DEF FlagKnown, Alive, TypeOK, Idle
<1>6. \A s \in Run : run'[s].pc = "finish" => run'[s].cached.flag # "null"
  BY <1>2 DEF FlagKnown, Idle
<1>7. \A h \in Reviewer :
        desk'[h].pc \in {"approve", "commit"} => ticket'[desk'[h].ticket].flag # "null"
  BY <1>3 DEF FlagKnown, TypeOK
<1> QED BY <1>4, <1>5, <1>6, <1>7 DEF FlagKnown

LEMMA RunStepFlag ==
  ASSUME TypeOK, FlagKnown, NEW r \in Run, RunStep(r)
  PROVE  FlagKnown'
<1> USE DEF RunStep
<1>0. run[r] \in RunState /\ run[r].cached \in Row /\ (Alive(r) => run[r].ticket \in Ticket)
  BY DEF TypeOK, RunState
<1>1. ASSUME Alive(r), UNCHANGED ticket, \A s \in Run \ {r} : run'[s] = run[s],
             run'[r].ticket = run[r].ticket, run'[r].pc # "finish",
             run'[r].cached.flag \in {"null", ticket[run[r].ticket].flag, run[r].cached.flag}
      PROVE  FlagKnown'
  <2>1. Alive(r)' /\ run'[r].cached.flag # "null" => ticket[run'[r].ticket].flag # "null"
    BY <1>1 DEF FlagKnown
  <2>2. UNCHANGED desk /\ HasFlag'
    BY <1>1 DEF FlagKnown, HasFlag
  <2> QED BY <1>1, <2>1, <2>2 DEF FlagKnown, Alive
<1>2. CASE Begin(r)
  BY <1>0, <1>1, <1>2 DEF Begin, TypeOK, RunState, Alive
<1>3. CASE MarkInProgress(r)
  <2> DEFINE row == [run[r].cached EXCEPT !.status = "in_progress"]
  <2>1. row \in Row /\ row.flag = run[r].cached.flag /\ row.status = "in_progress"
    BY <1>0 DEF Row, Status
  <2>2. Commit(r, row, "triage") /\ Alive(r)
    BY <1>3 DEF MarkInProgress, Alive
  <2> HIDE DEF row
  <2> QED BY <2>1, <2>2, CommitKeepsFlag DEF RunPC, Node
<1>4. CASE Triage(r)
  <2> DEFINE row == [run[r].cached EXCEPT !.triage = "set"]
  <2>1. row \in Row /\ row.flag = run[r].cached.flag /\ row.status = run[r].cached.status
    BY <1>0 DEF Row, Status
  <2>2. Commit(r, row, "knowledge") /\ Alive(r)
    BY <1>4 DEF Triage, Alive
  <2> HIDE DEF row
  <2> QED BY <2>1, <2>2, CommitKeepsFlag DEF RunPC, Node
<1>5. CASE Knowledge(r)
  BY <1>0, <1>1, <1>5 DEF Knowledge, Advance, AfterKnowledge, TypeOK, RunState, Alive
<1>6. CASE OrderLookup(r)
  BY <1>0, <1>1, <1>6 DEF OrderLookup, Advance, TypeOK, RunState, Alive
<1>7. CASE Draft(r)
  BY <1>0, <1>1, <1>7 DEF Draft, Advance, TypeOK, RunState, Alive
<1>8. CASE Escalation(r)
  <2>1. PICK d \in Decision :
          Commit(r, [run[r].cached EXCEPT !.flag = d.flag, !.reason = d.reason], "finish")
    BY <1>8 DEF Escalation
  <2> DEFINE row == [run[r].cached EXCEPT !.flag = d.flag, !.reason = d.reason]
  <2>2. d.flag \in {"no", "yes"} /\ d.reason \in {"null", "rules"}
    BY DEF Decision
  <2>3. row \in Row /\ row.flag # "null" /\ row.status = run[r].cached.status
    BY <1>0, <2>2 DEF Row, Status
  <2>4. Commit(r, row, "finish") /\ Alive(r) /\ "finish" \in RunPC
    BY <1>8, <2>1 DEF Escalation, Alive, RunPC
  <2> HIDE DEF row
  <2> QED BY <2>3, <2>4, CommitKeepsFlag
<1>9. CASE Finish(r)
  <2> DEFINE row == [run[r].cached EXCEPT !.status = "awaiting_review"]
  <2>1. row \in Row /\ row.flag # "null"
    BY <1>0, <1>9 DEF Row, Status, Finish, FlagKnown
  <2>2. CommitAndEnd(r, row) /\ Alive(r)
    BY <1>9 DEF Finish, Alive
  <2> HIDE DEF row
  <2> QED BY <2>1, <2>2, EndKeepsFlag
<1>10. CASE NodeFails(r)
  BY <1>0, <1>1, <1>10 DEF NodeFails, TypeOK, RunState, Alive, Node, Absent
<1>11. CASE Reload(r)
  BY <1>0, <1>1, <1>11 DEF Reload, TypeOK, RunState, Alive
<1>12. CASE EndFailed(r)
  <2> DEFINE row == [run[r].cached EXCEPT
                       !.status = "awaiting_review", !.flag = "yes", !.reason = "failure"]
  <2>1. row \in Row /\ row.flag # "null"
    BY <1>0 DEF Row, Status
  <2>2. CommitAndEnd(r, row) /\ Alive(r)
    BY <1>12 DEF EndFailed, Alive
  <2> HIDE DEF row
  <2> QED BY <2>1, <2>2, EndKeepsFlag
<1> QED
  BY <1>2, <1>3, <1>4, <1>5, <1>6, <1>7, <1>8, <1>9, <1>10, <1>11, <1>12

LEMMA OtherStepFlag ==
  ASSUME TypeOK, FlagKnown,
         \/ \E h \in Reviewer : RequestStep(h) \/ ReviewerStep(h)
         \/ Crash \/ Start \/ ResumeSelect \/ ResumeNext
  PROVE  FlagKnown'
<1>1. ASSUME UNCHANGED <<ticket, run>>, NEW h \in Reviewer,
             \A g \in Reviewer \ {h} : desk'[g] = desk[g],
             desk'[h].pc \in {"approve", "commit"} => ticket[desk'[h].ticket].flag # "null"
      PROVE  FlagKnown'
  BY <1>1 DEF FlagKnown, HasFlag, Alive
<1>2. ASSUME NEW r \in Run, NEW t \in Ticket, NEW origin, ~Alive(r), UNCHANGED ticket,
             run' = [run EXCEPT ![r] = Scheduled(t, origin)],
             \A g \in Reviewer : desk'[g] = desk[g] \/ desk'[g].pc = "idle"
      PROVE  FlagKnown'
  BY <1>2 DEF FlagKnown, HasFlag, Alive, Scheduled, Absent, TypeOK
<1>3. ASSUME NEW t \in Ticket, NEW status \in Status, UNCHANGED run,
             ticket' = [ticket EXCEPT ![t].status = status],
             status \in {"awaiting_review", "resolved"} => ticket[t].flag # "null",
             \A g \in Reviewer : desk'[g] = desk[g] \/ desk'[g].pc \in {"idle", "owes_run"}
      PROVE  FlagKnown'
  <2>1. \A u \in Ticket : ticket'[u].flag = ticket[u].flag
    BY <1>3, StatusWrite
  <2>2. /\ ticket'[t].status = status
        /\ \A u \in Ticket \ {t} : ticket'[u] = ticket[u]
    BY <1>3, StatusWrite
  <2>3. HasFlag'
    BY <1>3, <2>1, <2>2 DEF HasFlag, FlagKnown
  <2>4. \A u \in Run : Alive(u)' /\ run'[u].cached.flag # "null" => ticket'[run'[u].ticket].flag # "null"
    BY <1>3, <2>1 DEF FlagKnown, Alive, TypeOK
  <2>5. \A g \in Reviewer :
          desk'[g].pc \in {"approve", "commit"} => ticket'[desk'[g].ticket].flag # "null"
    BY <1>3, <2>1 DEF FlagKnown, TypeOK
  <2> QED BY <1>3, <2>3, <2>4, <2>5 DEF FlagKnown
<1>4. ASSUME NEW h \in Reviewer, RequestStep(h) PROVE FlagKnown'
  <2> USE <1>4 DEF RequestStep
  <2>1. CASE ScheduleRun(h)
    <3>1. PICK r \in Run : ~Alive(r) /\ run' = [run EXCEPT ![r] = Scheduled(desk[h].ticket, "request")]
      BY <2>1 DEF ScheduleRun
    <3>2. desk[h].ticket \in Ticket /\ UNCHANGED ticket
      BY <2>1 DEF ScheduleRun, TypeOK
    <3>3. \A g \in Reviewer : desk'[g] = desk[g] \/ desk'[g].pc = "idle"
      BY <2>1 DEF ScheduleRun, Leave, TypeOK, Free
    <3> QED BY <1>2, <3>1, <3>2, <3>3
  <2>2. CASE CommitRerun(h)
    <3>1. desk[h].ticket \in Ticket /\ UNCHANGED run
      BY <2>2 DEF CommitRerun, TypeOK
    <3>2. \A g \in Reviewer : desk'[g] = desk[g] \/ desk'[g].pc \in {"idle", "owes_run"}
      BY <2>2 DEF CommitRerun, Goto, TypeOK, DeskState
    <3> QED BY <1>3, <2>2, <3>1, <3>2 DEF CommitRerun, Status
  <2>3. CASE ReadDraft(h)
    <3>1. \A g \in Reviewer \ {h} : desk'[g] = desk[g]
      BY <2>3 DEF ReadDraft, Leave, TypeOK
    <3>2. desk'[h].pc = "idle" \/ desk'[h].ticket = desk[h].ticket
      BY <2>3 DEF ReadDraft, Leave, Free, TypeOK, DeskState
    <3>3. ticket[desk[h].ticket].flag # "null"
      BY <2>3 DEF ReadDraft, FlagKnown
    <3> QED BY <1>1, <2>3, <3>1, <3>2, <3>3 DEF ReadDraft
  <2>4. CASE CommitApprove(h)
    <3>1. desk[h].ticket \in Ticket /\ UNCHANGED run
      BY <2>4 DEF CommitApprove, TypeOK
    <3>2. \A g \in Reviewer : desk'[g] = desk[g] \/ desk'[g].pc \in {"idle", "owes_run"}
      BY <2>4 DEF CommitApprove, Leave, TypeOK, Free
    <3>3. ticket[desk[h].ticket].flag # "null"
      BY <2>4 DEF CommitApprove, FlagKnown
    <3> QED BY <1>3, <2>4, <3>1, <3>2, <3>3 DEF CommitApprove, Status
  <2> QED BY <2>1, <2>2, <2>3, <2>4
<1>5. ASSUME NEW h \in Reviewer, ReviewerStep(h) PROVE FlagKnown'
  <2> USE <1>5 DEF ReviewerStep
  <2>1. CASE CreateTicket(h)
    <3>1. PICK t \in Ticket : /\ ticket' = [ticket EXCEPT ![t].status = "new"]
                              /\ desk' = [desk EXCEPT ![h].pc = "owes_run", ![h].ticket = t]
      BY <2>1 DEF CreateTicket
    <3>2. \A g \in Reviewer : desk'[g] = desk[g] \/ desk'[g].pc \in {"idle", "owes_run"}
      BY <3>1 DEF TypeOK, DeskState
    <3> QED BY <1>3, <2>1, <3>1, <3>2 DEF CreateTicket, Status
  <2>2. CASE OpenTicket(h)
    <3>1. /\ \A g \in Reviewer \ {h} : desk'[g] = desk[g]
          /\ desk'[h].pc = "viewing"
      BY <2>2 DEF OpenTicket, TypeOK, DeskState
    <3> QED BY <1>1, <2>2, <3>1 DEF OpenTicket
  <2>3. CASE ReadForRerun(h)
    <3>1. PICK t \in Ticket :
            \/ Leave(h)
            \/ desk' = [desk EXCEPT ![h] = [Free EXCEPT !.pc = "rerun", !.ticket = t]]
      BY <2>3 DEF ReadForRerun
    <3>2. \A g \in Reviewer \ {h} : desk'[g] = desk[g]
      BY <3>1 DEF Leave, TypeOK
    <3>3. desk'[h].pc \in {"idle", "rerun"}
      <4>1. CASE Leave(h)
        BY <4>1 DEF Leave, Free, TypeOK
      <4>2. CASE desk' = [desk EXCEPT ![h] = [Free EXCEPT !.pc = "rerun", !.ticket = t]]
        BY <4>2 DEF Free, TypeOK
      <4> QED BY <3>1, <4>1, <4>2
    <3> QED BY <1>1, <2>3, <3>2, <3>3 DEF ReadForRerun
  <2>4. CASE ReadForApprove(h)
    <3>1. \A g \in Reviewer \ {h} : desk'[g] = desk[g]
      BY <2>4 DEF ReadForApprove, Goto, Leave, TypeOK
    <3>2. CASE ticket[desk[h].ticket].status = "awaiting_review"
      <4>1. desk[h].ticket \in Ticket /\ desk[h].pc = "viewing"
        BY <2>4 DEF ReadForApprove, TypeOK
      <4>2. ticket[desk[h].ticket].flag # "null"
        BY <3>2, <4>1 DEF FlagKnown, HasFlag
      <4>3. desk'[h].ticket = desk[h].ticket
        BY <2>4, <3>2 DEF ReadForApprove, Goto, TypeOK, DeskState
      <4> QED BY <1>1, <2>4, <3>1, <4>2, <4>3 DEF ReadForApprove
    <3>3. CASE ticket[desk[h].ticket].status # "awaiting_review"
      <4>1. desk'[h].pc = "idle"
        BY <2>4, <3>3 DEF ReadForApprove, Leave, Free, TypeOK
      <4> QED BY <1>1, <2>4, <3>1, <4>1 DEF ReadForApprove
    <3> QED BY <3>2, <3>3
  <2> QED BY <2>1, <2>2, <2>3, <2>4
<1>6. CASE Crash
  BY <1>6 DEF Crash, FlagKnown, HasFlag, Alive, Idle, Free
<1>7. CASE Start \/ ResumeSelect
  BY <1>7 DEF Start, ResumeSelect, FlagKnown, HasFlag, Alive
<1>8. CASE ResumeNext
  <2>1. PICK r \in Run, t \in queue : ~Alive(r) /\ run' = [run EXCEPT ![r] = Scheduled(t, "resume")]
    BY <1>8 DEF ResumeNext
  <2>2. t \in Ticket /\ UNCHANGED <<ticket, desk>>
    BY <1>8 DEF ResumeNext, TypeOK
  <2> QED BY <1>2, <2>1, <2>2
<1> QED BY <1>4, <1>5, <1>6, <1>7, <1>8

(* Until a ticket has a draft its rules have not run: nothing but the flag *)
(* of a failed run is in its row or held by one of its runs.               *)

Plain(row) ==
  \/ row.flag = "null" /\ row.reason = "null"
  \/ row.flag = "yes" /\ row.reason = "failure"

Unruled(s) == run[s].pc \notin {"escalation", "finish"} /\ Plain(run[s].cached)

Undrafted ==
  \A t \in Ticket : drafts[t] = <<>> =>
    /\ Plain(ticket[t])
    /\ \A s \in Run : Alive(s) /\ run[s].ticket = t => Unruled(s)

(* A commit writes both columns of a pair, or neither.                     *)
LEMMA FlushPlain ==
  ASSUME NEW stored, NEW loaded, NEW value, Plain(stored), Plain(loaded), Plain(value)
  PROVE  Plain(Flush(stored, loaded, value))
BY DEF Plain, Flush, Column

(* A run only adds drafts, at the end.                                     *)
LEMMA RunKeepsDrafts ==
  ASSUME TypeOK, NEW r \in Run, RunStep(r), NEW t \in Ticket
  PROVE  /\ Len(drafts'[t]) \in Nat /\ Len(drafts[t]) \in Nat
         /\ Len(drafts'[t]) >= Len(drafts[t])
         /\ \A i \in 1 .. Len(drafts[t]) : drafts'[t][i] = drafts[t][i]
<1> USE DEF RunStep
<1>1. drafts[t] \in Seq(DraftRow)
  BY DEF TypeOK
<1>2. CASE Draft(r)
  <2>1. drafts'[t] = IF t = run[r].ticket THEN Append(drafts[t], Pending) ELSE drafts[t]
    BY <1>2 DEF Draft, TypeOK
  <2> QED BY <1>1, <2>1, ConstantTypes
<1>3. CASE ~Draft(r)
  <2>1. UNCHANGED drafts
    BY <1>3 DEF Begin, MarkInProgress, Triage, Knowledge, OrderLookup, Escalation, Finish,
                NodeFails, Reload, EndFailed
  <2> QED BY <1>1, <2>1
<1> QED BY <1>2, <1>3

LEMMA AppendedIsThere ==
  ASSUME NEW S, NEW s \in Seq(S), NEW e \in S
  PROVE  Append(s, e) # <<>>
<1>1. Len(Append(s, e)) = Len(s) + 1 /\ Len(s) \in Nat
  OBVIOUS
<1>2. Len(<<>>) = 0
  OBVIOUS
<1> QED BY <1>1, <1>2

(* Drafts are never deleted.                                               *)
LEMMA StillUndrafted ==
  ASSUME TypeOK, Next, NEW t \in Ticket, drafts'[t] = <<>>
  PROVE  drafts[t] = <<>>
<1>1. drafts[t] \in Seq(DraftRow)
  BY DEF TypeOK
<1>2. CASE \E r \in Run : RunStep(r)
  <2>1. Len(drafts[t]) \in Nat /\ Len(drafts'[t]) >= Len(drafts[t])
    BY <1>2, RunKeepsDrafts
  <2>2. Len(drafts'[t]) = 0
    OBVIOUS
  <2> QED BY <1>1, <2>1, <2>2
<1>3. CASE \E h \in Reviewer : CommitApprove(h)
  <2>1. PICK h \in Reviewer : CommitApprove(h)
    BY <1>3
  <2>2. PICK text \in {h, Nobody} :
          drafts' = [drafts EXCEPT ![desk[h].ticket][desk[h].draft] =
                       FlushDraft(@, Pending, [approved |-> TRUE, by |-> h, text |-> text])]
    BY <2>1 DEF CommitApprove
  <2>3. \/ drafts'[t] = drafts[t]
        \/ \E value : drafts'[t] = [drafts[t] EXCEPT ![desk[h].draft] = value]
    BY <2>2 DEF TypeOK
  <2>4. Len(drafts'[t]) = Len(drafts[t])
    BY <1>1, <2>3
  <2> QED BY <1>1, <2>4
<1>4. CASE UNCHANGED drafts
  BY <1>4
<1>5. \/ \E r \in Run : RunStep(r)
      \/ \E h \in Reviewer : CommitApprove(h)
      \/ UNCHANGED drafts
  BY DEF Next, RequestStep, ReviewerStep, ScheduleRun, CommitRerun, ReadDraft, CreateTicket,
         OpenTicket, ReadForRerun, ReadForApprove, Crash, Start, ResumeSelect, ResumeNext
<1> QED BY <1>2, <1>3, <1>4, <1>5

(* A step of a run leaves the tickets that are not its own, and their      *)
(* runs, as they were, and holds no more than the failure's flag of its    *)
(* own while that has no draft.                                            *)
LEMMA RunStepUndrafted ==
  ASSUME TypeOK, Undrafted, NEW r \in Run, RunStep(r), NEW t \in Ticket,
         drafts[t] = <<>>, drafts'[t] = <<>>
  PROVE  /\ Plain(ticket'[t])
         /\ \A s \in Run : Alive(s)' /\ run'[s].ticket = t => Unruled(s)'
<1> USE DEF RunStep
<1>0. /\ run[r] \in RunState /\ run[r].cached \in Row
      /\ Plain(ticket[t])
      /\ \A s \in Run : Alive(s) /\ run[s].ticket = t => Unruled(s)
  BY DEF TypeOK, RunState, Undrafted
<1>1. ASSUME UNCHANGED ticket, \A s \in Run \ {r} : run'[s] = run[s],
             run'[r].ticket = t => Unruled(r)'
      PROVE  /\ Plain(ticket'[t])
             /\ \A s \in Run : Alive(s)' /\ run'[s].ticket = t => Unruled(s)'
  BY <1>0, <1>1 DEF Alive, Unruled
<1>2. ASSUME Alive(r), NEW row \in Row, NEW next \in RunPC,
             Commit(r, row, next) \/ CommitAndEnd(r, row),
             run[r].ticket = t => Plain(row) /\ next \notin {"escalation", "finish"}
      PROVE  /\ Plain(ticket'[t])
             /\ \A s \in Run : Alive(s)' /\ run'[s].ticket = t => Unruled(s)'
  <2>1. /\ \A s \in Run \ {r} : run'[s] = run[s]
        /\ run'[r] = Idle \/ (run'[r].cached = row /\ run'[r].pc = next /\ run'[r].ticket = run[r].ticket)
    BY <1>0, <1>2 DEF Commit, CommitAndEnd, TypeOK, RunState
  <2>2. CASE run[r].ticket # t
    <3>1. ticket'[t] = ticket[t]
      BY <1>2, <2>2 DEF Commit, CommitAndEnd, TypeOK
    <3> QED BY <1>0, <2>1, <2>2, <3>1 DEF Alive, Unruled, Idle
  <2>3. CASE run[r].ticket = t
    <3>1. ticket'[t] = Flush(ticket[t], run[r].cached, row)
      BY <1>2, <2>3 DEF Commit, CommitAndEnd, TypeOK
    <3>2. Plain(ticket'[t])
      BY <1>0, <1>2, <2>3, <3>1, FlushPlain DEF Unruled
    <3> QED BY <1>0, <1>2, <2>1, <2>3, <3>2 DEF Alive, Unruled, Idle
  <2> QED BY <2>2, <2>3
<1>3. CASE Begin(r)
  BY <1>0, <1>1, <1>3 DEF Begin, TypeOK, RunState, Unruled
<1>4. CASE MarkInProgress(r)
  <2> DEFINE row == [run[r].cached EXCEPT !.status = "in_progress"]
  <2>1. row \in Row /\ (run[r].ticket = t => Plain(row))
    BY <1>0, <1>4 DEF Row, Status, Plain, Unruled, MarkInProgress, Alive
  <2>2. Commit(r, row, "triage") /\ Alive(r)
    BY <1>4 DEF MarkInProgress, Alive
  <2> HIDE DEF row
  <2> QED BY <1>2, <2>1, <2>2 DEF RunPC, Node
<1>5. CASE Triage(r)
  <2> DEFINE row == [run[r].cached EXCEPT !.triage = "set"]
  <2>1. row \in Row /\ (run[r].ticket = t => Plain(row))
    BY <1>0, <1>5 DEF Row, Plain, Unruled, Triage, Alive
  <2>2. Commit(r, row, "knowledge") /\ Alive(r)
    BY <1>5 DEF Triage, Alive
  <2> HIDE DEF row
  <2> QED BY <1>2, <2>1, <2>2 DEF RunPC, Node
<1>6. CASE Knowledge(r)
  BY <1>0, <1>1, <1>6 DEF Knowledge, Advance, AfterKnowledge, TypeOK, RunState, Alive, Unruled
<1>7. CASE OrderLookup(r)
  BY <1>0, <1>1, <1>7 DEF OrderLookup, Advance, TypeOK, RunState, Alive, Unruled
<1>8. CASE Draft(r)
  <2>1. run[r].ticket # t
    <3>1. ASSUME run[r].ticket = t PROVE FALSE
      <4>1. drafts'[t] = Append(drafts[t], Pending)
        BY <1>8, <3>1 DEF Draft, TypeOK
      <4>2. drafts[t] \in Seq(DraftRow) /\ Pending \in DraftRow
        BY ConstantTypes DEF TypeOK
      <4> QED BY <4>1, <4>2, AppendedIsThere
    <3> QED BY <3>1
  <2> QED BY <1>0, <1>1, <1>8, <2>1 DEF Draft, Advance, TypeOK, RunState
<1>9. CASE Escalation(r)
  <2>1. PICK d \in Decision :
          Commit(r, [run[r].cached EXCEPT !.flag = d.flag, !.reason = d.reason], "finish")
    BY <1>9 DEF Escalation
  <2> DEFINE row == [run[r].cached EXCEPT !.flag = d.flag, !.reason = d.reason]
  <2>2. d.flag \in {"no", "yes"} /\ d.reason \in {"null", "rules"}
    BY DEF Decision
  <2>4. row \in Row
    BY <1>0, <2>2 DEF Row
  <2>5. run[r].ticket # t
    BY <1>0, <1>9 DEF Escalation, Alive, Unruled
  <2>3. Commit(r, row, "finish") /\ Alive(r) /\ "finish" \in RunPC
    BY <1>9, <2>1 DEF Escalation, Alive, RunPC
  <2> HIDE DEF row
  <2> QED BY <1>2, <2>3, <2>4, <2>5
<1>10. CASE Finish(r)
  <2> DEFINE row == [run[r].cached EXCEPT !.status = "awaiting_review"]
  <2>1. row \in Row /\ run[r].ticket # t
    BY <1>0, <1>10 DEF Row, Status, Finish, Alive, Unruled
  <2>2. CommitAndEnd(r, row) /\ Alive(r) /\ "idle" \in RunPC
    BY <1>10 DEF Finish, Alive, RunPC
  <2> HIDE DEF row
  <2> QED BY <1>2, <2>1, <2>2
<1>11. CASE NodeFails(r)
  BY <1>0, <1>1, <1>11 DEF NodeFails, TypeOK, RunState, Unruled, Plain, Absent
<1>12. CASE Reload(r)
  BY <1>0, <1>1, <1>12 DEF Reload, TypeOK, RunState, Unruled
<1>13. CASE EndFailed(r)
  <2> DEFINE row == [run[r].cached EXCEPT
                       !.status = "awaiting_review", !.flag = "yes", !.reason = "failure"]
  <2>1. row \in Row /\ Plain(row)
    BY <1>0 DEF Row, Status, Plain
  <2>2. CommitAndEnd(r, row) /\ Alive(r) /\ "idle" \in RunPC
    BY <1>13 DEF EndFailed, Alive, RunPC
  <2> HIDE DEF row
  <2> QED BY <1>2, <2>1, <2>2
<1> QED
  BY <1>3, <1>4, <1>5, <1>6, <1>7, <1>8, <1>9, <1>10, <1>11, <1>12, <1>13

(* Everything else writes a status only, and starts runs that hold nothing.*)
LEMMA OtherStepUndrafted ==
  ASSUME TypeOK, Undrafted, NEW t \in Ticket, drafts[t] = <<>>,
         \/ \E h \in Reviewer : RequestStep(h) \/ ReviewerStep(h)
         \/ Crash \/ Start \/ ResumeSelect \/ ResumeNext
  PROVE  /\ Plain(ticket'[t])
         /\ \A s \in Run : Alive(s)' /\ run'[s].ticket = t => Unruled(s)'
<1>1. /\ Plain(ticket[t])
      /\ \A s \in Run : Alive(s) /\ run[s].ticket = t => Unruled(s)
  BY DEF Undrafted
<1>2. Plain(ticket'[t])
  <2>1. \/ UNCHANGED ticket
        \/ \E u \in Ticket, status \in Status : ticket' = [ticket EXCEPT ![u].status = status]
    BY DEF RequestStep, ReviewerStep, ScheduleRun, CommitRerun, ReadDraft, CommitApprove,
           CreateTicket, OpenTicket, ReadForRerun, ReadForApprove, Crash, Start, ResumeSelect,
           ResumeNext, Status, TypeOK
  <2>2. ticket'[t].flag = ticket[t].flag /\ ticket'[t].reason = ticket[t].reason
    BY <2>1, StatusWrite
  <2> QED BY <1>1, <2>2 DEF Plain
<1>3. \/ UNCHANGED run
      \/ run' = [s \in Run |-> Idle]
      \/ \E r \in Run, u \in Ticket, origin \in {"request", "resume"} :
           run' = [run EXCEPT ![r] = Scheduled(u, origin)]
  BY DEF RequestStep, ReviewerStep, ScheduleRun, CommitRerun, ReadDraft, CommitApprove,
         CreateTicket, OpenTicket, ReadForRerun, ReadForApprove, Crash, Start, ResumeSelect,
         ResumeNext, TypeOK
<1>4. \A s \in Run : run'[s] = run[s] \/ run'[s] = Idle \/
                     (run'[s].pc = "scheduled" /\ run'[s].cached = Absent)
  BY <1>3 DEF TypeOK, Scheduled
<1> QED BY <1>1, <1>2, <1>4 DEF Alive, Unruled, Plain, Absent, Idle

(* A ticket in the review queue, or resolved, carries a flag; without a    *)
(* draft it is a failed run's. It takes the order of a run's commits, that *)
(* a failed run writes its flag with the status, and that a stale session  *)
(* never writes null over what another has set.                            *)
THEOREM QueueIsFlagged == Spec => []QueueFlagged
<1>1. Init => FlagKnown /\ Undrafted
  BY DEF Init, FlagKnown, HasFlag, Undrafted, Plain, Absent, Alive, Idle, Free
<1>2. TypeOK /\ FlagKnown /\ Undrafted /\ [Next]_vars => (FlagKnown /\ Undrafted)'
  <2> SUFFICES ASSUME TypeOK, FlagKnown, Undrafted, [Next]_vars PROVE (FlagKnown /\ Undrafted)'
    OBVIOUS
  <2>1. CASE Next
    <3>1. FlagKnown'
      BY <2>1, RunStepFlag, OtherStepFlag DEF Next
    <3>2. ASSUME NEW t \in Ticket, drafts'[t] = <<>>
          PROVE  /\ Plain(ticket'[t])
                 /\ \A s \in Run : Alive(s)' /\ run'[s].ticket = t => Unruled(s)'
      <4>1. drafts[t] = <<>>
        BY <2>1, <3>2, StillUndrafted
      <4> QED BY <2>1, <3>2, <4>1, RunStepUndrafted, OtherStepUndrafted DEF Next
    <3>3. Undrafted'
      BY <3>2 DEF Undrafted, Plain
    <3> QED BY <3>1, <3>3
  <2>2. CASE UNCHANGED vars
    BY <2>2 DEF vars, FlagKnown, HasFlag, Undrafted, Plain, Unruled, Alive
  <2> QED BY <2>1, <2>2
<1>3. FlagKnown /\ Undrafted => QueueFlagged
  BY DEF FlagKnown, HasFlag, Undrafted, Plain, QueueFlagged
<1> QED BY <1>1, <1>2, <1>3, TypeCorrect, PTL DEF Spec

-----------------------------------------------------------------------------
(* ResolvedIsApproved. Only an approval resolves, a run never unapproves,  *)
(* and the draft a request is about to approve is still there when it      *)
(* commits: drafts are only added.                                         *)

Approved(t) == \E i \in 1 .. Len(drafts[t]) : drafts[t][i].approved

HoldsDraft(h) == desk[h].draft \in 1 .. Len(drafts[desk[h].ticket])

ApprovalInv ==
  /\ \A t \in Ticket : ticket[t].status = "resolved" => Approved(t)
  /\ \A h \in Reviewer : desk[h].pc = "commit" => HoldsDraft(h)

(* A run commits a status it loaded, or in_progress or awaiting_review.    *)
LEMMA RunDoesNotResolve ==
  ASSUME TypeOK, NEW r \in Run, RunStep(r), NEW t \in Ticket, ticket'[t].status = "resolved"
  PROVE  ticket[t].status = "resolved"
<1> USE DEF RunStep
<1>1. ASSUME Alive(r), NEW row, NEW next, Commit(r, row, next) \/ CommitAndEnd(r, row),
             row.status \in {run[r].cached.status, "in_progress", "awaiting_review"}
      PROVE  ticket[t].status = "resolved"
  <2>1. CASE row.status = run[r].cached.status
    BY <1>1, <2>1, CommitStatus
  <2>2. CASE row.status # run[r].cached.status
    BY <1>1, <2>2, CommitStatus
  <2> QED BY <2>1, <2>2
<1>2. CASE Begin(r) \/ Knowledge(r) \/ OrderLookup(r) \/ Draft(r) \/ NodeFails(r) \/ Reload(r)
  BY <1>2 DEF Begin, Knowledge, OrderLookup, Draft, NodeFails, Reload, Advance
<1>0. run[r].cached \in Row
  BY DEF TypeOK, RunState
<1>3. CASE MarkInProgress(r)
  <2>1. [run[r].cached EXCEPT !.status = "in_progress"].status = "in_progress"
    BY <1>0 DEF Row
  <2> QED BY <1>1, <1>3, <2>1 DEF MarkInProgress, Alive
<1>4. CASE Triage(r)
  <2>1. [run[r].cached EXCEPT !.triage = "set"].status = run[r].cached.status
    BY <1>0 DEF Row
  <2> QED BY <1>1, <1>4, <2>1 DEF Triage, Alive
<1>5. CASE Escalation(r)
  <2>1. PICK d \in Decision :
          Commit(r, [run[r].cached EXCEPT !.flag = d.flag, !.reason = d.reason], "finish")
    BY <1>5 DEF Escalation
  <2>2. [run[r].cached EXCEPT !.flag = d.flag, !.reason = d.reason].status = run[r].cached.status
    BY <1>0 DEF Row
  <2> QED BY <1>1, <1>5, <2>1, <2>2 DEF Escalation, Alive
<1>6. CASE Finish(r)
  <2>1. [run[r].cached EXCEPT !.status = "awaiting_review"].status = "awaiting_review"
    BY <1>0 DEF Row
  <2> QED BY <1>1, <1>6, <2>1 DEF Finish, Alive
<1>7. CASE EndFailed(r)
  <2>1. [run[r].cached EXCEPT !.status = "awaiting_review", !.flag = "yes",
                              !.reason = "failure"].status = "awaiting_review"
    BY <1>0 DEF Row
  <2> QED BY <1>1, <1>7, <2>1 DEF EndFailed, Alive
<1> QED BY <1>2, <1>3, <1>4, <1>5, <1>6, <1>7

LEMMA RunStepApproval ==
  ASSUME TypeOK, ApprovalInv, NEW r \in Run, RunStep(r)
  PROVE  ApprovalInv'
<1>1. UNCHANGED desk
  BY DEF RunStep
<1>2. ASSUME NEW t \in Ticket, ticket'[t].status = "resolved" PROVE Approved(t)'
  <2>1. Approved(t)
    BY <1>2, RunDoesNotResolve DEF ApprovalInv
  <2> QED BY <2>1, RunKeepsDrafts DEF Approved
<1>3. ASSUME NEW h \in Reviewer, desk[h].pc = "commit" PROVE HoldsDraft(h)'
  <2>1. desk[h].ticket \in Ticket /\ HoldsDraft(h)
    BY <1>3 DEF TypeOK, ApprovalInv
  <2>2. /\ Len(drafts'[desk[h].ticket]) \in Nat /\ Len(drafts[desk[h].ticket]) \in Nat
        /\ Len(drafts'[desk[h].ticket]) >= Len(drafts[desk[h].ticket])
    BY <2>1, RunKeepsDrafts
  <2> QED BY <1>1, <2>1, <2>2 DEF HoldsDraft
<1> QED BY <1>1, <1>2, <1>3 DEF ApprovalInv

(* An approval sets a draft that is there, and resolves its ticket.        *)
LEMMA ApproveStepApproval ==
  ASSUME TypeOK, ApprovalInv, NEW h \in Reviewer, CommitApprove(h)
  PROVE  ApprovalInv'
<1> DEFINE t == desk[h].ticket
           i == desk[h].draft
           old == drafts[t][i]
<1>1. t \in Ticket /\ i \in 1 .. Len(drafts[t]) /\ drafts[t] \in Seq(DraftRow)
  BY DEF CommitApprove, TypeOK, ApprovalInv, HoldsDraft
<1>2. PICK text \in {h, Nobody} :
        drafts' = [drafts EXCEPT ![t][i] =
                     FlushDraft(@, Pending, [approved |-> TRUE, by |-> h, text |-> text])]
  BY DEF CommitApprove
<1> DEFINE new == FlushDraft(old, Pending, [approved |-> TRUE, by |-> h, text |-> text])
<1>3. new.approved
  BY DEF FlushDraft, Column, Pending
<1>4. new \in DraftRow
  <2>1. old \in DraftRow
    BY <1>1
  <2>2. [approved |-> TRUE, by |-> h, text |-> text] \in DraftRow
    BY DEF DraftRow
  <2> QED BY <2>1, <2>2, FlushDraftType, ConstantTypes
<1>5. drafts'[t] = [drafts[t] EXCEPT ![i] = new]
  BY <1>1, <1>2 DEF TypeOK
<1>6. Len(drafts'[t]) = Len(drafts[t]) /\ drafts'[t][i] = new
  BY <1>1, <1>4, <1>5, UpdateType
<1>7. \A u \in Ticket \ {t} : drafts'[u] = drafts[u] /\ ticket'[u] = ticket[u]
  BY <1>1, <1>2 DEF TypeOK, CommitApprove
<1>8. \E j \in 1 .. Len(drafts'[t]) : drafts'[t][j].approved
  BY <1>1, <1>3, <1>6
<1>9. \A u \in Ticket : ticket'[u].status = "resolved" => Approved(u)'
  BY <1>7, <1>8 DEF ApprovalInv, Approved
<1>10. ASSUME NEW g \in Reviewer, desk'[g].pc = "commit" PROVE HoldsDraft(g)'
  <2>1. g # h /\ desk'[g] = desk[g]
    BY <1>10 DEF CommitApprove, Leave, Free, TypeOK
  <2>2. desk[g].ticket \in Ticket /\ HoldsDraft(g)
    BY <1>10, <2>1 DEF ApprovalInv, TypeOK
  <2>3. Len(drafts'[desk[g].ticket]) = Len(drafts[desk[g].ticket])
    BY <1>6, <1>7, <2>2
  <2> QED BY <2>1, <2>2, <2>3 DEF HoldsDraft
<1> QED BY <1>9, <1>10 DEF ApprovalInv

LEMMA ReadDraftApproval ==
  ASSUME TypeOK, ApprovalInv, NEW h \in Reviewer, ReadDraft(h)
  PROVE  ApprovalInv'
<1> DEFINE t == desk[h].ticket
           i == Newest(t)
<1>1. t \in Ticket /\ drafts[t] \in Seq(DraftRow) /\ UNCHANGED <<ticket, drafts>>
  BY DEF ReadDraft, TypeOK
<1>2. \A g \in Reviewer \ {h} : desk'[g] = desk[g]
  BY DEF ReadDraft, Leave, TypeOK
<1>3. CASE Leave(h)
  BY <1>1, <1>2, <1>3 DEF Leave, Free, TypeOK, ApprovalInv, Approved, HoldsDraft
<1>4. CASE i # 0 /\ desk' = [desk EXCEPT ![h].pc = "commit", ![h].draft = i]
  <2>1. i \in 1 .. Len(drafts[t])
    BY <1>1, <1>4 DEF Newest
  <2>2. desk'[h].ticket = t /\ desk'[h].draft = i
    BY <1>4 DEF TypeOK, DeskState
  <2>3. HoldsDraft(h)'
    BY <1>1, <2>1, <2>2 DEF HoldsDraft
  <2> QED BY <1>1, <1>2, <2>3 DEF ApprovalInv, Approved, HoldsDraft
<1> QED BY <1>3, <1>4 DEF ReadDraft

(* Every other step leaves the drafts, resolves nothing, and begins no     *)
(* approval's commit.                                                      *)
LEMMA OtherStepApproval ==
  ASSUME TypeOK, ApprovalInv,
         \/ \E h \in Reviewer : ScheduleRun(h) \/ CommitRerun(h) \/ ReviewerStep(h)
         \/ Crash \/ Start \/ ResumeSelect \/ ResumeNext
  PROVE  ApprovalInv'
<1>2. ASSUME NEW h \in Reviewer, ScheduleRun(h) \/ CommitRerun(h) PROVE ApprovalInv'
  <2>1. UNCHANGED drafts /\ desk[h].ticket \in Ticket
    BY <1>2 DEF ScheduleRun, CommitRerun, TypeOK
  <2>2. \A t \in Ticket : ticket'[t].status = "resolved" => ticket[t].status = "resolved"
    BY <1>2, <2>1, StatusWrite DEF ScheduleRun, CommitRerun, Status
  <2>3. \A g \in Reviewer : desk'[g].pc = "commit" => desk'[g] = desk[g]
    BY <1>2 DEF ScheduleRun, CommitRerun, Goto, Leave, Free, TypeOK, DeskState
  <2> QED BY <2>1, <2>2, <2>3 DEF ApprovalInv, Approved, HoldsDraft
<1>3. ASSUME NEW h \in Reviewer, ReviewerStep(h) PROVE ApprovalInv'
  <2> USE <1>3 DEF ReviewerStep
  <2>1. CASE CreateTicket(h)
    <3>0. PICK u \in Ticket : ticket' = [ticket EXCEPT ![u].status = "new"]
      BY <2>1 DEF CreateTicket
    <3>1. UNCHANGED drafts /\ \A t \in Ticket : ticket'[t].status = "resolved" => ticket[t].status = "resolved"
      BY <2>1, <3>0, StatusWrite DEF CreateTicket, Status
    <3>2. PICK t \in Ticket : desk' = [desk EXCEPT ![h].pc = "owes_run", ![h].ticket = t]
      BY <2>1 DEF CreateTicket
    <3>3. \A g \in Reviewer : desk'[g].pc = "commit" => desk'[g] = desk[g]
      BY <3>2 DEF TypeOK, DeskState
    <3> QED BY <3>1, <3>3 DEF ApprovalInv, Approved, HoldsDraft
  <2>2. CASE OpenTicket(h)
    <3>1. PICK t \in Ticket : desk' = [desk EXCEPT ![h].pc = "viewing", ![h].ticket = t,
                                                  ![h].seen = Len(drafts[t])]
      BY <2>2 DEF OpenTicket
    <3>2. \A g \in Reviewer : desk'[g].pc = "commit" => desk'[g] = desk[g]
      BY <3>1 DEF TypeOK, DeskState
    <3> QED BY <2>2, <3>2 DEF OpenTicket, ApprovalInv, Approved, HoldsDraft
  <2>3. CASE ReadForRerun(h)
    <3>1. PICK t \in Ticket :
            \/ Leave(h)
            \/ desk' = [desk EXCEPT ![h] = [Free EXCEPT !.pc = "rerun", !.ticket = t]]
      BY <2>3 DEF ReadForRerun
    <3>2. \A g \in Reviewer \ {h} : desk'[g] = desk[g]
      BY <3>1 DEF Leave, TypeOK
    <3>3. desk'[h].pc # "commit"
      <4>1. CASE Leave(h)
        BY <4>1 DEF Leave, Free, TypeOK
      <4>2. CASE desk' = [desk EXCEPT ![h] = [Free EXCEPT !.pc = "rerun", !.ticket = t]]
        BY <4>2 DEF Free, TypeOK
      <4> QED BY <3>1, <4>1, <4>2
    <3> QED BY <2>3, <3>2, <3>3 DEF ReadForRerun, ApprovalInv, Approved, HoldsDraft
  <2>4. CASE ReadForApprove(h)
    <3>1. \A g \in Reviewer : desk'[g].pc = "commit" => desk'[g] = desk[g]
      BY <2>4 DEF ReadForApprove, Goto, Leave, Free, TypeOK, DeskState
    <3> QED BY <2>4, <3>1 DEF ReadForApprove, ApprovalInv, Approved, HoldsDraft
  <2> QED BY <2>1, <2>2, <2>3, <2>4
<1>4. CASE Crash \/ Start \/ ResumeSelect \/ ResumeNext
  BY <1>4 DEF Crash, Start, ResumeSelect, ResumeNext, Free, ApprovalInv, Approved, HoldsDraft
<1> QED BY <1>2, <1>3, <1>4

(* A resolved ticket always has an approved draft, whatever approvals,     *)
(* edits, reruns, parallel runs and crashes interleave: the commit that    *)
(* writes resolved writes the approval of a draft that exists, and no      *)
(* session that loaded an older row ever takes an approval back.           *)
THEOREM ResolvedHasApproval == Spec => []ResolvedIsApproved
<1>1. Init => ApprovalInv
  BY DEF Init, ApprovalInv, Absent, Free
<1>2. TypeOK /\ ApprovalInv /\ [Next]_vars => ApprovalInv'
  <2> SUFFICES ASSUME TypeOK, ApprovalInv, [Next]_vars PROVE ApprovalInv'
    OBVIOUS
  <2>1. ASSUME NEW h \in Reviewer, RequestStep(h) PROVE ApprovalInv'
    BY <2>1, ReadDraftApproval, ApproveStepApproval, OtherStepApproval DEF RequestStep
  <2>2. CASE Next
    BY <2>1, <2>2, RunStepApproval, OtherStepApproval DEF Next
  <2>3. CASE UNCHANGED vars
    BY <2>3 DEF vars, ApprovalInv, Approved, HoldsDraft
  <2> QED BY <2>2, <2>3
<1>3. ApprovalInv => ResolvedIsApproved
  BY DEF ApprovalInv, Approved, ResolvedIsApproved
<1> QED BY <1>1, <1>2, <1>3, TypeCorrect, PTL DEF Spec

-----------------------------------------------------------------------------
(* ReviewDesk: a ticket is in one pair of hands at a time, and so nothing  *)
(* that a session or a page has loaded goes stale.                         *)

(* In whose hands a ticket is while it is unfinished.                      *)
InHands(t) == Running(t) \/ RunOwed(t) \/ t \in queue

(* Before the resume task has read its list nothing runs, and no request   *)
(* is served.                                                              *)
Quiet ==
  api # "up" => /\ queue = {}
                /\ \A r \in Run : ~Alive(r)
                /\ \A h \in Reviewer : desk[h].pc \in {"idle", "viewing"}

OneAtTheDesk ==
  \A g, h \in Reviewer : desk[g].pc # "idle" /\ desk[h].pc # "idle" => g = h

(* What someone works on is unfinished, and what a reviewer has before him *)
(* waits for him.                                                          *)
WorkIsUnfinished == \A t \in Ticket : InHands(t) => ticket[t].status \in Unfinished

DeskIsWaiting ==
  \A h \in Reviewer : desk[h].pc \in {"viewing", "rerun", "approve", "commit"} =>
    ticket[desk[h].ticket].status = "awaiting_review"

(* A session holds what the row holds, and the row is in progress from the *)
(* first commit of the run to the last.                                    *)
Fresh(r) ==
  /\ run[r].pc \notin {"idle", "scheduled", "failed"} => run[r].cached = ticket[run[r].ticket]
  /\ run[r].pc \in Node \cup {"finish", "failed", "reloaded"} =>
       ticket[run[r].ticket].status = "in_progress"

SessionsAreFresh == \A r \in Run : Fresh(r)

(* A page shows the newest draft, and the request approves that one.       *)
PagesAreFresh ==
  \A h \in Reviewer :
    /\ desk[h].pc \in {"viewing", "approve", "commit"} =>
         desk[h].seen = Len(drafts[desk[h].ticket])
    /\ desk[h].pc = "commit" => desk[h].draft = desk[h].seen /\ desk[h].seen # 0

(* A draft that is not the answer is as the drafter wrote it, and only a   *)
(* resolved ticket has an answer.                                          *)
DraftsAreOpen ==
  \A t \in Ticket : \A i \in 1 .. Len(drafts[t]) :
    IF drafts[t][i].approved THEN ticket[t].status = "resolved" ELSE drafts[t][i] = Pending

Hands == Quiet /\ OneAtTheDesk /\ OneRunPerTicket /\ WorkIsUnfinished /\ DeskIsWaiting /\ SessionsAreFresh

Answers == PagesAreFresh /\ DraftsAreOpen /\ OneApproval /\ EditIsSigned

DeskInv == TypeOK /\ Hands /\ ReasonMatchesFlag /\ Answers

-----------------------------------------------------------------------------
(* What a run does to the ticket in its hands. *)

(* A commit over what the session had loaded leaves what the session has.  *)
LEMMA FlushFresh ==
  ASSUME NEW stored \in Row, NEW value \in Row
  PROVE  Flush(stored, stored, value) = value
  BY DEF Flush, Column, Row

LEMMA CommitFresh ==
  ASSUME TypeOK, NEW r \in Run, Alive(r), run[r].cached = ticket[run[r].ticket],
         NEW row \in Row, NEW next, Commit(r, row, next)
  PROVE  /\ ticket'[run[r].ticket] = row
         /\ \A u \in Ticket \ {run[r].ticket} : ticket'[u] = ticket[u]
         /\ run'[r].pc = next /\ run'[r].ticket = run[r].ticket /\ run'[r].cached = row
         /\ \A s \in Run \ {r} : run'[s] = run[s]
<1>1. run[r].ticket \in Ticket /\ ticket[run[r].ticket] \in Row
  BY DEF TypeOK
<1>2. ticket' = [ticket EXCEPT ![run[r].ticket] = row]
  BY <1>1, FlushFresh DEF Commit
<1>3. run' = [run EXCEPT ![r].cached = row, ![r].pc = next]
  BY DEF Commit
<1>4. run'[r].pc = next /\ run'[r].ticket = run[r].ticket /\ run'[r].cached = row
  BY <1>3 DEF TypeOK, RunState
<1>5. \A s \in Run \ {r} : run'[s] = run[s]
  BY <1>3 DEF TypeOK
<1> QED BY <1>1, <1>2, <1>4, <1>5 DEF TypeOK

LEMMA EndFresh ==
  ASSUME TypeOK, NEW r \in Run, Alive(r), run[r].cached = ticket[run[r].ticket],
         NEW row \in Row, CommitAndEnd(r, row)
  PROVE  /\ ticket'[run[r].ticket] = row
         /\ \A u \in Ticket \ {run[r].ticket} : ticket'[u] = ticket[u]
         /\ run'[r] = Idle
         /\ \A s \in Run \ {r} : run'[s] = run[s]
<1>1. run[r].ticket \in Ticket /\ ticket[run[r].ticket] \in Row
  BY DEF TypeOK
<1>2. ticket' = [ticket EXCEPT ![run[r].ticket] = row]
  BY <1>1, FlushFresh DEF CommitAndEnd
<1> QED BY <1>1, <1>2 DEF CommitAndEnd, TypeOK

Consistent(row) == (row.reason # "null") <=> (row.flag = "yes")

(* A step of run r works on its ticket only: it goes on, or hands the      *)
(* ticket to the reviewers.                                                *)
Goes(r) ==
  /\ run'[r].pc # "idle" /\ run'[r].ticket = run[r].ticket
  /\ ticket'[run[r].ticket].status \in Unfinished /\ Fresh(r)'

Delivers(r) ==
  run'[r] = Idle /\ ticket'[run[r].ticket].status = "awaiting_review"

WorksOnItsOwn(r) ==
  /\ UNCHANGED <<desk, api, queue>>
  /\ \A s \in Run \ {r} : run'[s] = run[s]
  /\ \A u \in Ticket \ {run[r].ticket} : ticket'[u] = ticket[u] /\ drafts'[u] = drafts[u]
  /\ drafts'[run[r].ticket] \in {drafts[run[r].ticket], Append(drafts[run[r].ticket], Pending)}
  /\ Consistent(ticket'[run[r].ticket])
  /\ Goes(r) \/ Delivers(r)

LEMMA RunWorksOnItsOwn ==
  ASSUME TypeOK, SessionsAreFresh, WorkIsUnfinished, ReasonMatchesFlag, NEW r \in Run, RunStep(r)
  PROVE  /\ Alive(r) /\ run[r].ticket \in Ticket /\ ticket[run[r].ticket].status \in Unfinished
         /\ WorksOnItsOwn(r)
<1> DEFINE t == run[r].ticket
<1>1. Alive(r) /\ UNCHANGED <<desk, api, queue>>
  BY DEF RunStep, Alive, Begin, MarkInProgress, Triage, Knowledge, OrderLookup, Draft, Escalation,
         Finish, NodeFails, Reload, EndFailed, Node
<1>2. /\ t \in Ticket /\ ticket[t] \in Row /\ run[r] \in RunState /\ run[r].cached \in Row
      /\ drafts \in [Ticket -> Seq(DraftRow)] /\ run \in [Run -> RunState]
  BY <1>1 DEF TypeOK, RunState
<1>3. ticket[t].status \in Unfinished
  BY <1>1, <1>2 DEF WorkIsUnfinished, InHands, Running
<1>4. Consistent(ticket[t])
  BY <1>2 DEF ReasonMatchesFlag, Consistent
<1>5. Fresh(r)
  BY DEF SessionsAreFresh
(* A commit in the graph. *)
<1>6. ASSUME NEW row \in Row, NEW next \in Node \cup {"finish"}, Commit(r, row, next), UNCHANGED drafts,
             run[r].pc \notin {"scheduled", "failed"}, row.status = "in_progress", Consistent(row)
      PROVE  WorksOnItsOwn(r)
  <2>1. run[r].cached = ticket[t]
    BY <1>1, <1>5, <1>6 DEF Fresh, Alive
  <2>2. /\ ticket'[t] = row /\ \A u \in Ticket \ {t} : ticket'[u] = ticket[u]
        /\ run'[r].pc = next /\ run'[r].ticket = t /\ run'[r].cached = row
        /\ \A s \in Run \ {r} : run'[s] = run[s]
    BY <1>1, <1>6, <2>1, CommitFresh
  <2>3. Goes(r)
    BY <1>6, <2>2 DEF Goes, Fresh, Unfinished, Node
  <2> QED BY <1>1, <1>6, <2>2, <2>3 DEF WorksOnItsOwn
(* The commit that ends a run. *)
<1>7. ASSUME NEW row \in Row, CommitAndEnd(r, row), UNCHANGED drafts,
             run[r].pc \notin {"scheduled", "failed"}, row.status = "awaiting_review", Consistent(row)
      PROVE  WorksOnItsOwn(r)
  <2>1. run[r].cached = ticket[t]
    BY <1>1, <1>5, <1>7 DEF Fresh, Alive
  <2>2. /\ ticket'[t] = row /\ \A u \in Ticket \ {t} : ticket'[u] = ticket[u]
        /\ run'[r] = Idle /\ \A s \in Run \ {r} : run'[s] = run[s]
    BY <1>1, <1>7, <2>1, EndFresh
  <2> QED BY <1>1, <1>7, <2>2 DEF WorksOnItsOwn, Delivers
(* A step that leaves the row alone. *)
<1>8. ASSUME UNCHANGED ticket, run'[r].pc \in RunPC \ {"idle"}, run'[r].ticket = t, Fresh(r)',
             \A s \in Run \ {r} : run'[s] = run[s],
             \A u \in Ticket \ {t} : drafts'[u] = drafts[u],
             drafts'[t] \in {drafts[t], Append(drafts[t], Pending)}
      PROVE  WorksOnItsOwn(r)
  BY <1>1, <1>3, <1>4, <1>8 DEF WorksOnItsOwn, Goes
<1>9. WorksOnItsOwn(r)
  <2>1. CASE Begin(r)
    <3>1. /\ run'[r].pc = "started" /\ run'[r].ticket = t /\ run'[r].cached = ticket[t]
          /\ \A s \in Run \ {r} : run'[s] = run[s]
      BY <1>2, <2>1 DEF Begin, RunState
    <3>2. UNCHANGED <<ticket, drafts>>
      BY <2>1 DEF Begin
    <3> QED BY <3>1, <3>2, <1>8 DEF Fresh, RunPC, Node
  <2>2. CASE MarkInProgress(r)
    <3>1. run[r].cached = ticket[t] /\ run[r].pc = "started"
      BY <1>5, <2>2 DEF MarkInProgress, Fresh
    <3> DEFINE row == [run[r].cached EXCEPT !.status = "in_progress"]
    <3>2. row \in Row /\ row.status = "in_progress" /\ Consistent(row)
      BY <1>2, <1>4, <3>1 DEF Row, Status, Consistent
    <3>3. Commit(r, row, "triage") /\ UNCHANGED drafts
      BY <2>2 DEF MarkInProgress
    <3> HIDE DEF row
    <3> QED BY <3>1, <3>2, <3>3, <1>6 DEF Node
  <2>3. CASE Triage(r)
    <3>1. run[r].cached = ticket[t] /\ run[r].pc = "triage" /\ ticket[t].status = "in_progress"
      BY <1>5, <2>3 DEF Triage, Fresh, Node
    <3> DEFINE row == [run[r].cached EXCEPT !.triage = "set"]
    <3>2. row \in Row /\ row.status = "in_progress" /\ Consistent(row)
      BY <1>2, <1>4, <3>1 DEF Row, Consistent
    <3>3. Commit(r, row, "knowledge") /\ UNCHANGED drafts
      BY <2>3 DEF Triage
    <3> HIDE DEF row
    <3> QED BY <3>1, <3>2, <3>3, <1>6 DEF Node
  <2>4. CASE Knowledge(r) \/ OrderLookup(r) \/ Draft(r)
    <3>1. PICK next \in Node : run' = [run EXCEPT ![r].pc = next] /\ UNCHANGED ticket
      BY <2>4 DEF Knowledge, OrderLookup, Draft, Advance, AfterKnowledge, Node
    <3>2. run[r].pc \in Node
      BY <2>4 DEF Knowledge, OrderLookup, Draft, Node
    <3>3. run[r].cached = ticket[t] /\ ticket[t].status = "in_progress"
      BY <1>5, <3>2 DEF Fresh, Node
    <3>4. /\ run'[r].pc = next /\ run'[r].ticket = t /\ run'[r].cached = ticket[t]
          /\ \A s \in Run \ {r} : run'[s] = run[s]
      BY <1>2, <3>1, <3>3 DEF RunState
    <3>5. Fresh(r)' /\ next \in RunPC \ {"idle"}
      BY <3>1, <3>3, <3>4 DEF Fresh, RunPC, Node
    <3>6. /\ \A u \in Ticket \ {t} : drafts'[u] = drafts[u]
          /\ drafts'[t] \in {drafts[t], Append(drafts[t], Pending)}
      BY <1>2, <2>4 DEF Knowledge, OrderLookup, Draft
    <3> QED BY <3>1, <3>4, <3>5, <3>6, <1>8
  <2>5. CASE Escalation(r)
    <3>1. PICK d \in Decision :
            Commit(r, [run[r].cached EXCEPT !.flag = d.flag, !.reason = d.reason], "finish")
      BY <2>5 DEF Escalation
    <3>2. run[r].cached = ticket[t] /\ run[r].pc = "escalation" /\ ticket[t].status = "in_progress"
      BY <1>5, <2>5 DEF Escalation, Fresh, Node
    <3> DEFINE row == [run[r].cached EXCEPT !.flag = d.flag, !.reason = d.reason]
    <3>3. (d.flag = "yes" /\ d.reason = "rules") \/ (d.flag = "no" /\ d.reason = "null")
      BY DEF Decision
    <3>4. row \in Row /\ row.status = "in_progress" /\ Consistent(row)
      BY <1>2, <3>2, <3>3 DEF Row, Consistent
    <3>5. UNCHANGED drafts
      BY <2>5 DEF Escalation
    <3> HIDE DEF row
    <3> QED BY <3>1, <3>2, <3>4, <3>5, <1>6 DEF row
  <2>6. CASE Finish(r)
    <3>1. run[r].cached = ticket[t] /\ run[r].pc = "finish"
      BY <1>5, <2>6 DEF Finish, Fresh
    <3> DEFINE row == [run[r].cached EXCEPT !.status = "awaiting_review"]
    <3>2. row \in Row /\ row.status = "awaiting_review" /\ Consistent(row)
      BY <1>2, <1>4, <3>1 DEF Row, Status, Consistent
    <3>3. CommitAndEnd(r, row) /\ UNCHANGED drafts
      BY <2>6 DEF Finish
    <3> HIDE DEF row
    <3> QED BY <3>1, <3>2, <3>3, <1>7
  <2>7. CASE NodeFails(r)
    <3>1. /\ run'[r].pc = "failed" /\ run'[r].ticket = t
          /\ \A s \in Run \ {r} : run'[s] = run[s]
      BY <1>2, <2>7 DEF NodeFails, RunState
    <3>2. ticket[t].status = "in_progress" /\ UNCHANGED <<ticket, drafts>>
      BY <1>5, <2>7 DEF NodeFails, Fresh
    <3> QED BY <3>1, <3>2, <1>8 DEF Fresh, RunPC
  <2>8. CASE Reload(r)
    <3>1. /\ run'[r].pc = "reloaded" /\ run'[r].ticket = t /\ run'[r].cached = ticket[t]
          /\ \A s \in Run \ {r} : run'[s] = run[s]
      BY <1>2, <2>8 DEF Reload, RunState
    <3>2. ticket[t].status = "in_progress" /\ UNCHANGED <<ticket, drafts>>
      BY <1>5, <2>8 DEF Reload, Fresh
    <3> QED BY <3>1, <3>2, <1>8 DEF Fresh, RunPC
  <2>9. CASE EndFailed(r)
    <3> DEFINE row == [run[r].cached EXCEPT !.status = "awaiting_review", !.flag = "yes", !.reason = "failure"]
    <3>1. row \in Row /\ row.status = "awaiting_review" /\ Consistent(row)
      BY <1>2 DEF Row, Status, Consistent
    <3>2. CommitAndEnd(r, row) /\ UNCHANGED drafts /\ run[r].pc = "reloaded"
      BY <2>9 DEF EndFailed
    <3> HIDE DEF row
    <3> QED BY <3>1, <3>2, <1>7
  <2> QED BY <2>1, <2>2, <2>3, <2>4, <2>5, <2>6, <2>7, <2>8, <2>9 DEF RunStep
<1> QED BY <1>1, <1>2, <1>3, <1>9

-----------------------------------------------------------------------------
(* A step of a run keeps the invariant. *)

LEMMA RunStepHands ==
  ASSUME DeskInv, NEW r \in Run, RunStep(r)
  PROVE  Hands'
<1> USE DEF DeskInv, Hands
<1>0. PICK t \in Ticket : t = run[r].ticket
  BY RunWorksOnItsOwn
<1>1. Alive(r) /\ ticket[t].status \in Unfinished /\ WorksOnItsOwn(r)
  BY <1>0, RunWorksOnItsOwn
<1>2. /\ UNCHANGED <<desk, api, queue>> /\ \A s \in Run \ {r} : run'[s] = run[s]
      /\ \A u \in Ticket \ {t} : ticket'[u] = ticket[u]
      /\ Goes(r) \/ Delivers(r)
  BY <1>0, <1>1 DEF WorksOnItsOwn
<1>3. ASSUME NEW s \in Run, Alive(s)' PROVE Alive(s) /\ run'[s].ticket = run[s].ticket
  BY <1>0, <1>1, <1>2, <1>3 DEF Goes, Delivers, Alive, Idle
<1>4. \A u \in Ticket : (Running(u)' => Running(u)) /\ (RunOwed(u)' <=> RunOwed(u))
  BY <1>2, <1>3 DEF Running, RunOwed
<1>5. \A s \in Run \ {r} : Alive(s) => run[s].ticket # t
  BY <1>0, <1>1 DEF OneRunPerTicket
<1>6. Quiet' /\ OneAtTheDesk'
  BY <1>0, <1>1, <1>2 DEF Quiet, OneAtTheDesk
<1>7. OneRunPerTicket'
  <2>1. \A u \in Ticket, s, o \in Run :
          Alive(s)' /\ Alive(o)' /\ run'[s].ticket = u /\ run'[o].ticket = u => s = o
    BY <1>3 DEF OneRunPerTicket
  <2> QED BY <1>2, <1>4, <2>1 DEF OneRunPerTicket
<1>8. WorkIsUnfinished'
  <2> SUFFICES ASSUME NEW u \in Ticket, InHands(u)' PROVE ticket'[u].status \in Unfinished
    BY DEF WorkIsUnfinished, Unfinished
  <2>1. InHands(u)
    BY <1>2, <1>4 DEF InHands
  <2>2. CASE u # t
    BY <1>2, <2>1, <2>2 DEF WorkIsUnfinished
  <2>3. CASE u = t
    <3>1. ~RunOwed(t)' /\ t \notin queue'
      BY <1>0, <1>1, <1>2, <1>4 DEF OneRunPerTicket, Running
    <3>2. Running(t)'
      BY <2>3, <3>1 DEF InHands
    <3>3. PICK s \in Run : Alive(s)' /\ run'[s].ticket = t
      BY <3>2 DEF Running
    <3>4. s = r
      BY <1>2, <1>3, <1>5, <3>3
    <3> QED BY <1>0, <1>2, <2>3, <3>3, <3>4 DEF Goes, Delivers, Alive, Idle
  <2> QED BY <2>2, <2>3
<1>9. DeskIsWaiting'
  <2> SUFFICES ASSUME NEW h \in Reviewer, desk[h].pc \in {"viewing", "rerun", "approve", "commit"}
               PROVE  ticket'[desk[h].ticket].status = "awaiting_review"
    BY <1>2 DEF DeskIsWaiting
  <2>1. desk[h].ticket \in Ticket \ {t}
    BY <1>0, <1>1 DEF TypeOK, DeskIsWaiting, Unfinished
  <2> QED BY <1>2, <2>1 DEF DeskIsWaiting
<1>10. SessionsAreFresh'
  <2> SUFFICES ASSUME NEW s \in Run PROVE Fresh(s)'
    BY DEF SessionsAreFresh
  <2>1. CASE s = r
    BY <1>0, <1>2, <2>1 DEF Goes, Delivers, Fresh, Idle, Node
  <2>2. CASE s # r /\ Alive(s)
    <3>1. run'[s] = run[s] /\ run[s].ticket \in Ticket \ {t}
      BY <1>0, <1>2, <1>5, <2>2 DEF TypeOK
    <3> QED BY <1>2, <3>1 DEF Fresh, SessionsAreFresh
  <2>3. CASE s # r /\ ~Alive(s)
    BY <1>2, <2>3 DEF Fresh, Alive, Node
  <2> QED BY <2>1, <2>2, <2>3
<1> QED BY <1>6, <1>7, <1>8, <1>9, <1>10

LEMMA RunStepAnswers ==
  ASSUME DeskInv, NEW r \in Run, RunStep(r)
  PROVE  ReasonMatchesFlag' /\ Answers'
<1> USE DEF DeskInv, Hands, Answers
<1> DEFINE t == run[r].ticket
<1>1. t \in Ticket /\ ticket[t].status \in Unfinished /\ WorksOnItsOwn(r)
  BY RunWorksOnItsOwn
<1>2. /\ UNCHANGED desk /\ Consistent(ticket'[t])
      /\ \A u \in Ticket \ {t} : ticket'[u] = ticket[u] /\ drafts'[u] = drafts[u]
      /\ drafts'[t] \in {drafts[t], Append(drafts[t], Pending)}
  BY <1>1 DEF WorksOnItsOwn
<1>3. ReasonMatchesFlag'
  BY <1>2 DEF ReasonMatchesFlag, Consistent
<1>4. PagesAreFresh'
  <2> SUFFICES ASSUME NEW h \in Reviewer, desk[h].pc \in {"viewing", "approve", "commit"}
               PROVE  drafts'[desk[h].ticket] = drafts[desk[h].ticket]
    BY <1>2 DEF PagesAreFresh
  <2>1. desk[h].ticket \in Ticket \ {t}
    BY <1>1 DEF TypeOK, DeskIsWaiting, Unfinished
  <2> QED BY <1>2, <2>1
<1>5. \A i \in 1 .. Len(drafts'[t]) : drafts'[t][i] = Pending
  <2>1. \A i \in 1 .. Len(drafts[t]) : drafts[t][i] = Pending
    BY <1>1 DEF DraftsAreOpen, Unfinished
  <2>2. drafts[t] \in Seq(DraftRow)
    BY <1>1 DEF TypeOK
  <2>3. CASE drafts'[t] = drafts[t]
    BY <2>1, <2>3
  <2>4. CASE drafts'[t] = Append(drafts[t], Pending)
    BY <2>1, <2>2, <2>4, ConstantTypes
  <2> QED BY <1>2, <2>3, <2>4
<1>6. ~Pending.approved /\ Pending.text = Nobody
  BY DEF Pending
<1>7. ASSUME NEW u \in Ticket
      PROVE  (drafts'[u] = drafts[u] /\ ticket'[u] = ticket[u])
             \/ \A i \in 1 .. Len(drafts'[u]) : drafts'[u][i] = Pending
  BY <1>2, <1>5
<1>8. DraftsAreOpen' /\ OneApproval' /\ EditIsSigned'
  BY <1>6, <1>7 DEF DraftsAreOpen, OneApproval, EditIsSigned
<1> QED BY <1>3, <1>4, <1>8

-----------------------------------------------------------------------------
(* The reviewers' steps. *)

(* Nothing but a request's place changes.                                  *)
LEMMA DeskMoves ==
  ASSUME DeskInv, NEW h \in Reviewer, NEW d, desk' = [desk EXCEPT ![h] = d],
         UNCHANGED <<ticket, drafts, run, api, queue>>, api = "up",
         desk[h].pc # "owes_run", d.pc # "owes_run",
         d.pc # "idle" => Alone(h) \/ desk[h].pc # "idle",
         d.pc \in {"viewing", "rerun", "approve", "commit"} => ticket[d.ticket].status = "awaiting_review",
         d.pc \in {"viewing", "approve", "commit"} => d.seen = Len(drafts[d.ticket]),
         d.pc = "commit" => d.draft = d.seen /\ d.seen # 0
  PROVE  Hands' /\ ReasonMatchesFlag' /\ Answers'
<1> USE DEF DeskInv, Hands, Answers
<1>1. desk'[h] = d /\ \A g \in Reviewer \ {h} : desk'[g] = desk[g]
  BY DEF TypeOK
<1>2. \A u \in Ticket : /\ RunOwed(u)' <=> RunOwed(u)
                        /\ Running(u)' <=> Running(u)
  BY <1>1 DEF RunOwed, Running, Alive
<1>3. Quiet' /\ OneAtTheDesk'
  BY <1>1 DEF Quiet, OneAtTheDesk, Alone
<1>4. OneRunPerTicket' /\ WorkIsUnfinished'
  BY <1>1, <1>2 DEF OneRunPerTicket, WorkIsUnfinished, InHands, Alive
<1>5. DeskIsWaiting' /\ PagesAreFresh'
  BY <1>1 DEF DeskIsWaiting, PagesAreFresh
<1>6. SessionsAreFresh' /\ ReasonMatchesFlag' /\ DraftsAreOpen' /\ OneApproval' /\ EditIsSigned'
  BY DEF SessionsAreFresh, Fresh, ReasonMatchesFlag, DraftsAreOpen, OneApproval, EditIsSigned
<1> QED BY <1>3, <1>4, <1>5, <1>6

(* Writing a status leaves the reasons, the drafts and the pages as they   *)
(* are, unless the ticket was resolved.                                    *)
LEMMA StatusKeepsAnswers ==
  ASSUME DeskInv, NEW t \in Ticket, NEW status \in Status, ticket[t].status # "resolved",
         ticket' = [ticket EXCEPT ![t].status = status], UNCHANGED drafts
  PROVE  ReasonMatchesFlag' /\ DraftsAreOpen' /\ OneApproval' /\ EditIsSigned'
<1> USE DEF DeskInv, Answers
<1>1. \A u \in Ticket : /\ ticket'[u].flag = ticket[u].flag /\ ticket'[u].reason = ticket[u].reason
                        /\ ticket[u].status = "resolved" => ticket'[u].status = "resolved"
  BY DEF TypeOK, Row
<1>2. ReasonMatchesFlag'
  BY <1>1 DEF ReasonMatchesFlag
<1>3. DraftsAreOpen' /\ OneApproval' /\ EditIsSigned'
  BY <1>1 DEF DraftsAreOpen, OneApproval, EditIsSigned
<1> QED BY <1>2, <1>3

(* A request that has put a ticket to work owes it a run.                  *)
LEMMA OwesRun ==
  ASSUME DeskInv, NEW h \in Reviewer, NEW t \in Ticket, NEW status \in Unfinished, NEW d,
         api = "up", Alone(h), desk[h].pc # "owes_run", ~InHands(t),
         ticket[t].status # "resolved",
         desk[h].pc # "idle" => desk[h].ticket = t,
         d.pc = "owes_run", d.ticket = t, desk' = [desk EXCEPT ![h] = d],
         ticket' = [ticket EXCEPT ![t].status = status], UNCHANGED <<drafts, run, api, queue>>
  PROVE  Hands' /\ ReasonMatchesFlag' /\ Answers'
<1> USE DEF DeskInv, Hands
<1>1. desk'[h] = d /\ \A g \in Reviewer \ {h} : desk'[g] = desk[g] /\ desk[g].pc = "idle"
  BY DEF TypeOK, Alone
<1>2. ticket'[t].status = status /\ \A u \in Ticket \ {t} : ticket'[u] = ticket[u]
  BY StatusWrite DEF Unfinished, Status
<1>3. \A u \in Ticket : /\ Running(u)' <=> Running(u)
                        /\ u # t => ~RunOwed(u)' /\ ~RunOwed(u)
  BY <1>1 DEF RunOwed, Running, Alive
<1>4. Quiet' /\ OneAtTheDesk' /\ DeskIsWaiting' /\ PagesAreFresh'
  BY <1>1 DEF Quiet, OneAtTheDesk, DeskIsWaiting, PagesAreFresh
<1>5. OneRunPerTicket'
  <2> SUFFICES ASSUME NEW u \in Ticket
               PROVE  /\ ~(Running(u) /\ RunOwed(u)')
                      /\ ~(u \in queue /\ (Running(u) \/ RunOwed(u)'))
    BY <1>1, <1>3 DEF OneRunPerTicket, Alive
  <2> QED BY <1>3 DEF OneRunPerTicket, InHands
<1>6. WorkIsUnfinished'
  BY <1>2, <1>3 DEF WorkIsUnfinished, InHands, Unfinished
<1>7. SessionsAreFresh'
  <2> SUFFICES ASSUME NEW s \in Run, Alive(s) PROVE Fresh(s)'
    BY DEF SessionsAreFresh, Fresh, Alive, Node
  <2>1. run[s].ticket \in Ticket \ {t}
    BY DEF TypeOK, InHands, Running
  <2> QED BY <1>2, <2>1 DEF SessionsAreFresh, Fresh
<1>8. status \in Status
  BY DEF Unfinished, Status
<1> QED BY <1>4, <1>5, <1>6, <1>7, <1>8, StatusKeepsAnswers DEF Answers

(* A ticket goes from a request or the queue to a run that has not begun.  *)
LEMMA Handed ==
  ASSUME DeskInv, NEW r \in Run, NEW t \in Ticket, NEW origin, ~Alive(r),
         InHands(t), ~Running(t), run' = [run EXCEPT ![r] = Scheduled(t, origin)],
         \A u \in Ticket : RunOwed(u)' => RunOwed(u) /\ u # t,
         \A g \in Reviewer : desk'[g].pc # "idle" => desk'[g] = desk[g],
         \A u \in queue' : u \in queue /\ u # t,
         api = "up", UNCHANGED <<ticket, drafts, api>>
  PROVE  Hands' /\ ReasonMatchesFlag' /\ Answers'
<1> USE DEF DeskInv, Hands, Answers
<1>1. /\ run'[r].pc = "scheduled" /\ run'[r].ticket = t
      /\ \A s \in Run \ {r} : run'[s] = run[s]
  BY DEF TypeOK, Scheduled
<1>2. \A u \in Ticket : Running(u)' <=> Running(u) \/ u = t
  <2>1. \A s \in Run \ {r} : Alive(s)' <=> Alive(s)
    BY <1>1 DEF Alive
  <2>2. Alive(r)'
    BY <1>1 DEF Alive
  <2> QED BY <1>1, <2>1, <2>2 DEF Running
<1>3. Quiet' /\ OneAtTheDesk'
  BY DEF Quiet, OneAtTheDesk
<1>4. OneRunPerTicket'
  <2> SUFFICES ASSUME NEW u \in Ticket
               PROVE  /\ \A s, o \in Run : Alive(s)' /\ Alive(o)' /\ run'[s].ticket = u /\ run'[o].ticket = u => s = o
                      /\ \A g, h \in Reviewer :
                           /\ desk'[g].pc = "owes_run" /\ desk'[g].ticket = u
                           /\ desk'[h].pc = "owes_run" /\ desk'[h].ticket = u
                           => g = h
                      /\ ~(Running(u)' /\ RunOwed(u)')
                      /\ ~(u \in queue' /\ (Running(u)' \/ RunOwed(u)'))
    BY DEF OneRunPerTicket
  <2>1. \A s, o \in Run : Alive(s)' /\ Alive(o)' /\ run'[s].ticket = u /\ run'[o].ticket = u => s = o
    <3>1. \A s \in Run \ {r} : Alive(s)' => Alive(s) /\ run[s].ticket # t
      BY <1>1 DEF Alive, Running
    <3> QED BY <1>1, <3>1 DEF OneRunPerTicket
  <2>2. \A g, h \in Reviewer : desk'[g].pc = "owes_run" /\ desk'[h].pc = "owes_run" => g = h
    BY DEF OneAtTheDesk
  <2> QED BY <1>2, <2>1, <2>2 DEF OneRunPerTicket
<1>5. WorkIsUnfinished'
  BY <1>2 DEF WorkIsUnfinished, InHands, Unfinished
<1>6. DeskIsWaiting' /\ PagesAreFresh'
  BY DEF DeskIsWaiting, PagesAreFresh
<1>7. SessionsAreFresh'
  <2> SUFFICES ASSUME NEW s \in Run PROVE Fresh(s)'
    BY DEF SessionsAreFresh
  <2>1. CASE s = r
    BY <1>1, <2>1 DEF Fresh, Node
  <2>2. CASE s # r
    BY <1>1, <2>2 DEF Fresh, SessionsAreFresh
  <2> QED BY <2>1, <2>2
<1>8. ReasonMatchesFlag' /\ DraftsAreOpen' /\ OneApproval' /\ EditIsSigned'
  BY DEF ReasonMatchesFlag, DraftsAreOpen, OneApproval, EditIsSigned
<1> QED BY <1>3, <1>4, <1>5, <1>6, <1>7, <1>8

LEMMA LeavesDesk ==
  ASSUME DeskInv, NEW h \in Reviewer, Leave(h), desk[h].pc # "owes_run",
         UNCHANGED <<ticket, drafts, run, api, queue>>, api = "up"
  PROVE  Hands' /\ ReasonMatchesFlag' /\ Answers'
<1>1. Free.pc = "idle"
  BY DEF Free
<1>2. desk' = [desk EXCEPT ![h] = Free]
  BY DEF Leave
<1> QED BY <1>1, <1>2, DeskMoves

LEMMA DeskStepKeeps ==
  ASSUME DeskInv, NEW h \in Reviewer, DeskStep(h)
  PROVE  Hands' /\ ReasonMatchesFlag' /\ Answers'
<1> USE DEF DeskInv, Hands
<1>1. api = "up" /\ Alone(h) /\ UNCHANGED <<api, queue>> /\ desk[h] \in DeskState
  BY DEF DeskStep, TypeOK
<1>2. CASE CreateTicket(h)
  <2>1. PICK t \in Ticket : /\ desk[h].pc = "idle" /\ ticket[t].status = "absent"
                            /\ ticket' = [ticket EXCEPT ![t].status = "new"]
                            /\ desk' = [desk EXCEPT ![h].pc = "owes_run", ![h].ticket = t]
    BY <1>2 DEF CreateTicket
  <2> DEFINE d == [desk[h] EXCEPT !.pc = "owes_run", !.ticket = t]
  <2>2. d.pc = "owes_run" /\ d.ticket = t /\ desk' = [desk EXCEPT ![h] = d]
    BY <1>1, <2>1 DEF TypeOK, DeskState
  <2>3. ~InHands(t)
    BY <2>1 DEF WorkIsUnfinished, Unfinished
  <2>4. UNCHANGED <<drafts, run>> /\ "new" \in Unfinished
    BY <1>2 DEF CreateTicket, Unfinished
  <2> HIDE DEF d
  <2> QED BY <1>1, <2>1, <2>2, <2>3, <2>4, OwesRun
<1>3. CASE OpenTicket(h)
  <2>1. PICK t \in Ticket :
          /\ desk[h].pc = "idle" /\ ticket[t].status = "awaiting_review"
          /\ desk' = [desk EXCEPT ![h].pc = "viewing", ![h].ticket = t, ![h].seen = Len(drafts[t])]
    BY <1>3 DEF OpenTicket
  <2> DEFINE d == [desk[h] EXCEPT !.pc = "viewing", !.ticket = t, !.seen = Len(drafts[t])]
  <2>2. /\ d.pc = "viewing" /\ d.ticket = t /\ d.seen = Len(drafts[t])
        /\ desk' = [desk EXCEPT ![h] = d]
    BY <1>1, <2>1 DEF TypeOK, DeskState
  <2>3. UNCHANGED <<ticket, drafts, run>>
    BY <1>3 DEF OpenTicket
  <2> HIDE DEF d
  <2> QED BY <1>1, <2>1, <2>2, <2>3, DeskMoves
<1>4. CASE ReadForApprove(h)
  <2>1. desk[h].pc = "viewing" /\ UNCHANGED <<ticket, drafts, run>>
    BY <1>4 DEF ReadForApprove
  <2>2. CASE Leave(h)
    BY <1>1, <2>1, <2>2, LeavesDesk
  <2>3. CASE ticket[desk[h].ticket].status = "awaiting_review" /\ Goto(h, "approve")
    <3> DEFINE d == [desk[h] EXCEPT !.pc = "approve"]
    <3>1. /\ d.pc = "approve" /\ d.ticket = desk[h].ticket /\ d.seen = desk[h].seen
          /\ desk' = [desk EXCEPT ![h] = d]
      BY <1>1, <2>3 DEF Goto, TypeOK, DeskState
    <3>2. desk[h].seen = Len(drafts[desk[h].ticket])
      BY <2>1 DEF Answers, PagesAreFresh
    <3> HIDE DEF d
    <3> QED BY <1>1, <2>1, <2>3, <3>1, <3>2, DeskMoves
  <2> QED BY <1>4, <2>2, <2>3 DEF ReadForApprove
<1>5. CASE desk[h].pc = "viewing" /\ ReadForRerun(h)
  <2> DEFINE d == [Free EXCEPT !.pc = "rerun", !.ticket = desk[h].ticket]
  <2>1. UNCHANGED <<ticket, drafts, run>>
    BY <1>5 DEF ReadForRerun
  <2>2. Leave(h) \/ desk' = [desk EXCEPT ![h] = d]
    BY <1>5 DEF ReadForRerun
  <2>3. d.pc = "rerun" /\ d.ticket = desk[h].ticket
    BY DEF Free
  <2>4. ticket[desk[h].ticket].status = "awaiting_review"
    BY <1>5 DEF DeskIsWaiting
  <2> HIDE DEF d
  <2> QED BY <1>1, <1>5, <2>1, <2>2, <2>3, <2>4, DeskMoves, LeavesDesk
<1> QED BY <1>2, <1>3, <1>4, <1>5 DEF DeskStep

(* The approval of the one draft that is still open.                       *)
LEMMA ApprovalKeeps ==
  ASSUME DeskInv, NEW h \in Reviewer, CommitApprove(h), api = "up", UNCHANGED <<api, queue>>
  PROVE  /\ Hands' /\ ReasonMatchesFlag' /\ Answers'
         /\ \E t \in Ticket, text \in {h, Nobody} : \E i \in 1 .. Len(drafts[t]) :
              /\ ticket[t].status = "awaiting_review"
              /\ ticket' = [ticket EXCEPT ![t].status = "resolved"]
              /\ drafts' = [drafts EXCEPT ![t][i] = [approved |-> TRUE, by |-> h, text |-> text]]
              /\ \A j \in 1 .. Len(drafts[t]) : drafts[t][j] = Pending
<1> USE DEF DeskInv, Hands, Answers
<1>1. PICK t \in Ticket : t = desk[h].ticket
  BY DEF CommitApprove, TypeOK
<1>2. desk[h].pc = "commit" /\ Leave(h) /\ UNCHANGED run
  BY DEF CommitApprove
<1>3. ticket[t].status = "awaiting_review"
  BY <1>1, <1>2 DEF DeskIsWaiting
<1>4. drafts[t] \in Seq(DraftRow) /\ desk[h].draft = Len(drafts[t]) /\ desk[h].draft # 0
  BY <1>1, <1>2 DEF PagesAreFresh, TypeOK
<1>5. PICK i \in 1 .. Len(drafts[t]) : i = desk[h].draft
  BY <1>4
<1>6. \A j \in 1 .. Len(drafts[t]) : drafts[t][j] = Pending
  BY <1>3 DEF DraftsAreOpen
<1>7. PICK text \in {h, Nobody} :
        drafts' = [drafts EXCEPT ![t][i] = FlushDraft(@, Pending, [approved |-> TRUE, by |-> h, text |-> text])]
  BY <1>1, <1>5 DEF CommitApprove
<1> DEFINE approval == [approved |-> TRUE, by |-> h, text |-> text]
<1>8. FlushDraft(drafts[t][i], Pending, approval) = approval
  BY <1>6 DEF FlushDraft, Column, Pending
<1>9. drafts' = [drafts EXCEPT ![t][i] = approval]
  BY <1>4, <1>7, <1>8 DEF TypeOK
<1>10. ticket' = [ticket EXCEPT ![t].status = "resolved"]
  BY <1>1 DEF CommitApprove
<1>11. /\ ticket'[t].status = "resolved" /\ \A u \in Ticket \ {t} : ticket'[u] = ticket[u]
       /\ ticket'[t].flag = ticket[t].flag /\ ticket'[t].reason = ticket[t].reason
  BY <1>10 DEF TypeOK, Row
<1>12. /\ \A u \in Ticket \ {t} : drafts'[u] = drafts[u]
       /\ Len(drafts'[t]) = Len(drafts[t]) /\ drafts'[t][i] = approval
       /\ \A j \in 1 .. Len(drafts[t]) : j # i => drafts'[t][j] = Pending
  BY <1>4, <1>6, <1>9 DEF TypeOK
<1>13. desk'[h].pc = "idle" /\ \A g \in Reviewer \ {h} : desk'[g] = desk[g] /\ desk'[g].pc = "idle"
  BY <1>2 DEF Leave, Free, TypeOK, OneAtTheDesk
<1>14. \A u \in Ticket : /\ RunOwed(u)' <=> RunOwed(u)
                         /\ Running(u)' <=> Running(u)
  BY <1>2, <1>13 DEF RunOwed, Running, Alive
<1>15. Quiet' /\ OneAtTheDesk' /\ DeskIsWaiting' /\ PagesAreFresh'
  BY <1>13 DEF Quiet, OneAtTheDesk, DeskIsWaiting, PagesAreFresh
<1>16. OneRunPerTicket'
  BY <1>2, <1>13, <1>14 DEF OneRunPerTicket, Alive
<1>17. ~InHands(t)
  BY <1>3 DEF WorkIsUnfinished, Unfinished
<1>18. WorkIsUnfinished'
  BY <1>11, <1>14, <1>17 DEF WorkIsUnfinished, InHands, Unfinished
<1>19. SessionsAreFresh'
  <2> SUFFICES ASSUME NEW s \in Run, Alive(s) PROVE Fresh(s)'
    BY <1>2 DEF SessionsAreFresh, Fresh, Alive, Node
  <2>1. run[s].ticket \in Ticket \ {t}
    BY <1>17 DEF TypeOK, InHands, Running
  <2> QED BY <1>2, <1>11, <2>1 DEF SessionsAreFresh, Fresh
<1>20. ReasonMatchesFlag'
  BY <1>11 DEF ReasonMatchesFlag
<1>21. approval.approved /\ approval.text \in {Nobody, approval.by} /\ ~Pending.approved /\ Pending.text = Nobody
  BY DEF Pending
<1> HIDE DEF approval
<1>22. DraftsAreOpen' /\ OneApproval' /\ EditIsSigned'
  <2>1. ASSUME NEW u \in Ticket \ {t}
        PROVE  drafts'[u] = drafts[u] /\ ticket'[u] = ticket[u]
    BY <1>11, <1>12
  <2>2. ASSUME NEW j \in 1 .. Len(drafts'[t])
        PROVE  /\ drafts'[t][j].approved <=> j = i
               /\ drafts'[t][j].text \in {Nobody, drafts'[t][j].by}
               /\ j # i => drafts'[t][j] = Pending
    BY <1>12, <1>21
  <2>3. ticket'[t].status = "resolved"
    BY <1>11
  <2>4. DraftsAreOpen'
    BY <2>1, <2>2, <2>3 DEF DraftsAreOpen
  <2>5. OneApproval'
    BY <2>1, <2>2 DEF OneApproval
  <2>6. EditIsSigned'
    BY <2>1, <2>2 DEF EditIsSigned
  <2> QED BY <2>4, <2>5, <2>6
<1> QED BY <1>3, <1>6, <1>9, <1>10, <1>15, <1>16, <1>18, <1>19, <1>20, <1>22 DEF approval

LEMMA RequestStepKeeps ==
  ASSUME DeskInv, NEW h \in Reviewer, DeskRequestStep(h)
  PROVE  Hands' /\ ReasonMatchesFlag' /\ Answers'
<1> USE DEF DeskInv, Hands
<1>1. api = "up" /\ UNCHANGED <<api, queue>> /\ desk[h] \in DeskState
  BY DEF DeskRequestStep, RequestStep, TypeOK
<1>2. CASE ScheduleRun(h)
  <2>1. PICK r \in Run : ~Alive(r) /\ run' = [run EXCEPT ![r] = Scheduled(desk[h].ticket, "request")]
    BY <1>2 DEF ScheduleRun
  <2>2. PICK t \in Ticket : t = desk[h].ticket
    BY <1>2 DEF ScheduleRun, TypeOK
  <2>3. desk[h].pc = "owes_run" /\ Leave(h) /\ UNCHANGED <<ticket, drafts>>
    BY <1>2 DEF ScheduleRun
  <2>4. RunOwed(t) /\ ~Running(t) /\ t \notin queue
    BY <2>2, <2>3 DEF RunOwed, OneRunPerTicket
  <2>5. /\ desk'[h].pc = "idle"
        /\ \A g \in Reviewer : desk'[g].pc # "idle" => g # h /\ desk'[g] = desk[g]
    BY <2>3 DEF Leave, Free, TypeOK
  <2>6. \A u \in Ticket : RunOwed(u)' => RunOwed(u) /\ u # t
    BY <2>2, <2>3, <2>5 DEF RunOwed, OneAtTheDesk
  <2>7. \A u \in queue' : u \in queue /\ u # t
    BY <1>1, <2>4
  <2> QED BY <1>1, <2>1, <2>2, <2>3, <2>4, <2>5, <2>6, <2>7, Handed DEF InHands
<1>3. CASE CommitRerun(h)
  <2>1. PICK t \in Ticket : t = desk[h].ticket
    BY <1>3 DEF CommitRerun, TypeOK
  <2> DEFINE d == [desk[h] EXCEPT !.pc = "owes_run"]
  <2>2. /\ desk[h].pc = "rerun" /\ ticket' = [ticket EXCEPT ![t].status = "in_progress"]
        /\ Goto(h, "owes_run") /\ UNCHANGED <<drafts, run>>
    BY <1>3, <2>1 DEF CommitRerun
  <2>3. d.pc = "owes_run" /\ d.ticket = t /\ desk' = [desk EXCEPT ![h] = d]
    BY <1>1, <2>1, <2>2 DEF Goto, TypeOK, DeskState
  <2>4. ticket[t].status = "awaiting_review"
    BY <2>1, <2>2 DEF DeskIsWaiting
  <2>5. ~InHands(t) /\ Alone(h) /\ "in_progress" \in Unfinished
    BY <2>2, <2>4 DEF WorkIsUnfinished, Unfinished, OneAtTheDesk, Alone
  <2> HIDE DEF d
  <2> QED BY <1>1, <2>1, <2>2, <2>3, <2>4, <2>5, OwesRun
<1>4. CASE ReadDraft(h)
  <2>1. PICK t \in Ticket : t = desk[h].ticket
    BY <1>4 DEF ReadDraft, TypeOK
  <2> DEFINE d == [desk[h] EXCEPT !.pc = "commit", !.draft = Len(drafts[t])]
  <2>2. desk[h].pc = "approve" /\ UNCHANGED <<ticket, drafts, run>>
    BY <1>4 DEF ReadDraft
  <2>3. Leave(h) \/ (desk' = [desk EXCEPT ![h] = d] /\ Len(drafts[t]) # 0)
    BY <1>1, <1>4, <2>1 DEF ReadDraft, Newest, TypeOK
  <2>4. /\ d.pc = "commit" /\ d.ticket = t /\ d.seen = desk[h].seen
        /\ d.draft = Len(drafts[t])
    BY <1>1, <2>1 DEF DeskState
  <2>5. desk[h].seen = Len(drafts[t]) /\ ticket[t].status = "awaiting_review"
    BY <2>1, <2>2 DEF Answers, PagesAreFresh, DeskIsWaiting
  <2> HIDE DEF d
  <2> QED BY <1>1, <2>2, <2>3, <2>4, <2>5, DeskMoves, LeavesDesk
<1>5. CASE CommitApprove(h)
  BY <1>1, <1>5, ApprovalKeeps
<1> QED BY <1>2, <1>3, <1>4, <1>5 DEF DeskRequestStep, RequestStep

(* A stop leaves rows and pages; the start finds no run and no request.    *)
LEMMA ProcessStepKeeps ==
  ASSUME DeskInv, Crash \/ Start \/ ResumeSelect \/ ResumeNext
  PROVE  Hands' /\ ReasonMatchesFlag' /\ Answers'
<1> USE DEF DeskInv, Hands, Answers
<1>1. UNCHANGED <<ticket, drafts>>
  BY DEF Crash, Start, ResumeSelect, ResumeNext
<1>2. ReasonMatchesFlag' /\ DraftsAreOpen' /\ OneApproval' /\ EditIsSigned'
  BY <1>1 DEF ReasonMatchesFlag, DraftsAreOpen, OneApproval, EditIsSigned
<1>3. CASE Crash
  <2>1. \A r \in Run : ~Alive(r)'
    BY <1>3 DEF Crash, Alive, Idle
  <2>2. /\ \A h \in Reviewer : desk'[h].pc # "idle" => desk'[h] = desk[h] /\ desk'[h].pc = "viewing"
        /\ queue' = {}
    BY <1>3 DEF Crash, Free
  <2>3. \A t \in Ticket : ~InHands(t)'
    BY <2>1, <2>2 DEF InHands, Running, RunOwed
  <2>4. Quiet' /\ OneAtTheDesk' /\ DeskIsWaiting' /\ PagesAreFresh'
    BY <1>1, <2>1, <2>2 DEF Quiet, OneAtTheDesk, DeskIsWaiting, PagesAreFresh
  <2>5. OneRunPerTicket' /\ WorkIsUnfinished'
    BY <2>1, <2>2, <2>3 DEF OneRunPerTicket, WorkIsUnfinished, InHands
  <2>6. SessionsAreFresh'
    BY <2>1 DEF SessionsAreFresh, Fresh, Alive, Node
  <2> QED BY <1>2, <2>4, <2>5, <2>6
<1>4. CASE Start
  <2>1. UNCHANGED <<run, desk, queue>> /\ api # "up"
    BY <1>4 DEF Start
  <2>2. Quiet' /\ OneAtTheDesk' /\ DeskIsWaiting' /\ PagesAreFresh'
    BY <1>1, <2>1 DEF Quiet, OneAtTheDesk, DeskIsWaiting, PagesAreFresh, Alive
  <2>3. OneRunPerTicket' /\ WorkIsUnfinished'
    BY <1>1, <2>1 DEF OneRunPerTicket, WorkIsUnfinished, InHands, Running, RunOwed, Alive
  <2>4. SessionsAreFresh'
    BY <1>1, <2>1 DEF SessionsAreFresh, Fresh
  <2> QED BY <1>2, <2>2, <2>3, <2>4
<1>5. CASE ResumeSelect
  <2>1. /\ UNCHANGED <<run, desk>> /\ api' = "up" /\ api # "up"
        /\ \A t \in queue' : ticket[t].status \in Unfinished
    BY <1>5 DEF ResumeSelect
  <2>2. \A t \in Ticket : ~Running(t)' /\ ~RunOwed(t)'
    BY <2>1 DEF Quiet, Running, RunOwed, Alive
  <2>3. Quiet' /\ OneAtTheDesk' /\ DeskIsWaiting' /\ PagesAreFresh'
    BY <1>1, <2>1 DEF Quiet, OneAtTheDesk, DeskIsWaiting, PagesAreFresh
  <2>4. OneRunPerTicket' /\ WorkIsUnfinished'
    BY <1>1, <2>1, <2>2 DEF OneRunPerTicket, WorkIsUnfinished, InHands, Quiet, Alive
  <2>5. SessionsAreFresh'
    BY <1>1, <2>1 DEF SessionsAreFresh, Fresh
  <2> QED BY <1>2, <2>3, <2>4, <2>5
<1>6. CASE ResumeNext
  <2>1. PICK r \in Run, t \in queue :
          ~Alive(r) /\ run' = [run EXCEPT ![r] = Scheduled(t, "resume")] /\ queue' = queue \ {t}
    BY <1>6 DEF ResumeNext
  <2>2. t \in Ticket /\ InHands(t)
    BY <2>1 DEF TypeOK, InHands
  <2>3. ~Running(t) /\ ~RunOwed(t)
    BY <2>1, <2>2 DEF OneRunPerTicket
  <2>4. UNCHANGED <<desk, api>> /\ api = "up"
    BY <1>6, <2>1 DEF ResumeNext, Quiet
  <2>5. /\ \A u \in Ticket : RunOwed(u)' => RunOwed(u) /\ u # t
        /\ \A g \in Reviewer : desk'[g].pc # "idle" => desk'[g] = desk[g]
        /\ \A u \in queue' : u \in queue /\ u # t
    BY <2>1, <2>3, <2>4 DEF RunOwed
  <2> QED BY <1>1, <2>1, <2>2, <2>3, <2>4, <2>5, Handed
<1> QED BY <1>3, <1>4, <1>5, <1>6

-----------------------------------------------------------------------------
(* The invariant. *)

LEMMA DeskStepType ==
  ASSUME TypeOK, [DeskNext]_vars
  PROVE  TypeOK'
<1>1. CASE UNCHANGED vars
  BY <1>1 DEF vars, TypeOK, Alive
<1>2. ASSUME NEW h \in Reviewer, DeskStep(h) PROVE ReviewerStep(h)
  BY <1>2 DEF DeskStep, ReviewerStep
<1>3. ASSUME NEW h \in Reviewer, DeskRequestStep(h) PROVE RequestStep(h)
  BY <1>3 DEF DeskRequestStep
<1> QED BY <1>1, <1>2, <1>3, RunStepType, RequestStepType, ReviewerStepType, ProcessStepType DEF DeskNext

LEMMA DeskStepKept ==
  ASSUME DeskInv, [DeskNext]_vars
  PROVE  DeskInv'
<1>1. TypeOK'
  BY DeskStepType DEF DeskInv
<1>2. CASE UNCHANGED vars
  <2> USE <1>2 DEF vars, DeskInv, Hands, Answers
  <2>1. Quiet' /\ OneAtTheDesk' /\ DeskIsWaiting' /\ PagesAreFresh'
    BY DEF Quiet, OneAtTheDesk, DeskIsWaiting, PagesAreFresh, Alive
  <2>2. OneRunPerTicket' /\ WorkIsUnfinished' /\ SessionsAreFresh'
    BY DEF OneRunPerTicket, WorkIsUnfinished, SessionsAreFresh, Fresh, InHands, Running, RunOwed, Alive
  <2>3. ReasonMatchesFlag' /\ DraftsAreOpen' /\ OneApproval' /\ EditIsSigned'
    BY DEF ReasonMatchesFlag, DraftsAreOpen, OneApproval, EditIsSigned
  <2> QED BY <1>1, <2>1, <2>2, <2>3
<1>3. CASE \E r \in Run : RunStep(r)
  BY <1>1, <1>3, RunStepHands, RunStepAnswers DEF DeskInv
<1>4. CASE \E h \in Reviewer : DeskStep(h) \/ DeskRequestStep(h)
  BY <1>1, <1>4, DeskStepKeeps, RequestStepKeeps DEF DeskInv
<1>5. CASE Crash \/ Start \/ ResumeSelect \/ ResumeNext
  BY <1>1, <1>5, ProcessStepKeeps DEF DeskInv
<1> QED BY <1>2, <1>3, <1>4, <1>5 DEF DeskNext

LEMMA DeskStarts ==
  ASSUME Init
  PROVE  DeskInv
<1> USE DEF Init
<1>1. TypeOK
  BY ConstantTypes, BoundsAssumption DEF TypeOK, Alive, Idle, Free
<1>2. \A r \in Run : run[r] = Idle /\ ~Alive(r)
  BY DEF Alive, Idle
<1>3. \A h \in Reviewer : desk[h].pc = "idle"
  BY DEF Free
<1>4. \A t \in Ticket : ~Running(t) /\ ~RunOwed(t) /\ t \notin queue
  BY <1>2, <1>3 DEF Running, RunOwed
<1>5. Hands
  BY <1>2, <1>3, <1>4 DEF Hands, Quiet, OneAtTheDesk, OneRunPerTicket, WorkIsUnfinished, InHands,
     DeskIsWaiting, SessionsAreFresh, Fresh, Idle, Node
<1>6. ReasonMatchesFlag
  BY DEF ReasonMatchesFlag, Absent
<1>7. \A t \in Ticket : Len(drafts[t]) = 0
  OBVIOUS
<1>8. Answers
  BY <1>3, <1>7 DEF Answers, PagesAreFresh, DraftsAreOpen, OneApproval, EditIsSigned
<1> QED BY <1>1, <1>5, <1>6, <1>8 DEF DeskInv

LEMMA DeskInvariant == DeskSpec => []DeskInv
<1>1. Init => DeskInv
  BY DeskStarts
<1>2. DeskInv /\ [DeskNext]_vars => DeskInv'
  BY DeskStepKept
<1> QED BY <1>1, <1>2, PTL DEF DeskSpec

(* A ticket has one run at most, counting the one it is still owed, and no *)
(* page or request of a reviewer meets a run of its ticket.                *)
THEOREM OneRunAtATime == DeskSpec => []RunsAreSingle
<1>1. DeskInv => RunsAreSingle
  BY DEF DeskInv, Hands, RunsAreSingle, DeskSeesNoRun, WorkIsUnfinished, DeskIsWaiting, InHands,
     Unfinished, TypeOK
<1> QED BY <1>1, DeskInvariant, PTL

(* The panel shows a reason exactly on a flagged ticket, whatever runs,    *)
(* failures and reruns it went through.                                    *)
THEOREM ReasonGoesWithFlag == DeskSpec => []ReasonMatchesFlag
<1>1. DeskInv => ReasonMatchesFlag
  BY DEF DeskInv
<1> QED BY <1>1, DeskInvariant, PTL

(* A reviewer approves the draft the page showed.                          *)
THEOREM NothingUnseenIsApproved == DeskSpec => []ApprovesWhatWasSeen
<1>1. DeskInv => ApprovesWhatWasSeen
  BY DEF DeskInv, Answers, PagesAreFresh, ApprovesWhatWasSeen
<1> QED BY <1>1, DeskInvariant, PTL

(* One draft per ticket is approved at most, and an edit is signed.        *)
THEOREM OneAnswerIsSent == DeskSpec => []OneSignedAnswer
<1>1. DeskInv => OneSignedAnswer
  BY DEF DeskInv, Answers, OneSignedAnswer
<1> QED BY <1>1, DeskInvariant, PTL

-----------------------------------------------------------------------------
(* The refinement of ReviewBoard. *)

(* A ticket that is not resolved has no answer yet.                        *)
LEMMA NoAnswerYet ==
  ASSUME DraftsAreOpen, NEW t \in Ticket, ticket[t].status # "resolved"
  PROVE  Answerer(t) = Nobody
  BY DEF DraftsAreOpen, Answerer

LEMMA StageOf ==
  ASSUME NEW t \in Ticket
  PROVE  /\ ticket[t].status \in Unfinished => Stage(t) = "working"
         /\ ticket[t].status = "awaiting_review" => Stage(t) = "waiting"
         /\ ticket[t].status \in {"absent", "resolved"} => Stage(t) = ticket[t].status
  BY DEF Stage, Unfinished

(* Steps that leave a ticket's row alone, and its drafts unless they are   *)
(* open, leave the board's view of it.                                     *)
LEMMA BoardMoves ==
  ASSUME NEW t \in Ticket, NEW to,
         \A u \in Ticket \ {t} : Stage(u)' = Stage(u),
         \A u \in Ticket : Answerer(u)' = Answerer(u),
         Stage(t)' = to
  PROVE  Board!Move(t, Stage(t), to) /\ UNCHANGED [u \in Ticket |-> Answerer(u)]
  BY DEF Board!Move

LEMMA BoardRests ==
  ASSUME \A u \in Ticket : Stage(u)' = Stage(u) /\ Answerer(u)' = Answerer(u)
  PROVE  UNCHANGED Board!board
  BY DEF Board!board

(* A status write on a ticket without an answer, the drafts left alone.    *)
LEMMA StatusMovesBoard ==
  ASSUME DeskInv, Answers', NEW t \in Ticket, NEW status \in Status,
         ticket' = [ticket EXCEPT ![t].status = status], UNCHANGED drafts
  PROVE  /\ \A u \in Ticket \ {t} : Stage(u)' = Stage(u)
         /\ \A u \in Ticket : Answerer(u)' = Answerer(u)
         /\ ticket'[t].status = status
<1>1. ticket'[t].status = status /\ \A u \in Ticket \ {t} : ticket'[u] = ticket[u]
  BY StatusWrite DEF DeskInv
<1> QED BY <1>1 DEF Stage, Answerer

(* A run delivers the ticket with its last commit, and else stutters.      *)
LEMMA RunStepBoard ==
  ASSUME DeskInv, DeskInv', NEW r \in Run, RunStep(r)
  PROVE  [Board!Next]_(Board!board)
<1>1. PICK t \in Ticket : t = run[r].ticket /\ ticket[t].status \in Unfinished
  BY RunWorksOnItsOwn DEF DeskInv, Hands
<1>2. WorksOnItsOwn(r)
  BY RunWorksOnItsOwn DEF DeskInv, Hands
<1>3. \A u \in Ticket \ {t} : Stage(u)' = Stage(u) /\ Answerer(u)' = Answerer(u)
  BY <1>1, <1>2 DEF WorksOnItsOwn, Stage, Answerer
<1>4. ticket'[t].status \in Unfinished \cup {"awaiting_review"}
  BY <1>1, <1>2 DEF WorksOnItsOwn, Goes, Delivers
<1>5. Answerer(t)' = Answerer(t)
  <2>1. DraftsAreOpen /\ DraftsAreOpen'
    BY DEF DeskInv, Answers
  <2>2. Answerer(t) = Nobody
    BY <1>1, <2>1, NoAnswerYet DEF Unfinished
  <2>3. Answerer(t)' = Nobody
    BY <1>4, <2>1 DEF Unfinished, DraftsAreOpen, Answerer
  <2> QED BY <2>2, <2>3
<1>6. Stage(t) = "working"
  BY <1>1, StageOf
<1>7. CASE ticket'[t].status \in Unfinished
  <2>1. Stage(t)' = "working"
    BY <1>7 DEF Stage, Unfinished
  <2> QED BY <1>3, <1>5, <1>6, <2>1, BoardRests
<1>8. CASE ticket'[t].status = "awaiting_review"
  <2>1. Stage(t)' = "waiting"
    BY <1>8 DEF Stage
  <2>2. Board!Deliver(t)
    BY <1>3, <1>5, <1>6, <2>1, BoardMoves DEF Board!Deliver
  <2> QED BY <2>2 DEF Board!Next
<1> QED BY <1>4, <1>7, <1>8

(* An accepted create, rerun or approval is the board's.                   *)
LEMMA CreateBoard ==
  ASSUME DeskInv, DeskInv', NEW h \in Reviewer, CreateTicket(h)
  PROVE  [Board!Next]_(Board!board)
<1>1. PICK t \in Ticket : ticket[t].status = "absent" /\ ticket' = [ticket EXCEPT ![t].status = "new"]
  BY DEF CreateTicket
<1>2. /\ \A u \in Ticket \ {t} : Stage(u)' = Stage(u)
      /\ \A u \in Ticket : Answerer(u)' = Answerer(u)
      /\ ticket'[t].status = "new"
  BY <1>1, StatusMovesBoard DEF DeskInv, CreateTicket, Status
<1>3. Stage(t) = "absent" /\ Stage(t)' = "working"
  BY <1>1, <1>2 DEF Stage
<1>4. Board!Submit(t)
  BY <1>2, <1>3, BoardMoves DEF Board!Submit
<1> QED BY <1>4 DEF Board!Next

LEMMA RerunBoard ==
  ASSUME DeskInv, DeskInv', NEW h \in Reviewer, CommitRerun(h)
  PROVE  [Board!Next]_(Board!board)
<1>1. PICK t \in Ticket : t = desk[h].ticket /\ ticket' = [ticket EXCEPT ![t].status = "in_progress"]
  BY DEF CommitRerun, DeskInv, TypeOK
<1>2. ticket[t].status = "awaiting_review"
  BY <1>1 DEF CommitRerun, DeskInv, Hands, DeskIsWaiting
<1>3. /\ \A u \in Ticket \ {t} : Stage(u)' = Stage(u)
      /\ \A u \in Ticket : Answerer(u)' = Answerer(u)
      /\ ticket'[t].status = "in_progress"
  BY <1>1, StatusMovesBoard DEF DeskInv, CommitRerun, Status
<1>4. Stage(t) = "waiting" /\ Stage(t)' = "working"
  BY <1>2, <1>3 DEF Stage
<1>5. Board!SendBack(t)
  BY <1>3, <1>4, BoardMoves DEF Board!SendBack
<1> QED BY <1>5 DEF Board!Next

LEMMA ApprovalBoard ==
  ASSUME DeskInv, NEW h \in Reviewer, DeskRequestStep(h), CommitApprove(h)
  PROVE  [Board!Next]_(Board!board)
<1>1. api = "up" /\ UNCHANGED <<api, queue>>
  BY DEF DeskRequestStep, RequestStep
<1>2. PICK t \in Ticket, text \in {h, Nobody} : \E i \in 1 .. Len(drafts[t]) :
        /\ ticket[t].status = "awaiting_review"
        /\ ticket' = [ticket EXCEPT ![t].status = "resolved"]
        /\ drafts' = [drafts EXCEPT ![t][i] = [approved |-> TRUE, by |-> h, text |-> text]]
        /\ \A j \in 1 .. Len(drafts[t]) : drafts[t][j] = Pending
  BY <1>1, ApprovalKeeps
<1>3. PICK i \in 1 .. Len(drafts[t]) :
        /\ ticket[t].status = "awaiting_review"
        /\ ticket' = [ticket EXCEPT ![t].status = "resolved"]
        /\ drafts' = [drafts EXCEPT ![t][i] = [approved |-> TRUE, by |-> h, text |-> text]]
        /\ \A j \in 1 .. Len(drafts[t]) : drafts[t][j] = Pending
  BY <1>2
<1>4. ticket'[t].status = "resolved" /\ \A u \in Ticket \ {t} : ticket'[u] = ticket[u]
  BY <1>3, StatusWrite DEF DeskInv, Status
<1>5. /\ \A u \in Ticket \ {t} : drafts'[u] = drafts[u]
      /\ Len(drafts'[t]) = Len(drafts[t]) /\ drafts'[t][i].approved /\ drafts'[t][i].by = h
      /\ \A j \in 1 .. Len(drafts[t]) : j # i => ~drafts'[t][j].approved
  BY <1>3 DEF DeskInv, TypeOK, Pending
<1>6. \A u \in Ticket \ {t} : Stage(u)' = Stage(u) /\ Answerer(u)' = Answerer(u)
  BY <1>4, <1>5 DEF Stage, Answerer
<1>7. Stage(t) = "waiting" /\ Stage(t)' = "resolved"
  BY <1>3, <1>4 DEF Stage
<1>8. Answerer(t)' = h
  <2>1. i \in 1 .. Len(drafts'[t]) /\ drafts'[t][i].approved
    BY <1>5
  <2>2. \A j \in 1 .. Len(drafts'[t]) : drafts'[t][j].approved => j = i
    BY <1>5
  <2>3. (CHOOSE j \in 1 .. Len(drafts'[t]) : drafts'[t][j].approved) = i
    BY <2>1, <2>2
  <2> QED BY <1>5, <2>1, <2>3 DEF Answerer
<1>9. Board!Move(t, "waiting", "resolved")
  BY <1>6, <1>7 DEF Board!Move
<1>10. [u \in Ticket |-> Answerer(u)]' = [[u \in Ticket |-> Answerer(u)] EXCEPT ![t] = h]
  BY <1>6, <1>8
<1>11. Board!Resolve(t)
  BY <1>9, <1>10 DEF Board!Resolve
<1> QED BY <1>11 DEF Board!Next

LEMMA DeskStepBoard ==
  ASSUME DeskInv, DeskInv', [DeskNext]_vars
  PROVE  [Board!Next]_(Board!board)
<1>1. CASE UNCHANGED <<ticket, drafts>>
  BY <1>1, BoardRests DEF Stage, Answerer
<1>2. CASE \E r \in Run : RunStep(r)
  BY <1>2, RunStepBoard
<1>3. ASSUME NEW h \in Reviewer, DeskStep(h)
      PROVE  UNCHANGED <<ticket, drafts>> \/ [Board!Next]_(Board!board)
  BY <1>3, CreateBoard DEF DeskStep, OpenTicket, ReadForApprove, ReadForRerun
<1>4. ASSUME NEW h \in Reviewer, DeskRequestStep(h)
      PROVE  UNCHANGED <<ticket, drafts>> \/ [Board!Next]_(Board!board)
  <2>1. CASE ScheduleRun(h) \/ ReadDraft(h)
    BY <2>1 DEF ScheduleRun, ReadDraft
  <2> QED BY <1>4, <2>1, RerunBoard, ApprovalBoard DEF DeskRequestStep, RequestStep
<1>5. CASE Crash \/ Start \/ ResumeSelect \/ ResumeNext
  BY <1>1, <1>5 DEF Crash, Start, ResumeSelect, ResumeNext
<1>6. CASE UNCHANGED vars
  BY <1>1, <1>6 DEF vars
<1> QED BY <1>1, <1>2, <1>3, <1>4, <1>5, <1>6 DEF DeskNext

(* The server with its own clients does nothing ReviewBoard does not: a    *)
(* ticket is resolved once, by the reviewer whose approval is stored.      *)
THEOREM ImplementsReviewBoard == DeskSpec => BoardInOrder
<1>1. Init => Board!Init
  BY DEF Init, Board!Init, Stage, Answerer, Absent
<1>2. DeskInv /\ DeskInv' /\ [DeskNext]_vars => [Board!Next]_(Board!board)
  BY DeskStepBoard
<1> QED BY <1>1, <1>2, DeskInvariant, PTL DEF DeskSpec, BoardInOrder, Board!SafeSpec
=============================================================================
