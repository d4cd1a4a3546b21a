------------------------------- MODULE Rules -------------------------------
(***************************************************************************)
(* The small parts of the program that share no state: the limiters, the   *)
(* urgency and escalation of a ticket, the tuning of class weights, the    *)
(* splitting of documents, the backups, and the separation of tenants. A   *)
(* behaviour is about one of them, and the others stay as they began.      *)
(***************************************************************************)
EXTENDS RateLimiter, EscalationRules, ClassWeights, Chunking, Backups, Tenancy

VARIABLE topic

vars == <<topic, limiterVars, ticketVars, tuningVars, documentVars, backupVars, tenancyVars>>

(* A grid that a behaviour is not about.                                   *)
TuningStart == TuningInit /\ minimum = CHOOSE m \in Score : TRUE

Init ==
  /\ topic \in {"limiter", "ticket", "tuning", "document", "backups", "tenancy"}
  /\ LimiterInit /\ TicketInit /\ DocumentInit /\ BackupInit /\ TenancyInit
  /\ IF topic = "tuning" THEN TuningInit ELSE TuningStart

Next ==
  /\ UNCHANGED topic
  /\ \/ topic = "limiter" /\ LimiterNext
        /\ UNCHANGED <<ticketVars, tuningVars, documentVars, backupVars, tenancyVars>>
     \/ topic = "ticket" /\ TicketNext
        /\ UNCHANGED <<limiterVars, tuningVars, documentVars, backupVars, tenancyVars>>
     \/ topic = "tuning" /\ TuningNext
        /\ UNCHANGED <<limiterVars, ticketVars, documentVars, backupVars, tenancyVars>>
     \/ topic = "document" /\ DocumentNext
        /\ UNCHANGED <<limiterVars, ticketVars, tuningVars, backupVars, tenancyVars>>
     \/ topic = "backups" /\ BackupNext
        /\ UNCHANGED <<limiterVars, ticketVars, tuningVars, documentVars, tenancyVars>>
     \/ topic = "tenancy" /\ TenancyNext
        /\ UNCHANGED <<limiterVars, ticketVars, tuningVars, documentVars, backupVars>>

Spec == Init /\ [][Next]_vars

(* One type invariant for the six modules.                                 *)
TypeOK == LimiterTypeOK /\ TicketTypeOK /\ TuningTypeOK /\ DocumentTypeOK /\ BackupTypeOK
          /\ TenancyTypeOK
=============================================================================
