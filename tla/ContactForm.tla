---------------------------- MODULE ContactForm ----------------------------
(***************************************************************************)
(* The public contact form of one business: messages of visitors become    *)
(* tickets of its customers, while staff add customers, an admin switches  *)
(* the form, and the operator wipes or deletes what the tenant owns.       *)
(*                                                                         *)
(* One tenant: every statement here filters by the tenant of its session,  *)
(* and row-level security hides the rows of others. A message is over when *)
(* it is answered; the agent run that follows is TicketLifecycle's.        *)
(***************************************************************************)
EXTENDS Naturals

CONSTANTS
  MaxMessages,     (* bound on messages                                    *)
  Spelling,        (* ways to write e-mail addresses                       *)
  Lower,           (* the spelling strip().lower() makes of each           *)
  MaxScripts       (* bound on scripts of the operator                     *)

ASSUME LowerAssumption ==
  /\ Spelling # {}
  /\ Lower \in [Spelling -> Spelling]
  /\ \A e \in Spelling : Lower[Lower[e]] = Lower[e]
ASSUME BoundAssumption == {MaxMessages, MaxScripts} \subseteq Nat

VARIABLES
  tenant,      (* the tenant's row: none, or whether its form is on        *)
  customers,   (* customers.email of its rows, with how many rows have it  *)
  tickets,     (* messages that are stored as tickets                      *)
  message,     (* each message and its request                             *)
  script       (* the operator's script and the rows it has deleted        *)

rows == <<tenant, customers, tickets>>
vars == <<rows, message, script>>

-----------------------------------------------------------------------------
Message == 1 .. MaxMessages   (* in the order of arrival                   *)

(* found: the form was on. lookup, insert: before the SELECT and the       *)
(* INSERT of the customer. ticket, held: before the INSERT of the ticket,  *)
(* and in it, before the row of its customer. commit: before the COMMIT.   *)
(* answer: stored, and before the refresh. refused: by a limiter           *)
(* (RateLimiter). failed: an error of the server, or a stop, before        *)
(* anything was stored; unanswered: after it.                              *)
PC == {"idle", "found", "lookup", "insert", "ticket", "held", "commit", "answer",
       "filed", "bot", "unavailable", "refused", "failed", "unanswered"}

Ended == {"filed", "bot", "unavailable", "refused", "failed", "unanswered"}

(* new: its transaction has inserted the customer. crossed: its customer   *)
(* was added, removed or about to be by someone else while it was under    *)
(* way, or the API stopped (a record of the model's own).                  *)
MessageState == [pc : PC, email : Spelling, new : BOOLEAN, crossed : BOOLEAN]

(* pc: the statement it is at. tickets, customers: what it has deleted and *)
(* not committed.                                                          *)
Script == [pc : {"idle", "customers", "end"}, kind : {"delete", "reseed"},
           number : 0 .. MaxScripts, tickets : SUBSET Message, customers : SUBSET Spelling]

NoScript(n) == [pc |-> "idle", kind |-> "delete", number |-> n, tickets |-> {}, customers |-> {}]

TypeOK ==
  /\ tenant \in {"none", "off", "on"}
  /\ customers \in [Spelling -> Nat]
  /\ tickets \in SUBSET Message
  /\ message \in [Message -> MessageState]
  /\ script \in Script
  /\ \A m \in Message : message[m].new => message[m].pc \in {"ticket", "held", "commit"}

Fresh(pc, e) == [pc |-> pc, email |-> e, new |-> FALSE, crossed |-> FALSE]

Init ==
  /\ tenant = "off"
  /\ customers = [e \in Spelling |-> 0]
  /\ tickets = {}
  /\ message = [m \in Message |-> Fresh("idle", CHOOSE e \in Spelling : TRUE)]
  /\ script = NoScript(0)

Address(m) == Lower[message[m].email]

Underway(m) == message[m].pc \in {"found", "lookup", "insert", "ticket", "held", "commit"}

(* A row that a script has deleted, or a message has inserted, and not yet *)
(* committed: whoever needs it waits.                                      *)
Deleted(e) == script.pc = "end" /\ e \in script.customers

Inserted(e) == \E m \in Message : message[m].new /\ Address(m) = e

(* The rows a message refers to stay until it commits: who deletes one     *)
(* waits.                                                                  *)
HoldsTenant(m) == message[m].new \/ message[m].pc \in {"held", "commit"}

HoldsCustomer(m) == message[m].pc = "commit"

(* The messages of an address that is added or removed by someone else.    *)
Cross(messages, addresses, except) ==
  [m \in Message |->
     IF m # except /\ Underway(m) /\ Address(m) \in addresses
       THEN [messages[m] EXCEPT !.crossed = TRUE]
       ELSE messages[m]]

-----------------------------------------------------------------------------
(* A message *)

(* contact_form_tenant(): the business, if its form is on.                 *)
Find(m, e) ==
  /\ message[m].pc = "idle" /\ \A n \in 1 .. m - 1 : message[n].pc # "idle"
  /\ message' = [message EXCEPT ![m] = Fresh(IF tenant = "on" THEN "found" ELSE "unavailable", e)]
  /\ UNCHANGED <<rows, script>>

(* The hidden field is filled: a receipt, and nothing is stored.           *)
Honeypot(m) ==
  /\ message[m].pc = "found"
  /\ message' = [message EXCEPT ![m].pc = "bot"]
  /\ UNCHANGED <<rows, script>>

(* Both limiters let it pass, or one refuses.                              *)
Admit(m) ==
  /\ message[m].pc = "found"
  /\ \E outcome \in {"lookup", "refused"} : message' = [message EXCEPT ![m].pc = outcome]
  /\ UNCHANGED <<rows, script>>

MutantLookup(m) ==
  /\ message[m].pc = "lookup"
  /\ message' = [message EXCEPT ![m].pc = IF customers[message[m].email] > 0 THEN "ticket" ELSE "insert"]
  /\ UNCHANGED <<rows, script>>

(* The SELECT of _customer.                                                *)
Lookup(m) ==
  /\ message[m].pc = "lookup"
  /\ message' = [message EXCEPT ![m].pc = IF customers[Address(m)] > 0 THEN "ticket" ELSE "insert"]
  /\ UNCHANGED <<rows, script>>

(* uq_customers_tenant_id_email, and the foreign key of the tenant.        *)
Taken(e) == customers[e] > 0 \/ tenant = "none"

MutantInsertCustomer(m) ==
  LET refused == Taken(Address(m)) IN
    /\ message[m].pc = "insert"
    /\ ~Deleted(Address(m)) /\ ~Inserted(Address(m))
    /\ message' = [message EXCEPT ![m].pc = IF refused THEN "lookup" ELSE "ticket",
                                  ![m].new = ~refused]
    /\ UNCHANGED <<rows, script>>

(* Its INSERT, flushed; an IntegrityError is not caught.                   *)
InsertCustomer(m) ==
  LET refused == Taken(Address(m)) IN
    /\ message[m].pc = "insert"
    /\ ~Deleted(Address(m)) /\ ~Inserted(Address(m))
    /\ message' = [message EXCEPT ![m].pc = IF refused THEN "failed" ELSE "ticket",
                                  ![m].new = ~refused]
    /\ UNCHANGED <<rows, script>>

(* The INSERT of the ticket, flushed by commit(), refers to the tenant,    *)
ReferToTenant(m) ==
  /\ message[m].pc = "ticket"
  /\ message' = [message EXCEPT ![m].pc = IF tenant = "none" THEN "failed" ELSE "held"]
  /\ UNCHANGED <<rows, script>>

(* then to its customer.                                                   *)
ReferToCustomer(m) ==
  LET there == message[m].new \/ customers[Address(m)] > 0 IN
    /\ message[m].pc = "held"
    /\ ~Deleted(Address(m))
    /\ message' = [message EXCEPT ![m].pc = IF there THEN "commit" ELSE "failed"]
    /\ UNCHANGED <<rows, script>>

(* The COMMIT.                                                             *)
Store(m) ==
  LET e == Address(m)
      new == message[m].new
  IN  /\ message[m].pc = "commit"
      /\ tickets' = tickets \cup {m}
      /\ customers' = [customers EXCEPT ![e] = IF new THEN @ + 1 ELSE @]
      /\ message' = Cross([message EXCEPT ![m].pc = "answer", ![m].new = FALSE],
                          IF new THEN {e} ELSE {}, m)
      /\ UNCHANGED <<tenant, script>>

(* The refresh and the receipt: an error if the row is gone by now, or     *)
(* cannot be read.                                                         *)
Reply(m) ==
  /\ message[m].pc = "answer"
  /\ \E outcome \in (IF m \in tickets THEN {"filed"} ELSE {}) \cup {"unanswered"} :
       message' = [message EXCEPT ![m].pc = outcome]
  /\ UNCHANGED <<rows, script>>

Step(m) ==
  \/ Admit(m) \/ Lookup(m) \/ InsertCustomer(m)
  \/ ReferToTenant(m) \/ ReferToCustomer(m) \/ Store(m) \/ Reply(m)

-----------------------------------------------------------------------------
(* Staff and the operator *)

(* update_settings.                                                        *)
Switch ==
  /\ tenant # "none" /\ ~(script.pc = "end" /\ script.kind = "delete")
  /\ tenant' = IF tenant = "on" THEN "off" ELSE "on"
  /\ UNCHANGED <<customers, tickets, message, script>>

(* create_customer; CustomerExists is a 409.                               *)
AddCustomer(e) ==
  /\ ~Taken(Lower[e]) /\ ~Deleted(Lower[e]) /\ ~Inserted(Lower[e])
  /\ customers' = [customers EXCEPT ![Lower[e]] = @ + 1]
  /\ message' = Cross(message, {Lower[e]}, 0)
  /\ UNCHANGED <<tenant, tickets, script>>

Present == {e \in Spelling : customers[e] > 0}

(* delete_tenant, or seed_orders with --reset: in one transaction, it      *)
(* deletes the tickets,                                                    *)
DeleteTickets(kind) ==
  /\ script.pc = "idle" /\ tenant # "none" /\ script.number < MaxScripts
  /\ script' = [pc |-> "customers", kind |-> kind, number |-> script.number + 1,
                tickets |-> tickets, customers |-> {}]
  /\ UNCHANGED <<rows, message>>

MutantDeleteCustomers ==
  /\ script.pc = "customers"
  /\ \A m \in Message : HoldsCustomer(m) => message[m].new
  /\ script' = [script EXCEPT !.pc = "end", !.customers = Present]
  /\ UNCHANGED <<rows, message>>

(* then the customers, once no transaction refers to one, and if no ticket *)
(* does by now: else an error, and nothing is deleted.                     *)
DeleteCustomers ==
  /\ script.pc = "customers"
  /\ \A m \in Message : HoldsCustomer(m) => message[m].new
  /\ script' = IF \E m \in tickets \ script.tickets : Address(m) \in Present THEN NoScript(script.number)
               ELSE [script EXCEPT !.pc = "end", !.customers = Present]
  /\ UNCHANGED <<rows, message>>

(* The tenant's row goes last: it waits for transactions that refer to it, *)
(* and a row stored since is such an error too. The customers and tickets  *)
(* a reseed makes are none of those who write.                             *)
EndScript ==
  LET whole == script.kind = "delete"
      since == Present \ script.customers # {} \/ tickets \ script.tickets # {}
  IN  /\ script.pc = "end"
      /\ whole => \A m \in Message : ~HoldsTenant(m)
      /\ script' = NoScript(script.number)
      /\ IF whole /\ since
           THEN UNCHANGED <<rows, message>>
           ELSE /\ tickets' = tickets \ script.tickets
                /\ customers' = [e \in Spelling |-> IF e \in script.customers THEN 0 ELSE customers[e]]
                /\ tenant' = IF whole THEN "none" ELSE tenant
                /\ message' = Cross(message, IF whole THEN Spelling ELSE script.customers, 0)

(* A message that holds the tenant's row and needs a customer whose        *)
(* deletion waits for that row: PostgreSQL ends one of the two.            *)
BreakDeadlock(m) ==
  /\ message[m].pc = "held" /\ Deleted(Address(m)) /\ script.kind = "delete"
  /\ \/ /\ message' = [message EXCEPT ![m].pc = "failed", ![m].crossed = TRUE]
        /\ UNCHANGED script
     \/ script' = NoScript(script.number) /\ UNCHANGED message
  /\ UNCHANGED rows

-----------------------------------------------------------------------------
(* The API is started again: its requests are gone.                        *)
Restart ==
  /\ \E m \in Message : Underway(m) \/ message[m].pc = "answer"
  /\ message' = [m \in Message |->
       IF Underway(m) THEN [message[m] EXCEPT !.pc = "failed", !.new = FALSE, !.crossed = TRUE]
       ELSE IF message[m].pc = "answer" THEN [message[m] EXCEPT !.pc = "unanswered"]
       ELSE message[m]]
  /\ UNCHANGED <<rows, script>>

Next ==
  \/ \E m \in Message, e \in Spelling : Find(m, e)
  \/ \E m \in Message : Honeypot(m) \/ Step(m) \/ BreakDeadlock(m)
  \/ Switch
  \/ \E e \in Spelling : AddCustomer(e)
  \/ DeleteTickets("delete") \/ DeleteTickets("reseed") \/ DeleteCustomers \/ EndScript
  \/ Restart

(* A request goes on when its statement returns, a script runs on, and     *)
(* PostgreSQL looks for deadlocks.                                         *)
Fairness ==
  /\ \A m \in Message : WF_vars(Step(m)) /\ WF_vars(BreakDeadlock(m))
  /\ WF_vars(DeleteCustomers) /\ WF_vars(EndScript)

Spec == Init /\ [][Next]_vars /\ Fairness

-----------------------------------------------------------------------------
(* Properties *)

(* A person who writes, however he spells his address, whether he or the   *)
(* staff were first, and at once or not, is one customer of the business.  *)
OneCustomerPerAddress ==
  \A a \in Spelling :
    /\ customers[a] <= 1
    /\ \A b \in Spelling : Lower[a] = Lower[b] /\ a # b => customers[a] = 0 \/ customers[b] = 0

(* Every ticket has its customer, whatever was wiped meanwhile.            *)
TicketsHaveCustomers == \A m \in tickets : customers[Address(m)] > 0

(* The rows agree with each other.                                         *)
CustomersConsistent == TypeOK /\ OneCustomerPerAddress /\ TicketsHaveCustomers

(* A message is lost to an error of the server only if its customer was    *)
(* added or removed by someone else during it, its business was being      *)
(* deleted, or the server stopped.                                         *)
LostOnlyIfCrossed == \A m \in Message : message[m].pc = "failed" => message[m].crossed

(* Every message to a form that was on comes to an end, whoever holds the  *)
(* rows it needs.                                                          *)
MessagesAnswered == \A m \in Message : message[m].pc = "found" ~> message[m].pc \in Ended
=============================================================================
