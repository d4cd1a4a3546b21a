-------------------------- MODULE ContactFormProofs --------------------------
(***************************************************************************)
(* Proofs about ContactForm, for every number of messages and scripts and  *)
(* every way to spell addresses.                                           *)
(***************************************************************************)
EXTENDS ContactForm, TLAPS

(* The unique (tenant_id, email): rows have lower-case addresses, and one  *)
(* transaction at a time has inserted one, while no row has it.            *)
RowsAreUnique ==
  /\ \A e \in Spelling : customers[e] > 0 => Lower[e] = e /\ customers[e] = 1
  /\ \A m \in Message : message[m].new => customers[Address(m)] = 0
  /\ \A m, n \in Message : message[m].new /\ message[n].new /\ Address(m) = Address(n) => m = n

(* The foreign key: a script that has deleted customers leaves no ticket   *)
(* of theirs.                                                              *)
ScriptLeavesNone ==
  script.pc = "end" => \A m \in tickets \ script.tickets : Address(m) \notin script.customers

(* What a message has found holds until it is crossed: the business, that  *)
(* there is no customer yet, or that there is one.                         *)
FindingsHold ==
  \A m \in Message : ~message[m].crossed =>
    /\ Underway(m) => tenant # "none"
    /\ message[m].pc = "insert" => customers[Address(m)] = 0
    /\ message[m].pc \in {"ticket", "held", "commit"} /\ ~message[m].new => customers[Address(m)] > 0

(* What a message refers to stays until it commits, crossed or not.        *)
LocksHold ==
  \A m \in Message :
    /\ HoldsTenant(m) => tenant # "none"
    /\ HoldsCustomer(m) => message[m].new \/ customers[Address(m)] > 0
    /\ HoldsCustomer(m) \/ message[m].new => ~Deleted(Address(m))

(* A ticket is of a message that has committed.                            *)
Stored == \A m \in tickets : message[m].pc \in {"answer", "filed", "unanswered"}

FormInv ==
  /\ TypeOK /\ RowsAreUnique /\ ScriptLeavesNone /\ TicketsHaveCustomers
  /\ FindingsHold /\ LocksHold /\ Stored /\ LostOnlyIfCrossed

LEMMA LowerType ==
  ASSUME NEW e \in Spelling
  PROVE  Lower[e] \in Spelling /\ Lower[Lower[e]] = Lower[e]
  BY LowerAssumption

(* A crossed message is as it was, but for the mark.                       *)
LEMMA CrossMarks ==
  ASSUME NEW messages \in [Message -> MessageState], NEW addresses, NEW except
  PROVE  /\ Cross(messages, addresses, except) \in [Message -> MessageState]
         /\ \A m \in Message :
              LET marked == Cross(messages, addresses, except)[m]
              IN  /\ marked.pc = messages[m].pc /\ marked.email = messages[m].email
                  /\ marked.new = messages[m].new
                  /\ messages[m].crossed => marked.crossed
                  /\ m # except /\ Underway(m) /\ Address(m) \in addresses => marked.crossed
<1>1. ASSUME NEW m \in Message
      PROVE  LET marked == Cross(messages, addresses, except)[m]
             IN  /\ marked \in MessageState
                 /\ marked.pc = messages[m].pc /\ marked.email = messages[m].email
                 /\ marked.new = messages[m].new
                 /\ messages[m].crossed => marked.crossed
                 /\ m # except /\ Underway(m) /\ Address(m) \in addresses => marked.crossed
  <2> DEFINE marked == Cross(messages, addresses, except)[m]
  <2>1. messages[m] \in MessageState
    OBVIOUS
  <2>2. marked = IF m # except /\ Underway(m) /\ Address(m) \in addresses
                   THEN [messages[m] EXCEPT !.crossed = TRUE] ELSE messages[m]
    BY DEF Cross
  <2> HIDE DEF marked
  <2>3. CASE m # except /\ Underway(m) /\ Address(m) \in addresses
    <3>1. marked = [messages[m] EXCEPT !.crossed = TRUE]
      BY <2>2, <2>3
    <3>2. /\ marked \in MessageState /\ marked.pc = messages[m].pc
          /\ marked.email = messages[m].email /\ marked.new = messages[m].new /\ marked.crossed
      BY <2>1, <3>1 DEF MessageState
    <3> QED BY <3>2 DEF marked
  <2>4. CASE ~(m # except /\ Underway(m) /\ Address(m) \in addresses)
    <3>1. marked = messages[m]
      BY <2>2, <2>4
    <3> QED BY <2>1, <2>4, <3>1 DEF marked
  <2> QED BY <2>3, <2>4
<1>2. Cross(messages, addresses, except) \in [Message -> MessageState]
  BY <1>1 DEF Cross
<1> QED BY <1>1, <1>2

LEMMA Lowered == \A m \in Message : TypeOK => Address(m) \in Spelling /\ Lower[Address(m)] = Address(m)
  BY LowerType DEF TypeOK, MessageState, Address

-----------------------------------------------------------------------------
(* A step of one message that stores nothing.                              *)
LEMMA OneMessageKeeps ==
  ASSUME FormInv, NEW m \in Message, NEW r \in MessageState,
         message' = [message EXCEPT ![m] = r], UNCHANGED <<rows, script>>,
         m \in tickets => r.email = message[m].email /\ r.pc \in {"answer", "filed", "unanswered"},
         r.new => r.pc \in {"ticket", "held", "commit"},
         r.new => /\ customers[Lower[r.email]] = 0
                  /\ (message[m].new /\ r.email = message[m].email) \/ ~Inserted(Lower[r.email]),
         r.new \/ r.pc \in {"held", "commit"} => tenant # "none",
         r.pc = "commit" => r.new \/ customers[Lower[r.email]] > 0,
         r.pc = "commit" \/ r.new => ~Deleted(Lower[r.email]),
         ~r.crossed =>
           /\ r.pc \in {"found", "lookup", "insert", "ticket", "held", "commit"} => tenant # "none"
           /\ r.pc = "insert" => customers[Lower[r.email]] = 0
           /\ r.pc \in {"ticket", "held", "commit"} /\ ~r.new => customers[Lower[r.email]] > 0,
         r.pc = "failed" => r.crossed
  PROVE  FormInv'
<1> USE DEF FormInv
<1>1. message' \in [Message -> MessageState] /\ message'[m] = r
      /\ \A n \in Message \ {m} : message'[n] = message[n]
  BY DEF TypeOK
<1>2. UNCHANGED <<tenant, customers, tickets, script>>
  BY DEF rows
<1>3. \A n \in Message \ {m} : Address(n)' = Address(n)
  BY <1>1 DEF Address
<1>4. Address(m)' = Lower[r.email] /\ Address(m) = Lower[message[m].email]
  BY <1>1 DEF Address
<1>5. tickets \subseteq Message
  BY DEF TypeOK
<1>6. TypeOK'
  BY <1>1, <1>2 DEF TypeOK
<1>7. RowsAreUnique'
  <2>1. \A n \in Message : message[n].new => Inserted(Address(n))
    BY DEF Inserted
  <2>2. \A n \in Message \ {m} : r.new /\ message[n].new => Address(n) # Lower[r.email]
    BY <1>4, <2>1 DEF RowsAreUnique
  <2> QED BY <1>1, <1>2, <1>3, <1>4, <2>2 DEF RowsAreUnique
<1>8. ScriptLeavesNone' /\ TicketsHaveCustomers' /\ Stored'
  <2>1. \A n \in tickets : Address(n)' = Address(n)
    BY <1>3, <1>4, <1>5
  <2> QED BY <1>1, <1>2, <1>5, <2>1 DEF ScriptLeavesNone, TicketsHaveCustomers, Stored
<1>9. FindingsHold'
  BY <1>1, <1>2, <1>3, <1>4 DEF FindingsHold, Underway
<1>10. LostOnlyIfCrossed'
  BY <1>1 DEF LostOnlyIfCrossed
<1>11. LocksHold'
  BY <1>1, <1>2, <1>3, <1>4 DEF LocksHold, HoldsTenant, HoldsCustomer, Deleted
<1> QED BY <1>6, <1>7, <1>8, <1>9, <1>10, <1>11

LEMMA FindKeeps ==
  ASSUME FormInv, NEW m \in Message, NEW e \in Spelling, Find(m, e)
  PROVE  FormInv'
<1> DEFINE r == Fresh(IF tenant = "on" THEN "found" ELSE "unavailable", e)
<1>1. /\ r \in MessageState /\ ~r.new /\ r.pc \in {"found", "unavailable"}
      /\ r.pc = "found" => tenant = "on"
  BY DEF Fresh, MessageState, PC
<1>2. message' = [message EXCEPT ![m] = r] /\ UNCHANGED <<rows, script>> /\ message[m].pc = "idle"
  BY DEF Find
<1>3. m \notin tickets
  BY <1>2 DEF FormInv, Stored
<1> HIDE DEF r
<1> QED BY <1>1, <1>2, <1>3, OneMessageKeeps

(* A message goes on to a statement, or ends, and keeps what it has.       *)
LEMMA GoOnKeeps ==
  ASSUME FormInv, NEW m \in Message, NEW pc \in PC,
         message' = [message EXCEPT ![m].pc = pc], UNCHANGED <<rows, script>>,
         m \in tickets => pc \in {"answer", "filed", "unanswered"},
         message[m].new => pc \in {"ticket", "held", "commit"},
         pc \in {"held", "commit"} => tenant # "none",
         pc = "commit" => /\ message[m].new \/ customers[Address(m)] > 0
                          /\ ~Deleted(Address(m)),
         ~message[m].crossed =>
           /\ pc \in {"found", "lookup", "insert", "ticket", "held", "commit"} => tenant # "none"
           /\ pc = "insert" => customers[Address(m)] = 0
           /\ pc \in {"ticket", "held", "commit"} /\ ~message[m].new => customers[Address(m)] > 0,
         pc = "failed" => message[m].crossed
  PROVE  FormInv'
<1> DEFINE r == [message[m] EXCEPT !.pc = pc]
<1>1. message[m] \in MessageState
  BY DEF FormInv, TypeOK
<1>2. /\ r \in MessageState /\ r.pc = pc /\ r.email = message[m].email
      /\ r.new = message[m].new /\ r.crossed = message[m].crossed
  BY <1>1 DEF MessageState
<1>3. message' = [message EXCEPT ![m] = r]
  BY <1>1 DEF FormInv, TypeOK, MessageState
<1> HIDE DEF r
<1>4. Address(m) = Lower[r.email]
  BY <1>2 DEF Address
<1>5. message[m].new => tenant # "none" /\ customers[Address(m)] = 0 /\ ~Deleted(Address(m))
  BY DEF FormInv, LocksHold, HoldsTenant, RowsAreUnique
<1>6. /\ m \in tickets => r.email = message[m].email /\ r.pc \in {"answer", "filed", "unanswered"}
      /\ r.new => r.pc \in {"ticket", "held", "commit"}
      /\ r.new => message[m].new /\ r.email = message[m].email /\ customers[Lower[r.email]] = 0
      /\ r.new \/ r.pc \in {"held", "commit"} => tenant # "none"
      /\ r.pc = "commit" => r.new \/ customers[Lower[r.email]] > 0
      /\ r.pc = "commit" \/ r.new => ~Deleted(Lower[r.email])
  BY <1>2, <1>4, <1>5
<1>7. /\ r.pc = "failed" => r.crossed
      /\ ~r.crossed =>
           /\ r.pc \in {"found", "lookup", "insert", "ticket", "held", "commit"} => tenant # "none"
           /\ r.pc = "insert" => customers[Lower[r.email]] = 0
           /\ r.pc \in {"ticket", "held", "commit"} /\ ~r.new => customers[Lower[r.email]] > 0
  BY <1>2, <1>4
<1> QED BY <1>2, <1>3, <1>6, <1>7, OneMessageKeeps

LEMMA InsertKeeps ==
  ASSUME FormInv, NEW m \in Message, InsertCustomer(m)
  PROVE  FormInv'
<1> DEFINE refused == Taken(Address(m))
           r == [message[m] EXCEPT !.pc = IF refused THEN "failed" ELSE "ticket", !.new = ~refused]
<1>1. message[m] \in MessageState /\ Address(m) \in Spelling /\ customers[Address(m)] \in Nat
  BY Lowered DEF FormInv, TypeOK
<1>2. refused \in BOOLEAN
  BY DEF Taken
<1>3. message' = [message EXCEPT ![m] = r]
  BY <1>1 DEF InsertCustomer, FormInv, TypeOK, MessageState
<1>4. /\ UNCHANGED <<rows, script>> /\ message[m].pc = "insert"
      /\ ~Inserted(Address(m)) /\ ~Deleted(Address(m))
      /\ m \notin tickets
  BY DEF InsertCustomer, FormInv, Stored
<1>5. refused => message[m].crossed
  BY <1>1, <1>4 DEF Taken, FormInv, FindingsHold, Underway
<1>6. ~refused => customers[Address(m)] = 0 /\ tenant # "none"
  BY <1>1 DEF Taken
<1> HIDE DEF refused
<1>7. /\ r \in MessageState /\ r.email = message[m].email /\ r.crossed = message[m].crossed
      /\ r.pc = (IF refused THEN "failed" ELSE "ticket") /\ r.new = ~refused
  BY <1>1, <1>2 DEF MessageState, PC
<1> HIDE DEF r
<1>8. Address(m) = Lower[r.email]
  BY <1>7 DEF Address
<1>9. CASE refused
  BY <1>2, <1>3, <1>4, <1>5, <1>7, <1>8, <1>9, OneMessageKeeps
<1>10. CASE ~refused
  BY <1>2, <1>3, <1>4, <1>6, <1>7, <1>8, <1>10, OneMessageKeeps
<1> QED BY <1>9, <1>10

(* The other statements that store nothing.                                *)
LEMMA ReferKeeps ==
  ASSUME FormInv, NEW m \in Message, ReferToTenant(m) \/ ReferToCustomer(m) \/ Reply(m)
  PROVE  FormInv'
<1> USE DEF FormInv
<1>1. CASE ReferToTenant(m)
  <2> DEFINE pc == IF tenant = "none" THEN "failed" ELSE "held"
  <2>1. message' = [message EXCEPT ![m].pc = pc] /\ UNCHANGED <<rows, script>> /\ pc \in PC
    BY <1>1 DEF ReferToTenant, PC
  <2>2. message[m].pc = "ticket" /\ m \notin tickets
    BY <1>1 DEF ReferToTenant, Stored
  <2>3. pc = "failed" => message[m].crossed /\ ~message[m].new
    BY <2>2 DEF FindingsHold, Underway, LocksHold, HoldsTenant
  <2>4. ~message[m].crossed /\ ~message[m].new => customers[Address(m)] > 0
    BY <2>2 DEF FindingsHold
  <2>5. pc = "held" => tenant # "none"
    OBVIOUS
  <2>6. pc \in {"failed", "held"}
    OBVIOUS
  <2> HIDE DEF pc, FormInv
  <2> QED BY <2>1, <2>2, <2>3, <2>4, <2>5, <2>6, GoOnKeeps
<1>2. CASE ReferToCustomer(m)
  <2> DEFINE there == message[m].new \/ customers[Address(m)] > 0
             pc == IF there THEN "commit" ELSE "failed"
  <2>1. /\ message' = [message EXCEPT ![m].pc = pc] /\ UNCHANGED <<rows, script>> /\ pc \in PC
        /\ ~Deleted(Address(m))
    BY <1>2 DEF ReferToCustomer, PC
  <2>2. message[m].pc = "held" /\ m \notin tickets
    BY <1>2 DEF ReferToCustomer, Stored
  <2>3. pc = "failed" => message[m].crossed /\ ~message[m].new
    BY <2>2 DEF FindingsHold
  <2>4. tenant # "none"
    BY <2>2 DEF LocksHold, HoldsTenant
  <2>5. pc \in {"failed", "commit"} /\ (pc = "commit" => there)
    OBVIOUS
  <2> HIDE DEF pc, FormInv
  <2> QED BY <2>1, <2>2, <2>3, <2>4, <2>5, GoOnKeeps
<1>3. CASE Reply(m)
  <2>1. PICK pc \in {"filed", "unanswered"} : message' = [message EXCEPT ![m].pc = pc]
    BY <1>3 DEF Reply
  <2>2. UNCHANGED <<rows, script>> /\ ~message[m].new /\ pc \in PC
    BY <1>3 DEF Reply, TypeOK, PC
  <2> HIDE DEF FormInv
  <2> QED BY <2>1, <2>2, GoOnKeeps
<1> QED BY <1>1, <1>2, <1>3

-----------------------------------------------------------------------------
(* Steps that mark the messages they cross.                                *)
Same(m) ==
  /\ message'[m].pc = message[m].pc /\ message'[m].email = message[m].email
  /\ message'[m].new = message[m].new
  /\ message[m].crossed => message'[m].crossed

LEMMA StoreKeeps ==
  ASSUME FormInv, NEW m \in Message, Store(m)
  PROVE  FormInv'
<1> USE DEF FormInv
<1> DEFINE e == Address(m)
           r == [message[m] EXCEPT !.pc = "answer", !.new = FALSE]
           messages == [message EXCEPT ![m] = r]
           added == IF message[m].new THEN {e} ELSE {}
<1>1. /\ message[m] \in MessageState /\ e \in Spelling /\ Lower[e] = e /\ customers[e] \in Nat
      /\ message[m].pc = "commit" /\ message[m].new \in BOOLEAN
  BY Lowered DEF TypeOK, Store, MessageState
<1>2. /\ r \in MessageState /\ r.email = message[m].email /\ ~r.new /\ r.pc = "answer"
      /\ r.crossed = message[m].crossed
  BY <1>1 DEF MessageState, PC
<1>3. /\ message' = Cross(messages, added, m)
      /\ customers' = [customers EXCEPT ![e] = IF message[m].new THEN @ + 1 ELSE @]
      /\ tickets' = tickets \cup {m}
      /\ UNCHANGED <<tenant, script>>
  <2>1. message' = Cross([message EXCEPT ![m].pc = "answer", ![m].new = FALSE], added, m)
    BY DEF Store
  <2>2. [message EXCEPT ![m].pc = "answer", ![m].new = FALSE] = messages
    BY <1>1 DEF TypeOK, MessageState
  <2> QED BY <2>1, <2>2 DEF Store
<1>4. messages \in [Message -> MessageState] /\ messages[m] = r
      /\ \A n \in Message \ {m} : messages[n] = message[n]
  BY <1>2 DEF TypeOK
<1> HIDE DEF r, messages, added
<1>5. /\ message' \in [Message -> MessageState]
      /\ message'[m].pc = "answer" /\ message'[m].email = r.email /\ ~message'[m].new
      /\ \A n \in Message \ {m} : Same(n) /\ (Underway(n) /\ Address(n) \in added => message'[n].crossed)
  BY <1>2, <1>3, <1>4, CrossMarks DEF Same
<1>6. \A n \in Message : Address(n)' = Address(n)
  BY <1>2, <1>5 DEF Address, Same
<1>7. message[m].new => customers[e] = 0
  BY DEF RowsAreUnique
<1>8. ~message[m].new => customers[e] > 0
  BY <1>1 DEF LocksHold, HoldsCustomer
<1>9. /\ customers' \in [Spelling -> Nat]
      /\ customers'[e] = (IF message[m].new THEN 1 ELSE customers[e]) /\ customers'[e] > 0
      /\ \A a \in Spelling \ {e} : customers'[a] = customers[a]
  BY <1>1, <1>3, <1>7, <1>8 DEF TypeOK
<1>10. TypeOK'
  <2>1. \A n \in Message : message'[n].new => message'[n].pc \in {"ticket", "held", "commit"}
    BY <1>5 DEF TypeOK, Same
  <2>2. tickets' \in SUBSET Message
    BY <1>3 DEF TypeOK
  <2> QED BY <1>3, <1>5, <1>9, <2>1, <2>2 DEF TypeOK
<1>11. \A n \in Message : message'[n].new => message[n].new /\ n # m
  BY <1>5 DEF Same
<1>12. RowsAreUnique'
  <2>1. \A a \in Spelling : customers'[a] > 0 => Lower[a] = a /\ customers'[a] = 1
    BY <1>1, <1>9 DEF RowsAreUnique
  <2>2. ASSUME NEW n \in Message, message'[n].new PROVE customers'[Address(n)] = 0
    <3>1. CASE Address(n) = e
      <4>1. customers[e] = 0 /\ ~message[m].new
        BY <1>11, <2>2, <3>1 DEF RowsAreUnique
      <4> QED BY <1>8, <4>1
    <3>2. CASE Address(n) # e
      BY <1>9, <1>11, <2>2, <3>2, Lowered DEF RowsAreUnique
    <3> QED BY <3>1, <3>2
  <2>3. \A n, o \in Message : message'[n].new /\ message'[o].new /\ Address(n)' = Address(o)' => n = o
    BY <1>6, <1>11 DEF RowsAreUnique
  <2>4. \A n \in Message : message'[n].new => (customers[Address(n)])' = 0
    BY <1>6, <2>2
  <2> QED BY <2>1, <2>3, <2>4 DEF RowsAreUnique
<1>13. ScriptLeavesNone'
  <2> SUFFICES ASSUME script.pc = "end", NEW n \in tickets' \ script.tickets
               PROVE  Address(n)' \notin script.customers
    BY <1>3 DEF ScriptLeavesNone
  <2>1. CASE n = m
    BY <1>1, <1>6, <2>1 DEF LocksHold, HoldsCustomer, Deleted
  <2>2. CASE n # m
    <3>1. n \in tickets \ script.tickets /\ n \in Message
      BY <1>3, <2>2 DEF TypeOK
    <3> QED BY <1>6, <3>1 DEF ScriptLeavesNone
  <2> QED BY <2>1, <2>2
<1>14. TicketsHaveCustomers' /\ Stored'
  <2> SUFFICES ASSUME NEW n \in tickets'
               PROVE  /\ customers'[Address(n)'] > 0
                      /\ message'[n].pc \in {"answer", "filed", "unanswered"}
    BY DEF TicketsHaveCustomers, Stored
  <2>1. n \in Message
    BY <1>10 DEF TypeOK
  <2>2. CASE n = m
    BY <1>5, <1>6, <1>9, <2>2
  <2>3. CASE n # m
    <3>1. n \in tickets
      BY <1>3, <2>3
    <3>2. customers[Address(n)] > 0 /\ Address(n) \in Spelling
      BY <2>1, <3>1, Lowered DEF TicketsHaveCustomers
    <3>3. customers'[Address(n)] > 0
      BY <1>9, <3>2
    <3> QED BY <1>5, <1>6, <2>1, <2>3, <3>1, <3>3 DEF Same, Stored
  <2> QED BY <2>2, <2>3
<1>15. FindingsHold'
  <2> SUFFICES ASSUME NEW n \in Message, ~message'[n].crossed
               PROVE  /\ Underway(n)' => tenant # "none"
                      /\ message'[n].pc = "insert" => customers'[Address(n)] = 0
                      /\ message'[n].pc \in {"ticket", "held", "commit"} /\ ~message'[n].new =>
                           customers'[Address(n)] > 0
    BY <1>3, <1>6 DEF FindingsHold
  <2>1. CASE n = m
    BY <1>5, <2>1 DEF Underway
  <2>2. CASE n # m
    <3>1. Same(n) /\ ~message[n].crossed /\ (Underway(n)' <=> Underway(n))
      BY <1>5, <2>2 DEF Same, Underway
    <3>2. Underway(n) => customers'[Address(n)] = customers[Address(n)]
      <4>1. Underway(n) => Address(n) \notin added
        BY <1>5, <2>2
      <4>2. CASE Underway(n) /\ message[m].new
        <5>1. Address(n) # e
          BY <4>1, <4>2 DEF added
        <5> QED BY <1>9, <5>1, Lowered
      <4>3. CASE ~message[m].new
        BY <1>9, <4>3, Lowered
      <4> QED BY <4>2, <4>3
    <3> QED BY <3>1, <3>2 DEF FindingsHold, Same, Underway
  <2> QED BY <2>1, <2>2
<1>16. LostOnlyIfCrossed'
  BY <1>5 DEF LostOnlyIfCrossed, Same
<1>17. LocksHold'
  <2> SUFFICES ASSUME NEW n \in Message
               PROVE  /\ HoldsTenant(n)' => tenant # "none"
                      /\ HoldsCustomer(n)' => message'[n].new \/ customers'[Address(n)] > 0
                      /\ HoldsCustomer(n)' \/ message'[n].new => ~Deleted(Address(n))
    BY <1>3, <1>6 DEF LocksHold, Deleted
  <2>1. CASE n = m
    BY <1>5, <2>1 DEF HoldsTenant, HoldsCustomer
  <2>2. CASE n # m
    <3>1. Same(n)
      BY <1>5, <2>2
    <3>2. customers[Address(n)] > 0 => customers'[Address(n)] > 0
      BY <1>9, Lowered
    <3> QED BY <3>1, <3>2 DEF LocksHold, HoldsTenant, HoldsCustomer, Same
  <2> QED BY <2>1, <2>2
<1> QED BY <1>10, <1>12, <1>13, <1>14, <1>15, <1>16, <1>17

LEMMA AddCustomerKeeps ==
  ASSUME FormInv, NEW x \in Spelling, AddCustomer(x)
  PROVE  FormInv'
<1> USE DEF FormInv
<1> DEFINE e == Lower[x]
<1>1. e \in Spelling /\ Lower[e] = e /\ customers[e] \in Nat
  BY LowerType DEF TypeOK
<1>2. customers[e] = 0 /\ ~Inserted(e)
  BY <1>1 DEF AddCustomer, Taken
<1>3. /\ message' = Cross(message, {e}, 0) /\ UNCHANGED <<tenant, tickets, script>>
      /\ 0 \notin Message /\ message \in [Message -> MessageState]
  BY DEF AddCustomer, Message, TypeOK
<1>4. /\ message' \in [Message -> MessageState]
      /\ \A n \in Message : Same(n) /\ (Underway(n) /\ Address(n) = e => message'[n].crossed)
  BY <1>3, CrossMarks DEF Same
<1>5. /\ customers' \in [Spelling -> Nat] /\ customers'[e] = 1
      /\ \A a \in Spelling \ {e} : customers'[a] = customers[a]
  BY <1>1, <1>2 DEF AddCustomer, TypeOK
<1>6. \A n \in Message : /\ Address(n)' = Address(n) /\ (message'[n].new <=> message[n].new)
                         /\ Address(n) \in Spelling /\ (Underway(n)' <=> Underway(n))
  BY <1>4, Lowered DEF Address, Same, Underway
<1>7. TypeOK'
  BY <1>3, <1>4, <1>5 DEF TypeOK, Same
<1>8. RowsAreUnique'
  <2>1. \A n \in Message : message[n].new => Address(n) # e
    BY <1>2 DEF Inserted
  <2> QED BY <1>1, <1>5, <1>6, <2>1 DEF RowsAreUnique
<1>9. ScriptLeavesNone'
  BY <1>3, <1>6 DEF ScriptLeavesNone, TypeOK
<1>10. TicketsHaveCustomers' /\ Stored'
  <2> SUFFICES ASSUME NEW n \in tickets
               PROVE  /\ customers'[Address(n)'] > 0
                      /\ message'[n].pc \in {"answer", "filed", "unanswered"}
    BY <1>3 DEF TicketsHaveCustomers, Stored
  <2>1. n \in Message
    BY DEF TypeOK
  <2>2. customers[Address(n)] > 0 /\ message[n].pc \in {"answer", "filed", "unanswered"}
    BY DEF TicketsHaveCustomers, Stored
  <2>3. customers'[Address(n)] > 0
    BY <1>1, <1>5, <1>6, <2>1, <2>2
  <2> QED BY <1>4, <1>6, <2>1, <2>2, <2>3 DEF Same
<1>11. FindingsHold'
  <2> SUFFICES ASSUME NEW n \in Message, ~message'[n].crossed
               PROVE  /\ Underway(n)' => tenant # "none"
                      /\ message'[n].pc = "insert" => customers'[Address(n)] = 0
                      /\ message'[n].pc \in {"ticket", "held", "commit"} /\ ~message'[n].new =>
                           customers'[Address(n)] > 0
    BY <1>3, <1>6 DEF FindingsHold
  <2>1. Same(n) /\ ~message[n].crossed
    BY <1>4 DEF Same
  <2>2. Underway(n) => customers'[Address(n)] = customers[Address(n)]
    BY <1>4, <1>5, <1>6
  <2> QED BY <1>6, <2>1, <2>2 DEF FindingsHold, Same, Underway
<1>12. LostOnlyIfCrossed'
  BY <1>4 DEF LostOnlyIfCrossed, Same
<1>13. LocksHold'
  <2>1. \A n \in Message : customers[Address(n)] > 0 => customers'[Address(n)] > 0
    BY <1>5, <1>6
  <2> QED BY <1>3, <1>4, <1>6, <2>1 DEF LocksHold, HoldsTenant, HoldsCustomer, Deleted, Same
<1> QED BY <1>7, <1>8, <1>9, <1>10, <1>11, <1>12, <1>13

-----------------------------------------------------------------------------
(* The operator's scripts *)

(* A script that is at another statement changes no row.                   *)
LEMMA ScriptGoesOn ==
  ASSUME FormInv, script' \in Script, UNCHANGED <<rows, message>>,
         script'.pc = "end" =>
           /\ \A m \in tickets \ script'.tickets : Address(m) \notin script'.customers
           /\ \A m \in Message : HoldsCustomer(m) \/ message[m].new => Address(m) \notin script'.customers
  PROVE  FormInv'
<1> USE DEF FormInv
<1>1. UNCHANGED <<tenant, customers, tickets, message>> /\ \A m \in Message : Address(m)' = Address(m)
  BY DEF rows, Address
<1>2. TypeOK' /\ RowsAreUnique' /\ TicketsHaveCustomers' /\ Stored' /\ LostOnlyIfCrossed'
  BY <1>1 DEF TypeOK, RowsAreUnique, TicketsHaveCustomers, Stored, LostOnlyIfCrossed, Address
<1>3. FindingsHold'
  BY <1>1 DEF FindingsHold, Underway
<1>4. LocksHold'
  BY <1>1 DEF LocksHold, HoldsTenant, HoldsCustomer, Deleted
<1>5. ScriptLeavesNone'
  BY <1>1 DEF ScriptLeavesNone, TypeOK
<1> QED BY <1>2, <1>3, <1>4, <1>5

LEMMA DeletionKeeps ==
  ASSUME FormInv, DeleteTickets("delete") \/ DeleteTickets("reseed") \/ DeleteCustomers
  PROVE  FormInv'
<1>1. script \in Script /\ tickets \in SUBSET Message /\ MaxScripts \in Nat /\ script.number \in Nat
  BY BoundAssumption DEF FormInv, TypeOK, Script
<1>2. ASSUME NEW kind \in {"delete", "reseed"}, DeleteTickets(kind) PROVE FormInv'
  <2> DEFINE t == [pc |-> "customers", kind |-> kind, number |-> script.number + 1,
                   tickets |-> tickets, customers |-> {}]
  <2>1. script' = t /\ script.number < MaxScripts /\ UNCHANGED <<rows, message>>
    BY <1>2 DEF DeleteTickets
  <2>2. script.number + 1 \in 0 .. MaxScripts
    BY <1>1, <2>1
  <2>3. t \in Script /\ t.pc = "customers"
    BY <1>1, <2>2 DEF Script
  <2> HIDE DEF t
  <2> QED BY <2>1, <2>3, ScriptGoesOn
<1>3. CASE DeleteCustomers
  <2>1. UNCHANGED <<rows, message>> /\ \A m \in Message : HoldsCustomer(m) => message[m].new
    BY <1>3 DEF DeleteCustomers
  <2>2. CASE \E m \in tickets \ script.tickets : Address(m) \in Present
    <3>1. script' = NoScript(script.number)
      BY <1>3, <2>2 DEF DeleteCustomers
    <3>2. NoScript(script.number) \in Script /\ NoScript(script.number).pc = "idle"
      BY <1>1 DEF NoScript, Script
    <3> QED BY <2>1, <3>1, <3>2, ScriptGoesOn
  <2>3. CASE ~\E m \in tickets \ script.tickets : Address(m) \in Present
    <3> DEFINE t == [script EXCEPT !.pc = "end", !.customers = Present]
    <3>1. script' = t
      BY <1>3, <2>3 DEF DeleteCustomers
    <3>2. t \in Script /\ t.tickets = script.tickets /\ t.customers = Present
      BY <1>1 DEF Script, Present
    <3> HIDE DEF t
    <3>3. \A m \in Message : HoldsCustomer(m) \/ message[m].new => Address(m) \notin Present
      BY <2>1 DEF FormInv, RowsAreUnique, Present
    <3> QED BY <2>1, <2>3, <3>1, <3>2, <3>3, ScriptGoesOn
  <2> QED BY <2>2, <2>3
<1> QED BY <1>2, <1>3

(* The rows go, and whoever wrote to their addresses is crossed.           *)
LEMMA EndScriptKeeps ==
  ASSUME FormInv, EndScript
  PROVE  FormInv'
<1> USE DEF FormInv
<1> DEFINE whole == script.kind = "delete"
           since == Present \ script.customers # {} \/ tickets \ script.tickets # {}
           addresses == IF whole THEN Spelling ELSE script.customers
<1>1. /\ script \in Script /\ script.pc = "end" /\ script' = NoScript(script.number)
      /\ NoScript(script.number) \in Script /\ script'.pc = "idle"
      /\ script.customers \in SUBSET Spelling
  BY DEF EndScript, TypeOK, NoScript, Script
<1>2. ScriptLeavesNone'
  BY <1>1 DEF ScriptLeavesNone
<1>3. CASE whole /\ since
  <2>1. UNCHANGED <<rows, message>>
    BY <1>3 DEF EndScript
  <2> HIDE DEF FormInv
  <2> QED BY <1>1, <2>1, ScriptGoesOn
<1>4. CASE ~(whole /\ since)
  <2>1. /\ tickets' = tickets \ script.tickets
        /\ customers' = [e \in Spelling |-> IF e \in script.customers THEN 0 ELSE customers[e]]
        /\ tenant' = (IF whole THEN "none" ELSE tenant)
        /\ message' = Cross(message, addresses, 0)
    BY <1>4 DEF EndScript
  <2>2. 0 \notin Message /\ message \in [Message -> MessageState]
    BY DEF Message, TypeOK
  <2> HIDE DEF since
  <2>3. /\ message' \in [Message -> MessageState]
        /\ \A n \in Message : Same(n) /\ (Underway(n) /\ Address(n) \in addresses => message'[n].crossed)
    BY <2>1, <2>2, CrossMarks DEF Same
  <2>4. \A n \in Message : /\ Address(n)' = Address(n) /\ (message'[n].new <=> message[n].new)
                           /\ Address(n) \in Spelling /\ (Underway(n)' <=> Underway(n))
    BY <2>3, Lowered DEF Address, Same, Underway
  <2>5. /\ customers' \in [Spelling -> Nat]
        /\ \A e \in Spelling : customers'[e] = (IF e \in script.customers THEN 0 ELSE customers[e])
    BY <2>1 DEF TypeOK
  <2>6. TypeOK'
    BY <1>1, <2>1, <2>3, <2>5 DEF TypeOK, Same
  <2>7. RowsAreUnique'
    BY <2>4, <2>5 DEF RowsAreUnique
  <2>8. TicketsHaveCustomers' /\ Stored'
    <3> SUFFICES ASSUME NEW n \in tickets \ script.tickets
                 PROVE  /\ customers'[Address(n)'] > 0
                        /\ message'[n].pc \in {"answer", "filed", "unanswered"}
      BY <2>1 DEF TicketsHaveCustomers, Stored
    <3>1. n \in Message /\ Address(n) \notin script.customers
      BY <1>1 DEF TypeOK, ScriptLeavesNone
    <3>2. customers[Address(n)] > 0 /\ message[n].pc \in {"answer", "filed", "unanswered"}
      BY DEF TicketsHaveCustomers, Stored
    <3> QED BY <2>3, <2>4, <2>5, <3>1, <3>2 DEF Same
  <2>9. FindingsHold'
    <3> SUFFICES ASSUME NEW n \in Message, ~message'[n].crossed
                 PROVE  /\ Underway(n)' => tenant' # "none"
                        /\ message'[n].pc = "insert" => customers'[Address(n)] = 0
                        /\ message'[n].pc \in {"ticket", "held", "commit"} /\ ~message'[n].new =>
                             customers'[Address(n)] > 0
      BY <2>4 DEF FindingsHold
    <3>1. Same(n) /\ ~message[n].crossed
      BY <2>3 DEF Same
    <3>2. Underway(n) => ~whole /\ Address(n) \notin script.customers
      BY <2>3, <2>4
    <3>3. Underway(n) => tenant' = tenant /\ customers'[Address(n)] = customers[Address(n)]
      BY <2>1, <2>4, <2>5, <3>2
    <3> QED BY <2>4, <3>1, <3>3 DEF FindingsHold, Same, Underway
  <2>10. LostOnlyIfCrossed'
    BY <2>3 DEF LostOnlyIfCrossed, Same
  <2>11. LocksHold'
    <3>1. \A n \in Message : HoldsTenant(n) => tenant' = tenant
      BY <2>1 DEF EndScript
    <3>2. \A n \in Message : HoldsCustomer(n) => customers'[Address(n)] = customers[Address(n)]
      BY <1>1, <2>4, <2>5 DEF LocksHold, Deleted
    <3> QED BY <1>1, <2>3, <2>4, <3>1, <3>2 DEF LocksHold, HoldsTenant, HoldsCustomer, Deleted, Same
  <2> QED BY <1>2, <2>6, <2>7, <2>8, <2>9, <2>10, <2>11
<1> QED BY <1>3, <1>4

-----------------------------------------------------------------------------
LEMMA RestartKeeps ==
  ASSUME FormInv, Restart
  PROVE  FormInv'
<1> USE DEF FormInv
<1>1. UNCHANGED <<tenant, customers, tickets, script>>
  BY DEF Restart, rows
<1>2. \A n \in Message : ~Underway(n) =>
        /\ message'[n] \in MessageState /\ message'[n].email = message[n].email
        /\ ~message'[n].new /\ ~Underway(n)'
        /\ message'[n].pc = "failed" => message[n].pc = "failed" /\ message'[n].crossed
        /\ message[n].pc \in {"answer", "filed", "unanswered"} =>
             message'[n].pc \in {"answer", "filed", "unanswered"}
  <2> SUFFICES ASSUME NEW n \in Message, ~Underway(n)
               PROVE  /\ message'[n] \in MessageState /\ message'[n].email = message[n].email
                      /\ ~message'[n].new /\ ~Underway(n)'
                      /\ message'[n].pc = "failed" => message[n].pc = "failed" /\ message'[n].crossed
                      /\ message[n].pc \in {"answer", "filed", "unanswered"} =>
                           message'[n].pc \in {"answer", "filed", "unanswered"}
    OBVIOUS
  <2>1. message[n] \in MessageState /\ ~message[n].new
    BY DEF TypeOK, Underway
  <2>2. message'[n] = IF message[n].pc = "answer" THEN [message[n] EXCEPT !.pc = "unanswered"]
                      ELSE message[n]
    BY DEF Restart
  <2>3. CASE message[n].pc = "answer"
    <3>1. message'[n] = [message[n] EXCEPT !.pc = "unanswered"]
      BY <2>2, <2>3
    <3> QED BY <2>1, <3>1 DEF MessageState, PC, Underway
  <2>4. CASE message[n].pc # "answer"
    <3>1. message'[n] = message[n]
      BY <2>2, <2>4
    <3> QED BY <2>1, <3>1 DEF Underway, LostOnlyIfCrossed
  <2> QED BY <2>3, <2>4
<1>3. \A n \in Message : Underway(n) =>
        /\ message'[n] \in MessageState /\ message'[n].pc = "failed" /\ ~message'[n].new
        /\ message'[n].crossed /\ message'[n].email = message[n].email
  <2> SUFFICES ASSUME NEW n \in Message, Underway(n)
               PROVE  /\ message'[n] \in MessageState /\ message'[n].pc = "failed" /\ ~message'[n].new
                      /\ message'[n].crossed /\ message'[n].email = message[n].email
    OBVIOUS
  <2>1. message'[n] = [message[n] EXCEPT !.pc = "failed", !.new = FALSE, !.crossed = TRUE]
    BY DEF Restart
  <2>2. message[n] \in MessageState
    BY DEF TypeOK
  <2> QED BY <2>1, <2>2 DEF MessageState, PC
<1>4. message' \in [Message -> MessageState]
  <2>1. \A n \in Message : message'[n] \in MessageState
    BY <1>2, <1>3
  <2> QED BY <2>1 DEF Restart
<1>5. \A n \in Message : Address(n)' = Address(n)
  BY <1>2, <1>3 DEF Address
<1>6. \A n \in Message : ~Underway(n)' /\ ~message'[n].new
  BY <1>2, <1>3 DEF Underway
<1>7. TypeOK'
  BY <1>1, <1>4, <1>6 DEF TypeOK
<1>8. RowsAreUnique' /\ FindingsHold' /\ LocksHold'
  BY <1>1, <1>6 DEF RowsAreUnique, FindingsHold, Underway, LocksHold, HoldsTenant, HoldsCustomer
<1>9. ScriptLeavesNone' /\ TicketsHaveCustomers' /\ Stored'
  <2>1. \A n \in tickets : n \in Message /\ ~Underway(n)
    BY DEF TypeOK, Stored, Underway
  <2> QED BY <1>1, <1>2, <1>5, <2>1 DEF ScriptLeavesNone, TicketsHaveCustomers, Stored
<1>10. LostOnlyIfCrossed'
  BY <1>2, <1>3 DEF LostOnlyIfCrossed
<1> QED BY <1>7, <1>8, <1>9, <1>10

(* PostgreSQL ends the message or the script; the transaction that is      *)
(* ended leaves nothing.                                                   *)
LEMMA DeadlockKeeps ==
  ASSUME FormInv, NEW m \in Message, BreakDeadlock(m)
  PROVE  FormInv'
<1>1. CASE message' = [message EXCEPT ![m].pc = "failed", ![m].crossed = TRUE] /\ UNCHANGED script
  <2> DEFINE r == [message[m] EXCEPT !.pc = "failed", !.crossed = TRUE]
  <2>1. message[m] \in MessageState /\ message[m].pc = "held" /\ Deleted(Address(m))
        /\ Address(m) \in Spelling
    BY Lowered DEF BreakDeadlock, FormInv, TypeOK
  <2>2. ~message[m].new
    BY <2>1 DEF FormInv, LocksHold
  <2>3. /\ r \in MessageState /\ r.pc = "failed" /\ r.email = message[m].email
        /\ r.new = message[m].new /\ r.crossed
    BY <2>1 DEF MessageState, PC
  <2>4. message' = [message EXCEPT ![m] = r]
    BY <1>1, <2>1 DEF FormInv, TypeOK, MessageState
  <2>5. UNCHANGED <<rows, script>> /\ m \notin tickets
    BY <1>1, <2>1 DEF BreakDeadlock, FormInv, Stored
  <2> HIDE DEF r
  <2> QED BY <2>2, <2>3, <2>4, <2>5, OneMessageKeeps
<1>2. CASE script' = NoScript(script.number) /\ UNCHANGED message
  <2>1. script \in Script
    BY DEF FormInv, TypeOK
  <2>2. script' \in Script /\ script'.pc = "idle" /\ UNCHANGED <<rows, message>>
    BY <1>2, <2>1 DEF BreakDeadlock, NoScript, Script
  <2> QED BY <2>2, ScriptGoesOn
<1> QED BY <1>1, <1>2 DEF BreakDeadlock

LEMMA FormInvariant == Spec => []FormInv
<1>1. Init => FormInv
  <2> SUFFICES ASSUME Init PROVE FormInv
    OBVIOUS
  <2>1. PICK e \in Spelling : message = [m \in Message |-> Fresh("idle", e)]
    BY LowerAssumption DEF Init
  <2>2. NoScript(0) \in Script /\ NoScript(0).pc = "idle"
    BY BoundAssumption DEF NoScript, Script
  <2>3. Fresh("idle", e) \in MessageState /\ Fresh("idle", e).pc = "idle" /\ ~Fresh("idle", e).new
    BY DEF Fresh, MessageState, PC
  <2>4. \A m \in Message : message[m].pc = "idle" /\ ~message[m].new
    BY <2>1, <2>3
  <2>5. TypeOK
    BY <2>1, <2>2, <2>3 DEF Init, TypeOK
  <2>6. RowsAreUnique
    BY <2>4 DEF Init, RowsAreUnique
  <2>7. ScriptLeavesNone /\ TicketsHaveCustomers /\ Stored
    BY <2>2 DEF Init, ScriptLeavesNone, TicketsHaveCustomers, Stored
  <2>8. FindingsHold /\ LocksHold /\ LostOnlyIfCrossed
    BY <2>4 DEF FindingsHold, Underway, LocksHold, HoldsTenant, HoldsCustomer, LostOnlyIfCrossed
  <2> QED BY <2>5, <2>6, <2>7, <2>8 DEF FormInv
<1>2. FormInv /\ [Next]_vars => FormInv'
  <2> SUFFICES ASSUME FormInv, [Next]_vars PROVE FormInv'
    OBVIOUS
  <2>1. CASE UNCHANGED vars
    BY <2>1, ScriptGoesOn DEF vars, FormInv, TypeOK, ScriptLeavesNone, LocksHold, Deleted
  <2>2. ASSUME NEW m \in Message, Honeypot(m) \/ Step(m) PROVE FormInv'
    <3>1. message[m].pc \in {"found", "lookup"} => ~message[m].new /\ m \notin tickets
      BY DEF FormInv, TypeOK, Stored
    <3>2. message[m].pc \in {"found", "lookup"} /\ ~message[m].crossed => tenant # "none"
      BY DEF FormInv, FindingsHold, Underway
    <3>3. CASE Honeypot(m)
      BY <3>1, <3>3, GoOnKeeps DEF Honeypot, PC
    <3>4. CASE Admit(m)
      <4>1. PICK pc \in {"lookup", "refused"} : message' = [message EXCEPT ![m].pc = pc]
        BY <3>4 DEF Admit
      <4>2. message[m].pc = "found" /\ UNCHANGED <<rows, script>> /\ pc \in PC
        BY <3>4 DEF Admit, PC
      <4> QED BY <3>1, <3>2, <4>1, <4>2, GoOnKeeps
    <3>5. CASE Lookup(m)
      <4> DEFINE pc == IF customers[Address(m)] > 0 THEN "ticket" ELSE "insert"
      <4>1. customers[Address(m)] \in Nat
        BY Lowered DEF FormInv, TypeOK
      <4>2. /\ message' = [message EXCEPT ![m].pc = pc] /\ UNCHANGED <<rows, script>>
            /\ message[m].pc = "lookup"
        BY <3>5 DEF Lookup
      <4>3. /\ pc \in PC /\ pc \in {"ticket", "insert"}
            /\ pc = "insert" => customers[Address(m)] = 0
            /\ pc = "ticket" => customers[Address(m)] > 0
        BY <4>1 DEF PC
      <4> HIDE DEF pc
      <4> QED BY <3>1, <3>2, <4>2, <4>3, GoOnKeeps
    <3> QED BY <2>2, <3>3, <3>4, <3>5, InsertKeeps, ReferKeeps, StoreKeeps DEF Step
  <2>3. CASE Switch
    BY <2>3 DEF Switch, FormInv, TypeOK, RowsAreUnique, ScriptLeavesNone, TicketsHaveCustomers,
                FindingsHold, Underway, LocksHold, HoldsTenant, HoldsCustomer, Deleted, Stored,
                LostOnlyIfCrossed, Address
  <2> QED BY <2>1, <2>2, <2>3, FindKeeps, AddCustomerKeeps, DeletionKeeps, EndScriptKeeps, RestartKeeps,
           DeadlockKeeps DEF Next
<1> QED BY <1>1, <1>2, PTL DEF Spec

(* A person is one customer, every ticket has its customer, and no address *)
(* is stored in two spellings, whatever messages, staff, scripts and       *)
(* restarts do at once.                                                    *)
THEOREM CustomersStayConsistent == Spec => []CustomersConsistent
<1>1. FormInv => CustomersConsistent
  BY DEF FormInv, TypeOK, RowsAreUnique, CustomersConsistent, OneCustomerPerAddress
<1> QED BY <1>1, FormInvariant, PTL

(* A message is lost to an error of the server only if someone else added  *)
(* or removed its customer during it, its business was being deleted, or   *)
(* the server stopped.                                                     *)
THEOREM LostIsCrossed == Spec => []LostOnlyIfCrossed
<1>1. FormInv => LostOnlyIfCrossed
  BY DEF FormInv
<1> QED BY <1>1, FormInvariant, PTL
=============================================================================
