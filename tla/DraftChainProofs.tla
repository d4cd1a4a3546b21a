-------------------------- MODULE DraftChainProofs --------------------------
(***************************************************************************)
(* Proofs about DraftChain, for every number of calls per link and every   *)
(* combination of keys, pin and tenant.                                    *)
(***************************************************************************)
EXTENDS DraftChain, TLAPS

LEMMA ChainType ==
  ASSUME NEW s \in Setting, Starts(s)
  PROVE  DefaultDrafter(s) \in SUBSET Link /\ DefaultDrafter(s) # {}
  BY DEF Starts, DefaultDrafter, BuildChain, Link, Placeholder

LEMMA RecordType ==
  ASSUME attempts \in Seq(Entry), NEW l \in Link, NEW what \in {"skipped", "error", "ok"},
         Record(l, what)
  PROVE  attempts' \in Seq(Entry)
<1>1. [link |-> l, what |-> what] \in Entry
  BY DEF Entry
<1> QED BY <1>1 DEF Record

(* What an answer does to the call and the record; the record of calls.    *)
LEMMA AnsweredType ==
  ASSUME TypeOK, Answered
  PROVE  TypeOK'
<1>1. PICK answer \in Answer :
        /\ CallAgain(answer) \/ MoveOn(answer) \/ Drafted(answer) \/ Escape(answer)
        /\ calls' = [calls EXCEPT ![at] = Append(@, answer)]
  BY DEF Answered
<1>2. calls' \in [Link -> Seq(Answer)]
  BY <1>1 DEF TypeOK
<1>3. UNCHANGED <<chain, allowed, rest, at>> /\ pc = "call" /\ at \in chain \ rest /\ at \in Link
  BY DEF Answered, TypeOK
<1>4. try' \in 1 .. Attempts /\ pc' \in PC /\ attempts' \in Seq(Entry)
  <2>1. CASE CallAgain(answer)
    BY <2>1, AttemptsAssumption DEF CallAgain, Retriable, TypeOK
  <2>2. CASE MoveOn(answer)
    BY <2>2, <1>3, RecordType DEF MoveOn, TypeOK, PC
  <2>3. CASE Drafted(answer)
    BY <2>3, <1>3, RecordType DEF Drafted, TypeOK, PC
  <2>4. CASE Escape(answer)
    BY <2>4 DEF Escape, TypeOK, PC
  <2> QED BY <1>1, <2>1, <2>2, <2>3, <2>4
<1> QED BY <1>2, <1>3, <1>4 DEF TypeOK

(* The chain, the loop, the call under way and the record have their       *)
(* types.                                                                  *)
THEOREM ChainTyped == Spec => []TypeOK
<1>1. Init => TypeOK
  <2> SUFFICES ASSUME Init PROVE TypeOK
    OBVIOUS
  <2>1. chain \in SUBSET Link /\ chain # {}
    BY ChainType DEF Init
  <2>2. try \in 1 .. Attempts
    BY AttemptsAssumption DEF Init
  <2>3. calls \in [Link -> Seq(Answer)]
    BY DEF Init
  <2> QED BY <2>1, <2>2, <2>3 DEF Init, TypeOK, PC, Link, Placeholder
<1>2. TypeOK /\ [Next]_vars => TypeOK'
  <2> SUFFICES ASSUME TypeOK, [Next]_vars PROVE TypeOK'
    OBVIOUS
  <2>1. CASE Skip
    <3>1. PICK l \in rest : rest' = rest \ {l} /\ Record(l, "skipped")
      BY <2>1 DEF Skip
    <3>2. attempts' \in Seq(Entry)
      BY <3>1, RecordType DEF TypeOK
    <3> QED BY <2>1, <3>1, <3>2 DEF Skip, TypeOK
  <2>2. CASE Ask
    BY <2>2, AttemptsAssumption DEF Ask, TypeOK, PC
  <2>3. CASE WritePlaceholder
    BY <2>3 DEF WritePlaceholder, TypeOK, PC, Link, Placeholder
  <2>4. CASE Exhausted
    BY <2>4 DEF Exhausted, TypeOK, PC
  <2>5. CASE Answered
    BY <2>5, AnsweredType
  <2>6. CASE UNCHANGED vars
    BY <2>6 DEF vars, TypeOK
  <2> QED BY <2>1, <2>2, <2>3, <2>4, <2>5, <2>6 DEF Next
<1> QED BY <1>1, <1>2, PTL DEF Spec

-----------------------------------------------------------------------------
(* The links behind the loop, but for the one that is called or has        *)
(* drafted, were barred or have given up; those it has not come to are     *)
(* after the one that is called.                                           *)
Behind ==
  /\ \A l \in chain \ rest :
       \/ l = at /\ pc \in {"call", "drafted", "escaped"}
       \/ Barred(l) \/ GaveUp(l)
  /\ pc = "failed" => rest = {}
  /\ pc \in {"call", "escaped"} => \A l \in rest : at <= l

LEMMA AnsweredBehind ==
  ASSUME TypeOK, Behind, Answered
  PROVE  Behind'
<1>1. PICK answer \in Answer :
        /\ CallAgain(answer) \/ MoveOn(answer) \/ Drafted(answer) \/ Escape(answer)
        /\ calls' = [calls EXCEPT ![at] = Append(@, answer)]
  BY DEF Answered
<1>2. UNCHANGED <<chain, allowed, rest, at>> /\ pc = "call" /\ at \in Link
  BY DEF Answered, TypeOK
<1>3. \A l \in chain : l # at => calls'[l] = calls[l]
  BY <1>1 DEF TypeOK
<1>4. \A l \in chain : l # at => (Barred(l)' <=> Barred(l)) /\ (GaveUp(l)' <=> GaveUp(l))
  BY <1>2, <1>3 DEF Barred, GaveUp, LastAnswer
<1>5. CASE CallAgain(answer) \/ Drafted(answer) \/ Escape(answer)
  <2>1. pc' \in {"call", "drafted", "escaped"}
    BY <1>2, <1>5 DEF CallAgain, Drafted, Escape
  <2> QED BY <1>2, <1>4, <2>1 DEF Behind
<1>6. CASE MoveOn(answer)
  <2>1. calls'[at] = Append(calls[at], answer) /\ calls[at] \in Seq(Answer)
    BY <1>1, <1>2 DEF TypeOK
  <2>2. calls'[at] # <<>> /\ calls'[at][Len(calls'[at])] = answer
    BY <2>1
  <2>3. GaveUp(at)'
    BY <1>2, <1>6, <2>2 DEF GaveUp, LastAnswer, MoveOn
  <2>4. pc' = "next"
    BY <1>6 DEF MoveOn
  <2>5. ASSUME NEW l \in chain', l \notin rest' PROVE Barred(l)' \/ GaveUp(l)'
    <3>1. CASE l = at
      BY <1>2, <2>3, <3>1
    <3>2. CASE l # at
      BY <1>2, <1>4, <2>5, <3>2 DEF Behind
    <3> QED BY <3>1, <3>2
  <2> QED BY <2>4, <2>5 DEF Behind
<1> QED BY <1>1, <1>5, <1>6

(* DraftError is raised only after every link the tenant may use has been  *)
(* called and has failed; another exception, after every such link before  *)
(* the one that raised it.                                                 *)
THEOREM FailsLast == Spec => []FailsOnlyIfAllDo
<1>1. Init => Behind
  BY DEF Init, Behind
<1>2. TypeOK /\ Behind /\ [Next]_vars => Behind'
  <2> SUFFICES ASSUME TypeOK, Behind, [Next]_vars PROVE Behind'
    OBVIOUS
  <2>1. CASE Skip
    BY <2>1 DEF Skip, Behind, Barred, GaveUp, LastAnswer
  <2>2. CASE Ask
    <3>1. pc' = "call" => \A l \in rest' : at' <= l
      BY <2>2 DEF Ask, First
    <3> QED BY <2>2, <3>1 DEF Ask, Behind, Barred, GaveUp, LastAnswer
  <2>3. CASE WritePlaceholder
    BY <2>3 DEF WritePlaceholder, Behind, Barred, GaveUp, LastAnswer
  <2>4. CASE Exhausted
    BY <2>4 DEF Exhausted, Behind, Barred, GaveUp, LastAnswer
  <2>5. CASE Answered
    BY <2>5, AnsweredBehind
  <2>6. CASE UNCHANGED vars
    BY <2>6 DEF vars, Behind, Barred, GaveUp, LastAnswer
  <2> QED BY <2>1, <2>2, <2>3, <2>4, <2>5, <2>6 DEF Next
<1>3. TypeOK /\ Behind => FailsOnlyIfAllDo
  BY DEF TypeOK, Link, Behind, FailsOnlyIfAllDo
<1> QED BY <1>1, <1>2, <1>3, ChainTyped, PTL DEF Spec

-----------------------------------------------------------------------------
(* The refinement: what is left to pass over, seen from the chain. *)

Open == {l \in Remaining : ~Restricted(l) \/ allowed}

(* The link that is called comes before the rest; a chain with the         *)
(* placeholder has nothing else in it.                                     *)
Ordered ==
  /\ pc = "call" => ~Barred(at) /\ \A l \in rest : at <= l
  /\ pc = "failed" => rest = {}
  /\ Placeholder \in rest => pc = "next"

LEMMA OrderedInvariant == Spec => []Ordered
<1>1. Init => Ordered
  BY DEF Init, Ordered
<1>2. TypeOK /\ Ordered /\ [Next]_vars => Ordered'
  <2> SUFFICES ASSUME TypeOK, Ordered, [Next]_vars PROVE Ordered'
    OBVIOUS
  <2>1. CASE Skip
    BY <2>1 DEF Skip, Ordered
  <2>2. CASE Ask
    BY <2>2 DEF Ask, Ordered, First, Barred, TypeOK, Link, Placeholder
  <2>3. CASE WritePlaceholder
    BY <2>3 DEF WritePlaceholder, Ordered
  <2>4. CASE Exhausted
    BY <2>4 DEF Exhausted, Ordered
  <2>5. CASE Answered
    BY <2>5 DEF Answered, CallAgain, MoveOn, Drafted, Escape, Ordered, Barred
  <2>6. CASE UNCHANGED vars
    BY <2>6 DEF vars, Ordered, Barred
  <2> QED BY <2>1, <2>2, <2>3, <2>4, <2>5, <2>6 DEF Next
<1> QED BY <1>1, <1>2, ChainTyped, PTL DEF Spec

(* A step of the drafter passes a link over, takes it, gives up, or is     *)
(* none of the caller's business.                                          *)
LEMMA StepRefines ==
  ASSUME TypeOK, Ordered, [Next]_vars
  PROVE  [Choice!Next]_(Choice!choice)
<1> USE DEF Choice!Next, Choice!choice, Choice!PassOver, Choice!Take, Choice!GiveUp,
            Choice!Preferred
<1>1. CASE Skip
  <2>1. Open' = Open
    BY <1>1 DEF Skip, Open, Remaining, Barred
  <2> QED BY <1>1, <2>1 DEF Skip, Open
<1>2. CASE Ask
  <2>1. Open' = Open
    BY <1>2 DEF Ask, Open, Remaining, Restricted
  <2> QED BY <1>2, <2>1 DEF Ask, Open
<1>3. CASE WritePlaceholder
  <2>1. Open' = Open /\ Placeholder \in Open /\ pc = "next"
    BY <1>3 DEF WritePlaceholder, Open, Remaining, Restricted
  <2>2. \A l \in Open : Placeholder <= l
    BY <2>1 DEF Open, Remaining, TypeOK, Link, Placeholder
  <2> QED BY <1>3, <2>1, <2>2 DEF WritePlaceholder, Open
<1>4. CASE Exhausted
  <2>1. Open' = Open /\ Open = {}
    BY <1>4 DEF Exhausted, Open, Remaining
  <2> QED BY <1>4, <2>1 DEF Exhausted, Open
<1>5. CASE Answered
  <2>1. PICK answer \in Answer :
          CallAgain(answer) \/ MoveOn(answer) \/ Drafted(answer) \/ Escape(answer)
    BY <1>5 DEF Answered
  <2>2. pc = "call" /\ UNCHANGED <<allowed, rest, at>>
    BY <1>5 DEF Answered
  <2>3. at \in Open /\ \A l \in Open : at <= l
    BY <2>2 DEF Ordered, Open, Remaining, Barred, TypeOK, Link
  <2>4. CASE CallAgain(answer)
    <3>1. Open' = Open
      BY <2>2, <2>4 DEF CallAgain, Open, Remaining, Restricted
    <3> QED BY <2>2, <2>4, <3>1 DEF CallAgain, Open
  <2>5. CASE MoveOn(answer)
    <3>1. Open' = Open \ {at}
      BY <2>2, <2>5 DEF MoveOn, Open, Remaining, Restricted, TypeOK
    <3> QED BY <2>2, <2>3, <2>5, <3>1 DEF MoveOn, Open
  <2>6. CASE Drafted(answer)
    <3>1. Open' = Open
      BY <2>2, <2>6 DEF Drafted, Open, Remaining, Restricted
    <3> QED BY <2>2, <2>3, <2>6, <3>1 DEF Drafted, Open
  <2>7. CASE Escape(answer)
    <3>1. Open' = Open
      BY <2>2, <2>7 DEF Escape, Open, Remaining, Restricted
    <3> QED BY <2>2, <2>7, <3>1 DEF Escape, Open
  <2> QED BY <2>1, <2>4, <2>5, <2>6, <2>7
<1>6. CASE UNCHANGED vars
  <2>1. Open' = Open
    BY <1>6 DEF vars, Open, Remaining, Restricted
  <2> QED BY <1>6, <2>1 DEF vars, Open
<1> QED BY <1>1, <1>2, <1>3, <1>4, <1>5, <1>6 DEF Next

(* The drafter takes the first usable of the links its tenant may use.     *)
THEOREM ImplementsFirstUsable == Spec => TakesInOrder
<1>1. TypeOK /\ Init => Choice!Init
  BY DEF Init, Choice!Init, Remaining, TypeOK
<1>2. TypeOK /\ Ordered /\ [Next]_vars => [Choice!Next]_(Choice!choice)
  BY StepRefines
<1> QED BY <1>1, <1>2, ChainTyped, OrderedInvariant, PTL DEF Spec, TakesInOrder, Choice!SafeSpec

-----------------------------------------------------------------------------
(* The record and the calls. *)

(* The links that the record is about: those behind the loop, but for the  *)
(* one whose call is under way, or was left by another exception.          *)
Tried == {l \in chain \ rest : l # Placeholder /\ ~(l = at /\ pc \in {"call", "escaped"})}

Recorded == {attempts[i].link : i \in 1 .. Len(attempts)}

InOrder == \A i, j \in 1 .. Len(attempts) : i < j => attempts[i].link < attempts[j].link

Truthful == \A i \in 1 .. Len(attempts) : Agrees(attempts[i])

(* The loop goes through the chain by preference; the placeholder is a     *)
(* chain of its own.                                                       *)
Sweep ==
  /\ \A l \in chain \ rest : \A k \in rest : l < k
  /\ pc \in {"call", "escaped"} => at # Placeholder /\ \A l \in chain \ rest : l <= at
  /\ Placeholder \in chain => chain = {Placeholder}

(* What has been called is behind the loop; what is called is the first    *)
(* time, or was slow each time before.                                     *)
Called ==
  /\ \A l \in Link : calls[l] # <<>> => l \in chain \ rest
  /\ pc = "call" =>
       /\ Len(calls[at]) = try - 1
       /\ \A i \in 1 .. Len(calls[at]) : calls[at][i] \in Waits
       /\ try > 1 => Retries(at)

CallsInv == Recorded = Tried /\ InOrder /\ Truthful /\ Sweep /\ Called /\ RetriesAsLimited

(* Recording a link that comes after those recorded.                       *)
LEMMA RecordAppends ==
  ASSUME TypeOK, InOrder, NEW l \in Link, NEW what, Record(l, what), \A k \in Recorded : k < l
  PROVE  /\ Recorded' = Recorded \cup {l}
         /\ InOrder'
         /\ \A i \in 1 .. Len(attempts') :
              attempts'[i] = [link |-> l, what |-> what]
              \/ \E j \in 1 .. Len(attempts) : attempts'[i] = attempts[j]
<1> DEFINE e == [link |-> l, what |-> what]
<1>1. PICK N \in Nat : N = Len(attempts)
  BY DEF TypeOK
<1>2. /\ Len(attempts') = N + 1 /\ attempts'[N + 1] = e
      /\ \A i \in 1 .. N : attempts'[i] = attempts[i]
  BY <1>1 DEF Record, TypeOK
<1>3. e.link = l
  OBVIOUS
<1> HIDE DEF e
<1>4. \A i \in 1 .. N : i \in 1 .. N + 1
  OBVIOUS
<1>5. \A i \in 1 .. N + 1 : i \in 1 .. N \/ i = N + 1
  OBVIOUS
<1>6. Recorded' = Recorded \cup {l}
  <2>1. Recorded' = {attempts'[i].link : i \in 1 .. N + 1}
    BY <1>2 DEF Recorded
  <2>2. Recorded = {attempts[i].link : i \in 1 .. N}
    BY <1>1 DEF Recorded
  <2>3. N + 1 \in 1 .. N + 1
    OBVIOUS
  <2> QED BY <1>2, <1>3, <1>4, <1>5, <2>1, <2>2, <2>3
<1>7. InOrder'
  <2> SUFFICES ASSUME NEW i \in 1 .. N + 1, NEW j \in 1 .. N + 1, i < j
               PROVE  attempts'[i].link < attempts'[j].link
    BY <1>2 DEF InOrder
  <2>1. i \in 1 .. N
    OBVIOUS
  <2>2. CASE j \in 1 .. N
    BY <1>1, <1>2, <2>1, <2>2 DEF InOrder
  <2>3. CASE j = N + 1
    <3>1. attempts[i].link \in Recorded
      BY <1>1, <2>1 DEF Recorded
    <3> QED BY <1>2, <1>3, <2>1, <2>3, <3>1
  <2> QED BY <2>2, <2>3
<1>8. \A i \in 1 .. Len(attempts') : attempts'[i] = e \/ \E j \in 1 .. Len(attempts) : attempts'[i] = attempts[j]
  BY <1>1, <1>2, <1>5
<1> QED BY <1>6, <1>7, <1>8 DEF e

LEMMA SkipCalls ==
  ASSUME TypeOK, CallsInv, Skip
  PROVE  CallsInv'
<1> USE DEF CallsInv
<1>1. PICK l \in rest : First(l) /\ Barred(l) /\ rest' = rest \ {l} /\ Record(l, "skipped")
  BY DEF Skip
<1>2. l \in chain /\ l \in Link /\ l # Placeholder
  BY <1>1 DEF TypeOK, Barred, Restricted
<1>3. UNCHANGED <<chain, allowed, at, try, pc, calls>> /\ pc = "next"
  BY DEF Skip
<1>4. \A k \in Recorded : k < l
  BY DEF Tried, Sweep
<1>5. Recorded' = Recorded \cup {l} /\ InOrder'
  BY <1>1, <1>2, <1>4, RecordAppends
<1>6. Recorded' = Tried'
  BY <1>1, <1>2, <1>3, <1>5 DEF Tried
<1>7. Truthful'
  <2>1. calls[l] = <<>>
    BY <1>1, <1>2 DEF Called
  <2> SUFFICES ASSUME NEW i \in 1 .. Len(attempts') PROVE Agrees(attempts[i])'
    BY DEF Truthful
  <2>2. \/ attempts'[i] = [link |-> l, what |-> "skipped"]
        \/ \E j \in 1 .. Len(attempts) : attempts'[i] = attempts[j]
    BY <1>1, <1>2, <1>4, RecordAppends
  <2>3. CASE attempts'[i] = [link |-> l, what |-> "skipped"]
    BY <1>3, <2>1, <2>3 DEF Agrees
  <2>4. CASE \E j \in 1 .. Len(attempts) : attempts'[i] = attempts[j]
    BY <1>3, <2>4 DEF Truthful, Agrees, GaveUp, LastAnswer
  <2> QED BY <2>2, <2>3, <2>4
<1>8. Sweep'
  <2>1. \A k \in rest' : l < k
    BY <1>1, <1>2 DEF First, TypeOK, Link
  <2> QED BY <1>1, <1>2, <1>3, <2>1 DEF Sweep
<1>9. Called' /\ RetriesAsLimited'
  BY <1>1, <1>3 DEF Called, RetriesAsLimited, LastAnswer
<1> QED BY <1>5, <1>6, <1>7, <1>8, <1>9

LEMMA AskCalls ==
  ASSUME TypeOK, CallsInv, Ask
  PROVE  CallsInv'
<1> USE DEF CallsInv
<1>1. PICK l \in rest \ {Placeholder} :
        First(l) /\ ~Barred(l) /\ rest' = rest \ {l} /\ at' = l
  BY DEF Ask
<1>2. l \in chain /\ l \in Link
  BY <1>1 DEF TypeOK
<1>3. UNCHANGED <<chain, allowed, attempts, calls>> /\ pc = "next" /\ pc' = "call" /\ try' = 1
  BY DEF Ask
<1>4. Recorded' = Tried'
  BY <1>1, <1>2, <1>3 DEF Recorded, Tried
<1>5. InOrder' /\ Truthful'
  BY <1>3 DEF InOrder, Truthful, Agrees, GaveUp, LastAnswer
<1>6. Sweep'
  <2>1. \A k \in rest' : l < k
    BY <1>1, <1>2 DEF First, TypeOK, Link
  <2>2. \A k \in chain \ rest' : k <= l
    BY <1>1, <1>2 DEF Sweep, TypeOK, Link
  <2> QED BY <1>1, <1>2, <1>3, <2>1, <2>2 DEF Sweep
<1>7. calls[l] = <<>>
  BY <1>1, <1>2 DEF Called
<1>8. Called'
  BY <1>1, <1>2, <1>3, <1>7 DEF Called
<1>9. RetriesAsLimited'
  BY <1>3, <1>7 DEF RetriesAsLimited, LastAnswer
<1> QED BY <1>4, <1>5, <1>6, <1>8, <1>9

(* The record does not change, and no call is made.                        *)
LEMMA NoCall ==
  ASSUME TypeOK, CallsInv, WritePlaceholder \/ Exhausted
  PROVE  CallsInv'
<1> USE DEF CallsInv
<1>1. /\ UNCHANGED <<chain, allowed, attempts, calls>> /\ rest' = rest \ {Placeholder}
      /\ pc = "next" /\ pc' \in {"drafted", "failed"}
  BY DEF WritePlaceholder, Exhausted
<1>2. Recorded' = Tried' /\ InOrder' /\ Truthful'
  BY <1>1 DEF Recorded, Tried, InOrder, Truthful, Agrees, GaveUp, LastAnswer
<1>3. Sweep'
  BY <1>1 DEF Sweep, TypeOK
<1>4. Called' /\ RetriesAsLimited'
  BY <1>1 DEF Called, RetriesAsLimited, LastAnswer
<1> QED BY <1>2, <1>3, <1>4

LEMMA AnsweredCalls ==
  ASSUME TypeOK, CallsInv, Answered
  PROVE  CallsInv'
<1> USE DEF CallsInv
<1>1. PICK answer \in Answer :
        /\ CallAgain(answer) \/ MoveOn(answer) \/ Drafted(answer) \/ Escape(answer)
        /\ calls' = [calls EXCEPT ![at] = Append(@, answer)]
  BY DEF Answered
<1>2. UNCHANGED <<chain, allowed, rest, at>> /\ pc = "call" /\ at \in Link /\ at \in chain \ rest
  BY DEF Answered, TypeOK
<1>3. /\ try \in Nat /\ try >= 1 /\ try <= Attempts /\ Attempts \in Nat
      /\ calls[at] \in Seq(Answer) /\ Len(calls[at]) = try - 1
  BY <1>2, AttemptsAssumption DEF TypeOK, Called
<1>4. /\ calls'[at] # <<>> /\ Len(calls'[at]) = try /\ calls'[at][try] = answer
      /\ \A i \in 1 .. try - 1 : calls'[at][i] \in Waits
      /\ \A l \in Link \ {at} : calls'[l] = calls[l]
  <2>1. calls'[at] = Append(calls[at], answer) /\ \A l \in Link \ {at} : calls'[l] = calls[l]
    BY <1>1, <1>2 DEF TypeOK
  <2>2. \A i \in 1 .. try - 1 : calls[at][i] \in Waits
    BY <1>2, <1>3 DEF Called
  <2> HIDE DEF CallsInv
  <2>3. Len(Append(calls[at], answer)) = try /\ Append(calls[at], answer)[try] = answer
    BY <1>3
  <2>4. \A i \in 1 .. try - 1 : Append(calls[at], answer)[i] = calls[at][i]
    BY <1>3
  <2>5. \A i \in 1 .. try - 1 : calls'[at][i] \in Waits
    BY <2>1, <2>2, <2>4
  <2>6. calls'[at] # <<>>
    BY <1>3, <2>1
  <2> QED BY <2>1, <2>3, <2>5, <2>6
<1>5. CASE CallAgain(answer)
  <2>1. /\ try' = try + 1 /\ UNCHANGED <<attempts, pc>>
        /\ answer \in Waits /\ Retries(at) /\ try < Attempts
    BY <1>5 DEF CallAgain, Retriable
  <2>2. Recorded' = Tried' /\ InOrder' /\ Sweep'
    BY <1>2, <2>1 DEF Recorded, Tried, InOrder, Sweep
  <2>3. Truthful'
    <3>1. \A i \in 1 .. Len(attempts) : attempts[i].link # at /\ attempts[i].link \in Link
      BY <1>2 DEF Recorded, Tried, TypeOK
    <3> QED BY <1>4, <2>1, <3>1 DEF Truthful, Agrees, GaveUp, LastAnswer
  <2>4. Called'
    <3>1. \A i \in 1 .. try : calls'[at][i] \in Waits
      BY <1>3, <1>4, <2>1
    <3>2. \A l \in Link : calls'[l] # <<>> => l \in chain \ rest
      BY <1>2, <1>4 DEF Called
    <3> QED BY <1>2, <1>3, <1>4, <2>1, <3>1, <3>2 DEF Called, Retries
  <2>5. RetriesAsLimited'
    BY <1>2, <1>3, <1>4, <2>1 DEF RetriesAsLimited, LastAnswer, Retries
  <2> QED BY <2>2, <2>3, <2>4, <2>5
<1>6. CASE Escape(answer)
  <2>1. UNCHANGED attempts /\ pc' = "escaped" /\ (Retries(at) => answer \notin Waits)
    BY <1>6 DEF Escape, Uncaught, Restricted, Retries, Waits
  <2>2. Recorded' = Tried' /\ InOrder' /\ Sweep'
    BY <1>2, <2>1 DEF Recorded, Tried, InOrder, Sweep
  <2>3. Truthful'
    <3>1. \A i \in 1 .. Len(attempts) : attempts[i].link # at /\ attempts[i].link \in Link
      BY <1>2 DEF Recorded, Tried, TypeOK
    <3> QED BY <1>4, <2>1, <3>1 DEF Truthful, Agrees, GaveUp, LastAnswer
  <2>4. Called'
    BY <1>2, <1>4, <2>1 DEF Called
  <2>5. RetriesAsLimited'
    BY <1>2, <1>3, <1>4, <2>1 DEF RetriesAsLimited, Called, LastAnswer, Retries
  <2> QED BY <2>2, <2>3, <2>4, <2>5
<1>7. CASE MoveOn(answer) \/ Drafted(answer)
  <2>1. PICK what \in {"error", "ok"} :
          /\ Record(at, what) /\ pc' \in {"next", "drafted"}
          /\ what = "error" => answer \in Failures /\ ~Uncaught(at, answer)
          /\ what = "ok" => answer = "usable"
    BY <1>7 DEF MoveOn, Drafted
  <2>2. answer \in Waits /\ Retries(at) => try = Attempts
    BY <1>3, <1>7 DEF MoveOn, Drafted, Retriable, Waits
  <2>3. \A k \in Recorded : k < at
    BY <1>2 DEF Tried, Sweep, TypeOK, Link
  <2>4. Recorded' = Recorded \cup {at} /\ InOrder'
    BY <1>2, <2>1, <2>3, RecordAppends
  <2>5. Recorded' = Tried'
    BY <1>2, <2>1, <2>4 DEF Tried, Sweep
  <2>6. Sweep'
    BY <1>2, <2>1 DEF Sweep
  <2>7. Truthful'
    <3> SUFFICES ASSUME NEW i \in 1 .. Len(attempts') PROVE Agrees(attempts[i])'
      BY DEF Truthful
    <3>1. \/ attempts'[i] = [link |-> at, what |-> what]
          \/ \E j \in 1 .. Len(attempts) : attempts'[i] = attempts[j]
      BY <1>2, <2>1, <2>3, RecordAppends
    <3>2. CASE attempts'[i] = [link |-> at, what |-> what]
      BY <1>4, <2>1, <3>2 DEF Agrees, GaveUp, LastAnswer
    <3>3. CASE \E j \in 1 .. Len(attempts) : attempts'[i] = attempts[j]
      <4>1. PICK j \in 1 .. Len(attempts) : attempts'[i] = attempts[j]
        BY <3>3
      <4>2. attempts[j].link # at /\ attempts[j].link \in Link /\ Agrees(attempts[j])
        BY <1>2 DEF Recorded, Tried, TypeOK, Truthful
      <4> QED BY <1>4, <4>1, <4>2 DEF Agrees, GaveUp, LastAnswer
    <3> QED BY <3>1, <3>2, <3>3
  <2>8. Called'
    BY <1>2, <1>4, <2>1 DEF Called
  <2>9. RetriesAsLimited'
    BY <1>2, <1>3, <1>4, <2>1, <2>2 DEF RetriesAsLimited, Called, LastAnswer, Retries
  <2> QED BY <2>4, <2>5, <2>6, <2>7, <2>8, <2>9
<1> QED BY <1>1, <1>5, <1>6, <1>7

(* The record has each link the loop came to, once and in order, and says  *)
(* of each what its calls came to; a link is called again only after a     *)
(* slow answer, and at most up to the limit (ChainDrafter.draft,           *)
(* _post_with_retry).                                                      *)
THEOREM CallsAreRecorded == Spec => []CallsAsRecorded
<1>1. TypeOK /\ Init => CallsInv
  <2> SUFFICES ASSUME TypeOK, Init PROVE CallsInv
    OBVIOUS
  <2>1. Len(attempts) = 0 /\ rest = chain /\ pc = "next" /\ \A l \in Link : calls[l] = <<>>
    BY DEF Init
  <2>2. Recorded = {} /\ InOrder /\ Truthful
    BY <2>1 DEF Recorded, InOrder, Truthful
  <2>3. Placeholder \in chain => chain = {Placeholder}
    BY DEF Init, DefaultDrafter, BuildChain
  <2>4. Tried = {} /\ Sweep /\ Called
    BY <2>1, <2>3 DEF Tried, Sweep, Called
  <2>5. RetriesAsLimited
    BY <2>1, AttemptsAssumption DEF RetriesAsLimited
  <2> QED BY <2>2, <2>4, <2>5 DEF CallsInv
<1>2. TypeOK /\ CallsInv /\ [Next]_vars => CallsInv'
  <2> SUFFICES ASSUME TypeOK, CallsInv, [Next]_vars PROVE CallsInv'
    OBVIOUS
  <2>1. CASE UNCHANGED vars
    BY <2>1 DEF vars, CallsInv, Recorded, Tried, InOrder, Truthful, Agrees, GaveUp, LastAnswer,
                Sweep, Called, RetriesAsLimited
  <2> QED BY <2>1, SkipCalls, AskCalls, NoCall, AnsweredCalls DEF Next
<1>3. TypeOK /\ CallsInv => CallsAsRecorded
  <2> SUFFICES ASSUME TypeOK, CallsInv, pc \in {"drafted", "failed"}, chain # {Placeholder}
               PROVE  Tried = chain \ rest
    BY DEF CallsInv, CallsAsRecorded, RecordsEveryAttempt, Recorded, InOrder, Truthful
  <2> QED BY DEF CallsInv, Sweep, Tried
<1> QED BY <1>1, <1>2, <1>3, ChainTyped, PTL DEF Spec
=============================================================================
