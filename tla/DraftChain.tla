----------------------------- MODULE DraftChain -----------------------------
(***************************************************************************)
(* One call of the Draft Agent's drafter: the links that the settings put  *)
(* in the chain are tried in order, a link that only some tenants may use  *)
(* is skipped for the others, a busy provider is called again, and every   *)
(* attempt is recorded.                                                    *)
(***************************************************************************)
EXTENDS Naturals, Sequences, FiniteSets

CONSTANTS
  Attempts,   (* calls per link of Groq and Cerebras                       *)
  Answer      (* what a call may come back with                            *)

ASSUME AttemptsAssumption == Attempts \in Nat \ {0}

(* usable: a draft. busy: a retryable status whose wait is at most         *)
(* MAX_RETRY_WAIT. timeout, unreachable: no answer. bad: any other status, *)
(* and text that is cut off, stopped early, refused or empty. garbled: a   *)
(* success that cannot be read, such as one that is not JSON.              *)
Waits == {"busy", "timeout"}

Failures == Waits \cup {"unreachable", "bad"}

ASSUME AnswerAssumption == Answer \subseteq Failures \cup {"usable", "garbled"}

Provider == {"groq", "cerebras", "gemini", "claude"}

(* In fallback order; the second is Groq's second model.                   *)
ProviderOf == <<"groq", "groq", "cerebras", "gemini", "claude">>

(* Link 0 is the placeholder that needs no provider.                       *)
Placeholder == 0

Link == 0 .. 5

VARIABLES
  chain,     (* the links _default_drafter has built                       *)
  allowed,   (* whether the ticket's tenant is in gemini_allowed_tenants   *)
  rest,      (* links the loop has not come to                             *)
  at, try,   (* the link that is called, and which call of it              *)
  attempts,  (* the recorded attempts                                      *)
  pc,        (* "next" link, "call"; "drafted", "failed" (DraftError) or   *)
             (* "escaped" (another exception)                              *)
  calls      (* what each link's calls came back with (a record of the     *)
             (* model's own)                                               *)

vars == <<chain, allowed, rest, at, try, attempts, pc, calls>>

-----------------------------------------------------------------------------
(* build_chain and _default_drafter *)

Setting == [keys : SUBSET Provider, second : BOOLEAN, pin : Provider \cup {"auto", "offline"}]

BuildChain(s) ==
  {l \in Link \ {Placeholder} : ProviderOf[l] \in s.keys /\ (l = 2 => s.second)}

Offline(s) == s.pin = "offline" \/ BuildChain(s) = {}

DefaultDrafter(s) ==
  IF Offline(s) THEN {Placeholder}
  ELSE {l \in BuildChain(s) : s.pin \in {"auto", ProviderOf[l]}}

(* A pinned provider without a key stops the start of the application.     *)
Starts(s) == DefaultDrafter(s) # {}

Restricted(l) == l # Placeholder /\ ProviderOf[l] = "gemini"

Retries(l) == l # Placeholder /\ ProviderOf[l] \in {"groq", "cerebras"}

-----------------------------------------------------------------------------
Entry == [link : Link, what : {"skipped", "error", "ok"}]

PC == {"next", "call", "drafted", "failed", "escaped"}

TypeOK ==
  /\ chain \in SUBSET Link /\ chain # {}
  /\ allowed \in BOOLEAN
  /\ rest \in SUBSET chain
  /\ at \in Link
  /\ try \in 1 .. Attempts
  /\ attempts \in Seq(Entry)
  /\ pc \in PC
  /\ calls \in [Link -> Seq(Answer)]
  /\ pc = "call" => at \in chain \ rest

Init ==
  /\ \E s \in Setting : Starts(s) /\ chain = DefaultDrafter(s)
  /\ allowed \in BOOLEAN
  /\ rest = chain
  /\ at = Placeholder
  /\ try = 1
  /\ attempts = <<>>
  /\ pc = "next"
  /\ calls = [l \in Link |-> <<>>]

First(l) == \A k \in rest : l <= k

MutantBarred(l) == Restricted(l) /\ allowed

Barred(l) == Restricted(l) /\ ~allowed

Record(l, what) == attempts' = Append(attempts, [link |-> l, what |-> what])

Skip ==
  /\ pc = "next"
  /\ \E l \in rest :
       /\ First(l) /\ Barred(l)
       /\ rest' = rest \ {l}
       /\ Record(l, "skipped")
  /\ UNCHANGED <<chain, allowed, at, try, pc, calls>>

Ask ==
  /\ pc = "next"
  /\ \E l \in rest \ {Placeholder} :
       /\ First(l) /\ ~Barred(l)
       /\ rest' = rest \ {l}
       /\ at' = l
  /\ try' = 1
  /\ pc' = "call"
  /\ UNCHANGED <<chain, allowed, attempts, calls>>

(* OfflineDrafter: not a chain, nothing is recorded.                       *)
WritePlaceholder ==
  /\ pc = "next"
  /\ Placeholder \in rest
  /\ rest' = rest \ {Placeholder}
  /\ at' = Placeholder
  /\ pc' = "drafted"
  /\ UNCHANGED <<chain, allowed, try, attempts, calls>>

(* No provider could draft a reply.                                        *)
Exhausted ==
  /\ pc = "next"
  /\ rest = {}
  /\ pc' = "failed"
  /\ UNCHANGED <<chain, allowed, rest, at, try, attempts, calls>>

-----------------------------------------------------------------------------
(* What follows an answer. *)

Retriable(answer) == answer \in Waits /\ Retries(at) /\ try < Attempts

(* What no one turns into a DraftError: what cannot be read (such as the   *)
(* ValueError of response.json()), and Gemini's timeouts and connection    *)
(* errors, which are no APIError of its SDK.                               *)
Uncaught(l, answer) ==
  answer = "garbled" \/ (Restricted(l) /\ answer \in {"timeout", "unreachable"})

CallAgain(answer) ==
  /\ Retriable(answer)
  /\ try' = try + 1
  /\ UNCHANGED <<attempts, pc>>

MutantMoveOn(answer) ==
  /\ answer \in Failures
  /\ ~Retriable(answer) /\ ~Uncaught(at, answer)
  /\ pc' = IF rest = {} THEN "failed" ELSE "next"
  /\ IF rest = {} THEN UNCHANGED attempts ELSE Record(at, "error")
  /\ UNCHANGED try

MutantStop(answer) ==
  /\ answer \in Failures
  /\ ~Retriable(answer) /\ ~Uncaught(at, answer)
  /\ Record(at, "error")
  /\ pc' = IF answer \in Waits THEN "failed" ELSE "next"
  /\ UNCHANGED try

(* DraftError: the next link.                                              *)
MoveOn(answer) ==
  /\ answer \in Failures
  /\ ~Retriable(answer) /\ ~Uncaught(at, answer)
  /\ Record(at, "error")
  /\ pc' = "next"
  /\ UNCHANGED try

Drafted(answer) ==
  /\ answer = "usable"
  /\ pc' = "drafted"
  /\ Record(at, "ok")
  /\ UNCHANGED try

(* Another exception goes through the loop: the links left are not asked.  *)
Escape(answer) ==
  /\ Uncaught(at, answer)
  /\ pc' = "escaped"
  /\ UNCHANGED <<attempts, try>>

Answered ==
  /\ pc = "call"
  /\ \E answer \in Answer :
       /\ CallAgain(answer) \/ MoveOn(answer) \/ Drafted(answer) \/ Escape(answer)
       /\ calls' = [calls EXCEPT ![at] = Append(@, answer)]
  /\ UNCHANGED <<chain, allowed, rest, at>>

Next == Skip \/ Ask \/ WritePlaceholder \/ Exhausted \/ Answered

Spec == Init /\ [][Next]_vars

(* Every call has a timeout, and every wait an end.                        *)
FairSpec == Spec /\ WF_vars(Next)

-----------------------------------------------------------------------------
(* Properties *)

LastAnswer(l) == calls[l][Len(calls[l])]

GaveUp(l) == calls[l] # <<>> /\ LastAnswer(l) \in Failures /\ ~Uncaught(l, LastAnswer(l))

Agrees(e) ==
  \/ e.what = "skipped" /\ calls[e.link] = <<>>
  \/ e.what = "error" /\ GaveUp(e.link)
  \/ e.what = "ok" /\ calls[e.link] # <<>> /\ LastAnswer(e.link) = "usable"

(* "every attempt is recorded": the record that is kept with a draft, or   *)
(* listed in the error, has each link the loop came to, once and in order, *)
(* and says of each what its calls came to.                                *)
RecordsEveryAttempt ==
  pc \in {"drafted", "failed"} /\ chain # {Placeholder} =>
    /\ {attempts[i].link : i \in 1 .. Len(attempts)} = chain \ rest
    /\ \A i, j \in 1 .. Len(attempts) : i < j => attempts[i].link < attempts[j].link
    /\ \A i \in 1 .. Len(attempts) : Agrees(attempts[i])

(* A call is repeated only after one that was busy or timed out, up to the *)
(* limit, and a link of Groq or Cerebras is given up on that account only  *)
(* at the limit.                                                           *)
RetriesAsLimited ==
  \A l \in Link :
    /\ Len(calls[l]) <= IF Retries(l) THEN Attempts ELSE 1
    /\ \A i \in 1 .. Len(calls[l]) - 1 : calls[l][i] \in Waits
    /\ Retries(l) /\ calls[l] # <<>> /\ LastAnswer(l) \in Waits /\ (pc = "call" => at # l) =>
         Len(calls[l]) = Attempts

(* The record and the calls it is about, together.                         *)
CallsAsRecorded == RecordsEveryAttempt /\ RetriesAsLimited

(* DraftError is raised only when every provider the tenant may use was    *)
(* asked and failed ("Tries each provider in order and returns the first   *)
(* usable draft"); where another exception ends the draft, every provider  *)
(* before the one that raised it was.                                      *)
FailsOnlyIfAllDo ==
  /\ pc = "failed" => \A l \in chain : Barred(l) \/ GaveUp(l)
  /\ pc = "escaped" => \A l \in chain : l < at => Barred(l) \/ GaveUp(l)

Remaining == rest \cup (IF pc \in {"call", "drafted", "escaped"} THEN {at} ELSE {})

Choice == INSTANCE FirstUsable WITH
  Option <- Link,
  todo   <- {l \in Remaining : ~Restricted(l) \/ allowed},
  taken  <- IF pc = "drafted" THEN {at} ELSE {},
  closed <- pc \in {"drafted", "failed"}

(* The drafter takes the first usable option of those its tenant may use.  *)
TakesInOrder == Choice!SafeSpec

(* It does, and always comes to an end, unless an answer escapes it.       *)
TakesFirstUsable == TakesInOrder /\ (<>(pc = "escaped") \/ Choice!Fairness)
=============================================================================
