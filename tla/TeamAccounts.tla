---------------------------- MODULE TeamAccounts ----------------------------
(***************************************************************************)
(* The accounts of one tenant: its admins (on the team page) and the       *)
(* operator (with the tenants script) add, change and deactivate them and  *)
(* reset their passwords, while their owners sign in and use the sessions  *)
(* they hold. A request authenticates in one transaction and does its work *)
(* in a later one, so requests, sign-ins and scripts interleave.           *)
(*                                                                         *)
(* A sign-in that the rate limiter refuses, or whose password is wrong,    *)
(* changes nothing here and is no step.                                    *)
(***************************************************************************)
EXTENDS Naturals, FiniteSets

CONSTANTS
  Person,        (* the people who may have an account, each by his email  *)
  FirstAdmin,    (* the admins the operator made at the start              *)
  Slot,          (* requests or scripts in flight at once                  *)
  Operator,      (* the author of what the script does; no member          *)
  Keep,          (* a field of MemberUpdate that is not set                *)
  Second,        (* clock ticks in a second                                *)
  MaxRequests,   (* bound on requests                                      *)
  MaxSignIns     (* bound on sign-ins                                      *)

ASSUME PersonAssumption == FirstAdmin \in SUBSET Person /\ FirstAdmin # {}
ASSUME OperatorAssumption == Operator \notin Person
ASSUME KeepAssumption == Keep \notin {"admin", "reviewer"} /\ Keep \notin BOOLEAN
ASSUME BoundAssumption == Second \in Nat \ {0} /\ MaxRequests \in Nat /\ MaxSignIns \in Nat

VARIABLES
  user,       (* table users                                               *)
  token,      (* the session cookies that people hold and have not expired *)
  signing,    (* each person's sign-in under way                           *)
  request,    (* each slot's request or script                             *)
  clock,      (* it advances whenever someone reads it                     *)
  requests, signIns,   (* how many there were                              *)
  lapsed      (* an admin was lost to the operator, or to an admin who was *)
              (* none any more (a record of the model's own)               *)

counters == <<requests, signIns>>
vars == <<user, token, signing, request, clock, counters, lapsed>>

-----------------------------------------------------------------------------
Role == {"admin", "reviewer"}

(* A password is the time at which it was generated.                       *)
Row == [exists : BOOLEAN, role : Role, active : BOOLEAN, hash : Nat, changed : Nat]

NoRow == [exists |-> FALSE, role |-> "reviewer", active |-> FALSE, hash |-> 0, changed |-> 0]

(* pass: the password that was verified; crossed: it had been replaced by  *)
(* then, or was about to be (both records of the model's own).             *)
Token == [user : Person, issued : Nat, pass : Nat, crossed : BOOLEAN]

SignIn == [busy : BOOLEAN, pass : Nat]

Idle == [busy |-> FALSE, pass |-> 0]

Kind == {"invite", "update", "reset", "deactivate"}

(* role and active are what an invitation or an update asks for; loaded is *)
(* the row its session holds; made the time it read.                       *)
Request == [pc : {"idle", "load", "commit"}, by : Person \cup {Operator}, kind : Kind,
            target : Person \cup {Operator}, role : Role \cup {Keep}, active : BOOLEAN \cup {Keep},
            loaded : Row, made : Nat]

IsAdmin(p) == user[p].exists /\ user[p].active /\ user[p].role = "admin"

TypeOK ==
  /\ user \in [Person -> Row]
  /\ token \in SUBSET Token
  /\ signing \in [Person -> SignIn]
  /\ request \in [Slot -> Request]
  /\ clock \in Nat
  /\ requests \in 0 .. MaxRequests
  /\ signIns \in 0 .. MaxSignIns
  /\ lapsed \in BOOLEAN
  /\ \A t \in token : user[t.user].exists /\ t.issued <= clock
  /\ \A s \in Slot : request[s].pc # "idle" => request[s].target \in Person
  /\ \A p \in Person : user[p].hash <= clock /\ user[p].changed <= clock

Free == [pc |-> "idle", by |-> Operator, kind |-> "update", target |-> Operator,
         role |-> Keep, active |-> Keep, loaded |-> NoRow, made |-> 0]

Init ==
  /\ user = [p \in Person |-> IF p \in FirstAdmin
                                THEN [NoRow EXCEPT !.exists = TRUE, !.role = "admin", !.active = TRUE]
                                ELSE NoRow]
  /\ token = {}
  /\ signing = [p \in Person |-> Idle]
  /\ request = [s \in Slot |-> Free]
  /\ clock = 0
  /\ requests = 0
  /\ signIns = 0
  /\ lapsed = FALSE

Now == clock + 1

-----------------------------------------------------------------------------
(* Sessions *)

(* The token's iat, with its fraction of a second.                         *)
Issued(now) == now

(* get_current_user lets the token through.                                *)
Accepted(t) ==
  LET row == user[t.user] IN row.exists /\ row.active /\ t.issued >= row.changed

(* auth_find_user, and the password is right.                              *)
Find(p) ==
  /\ ~signing[p].busy
  /\ signIns < MaxSignIns
  /\ user[p].exists /\ user[p].active
  /\ signing' = [signing EXCEPT ![p] = [busy |-> TRUE, pass |-> user[p].hash]]
  /\ signIns' = signIns + 1
  /\ UNCHANGED <<user, token, request, clock, requests, lapsed>>

BeingReset(p) ==
  \E s \in Slot : request[s].pc = "commit" /\ request[s].kind = "reset" /\ request[s].target = p

(* last_login_at is stored, and the response sets the cookie.              *)
Enter(p) ==
  /\ signing[p].busy
  /\ token' = token \cup {[user |-> p, issued |-> Issued(Now), pass |-> signing[p].pass,
                           crossed |-> user[p].hash # signing[p].pass \/ BeingReset(p)]}
  /\ signing' = [signing EXCEPT ![p] = Idle]
  /\ clock' = Now
  /\ UNCHANGED <<user, request, counters, lapsed>>

(* Logout, or the token's hours are over.                                  *)
Leave(t) ==
  /\ token' = token \ {t}
  /\ UNCHANGED <<user, signing, request, clock, counters, lapsed>>

-----------------------------------------------------------------------------
(* Requests of admins, and the operator's script *)

(* What can be asked for of a member.                                      *)
Asks(kind, role, active) ==
  CASE kind = "invite" -> role \in Role /\ active = Keep
    [] kind = "update" -> TRUE
    [] OTHER           -> role = Keep /\ active = Keep

Begin(s, by, kind, target, role, active) ==
  /\ request[s].pc = "idle"
  /\ requests < MaxRequests
  /\ Asks(kind, role, active)
  /\ request' = [request EXCEPT ![s] =
       [Free EXCEPT !.pc = "load", !.by = by, !.kind = kind, !.target = target,
                    !.role = role, !.active = active]]
  /\ requests' = requests + 1
  /\ UNCHANGED <<user, token, signing, clock, signIns, lapsed>>

(* AdminDep: the cookie is an active admin's.                              *)
Authenticate(s) ==
  \E t \in token, kind \in Kind \ {"deactivate"}, target \in Person,
     role \in Role \cup {Keep}, active \in BOOLEAN \cup {Keep} :
       /\ Accepted(t) /\ user[t.user].role = "admin"
       /\ Begin(s, t.user, kind, target, role, active)

RunScript(s) ==
  \E kind \in Kind \ {"update"}, target \in Person, role \in Role \cup {Keep} :
    Begin(s, Operator, kind, target, role, Keep)

MutantSelfChange(r) == r.kind = "update" /\ r.target = r.by /\ r.active = FALSE

SelfChange(r) ==
  /\ r.kind = "update" /\ r.target = r.by
  /\ r.role \notin {Keep, "admin"} \/ r.active = FALSE

(* The member is read; one that is not there, or a change an admin must    *)
(* not make of himself, ends the request. An invitation reads nothing. A   *)
(* new password and its time are made here.                                *)
Load(s) ==
  LET r == request[s] IN
    /\ r.pc = "load"
    /\ request' = [request EXCEPT ![s] =
         IF r.kind # "invite" /\ (~user[r.target].exists \/ SelfChange(r))
           THEN Free
           ELSE [r EXCEPT !.pc = "commit", !.loaded = user[r.target], !.made = Now]]
    /\ clock' = Now
    /\ UNCHANGED <<user, token, signing, counters, lapsed>>

MutantColumn(stored, loaded, value) == value

(* A commit writes the columns that differ from what the session loaded.   *)
Column(stored, loaded, value) == IF value = loaded THEN stored ELSE value

Given(value, loaded) == IF value = Keep THEN loaded ELSE value

(* The operator's reset lets the member in again.                          *)
WantsActive(r) ==
  CASE r.kind = "deactivate"                  -> FALSE
    [] r.kind = "reset" /\ r.by = Operator    -> TRUE
    [] OTHER                                  -> Given(r.active, r.loaded.active)

MutantStored(r) ==
  LET row == user[r.target] IN
    [row EXCEPT !.hash = IF r.kind = "reset" THEN r.made ELSE @,
                !.role = Column(@, r.loaded.role, Given(r.role, r.loaded.role)),
                !.active = Column(@, r.loaded.active, WantsActive(r))]

(* The row as the commit leaves it.                                        *)
Stored(r) ==
  LET row == user[r.target] IN
    CASE r.kind = "invite" /\ row.exists -> row   (* EmailTaken *)
      [] r.kind = "invite" /\ ~row.exists ->
           [exists |-> TRUE, role |-> r.role, active |-> TRUE, hash |-> r.made, changed |-> r.made]
      [] r.kind = "reset" ->
           [row EXCEPT !.hash = r.made, !.changed = r.made,
                       !.active = Column(@, r.loaded.active, WantsActive(r))]
      [] OTHER ->
           [row EXCEPT !.role = Column(@, r.loaded.role, Given(r.role, r.loaded.role)),
                       !.active = Column(@, r.loaded.active, WantsActive(r))]

(* Whether the commit takes an admin from the tenant.                      *)
Unseats(r) == IsAdmin(r.target) /\ ~(Stored(r).active /\ Stored(r).role = "admin")

Commit(s) ==
  LET r == request[s] IN
    /\ r.pc = "commit"
    /\ user' = [user EXCEPT ![r.target] = Stored(r)]
    /\ lapsed' = (lapsed \/ (Unseats(r) /\ (IF r.by = Operator THEN TRUE ELSE ~IsAdmin(r.by))))
    /\ request' = [request EXCEPT ![s] = Free]
    /\ UNCHANGED <<token, signing, clock, counters>>

-----------------------------------------------------------------------------
Next ==
  \/ \E p \in Person : Find(p) \/ Enter(p)
  \/ \E t \in token : Leave(t)
  \/ \E s \in Slot : Authenticate(s) \/ RunScript(s) \/ Load(s) \/ Commit(s)

Spec == Init /\ [][Next]_vars

-----------------------------------------------------------------------------
(* Properties *)

(* An admin cannot change himself, "they could lock the tenant out": the   *)
(* team page alone leaves no tenant without an admin, unless someone who   *)
(* was no admin any more, by a request let in while he was one, made       *)
(* another lose that role.                                                 *)
AdminRemains == lapsed \/ \E p \in Person : IsAdmin(p)

(* "password reset signs everyone out": a session that still works rests   *)
(* on the present password, unless it was being opened during the reset.   *)
ResetSignsOut ==
  \A t \in token : Accepted(t) /\ ~t.crossed => t.pass = user[t.user].hash

(* A password that was handed out, and is the newest, opens sessions that  *)
(* work at once, whenever its reset was.                                   *)
NewPasswordWorks ==
  \A t \in token : user[t.user].active /\ t.pass = user[t.user].hash => Accepted(t)

(* Sessions follow the password they were opened with, both ways.          *)
SessionsConsistent == TypeOK /\ ResetSignsOut /\ NewPasswordWorks

(* No one gets the role of an admin, or comes back from a deactivation, by *)
(* a change that did not ask for it and only overlapped with others.       *)
GrantsAreAsked ==
  [][\A s \in Slot : LET r == request[s] IN Commit(s) =>
       /\ ~user[r.target].active /\ user'[r.target].active =>
            r.kind = "invite" \/ r.active = TRUE \/ (r.kind = "reset" /\ r.by = Operator)
       /\ user[r.target].role # "admin" /\ user'[r.target].role = "admin" => r.role = "admin"]_vars
=============================================================================
