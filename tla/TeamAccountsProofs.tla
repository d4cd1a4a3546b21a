------------------------- MODULE TeamAccountsProofs -------------------------
(***************************************************************************)
(* Proofs about TeamAccounts, for every number of people, first admins,    *)
(* requests and scripts in flight, and sign-ins.                           *)
(***************************************************************************)
EXTENDS TeamAccounts, TLAPS

-----------------------------------------------------------------------------
(* What a commit makes of the member's row, by what was asked for. Asking  *)
(* for nothing leaves a column as it is stored, also if it has changed     *)
(* since the session loaded it.                                            *)
LEMMA ColumnOfGiven ==
  ASSUME NEW stored, NEW loaded, NEW value
  PROVE  /\ Column(stored, loaded, Given(Keep, loaded)) = stored
         /\ Column(stored, loaded, Given(value, loaded)) \in {stored, value}
  BY DEF Column, Given

(* The row of the one whose invitation, reset, update or deactivation is r.*)
Was(r) == user[r.target]

Sound(r) ==
  /\ Stored(r) \in Row
  /\ Was(r).exists => Stored(r).exists
  /\ \/ Stored(r).hash = Was(r).hash /\ Stored(r).changed = Was(r).changed
     \/ /\ Stored(r).hash = r.made /\ Stored(r).changed = r.made
        /\ r.kind = "reset" \/ ~Was(r).exists

(* Nothing is granted that was not asked for.                              *)
Granted(r) ==
  /\ ~Was(r).active /\ Stored(r).active =>
       r.kind = "invite" \/ r.active = TRUE \/ (r.kind = "reset" /\ r.by = Operator)
  /\ Was(r).role # "admin" /\ Stored(r).role = "admin" => r.role = "admin"

(* An admin is left an admin by what he asks for himself.                  *)
KeepsItsAdmin(r) ==
  r.by = r.target /\ r.by # Operator /\ ~SelfChange(r) /\ IsAdmin(r.target) =>
    Stored(r).exists /\ Stored(r).active /\ Stored(r).role = "admin"

LEMMA CommitStores ==
  ASSUME NEW r \in Request, Was(r) \in Row, Asks(r.kind, r.role, r.active),
         r.by # Operator => r.kind # "deactivate"
  PROVE  Sound(r) /\ Granted(r) /\ KeepsItsAdmin(r)
<1>1. /\ r.kind \in {"invite", "update", "reset", "deactivate"} /\ r.made \in Nat
      /\ r.role \in Role \cup {Keep} /\ r.active \in BOOLEAN \cup {Keep}
      /\ r.loaded.role \in Role /\ r.loaded.active \in BOOLEAN
  BY DEF Request, Kind, Row
<1>2. /\ Was(r).exists \in BOOLEAN /\ Was(r).active \in BOOLEAN /\ Was(r).role \in Role
      /\ Was(r).hash \in Nat /\ Was(r).changed \in Nat
  BY DEF Row
<1>3. CASE r.kind = "invite"
  <2>1. r.role \in Role
    BY <1>3 DEF Asks
  <2>2. CASE Was(r).exists
    <3>1. Stored(r) = Was(r)
      BY <1>3, <2>2 DEF Stored, Was
    <3> QED BY <3>1 DEF Sound, Granted, KeepsItsAdmin, IsAdmin, Was
  <2>3. CASE ~Was(r).exists
    <3>1. Stored(r) = [exists |-> TRUE, role |-> r.role, active |-> TRUE,
                       hash |-> r.made, changed |-> r.made]
      BY <1>3, <2>3 DEF Stored, Was
    <3>2. Stored(r) \in Row
      BY <1>1, <2>1, <3>1 DEF Row
    <3> QED BY <1>3, <2>3, <3>1, <3>2 DEF Sound, Granted, KeepsItsAdmin, IsAdmin, Was
  <2> QED BY <2>2, <2>3
<1>4. CASE r.kind = "reset"
  <2> DEFINE active == Column(Was(r).active, r.loaded.active, WantsActive(r))
  <2>1. r.active = Keep
    BY <1>4 DEF Asks
  <2>2. active \in BOOLEAN /\ (r.by # Operator => active = Was(r).active)
    BY <1>1, <1>2, <1>4, <2>1 DEF WantsActive, Column, Given
  <2>3. Stored(r) = [Was(r) EXCEPT !.hash = r.made, !.changed = r.made, !.active = active]
    BY <1>2, <1>4 DEF Stored, Was, Row
  <2> HIDE DEF active
  <2>4. /\ Stored(r) \in Row /\ Stored(r).exists = Was(r).exists /\ Stored(r).role = Was(r).role
        /\ Stored(r).active = active /\ Stored(r).hash = r.made /\ Stored(r).changed = r.made
    BY <1>1, <2>2, <2>3 DEF Row
  <2> QED BY <1>4, <2>2, <2>4 DEF Sound, Granted, KeepsItsAdmin, IsAdmin, Was
<1>5. CASE r.kind \in {"update", "deactivate"}
  <2> DEFINE role == Column(Was(r).role, r.loaded.role, Given(r.role, r.loaded.role))
             active == Column(Was(r).active, r.loaded.active, WantsActive(r))
  <2>1. role \in {Was(r).role, r.role} /\ (r.role = Keep => role = Was(r).role)
    BY ColumnOfGiven
  <2>2. role \in Role
    BY <1>1, <1>2, <2>1
  <2>3. /\ active \in BOOLEAN
        /\ ~Was(r).active /\ active => r.active = TRUE
        /\ Was(r).active /\ ~active => r.active = FALSE \/ r.kind = "deactivate"
    <3>1. CASE r.kind = "update"
      <4>1. WantsActive(r) = Given(r.active, r.loaded.active)
        BY <3>1 DEF WantsActive
      <4> QED BY <1>1, <1>2, <4>1 DEF Column, Given
    <3>2. CASE r.kind = "deactivate"
      <4>1. WantsActive(r) = FALSE
        BY <3>2 DEF WantsActive
      <4> QED BY <1>1, <1>2, <3>2, <4>1 DEF Column
    <3> QED BY <1>5, <3>1, <3>2
  <2>4. Stored(r) = [Was(r) EXCEPT !.role = role, !.active = active]
    BY <1>2, <1>5 DEF Stored, Was, Row
  <2> HIDE DEF role, active
  <2>5. /\ Stored(r) \in Row /\ Stored(r).exists = Was(r).exists /\ Stored(r).role = role
        /\ Stored(r).active = active /\ Stored(r).hash = Was(r).hash
        /\ Stored(r).changed = Was(r).changed
    BY <2>2, <2>3, <2>4 DEF Row
  <2>6. Sound(r) /\ Granted(r)
    BY <2>1, <2>3, <2>5 DEF Sound, Granted
  <2>7. KeepsItsAdmin(r)
    BY <1>5, <2>1, <2>3, <2>5 DEF KeepsItsAdmin, IsAdmin, SelfChange, Was
  <2> QED BY <2>6, <2>7
<1> QED BY <1>1, <1>3, <1>4, <1>5

-----------------------------------------------------------------------------
(* A request asks for what its form or the script can ask for, and one     *)
(* that is about to commit does not take its admin's own role.             *)
Proper(r) ==
  /\ r.pc # "idle" => Asks(r.kind, r.role, r.active) /\ (r.by # Operator => r.kind # "deactivate")
  /\ r.pc = "commit" => ~SelfChange(r) /\ r.made <= clock

RequestsAreProper == \A s \in Slot : Proper(request[s])

(* A password and the time of its change are stored together, and a        *)
(* sign-in under way has verified one that was stored.                     *)
PasswordsAreDated ==
  \A p \in Person :
    /\ user[p].hash = user[p].changed
    /\ signing[p].busy => user[p].exists /\ signing[p].pass <= clock

(* A session is younger than the password it was opened with; unless it    *)
(* was opened during a reset, it is older than each later one, and than    *)
(* each that is about to be stored.                                        *)
SessionsAreDated ==
  \A t \in token :
    /\ t.pass <= t.issued
    /\ ~t.crossed =>
         /\ t.pass = user[t.user].hash \/ t.issued < user[t.user].changed
         /\ \A s \in Slot : request[s].pc = "commit" /\ request[s].kind = "reset"
                            /\ request[s].target = t.user => t.issued < request[s].made

TeamInv == TypeOK /\ RequestsAreProper /\ PasswordsAreDated /\ SessionsAreDated /\ AdminRemains

LEMMA NowIsLater == clock \in Nat => Now \in Nat /\ clock < Now
  BY DEF Now

(* Rows and sessions that stay, with a clock that goes on.                 *)
LEMMA RequestsOnly ==
  ASSUME TeamInv, clock' \in Nat, clock <= clock', UNCHANGED <<user, token, signing, lapsed>>,
         request' \in [Slot -> Request], requests' \in 0 .. MaxRequests, UNCHANGED signIns,
         RequestsAreProper',
         \A s \in Slot : request'[s].pc # "idle" => request'[s].target \in Person,
         \A s \in Slot : request'[s].pc = "commit" => request'[s] = request[s]
                           \/ \A t \in token : t.issued < request'[s].made
  PROVE  TeamInv'
<1> USE DEF TeamInv
<1>1. /\ clock \in Nat
      /\ \A t \in token : user[t.user].exists /\ t.issued <= clock /\ t.issued \in Nat
      /\ \A p \in Person : user[p].hash <= clock /\ user[p].changed <= clock
      /\ \A p \in Person : user[p].hash \in Nat /\ user[p].changed \in Nat
      /\ \A p \in Person : signing[p].pass \in Nat
  BY DEF TypeOK, Token, Row, SignIn
<1>2. TypeOK'
  BY <1>1 DEF TypeOK
<1>3. PasswordsAreDated'
  BY <1>1 DEF PasswordsAreDated
<1>4. SessionsAreDated'
  BY DEF SessionsAreDated
<1>5. AdminRemains'
  BY DEF AdminRemains, IsAdmin
<1> QED BY <1>2, <1>3, <1>4, <1>5

LEMMA BeginKeeps ==
  ASSUME TeamInv, NEW s \in Slot, NEW by \in Person \cup {Operator}, NEW kind \in Kind,
         NEW target \in Person, NEW role \in Role \cup {Keep}, NEW active \in BOOLEAN \cup {Keep},
         Begin(s, by, kind, target, role, active), by # Operator => kind # "deactivate"
  PROVE  TeamInv'
<1> USE DEF TeamInv
<1> DEFINE r == [Free EXCEPT !.pc = "load", !.by = by, !.kind = kind, !.target = target,
                             !.role = role, !.active = active]
<1>1. request' = [request EXCEPT ![s] = r]
  BY DEF Begin
<1>2. /\ r.pc = "load" /\ r.by = by /\ r.kind = kind /\ r.target = target /\ r.role = role
      /\ r.active = active
  BY DEF Free
<1>3. r \in Request
  <2>1. NoRow \in Row
    BY DEF NoRow, Row, Role
  <2> QED BY <2>1 DEF Free, Request
<1> HIDE DEF r
<1>4. request' \in [Slot -> Request] /\ request'[s] = r /\ \A o \in Slot \ {s} : request'[o] = request[o]
  BY <1>1, <1>3 DEF TypeOK
<1>5. UNCHANGED <<user, token, signing, clock, signIns, lapsed>>
      /\ requests' \in 0 .. MaxRequests /\ clock \in Nat /\ clock <= clock
  BY BoundAssumption DEF Begin, TypeOK
<1>6. RequestsAreProper'
  BY <1>2, <1>4, <1>5 DEF Begin, RequestsAreProper, Proper, SelfChange
<1>7. \A o \in Slot : request'[o].pc # "idle" => request'[o].target \in Person
  BY <1>2, <1>4 DEF TypeOK
<1>8. \A o \in Slot : request'[o].pc = "commit" => request'[o] = request[o]
  BY <1>2, <1>4
<1> HIDE DEF TeamInv
<1> QED BY <1>4, <1>5, <1>6, <1>7, <1>8, RequestsOnly

LEMMA LoadKeeps ==
  ASSUME TeamInv, NEW s \in Slot, Load(s)
  PROVE  TeamInv'
<1> USE DEF TeamInv
<1> DEFINE r == request[s]
           loaded == [r EXCEPT !.pc = "commit", !.loaded = user[r.target], !.made = Now]
<1>1. r \in Request /\ r.pc = "load" /\ r.target \in Person /\ user[r.target] \in Row
  BY DEF Load, TypeOK
<1>2. clock \in Nat /\ Now \in Nat /\ clock < Now /\ clock' = Now
  BY NowIsLater DEF Load, TypeOK
<1>3. PICK q \in {Free, loaded} :
        request' = [request EXCEPT ![s] = q] /\ (q = loaded /\ r.kind # "invite" => ~SelfChange(r))
  <2>1. CASE r.kind # "invite" /\ (~user[r.target].exists \/ SelfChange(r))
    <3>1. request' = [request EXCEPT ![s] = Free] /\ Free # loaded
      BY <1>1, <2>1 DEF Load, Free, Request
    <3> QED BY <3>1
  <2>2. CASE ~(r.kind # "invite" /\ (~user[r.target].exists \/ SelfChange(r)))
    BY <1>1, <2>2 DEF Load
  <2> QED BY <2>1, <2>2
<1>4. /\ loaded \in Request /\ loaded.pc = "commit" /\ loaded.made = Now /\ loaded.by = r.by
      /\ loaded.kind = r.kind /\ loaded.target = r.target /\ loaded.role = r.role
      /\ loaded.active = r.active
  BY <1>1, <1>2 DEF Request
<1>5. Free \in Request /\ Free.pc = "idle"
  <2>1. NoRow \in Row
    BY DEF NoRow, Row, Role
  <2> QED BY <2>1 DEF Free, Request, Kind
<1> HIDE DEF loaded
<1>6. request' \in [Slot -> Request] /\ request'[s] = q /\ \A o \in Slot \ {s} : request'[o] = request[o]
  BY <1>3, <1>4, <1>5 DEF TypeOK
<1>7. UNCHANGED <<user, token, signing, lapsed, requests, signIns>> /\ requests' \in 0 .. MaxRequests
  BY DEF Load, counters, TypeOK
<1>8. RequestsAreProper'
  <2>1. Proper(q)'
    <3>1. CASE q = Free
      BY <1>5, <3>1 DEF Proper
    <3>2. CASE q = loaded
      <4>1. ~SelfChange(q)
        BY <1>3, <1>4, <3>2 DEF SelfChange
      <4>2. Asks(q.kind, q.role, q.active) /\ (q.by # Operator => q.kind # "deactivate")
        BY <1>1, <1>4, <3>2 DEF RequestsAreProper, Proper
      <4> QED BY <1>2, <1>4, <3>2, <4>1, <4>2 DEF Proper
    <3> QED BY <3>1, <3>2
  <2>2. ASSUME NEW o \in Slot \ {s} PROVE Proper(request[o])'
    <3>1. Proper(request[o]) /\ request'[o] = request[o] /\ request[o].made \in Nat
      BY <1>6 DEF RequestsAreProper, TypeOK, Request
    <3> QED BY <1>2, <3>1 DEF Proper
  <2> QED BY <1>6, <2>1, <2>2 DEF RequestsAreProper
<1>9. \A o \in Slot : request'[o].pc # "idle" => request'[o].target \in Person
  BY <1>1, <1>4, <1>5, <1>6 DEF TypeOK
<1>10. \A t \in token : t.issued < Now
  <2>1. \A t \in token : t.issued <= clock /\ t.issued \in Nat
    BY DEF TypeOK, Token
  <2> QED BY <1>2, <2>1
<1>11. \A o \in Slot : request'[o].pc = "commit" => request'[o] = request[o]
                         \/ \A t \in token : t.issued < request'[o].made
  BY <1>4, <1>5, <1>6, <1>10
<1>12. clock' \in Nat /\ clock <= clock'
  BY <1>2
<1> HIDE DEF TeamInv
<1> QED BY <1>6, <1>7, <1>8, <1>9, <1>11, <1>12, RequestsOnly

LEMMA CommitKeeps ==
  ASSUME TeamInv, NEW s \in Slot, Commit(s)
  PROVE  TeamInv'
<1> USE DEF TeamInv
<1> DEFINE r == request[s]
<1>1. r \in Request /\ r.pc = "commit" /\ r.target \in Person /\ Was(r) \in Row
  BY DEF Commit, TypeOK, Was
<1>2. /\ Asks(r.kind, r.role, r.active) /\ (r.by # Operator => r.kind # "deactivate")
      /\ ~SelfChange(r) /\ r.made <= clock /\ r.made \in Nat
  BY <1>1 DEF RequestsAreProper, Proper, Request
<1>3. Sound(r) /\ KeepsItsAdmin(r)
  BY <1>1, <1>2, CommitStores
<1>4. /\ user'[r.target] = Stored(r)
      /\ \A p \in Person \ {r.target} : user'[p] = user[p]
      /\ user' \in [Person -> Row]
  BY <1>1, <1>3 DEF Commit, TypeOK, Sound
<1>5. Free \in Request /\ Free.pc = "idle"
  <2>1. NoRow \in Row
    BY DEF NoRow, Row, Role
  <2> QED BY <2>1 DEF Free, Request, Kind
<1>6. /\ request' \in [Slot -> Request] /\ request'[s] = Free
      /\ \A o \in Slot \ {s} : request'[o] = request[o]
  BY <1>5 DEF Commit, TypeOK
<1>7. UNCHANGED <<token, signing, clock, requests, signIns>> /\ lapsed' \in BOOLEAN /\ clock \in Nat
  BY DEF Commit, TypeOK, counters, IsAdmin, Unseats
<1>8. \A p \in Person : user[p].exists => user'[p].exists
  BY <1>3, <1>4 DEF Sound, Was
<1>9. TypeOK'
  <2>1. \A p \in Person : user'[p].hash <= clock /\ user'[p].changed <= clock
    BY <1>2, <1>3, <1>4 DEF Sound, Was, TypeOK
  <2>2. \A o \in Slot : request'[o].pc # "idle" => request'[o].target \in Person
    BY <1>5, <1>6 DEF TypeOK
  <2>3. \A t \in token : user'[t.user].exists /\ t.issued <= clock
    BY <1>8 DEF TypeOK, Token
  <2> QED BY <1>4, <1>6, <1>7, <2>1, <2>2, <2>3 DEF TypeOK
<1>10. RequestsAreProper'
  BY <1>5, <1>6, <1>7 DEF RequestsAreProper, Proper
<1>11. PasswordsAreDated'
  BY <1>3, <1>4, <1>7, <1>8 DEF Sound, Was, PasswordsAreDated
<1>12. SessionsAreDated'
  <2> SUFFICES ASSUME NEW t \in token, ~t.crossed
               PROVE  /\ t.pass = user'[t.user].hash \/ t.issued < user'[t.user].changed
                      /\ \A o \in Slot : request'[o].pc = "commit" /\ request'[o].kind = "reset"
                                         /\ request'[o].target = t.user => t.issued < request'[o].made
    BY <1>7 DEF SessionsAreDated
  <2>1. t.user \in Person /\ user[t.user].exists
    BY DEF TypeOK, Token
  <2>2. t.pass = user'[t.user].hash \/ t.issued < user'[t.user].changed
    BY <1>1, <1>3, <1>4, <2>1 DEF SessionsAreDated, Sound, Was
  <2> QED BY <1>5, <1>6, <2>2 DEF SessionsAreDated
<1>13. AdminRemains'
  <2> SUFFICES ASSUME ~lapsed' PROVE \E p \in Person : IsAdmin(p)'
    BY DEF AdminRemains
  <2>1. ~lapsed /\ (Unseats(r) => r.by # Operator /\ IsAdmin(r.by))
    BY DEF Commit
  <2>2. PICK p \in Person : IsAdmin(p)
    BY <2>1 DEF AdminRemains
  <2>3. CASE p # r.target
    BY <1>4, <2>2, <2>3 DEF IsAdmin
  <2>4. CASE p = r.target /\ Unseats(r) /\ r.by # r.target
    <3>1. r.by \in Person /\ IsAdmin(r.by)
      BY <1>1, <2>1, <2>4 DEF Request
    <3> QED BY <1>4, <2>4, <3>1 DEF IsAdmin
  <2>5. CASE p = r.target /\ Unseats(r) /\ r.by = r.target
    BY <1>1, <1>2, <1>3, <1>4, <2>1, <2>2, <2>5 DEF KeepsItsAdmin, IsAdmin
  <2>6. CASE p = r.target /\ ~Unseats(r)
    <3>1. user'[p] = Stored(r) /\ Stored(r).active /\ Stored(r).role = "admin"
      BY <1>4, <2>2, <2>6 DEF Unseats
    <3>2. user'[p].exists
      BY <1>8, <2>2 DEF IsAdmin
    <3> QED BY <3>1, <3>2 DEF IsAdmin
  <2> QED BY <2>3, <2>4, <2>5, <2>6
<1> QED BY <1>9, <1>10, <1>11, <1>12, <1>13

LEMMA SignInKeeps ==
  ASSUME TeamInv, NEW p \in Person, Find(p) \/ Enter(p)
  PROVE  TeamInv'
<1> USE DEF TeamInv
<1>1. /\ clock \in Nat /\ user[p] \in Row /\ user[p].hash \in Nat /\ user[p].hash <= clock
      /\ signing[p] \in SignIn /\ signing[p].pass \in Nat
      /\ \A t \in token : t.issued <= clock /\ t.issued \in Nat
      /\ \A q \in Person : /\ user[q].hash \in Nat /\ user[q].changed \in Nat
                           /\ user[q].hash <= clock /\ user[q].changed <= clock
                           /\ signing[q].pass \in Nat
  BY DEF TypeOK, Row, SignIn, Token
<1>2. /\ clock' \in Nat /\ clock <= clock' /\ UNCHANGED <<user, request, requests, lapsed>>
      /\ signIns' \in 0 .. MaxSignIns
  BY NowIsLater, <1>1, BoundAssumption DEF Find, Enter, counters, TypeOK
<1>3. RequestsAreProper'
  <2>1. \A s \in Slot : request[s].made \in Nat
    BY DEF TypeOK, Request
  <2> QED BY <1>1, <1>2, <2>1 DEF RequestsAreProper, Proper
<1>4. AdminRemains'
  BY <1>2 DEF AdminRemains, IsAdmin
<1>5. /\ signing' \in [Person -> SignIn]
      /\ \A q \in Person : signing'[q].busy => user[q].exists /\ signing'[q].pass <= clock
  <2>1. CASE Find(p)
    BY <1>1, <2>1 DEF Find, TypeOK, SignIn, PasswordsAreDated
  <2>2. CASE Enter(p)
    BY <2>2 DEF Enter, TypeOK, SignIn, Idle, PasswordsAreDated
  <2> QED BY <2>1, <2>2
<1>6. PasswordsAreDated'
  <2>1. \A q \in Person : signing'[q].pass \in Nat
    BY <1>5 DEF SignIn
  <2> QED BY <1>1, <1>2, <1>5, <2>1 DEF PasswordsAreDated
<1>7. CASE Find(p)
  <2>1. UNCHANGED <<token, clock>>
    BY <1>7 DEF Find
  <2>2. TypeOK'
    BY <1>2, <1>5, <2>1 DEF TypeOK
  <2>3. SessionsAreDated'
    BY <1>2, <2>1 DEF SessionsAreDated
  <2> QED BY <1>3, <1>4, <1>6, <2>2, <2>3
<1>8. CASE Enter(p)
  <2> DEFINE n == [user |-> p, issued |-> Now, pass |-> signing[p].pass,
                   crossed |-> user[p].hash # signing[p].pass \/ BeingReset(p)]
  <2>1. token' = token \cup {n} /\ clock' = Now /\ clock < Now /\ Now \in Nat
    BY <1>1, <1>8, NowIsLater DEF Enter, Issued
  <2>2. /\ n.user = p /\ n.issued = Now /\ n.pass = signing[p].pass
        /\ ~n.crossed => user[p].hash = signing[p].pass /\ ~BeingReset(p)
    OBVIOUS
  <2>3. n \in Token
    <3>1. (user[p].hash # signing[p].pass \/ BeingReset(p)) \in BOOLEAN
      BY DEF BeingReset
    <3> QED BY <1>1, <2>1, <3>1 DEF Token
  <2> HIDE DEF n
  <2>4. user[p].exists /\ signing[p].pass <= clock
    BY <1>8 DEF Enter, PasswordsAreDated
  <2>5. TypeOK'
    <3>1. \A t \in token' : user[t.user].exists /\ t.issued <= clock'
      BY <1>1, <2>1, <2>2, <2>4 DEF TypeOK
    <3>2. \A q \in Person : user[q].hash <= clock' /\ user[q].changed <= clock'
      BY <1>1, <2>1
    <3>3. token' \in SUBSET Token
      BY <2>1, <2>3 DEF TypeOK
    <3> QED BY <1>2, <1>5, <3>1, <3>2, <3>3 DEF TypeOK
  <2>6. SessionsAreDated'
    <3>1. n.pass <= n.issued
      BY <1>1, <2>1, <2>2, <2>4
    <3>2. ~n.crossed => \A s \in Slot : ~(request[s].pc = "commit" /\ request[s].kind = "reset"
                                          /\ request[s].target = p)
      BY <2>2 DEF BeingReset
    <3> QED BY <1>2, <2>1, <2>2, <3>1, <3>2 DEF SessionsAreDated
  <2> QED BY <1>3, <1>4, <1>6, <2>5, <2>6
<1> QED BY <1>7, <1>8

LEMMA LeaveKeeps ==
  ASSUME TeamInv, NEW t \in token, Leave(t)
  PROVE  TeamInv'
  BY DEF Leave, counters, TeamInv, TypeOK, RequestsAreProper, Proper, PasswordsAreDated,
         SessionsAreDated, AdminRemains, IsAdmin

LEMMA TeamInvariant == Spec => []TeamInv
<1>1. Init => TeamInv
  <2> SUFFICES ASSUME Init PROVE TeamInv
    OBVIOUS
  <2>1. /\ NoRow \in Row /\ NoRow.hash = 0 /\ NoRow.changed = 0
        /\ [NoRow EXCEPT !.exists = TRUE, !.role = "admin", !.active = TRUE] \in Row
    BY DEF NoRow, Row, Role
  <2>2. Free \in Request /\ Free.pc = "idle" /\ Idle \in SignIn /\ ~Idle.busy
    BY <2>1 DEF Free, Request, Kind, Idle, SignIn
  <2>3. \A p \in Person : user[p] \in Row /\ user[p].hash = 0 /\ user[p].changed = 0
    BY <2>1 DEF Init, NoRow
  <2>4. TypeOK
    <3>1. user \in [Person -> Row] /\ signing \in [Person -> SignIn] /\ request \in [Slot -> Request]
      BY <2>1, <2>2 DEF Init
    <3>2. requests \in 0 .. MaxRequests /\ signIns \in 0 .. MaxSignIns /\ clock = 0
      BY BoundAssumption DEF Init
    <3>3. token = {} /\ lapsed = FALSE /\ \A s \in Slot : request[s].pc = "idle"
      BY <2>2 DEF Init
    <3>4. \A p \in Person : user[p].hash <= clock /\ user[p].changed <= clock
      BY <2>3, <3>2
    <3> HIDE DEF Init
    <3> QED BY <3>1, <3>2, <3>3, <3>4 DEF TypeOK
  <2>5. RequestsAreProper /\ PasswordsAreDated /\ SessionsAreDated
    BY <2>2, <2>3 DEF Init, RequestsAreProper, Proper, PasswordsAreDated, SessionsAreDated
  <2>6. AdminRemains
    <3>1. PICK p \in FirstAdmin : p \in Person
      BY PersonAssumption
    <3> QED BY <3>1 DEF Init, AdminRemains, IsAdmin, NoRow
  <2> QED BY <2>4, <2>5, <2>6 DEF TeamInv
<1>2. TeamInv /\ [Next]_vars => TeamInv'
  <2> SUFFICES ASSUME TeamInv, [Next]_vars PROVE TeamInv'
    OBVIOUS
  <2>1. CASE UNCHANGED vars
    BY <2>1 DEF vars, counters, TeamInv, TypeOK, RequestsAreProper, Proper, PasswordsAreDated,
                SessionsAreDated, AdminRemains, IsAdmin
  <2>2. ASSUME NEW s \in Slot, Authenticate(s) PROVE TeamInv'
    <3>1. PICK t \in token, kind \in Kind \ {"deactivate"}, target \in Person,
               role \in Role \cup {Keep}, active \in BOOLEAN \cup {Keep} :
                 Begin(s, t.user, kind, target, role, active)
      BY <2>2 DEF Authenticate
    <3>2. t.user \in Person
      BY DEF TeamInv, TypeOK, Token
    <3> QED BY <3>1, <3>2, BeginKeeps
  <2>3. ASSUME NEW s \in Slot, RunScript(s) PROVE TeamInv'
    <3>1. PICK kind \in Kind \ {"update"}, target \in Person, role \in Role \cup {Keep} :
                 Begin(s, Operator, kind, target, role, Keep)
      BY <2>3 DEF RunScript
    <3> QED BY <3>1, BeginKeeps
  <2> QED BY <2>1, <2>2, <2>3, SignInKeeps, LeaveKeeps, LoadKeeps, CommitKeeps DEF Next
<1> QED BY <1>1, <1>2, PTL DEF Spec

-----------------------------------------------------------------------------
(* A reset signs everyone out, and a new password works at once, however   *)
(* sign-ins, resets and other changes overlap (get_current_user,           *)
(* reset_password).                                                        *)
THEOREM SessionsFollowPasswords == Spec => []SessionsConsistent
<1>1. TeamInv => SessionsConsistent
  <2> SUFFICES ASSUME TeamInv PROVE ResetSignsOut /\ NewPasswordWorks
    BY DEF TeamInv, SessionsConsistent
  <2>1. \A t \in token : /\ t.user \in Person /\ user[t.user].exists /\ t.issued \in Nat
                         /\ user[t.user].changed \in Nat
    BY DEF TeamInv, TypeOK, Token, Row
  <2>2. ResetSignsOut
    BY <2>1 DEF TeamInv, SessionsAreDated, ResetSignsOut, Accepted
  <2>3. NewPasswordWorks
    BY <2>1 DEF TeamInv, PasswordsAreDated, SessionsAreDated, NewPasswordWorks, Accepted
  <2> QED BY <2>2, <2>3
<1> QED BY <1>1, TeamInvariant, PTL

(* The team page alone leaves no tenant without an admin, unless one lost  *)
(* that role while his own request against another was under way.          *)
THEOREM AnAdminRemains == Spec => []AdminRemains
<1>1. TeamInv => AdminRemains
  BY DEF TeamInv
<1> QED BY <1>1, TeamInvariant, PTL

(* Overlapping changes grant nothing that none of them asked for: a commit *)
(* writes only the columns its request changed.                            *)
THEOREM NothingUnaskedIsGranted == Spec => GrantsAreAsked
<1>1. TeamInv => \A s \in Slot : LET r == request[s] IN Commit(s) =>
        /\ ~user[r.target].active /\ user'[r.target].active =>
             r.kind = "invite" \/ r.active = TRUE \/ (r.kind = "reset" /\ r.by = Operator)
        /\ user[r.target].role # "admin" /\ user'[r.target].role = "admin" => r.role = "admin"
  <2> SUFFICES ASSUME TeamInv, NEW s \in Slot, Commit(s)
               PROVE  LET r == request[s] IN
                        /\ ~user[r.target].active /\ user'[r.target].active =>
                             r.kind = "invite" \/ r.active = TRUE \/ (r.kind = "reset" /\ r.by = Operator)
                        /\ user[r.target].role # "admin" /\ user'[r.target].role = "admin" => r.role = "admin"
    OBVIOUS
  <2> DEFINE r == request[s]
  <2>1. r \in Request /\ r.pc = "commit" /\ r.target \in Person /\ Was(r) \in Row
    BY DEF TeamInv, Commit, TypeOK, Was
  <2>2. Asks(r.kind, r.role, r.active) /\ (r.by # Operator => r.kind # "deactivate")
    BY <2>1 DEF TeamInv, RequestsAreProper, Proper
  <2>3. Granted(r)
    BY <2>1, <2>2, CommitStores
  <2>4. user'[r.target] = Stored(r)
    BY <2>1 DEF TeamInv, Commit, TypeOK
  <2> QED BY <2>3, <2>4 DEF Granted, Was
<1> QED BY <1>1, TeamInvariant, PTL DEF GrantsAreAsked
=============================================================================
