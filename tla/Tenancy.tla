------------------------------ MODULE Tenancy ------------------------------
(***************************************************************************)
(* How the businesses that share the database are kept apart: sessions of  *)
(* requests, background tasks and scripts take connections from a pool for *)
(* one transaction at a time, and a setting of the transaction decides     *)
(* which rows it sees and which tenant its new rows belong to.             *)
(*                                                                         *)
(* The API's role is subject to row-level security. Scripts have the       *)
(* owner's, which is not, and a pool of their own. What a row holds beside *)
(* its tenant and one reference is left out, and with it every UPDATE; an  *)
(* INSERT or DELETE is one step with its COMMIT.                           *)
(***************************************************************************)
EXTENDS Naturals

CONSTANTS
  Tenant,
  None,               (* no tenant, connection or reference                *)
  Session,
  Script,             (* those on the owner's connections                  *)
  Connection,
  OwnerConnection,
  Row                 (* the ids of rows; none is used twice               *)

ASSUME TenancyAssumption ==
  /\ None \notin Tenant \cup Connection \cup Row
  /\ Script \subseteq Session
  /\ OwnerConnection \subseteq Connection

VARIABLES
  rows,         (* the rows of all tenant tables                           *)
  setting,      (* app.tenant_id on each connection                        *)
  sessions

tenancyVars == <<rows, setting, sessions>>

-----------------------------------------------------------------------------
MaybeTenant == Tenant \cup {None}

(* author: the tenant on whose behalf it was inserted (a record of the     *)
(* model's own, like seen: what the session was ever shown).               *)
RowState == [state : {"unused", "stored", "deleted"}, tenant : MaybeTenant,
             parent : Row \cup {None}, author : MaybeTenant]

SessionState == [open : BOOLEAN, tenant : MaybeTenant, connection : Connection \cup {None}, seen : SUBSET Row]

Unused == [state |-> "unused", tenant |-> None, parent |-> None, author |-> None]

Opened(t) == [open |-> TRUE, tenant |-> t, connection |-> None, seen |-> {}]

Closed == [open |-> FALSE, tenant |-> None, connection |-> None, seen |-> {}]

TenancyTypeOK ==
  /\ rows \in [Row -> RowState]
  /\ setting \in [Connection -> MaybeTenant]
  /\ sessions \in [Session -> SessionState]

TenancyInit ==
  /\ rows = [r \in Row |-> Unused]
  /\ setting = [c \in Connection |-> None]
  /\ sessions = [s \in Session |-> Closed]

-----------------------------------------------------------------------------
Stored(r) == rows[r].state = "stored"

Begun(s) == sessions[s].connection # None

Scope(s) == setting[sessions[s].connection]

(* tenant_session(); without a tenant for sign-in, the lists of unfinished *)
(* work, the business of a contact form, and the operator's commands.      *)
OpenSession(s, t) ==
  /\ ~sessions[s].open
  /\ sessions' = [sessions EXCEPT ![s] = Opened(t)]
  /\ UNCHANGED <<rows, setting>>

CloseSession(s) ==
  /\ sessions[s].open /\ ~Begun(s)
  /\ sessions' = [sessions EXCEPT ![s] = Closed]
  /\ UNCHANGED <<rows, setting>>

(* Every transaction begins on whatever connection is free, and            *)
(* _scope_transaction tells it the tenant of the session, if it has one.   *)
BeginTransaction(s, c) ==
  /\ sessions[s].open /\ ~Begun(s)
  /\ s \in Script <=> c \in OwnerConnection
  /\ \A o \in Session : sessions[o].connection # c
  /\ sessions' = [sessions EXCEPT ![s].connection = c]
  /\ setting' = IF sessions[s].tenant = None THEN setting
                ELSE [setting EXCEPT ![c] = sessions[s].tenant]
  /\ UNCHANGED rows

(* The policies tenant_isolation; for the owner, the filter tenant_of()    *)
(* of the services.                                                        *)
Visible(s, r) ==
  /\ Stored(r)
  /\ rows[r].tenant = IF s \in Script THEN sessions[s].tenant ELSE Scope(s)

(* It reads rows, or one whose id it was given.                            *)
ReadRows(s) ==
  /\ Begun(s)
  /\ \E found \in SUBSET {r \in Row : Visible(s, r)} :
       sessions' = [sessions EXCEPT ![s].seen = @ \cup found]
  /\ UNCHANGED <<rows, setting>>

MutantAfter(c) == setting

(* set_config(..., true) lasts until the transaction ends.                 *)
After(c) == [setting EXCEPT ![c] = None]

EndTransaction(s) ==
  /\ Begun(s)
  /\ setting' = After(sessions[s].connection)
  /\ sessions' = [sessions EXCEPT ![s].connection = None]

Rollback(s) == EndTransaction(s) /\ UNCHANGED rows

(* tenant_id_column()'s default; the commands without a tenant name it.    *)
NewTenants(s) ==
  IF s \in Script /\ sessions[s].tenant = None THEN Tenant ELSE {Scope(s)} \ {None}

(* The row's tenant is not null, and that of the row it refers to: for the *)
(* owner, too. What is refused ends as Rollback. The id of the other row   *)
(* may come from a request.                                                *)
Insert(s, r, t, parent) ==
  /\ EndTransaction(s)
  /\ rows[r].state = "unused"
  /\ t \in NewTenants(s)
  /\ parent # None => Stored(parent) /\ rows[parent].tenant = t
  /\ rows' = [rows EXCEPT ![r] = [state |-> "stored", tenant |-> t, parent |-> parent,
                                  author |-> IF sessions[s].tenant = None THEN t ELSE sessions[s].tenant]]

(* A row that another refers to stays. The command that deletes a tenant   *)
(* names it, and has none of its own.                                      *)
DeleteRow(s, r) ==
  /\ EndTransaction(s)
  /\ Visible(s, r) \/ (s \in Script /\ sessions[s].tenant = None /\ Stored(r))
  /\ \A other \in Row : Stored(other) => rows[other].parent # r
  /\ rows' = [rows EXCEPT ![r].state = "deleted"]

TenancyNext ==
  \E s \in Session :
    \/ \E t \in MaybeTenant : OpenSession(s, t)
    \/ CloseSession(s)
    \/ \E c \in Connection : BeginTransaction(s, c)
    \/ ReadRows(s)
    \/ Rollback(s)
    \/ \E r \in Row, t \in Tenant, parent \in Row \cup {None} : Insert(s, r, t, parent)
    \/ \E r \in Row : DeleteRow(s, r)

TenancySpec == TenancyInit /\ [][TenancyNext]_tenancyVars

-----------------------------------------------------------------------------
(* Properties *)

(* A session is only ever shown rows of its own tenant, and one without a  *)
(* tenant none, whoever had its connection before.                         *)
SeesOwnRows == \A s \in Session : \A r \in sessions[s].seen : rows[r].tenant = sessions[s].tenant

(* A row belongs to the tenant for which it was inserted, and refers to    *)
(* rows of that tenant that are there.                                     *)
RowsBelong ==
  \A r \in Row : Stored(r) =>
    /\ rows[r].tenant \in Tenant /\ rows[r].tenant = rows[r].author
    /\ rows[r].parent # None => Stored(rows[r].parent) /\ rows[rows[r].parent].tenant = rows[r].tenant

(* "Every transaction is scoped to the caller's tenant", and only those.   *)
ScopedThroughout ==
  \A c \in Connection :
    IF \E s \in Session : sessions[s].connection = c
      THEN \E s \in Session : sessions[s].connection = c /\ setting[c] = sessions[s].tenant
      ELSE setting[c] = None

(* The businesses are kept apart.                                          *)
TenantsApart == SeesOwnRows /\ RowsBelong /\ ScopedThroughout
=============================================================================
