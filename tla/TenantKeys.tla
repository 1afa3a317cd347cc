----------------------------- MODULE TenantKeys -----------------------------
(***************************************************************************)
(* Registration, suspension and API-key rotation of one tenant: the        *)
(* control_plane_tenants and tenant_api_keys rows of store.py, changed by  *)
(* concurrent requests that were authenticated (auth.py) some time before  *)
(* their transaction.  Scopes are abstracted to admin or not.              *)
(***************************************************************************)
EXTENDS Naturals, FiniteSets

CONSTANTS
    Keys,        \* key_ids that may be issued
    AdminKeys,   \* those issued with the admin scope
    Static,      \* a static or OIDC admin credential of the tenant
    Operator,    \* one with the operator scope too, or local trust: the
                 \* tenant's status is not consulted
    Requests,    \* concurrent API requests
    NoRequest,
    NoKey

ASSUME ConstantsAssumption ==
    /\ AdminKeys \subseteq Keys
    /\ Static \notin Keys /\ Operator \notin Keys
    /\ NoKey \notin Keys
    /\ NoRequest \notin Requests

VARIABLES
    tenant,      \* "absent", "active" or "suspended"
    key,         \* each key: "absent", "active" or "revoked"
    rowLock,     \* request that holds the tenant row FOR UPDATE
    pc,          \* where each request is
    target       \* the key it issues or revokes

vars == <<tenant, key, rowLock, pc, target>>

TypeOK ==
    /\ tenant \in {"absent", "active", "suspended"}
    /\ key \in [Keys -> {"absent", "active", "revoked"}]
    /\ rowLock \in Requests \cup {NoRequest}
    /\ pc \in [Requests -> {"idle", "authorized", "issue", "revoke"}]
    /\ target \in [Requests -> Keys \cup {NoKey}]
    /\ \A r \in Requests : pc[r] \in {"issue", "revoke"} => target[r] \in Keys
    /\ rowLock # NoRequest => pc[rowLock] \in {"issue", "revoke"}

Init ==
    /\ tenant = "absent"
    /\ key = [k \in Keys |-> "absent"]
    /\ rowLock = NoRequest
    /\ pc = [r \in Requests |-> "idle"]
    /\ target = [r \in Requests |-> NoKey]

ActiveAdmins == {k \in AdminKeys : key[k] = "active"}

(* Mutant: a plain SELECT instead of SELECT ... FOR UPDATE. *)
RowNotLocked == TRUE

RowFree == rowLock = NoRequest

-----------------------------------------------------------------------------
(* create_tenant: the tenant row, its first admin key and its quota row in *)
(* one transaction; a second one raises TenantConflictError.               *)
CreateTenant(k) ==
    /\ tenant = "absent"
    /\ k \in AdminKeys
    /\ tenant' = "active"
    /\ key' = [key EXCEPT ![k] = "active"]
    /\ UNCHANGED <<rowLock, pc, target>>

(* set_tenant_status: one UPDATE, which waits for a FOR UPDATE lock. *)
SetTenantStatus(s) ==
    /\ tenant # "absent"
    /\ RowFree
    /\ tenant' = s
    /\ UNCHANGED <<key, rowLock, pc, target>>

(* A dynamic key is resolved while it and its tenant are active. *)
ResolveTenantAPIKey(k) == k \in ActiveAdmins /\ tenant = "active"

(* Unregistered tenants of static and federated credentials count as active. *)
TenantAccessAllowed == tenant \in {"absent", "active"}

(* Authenticator.require("admin"), each time from fresh reads. *)
Authenticate(r, k) ==
    /\ pc[r] = "idle"
    /\ \/ ResolveTenantAPIKey(k)
       \/ k = Static /\ TenantAccessAllowed
       \/ k = Operator
    /\ pc' = [pc EXCEPT ![r] = "authorized"]
    /\ UNCHANGED <<tenant, key, rowLock, target>>

(* The request ends; commit or rollback frees the row. *)
Finish(r) ==
    /\ pc' = [pc EXCEPT ![r] = "idle"]
    /\ target' = [target EXCEPT ![r] = NoKey]
    /\ rowLock' = IF rowLock = r THEN NoRequest ELSE rowLock

(* issue_tenant_api_key: the tenant row is locked and must be active. *)
LockToIssue(r, k) ==
    /\ pc[r] = "authorized"
    /\ RowFree
    /\ tenant = "active"
    /\ rowLock' = r
    /\ pc' = [pc EXCEPT ![r] = "issue"]
    /\ target' = [target EXCEPT ![r] = k]
    /\ UNCHANGED <<tenant, key>>

(* A key_id that exists, revoked or not, violates the primary key.         *)
InsertKey(r) ==
    /\ pc[r] = "issue"
    /\ key[target[r]] = "absent"
    /\ key' = [key EXCEPT ![target[r]] = "active"]
    /\ Finish(r)
    /\ UNCHANGED tenant

(* Mutant: the last admin may go. *)
MayRevokeAny(k) == TRUE

(* The count of revoke_tenant_api_key: not the last active admin. *)
MayRevoke(k) == k \in AdminKeys => Cardinality(ActiveAdmins) > 1

(* revoke_tenant_api_key, whatever the tenant's status; a revoked key is   *)
(* returned as it is, without a change of state.                           *)
LockToRevoke(r, k) ==
    /\ pc[r] = "authorized"
    /\ RowFree
    /\ tenant # "absent"
    /\ key[k] = "active"
    /\ MayRevoke(k)
    /\ rowLock' = r
    /\ pc' = [pc EXCEPT ![r] = "revoke"]
    /\ target' = [target EXCEPT ![r] = k]
    /\ UNCHANGED <<tenant, key>>

UpdateKey(r) ==
    /\ pc[r] = "revoke"
    /\ key' = [key EXCEPT ![target[r]] = "revoked"]
    /\ Finish(r)
    /\ UNCHANGED tenant

(* The request is refused (unknown, conflicting, suspended, last admin),   *)
(* or its process or connection is lost.                                   *)
Abandon(r) ==
    /\ pc[r] # "idle"
    /\ Finish(r)
    /\ UNCHANGED <<tenant, key>>

Next ==
    \/ \E k \in Keys : CreateTenant(k)
    \/ \E s \in {"active", "suspended"} : SetTenantStatus(s)
    \/ \E r \in Requests :
        \/ \E k \in Keys \cup {Static, Operator} : Authenticate(r, k)
        \/ \E k \in Keys : LockToIssue(r, k) \/ LockToRevoke(r, k)
        \/ InsertKey(r) \/ UpdateKey(r) \/ Abandon(r)

Spec == Init /\ [][Next]_vars

-----------------------------------------------------------------------------
(* "Revocation locks the tenant row and refuses to remove the last active  *)
(* admin": a registered tenant always has one, also when two rotations     *)
(* race or a request acts on a key that was revoked meanwhile.             *)
AdminRemains == tenant # "absent" => ActiveAdmins # {}

(* No credential comes into force while the tenant is suspended, although  *)
(* the status is read in an earlier statement.                             *)
NoKeyWhileSuspended ==
    [][\A k \in Keys : key[k] # "active" /\ key'[k] = "active" =>
          tenant' = "active"]_vars
=============================================================================
