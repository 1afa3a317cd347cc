----------------------------- MODULE Promotion ------------------------------
(***************************************************************************)
(* Controlled promotion of a replica cluster (promotion.py): runs of       *)
(* promote-replica read the target Cluster, check it, patch it under the   *)
(* resourceVersion they read, and wait for CloudNativePG, while other      *)
(* runs, the operator and platform engineers change the same object.       *)
(***************************************************************************)
EXTENDS FiniteSets

CONSTANTS
    Runs,
    Tokens,
    TokenOf,      \* the demotion token each run is given
    Foreign,      \* tokens of another database system
    Rejected,     \* malformed tokens, or of an operator version the policy rejects
    NoToken

ASSUME ConstantsAssumption ==
    /\ TokenOf \in [Runs -> Tokens]
    /\ Foreign \subseteq Tokens /\ Rejected \subseteq Tokens
    /\ NoToken \notin Tokens

VARIABLES
    pc,           \* where each run is
    fresh,        \* the resourceVersion each run holds is the current one
    primary,      \* spec.replica.primary
    token,        \* spec.replica.promotionToken
    delayed,      \* spec.replica.minApplyDelay is set
    last,         \* status.lastPromotionToken
    switching,    \* status.switchReplicaClusterStatus.inProgress
    ready,        \* condition Ready
    broken,       \* phase is "error" or "unrecoverable"
    promoted      \* history: tokens the operator has promoted the target with

spec == <<primary, token, delayed>>
status == <<last, switching, ready, broken, promoted>>
vars == <<pc, fresh, spec, status>>

(* The target replicates from the source, in any state of health. *)
Init ==
    /\ pc = [r \in Runs |-> "start"]
    /\ fresh = [r \in Runs |-> FALSE]
    /\ primary = "source"
    /\ token = NoToken
    /\ delayed \in BOOLEAN
    /\ last = NoToken
    /\ switching = FALSE
    /\ ready \in BOOLEAN
    /\ broken = FALSE
    /\ promoted = {}

Goto(r, to) == pc' = [pc EXCEPT ![r] = to]

(* Every write of the object gives it a new resourceVersion. *)
NewVersion == fresh' = [r \in Runs |-> FALSE]

-----------------------------------------------------------------------------
(* load_promotion_token and _validate_operator_version. *)
LoadToken(r) ==
    /\ pc[r] = "start"
    /\ Goto(r, IF TokenOf[r] \in Rejected THEN "failed" ELSE "preflight")
    /\ UNCHANGED <<fresh, spec, status>>

(* Mutant: the system identifier is not compared. *)
EligibleWithoutSystemID(r) ==
    primary = "source" /\ token = NoToken /\ ~delayed /\ ~switching /\ ready

(* The checks of _preflight on the Cluster as it is. *)
Eligible(r) ==
    /\ primary = "source"
    /\ token = NoToken
    /\ ~delayed
    /\ TokenOf[r] \notin Foreign
    /\ ~switching
    /\ ready

Preflight(r) ==
    /\ pc[r] = "preflight"
    /\ IF Eligible(r)
       THEN /\ Goto(r, "patch")
            /\ fresh' = [fresh EXCEPT ![r] = TRUE]
       ELSE /\ Goto(r, "failed")
            /\ UNCHANGED fresh
    /\ UNCHANGED <<spec, status>>

(* Mutant: the patch carries no resourceVersion. *)
Unconditional(r) == TRUE

(* metadata.resourceVersion of the patch against the object's. *)
Unchanged(r) == fresh[r]

(* One merge patch of primary, source and promotionToken: applied,         *)
(* possibly with its reply lost, or rejected with 409.                     *)
PatchCluster(r) ==
    /\ pc[r] = "patch"
    /\ IF Unchanged(r)
       THEN /\ primary' = "target"
            /\ token' = TokenOf[r]
            /\ NewVersion
            /\ Goto(r, "wait") \/ Goto(r, "failed")
       ELSE /\ Goto(r, "failed")
            /\ UNCHANGED <<primary, token, fresh>>
    /\ UNCHANGED <<delayed, status>>

(* Mutant: any primary that is Ready has been promoted. *)
ReadyPrimary(r) == primary = "target" /\ ready

(* _wait_for_promotion: completed with the run's own token. *)
Promoted(r) == primary = "target" /\ last = TokenOf[r] /\ ready

PollCluster(r) ==
    /\ pc[r] = "wait"
    /\ \/ Promoted(r) /\ Goto(r, "success")
       \/ ~Promoted(r) /\ broken /\ Goto(r, "failed")
    /\ UNCHANGED <<fresh, spec, status>>

(* A call fails without an effect, the wait times out, or the Job is       *)
(* stopped.  The token stays in the Cluster's spec.                        *)
Stops(r) ==
    /\ pc[r] \notin {"success", "failed"}
    /\ Goto(r, "failed")
    /\ UNCHANGED <<fresh, spec, status>>

-----------------------------------------------------------------------------
(* CloudNativePG: starts a promotion it finds in the spec, completes it    *)
(* once the target has replayed through the token, and reports health.     *)
StartSwitch ==
    /\ primary = "target" /\ token # NoToken /\ last # token
    /\ ~switching
    /\ switching' = TRUE
    /\ ready' \in BOOLEAN
    /\ NewVersion
    /\ UNCHANGED <<pc, spec, last, broken, promoted>>

CompletePromotion ==
    /\ switching
    /\ primary = "target" /\ token \notin Foreign
    /\ last' = token
    /\ promoted' = promoted \cup {token}
    /\ switching' = FALSE
    /\ NewVersion
    /\ UNCHANGED <<pc, spec, ready, broken>>

HealthChanges ==
    /\ ready' \in BOOLEAN
    /\ broken' \in BOOLEAN
    /\ <<ready, broken>>' # <<ready, broken>>
    /\ NewVersion
    /\ UNCHANGED <<pc, spec, last, switching, promoted>>

(* An engineer reverses a switchover: the target follows the source again, *)
(* without a token in its spec; or sets or removes the apply delay.        *)
Demote ==
    /\ primary = "target" /\ ~switching
    /\ primary' = "source"
    /\ token' = NoToken
    /\ NewVersion
    /\ UNCHANGED <<pc, delayed, status>>

SetDelay ==
    /\ delayed' = ~delayed
    /\ NewVersion
    /\ UNCHANGED <<pc, primary, token, status>>

Next ==
    \/ \E r \in Runs :
        \/ LoadToken(r) \/ Preflight(r) \/ PatchCluster(r) \/ PollCluster(r) \/ Stops(r)
    \/ StartSwitch \/ CompletePromotion \/ HealthChanges \/ Demote \/ SetDelay

Spec == Init /\ [][Next]_vars

-----------------------------------------------------------------------------
TypeOK ==
    /\ pc \in [Runs -> {"start", "preflight", "patch", "wait", "success", "failed"}]
    /\ fresh \in [Runs -> BOOLEAN]
    /\ primary \in {"source", "target"}
    /\ token \in Tokens \cup {NoToken}
    /\ last \in Tokens \cup {NoToken}
    /\ promoted \subseteq Tokens
    /\ delayed \in BOOLEAN /\ switching \in BOOLEAN
    /\ ready \in BOOLEAN /\ broken \in BOOLEAN
    /\ primary = "source" => token = NoToken
    /\ switching => token # NoToken

(* Whatever happened between the check and the patch, a run changes the    *)
(* spec only of a Cluster that, at that very moment, follows the source,   *)
(* has no promotion pending or in progress, no apply delay, and is Ready:  *)
(* concurrent runs and edits are never overwritten.                        *)
PatchesEligibleOnly ==
    [][\A r \in Runs :
        pc[r] = "patch" /\ pc'[r] # "patch" /\ spec' # spec =>
            primary = "source" /\ token = NoToken /\ ~delayed /\ ~switching /\ ready]_vars

(* The promotion token the Cluster is given is always one of its own       *)
(* database system and of an accepted operator version.                    *)
TokenAcceptable == token \notin Foreign \cup Rejected

(* A run reports success only if CloudNativePG completed a promotion with  *)
(* the token of that run, although the Cluster may have been promoted and  *)
(* demoted by others before, and Ready all along.                          *)
SuccessMeansPromoted == \A r \in Runs : pc[r] = "success" => TokenOf[r] \in promoted
=============================================================================
