-------------------------- MODULE MCTenantServices --------------------------
(***************************************************************************)
(* A small instance of TenantKeys and of Guardrails.  The two share no     *)
(* state, so TLC explores them side by side and not interleaved: a step of *)
(* one is taken from the initial state of the other.                       *)
(***************************************************************************)
EXTENDS TenantKeys, TLC

CONSTANTS Versions, Bundles, NoVersion, NoBundle, Admins, MaxActivations,
          MaxEvidence

VARIABLES bundle, activations, sequence, gpc, held, evidence

guardrailVars == <<bundle, activations, sequence, gpc, held, evidence>>

Config == INSTANCE Guardrails WITH pc <- gpc, Requests <- Admins

ServicesInit == Init /\ Config!Init

KeysStep == Config!Init /\ Next /\ UNCHANGED guardrailVars
GuardrailsStep == Init /\ Config!Next /\ UNCHANGED vars

ServicesSpec ==
    ServicesInit /\ [][KeysStep \/ GuardrailsStep]_<<vars, guardrailVars>>

Symmetry ==
    Permutations(Admins) \cup Permutations(Versions) \cup Permutations(Bundles)

-----------------------------------------------------------------------------
(* Evidence is bound to the activation that was in force when its check     *)
(* began, whatever was activated during the call, and each labelled check   *)
(* is in one cell of the efficacy report.                                   *)
EvidenceSound == Config!EvidenceSound

(* Activations that do not overlap are ordered as they happened. *)
ActivationOrder == Config!ActivationOrder
=============================================================================
