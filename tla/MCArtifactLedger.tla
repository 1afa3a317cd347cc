-------------------------- MODULE MCArtifactLedger --------------------------
(* Small instances of ArtifactLedger for TLC. *)
EXTENDS ArtifactLedger, TLC

CONSTANTS run, evidence, comparison    \* artifacts

SourceTable ==
    (run :> "run") @@ (evidence :> "guardrail_evidence") @@ (comparison :> "comparison")

ProcSymmetry == Permutations(Procs)
EnvelopeSymmetry == Permutations(Envelopes)
Symmetry == ProcSymmetry \cup EnvelopeSymmetry
=============================================================================
