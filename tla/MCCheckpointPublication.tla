---------------------- MODULE MCCheckpointPublication -----------------------
(***************************************************************************)
(* A small instance of CheckpointPublication for TLC.  The buckets and the *)
(* directory share nothing but the envelopes, so TLC explores behaviours   *)
(* that use the one and behaviours that use the other, not their product.  *)
(***************************************************************************)
EXTENDS CheckpointPublication, TLC

CONSTANTS primary, replica, archive

ThreeSinks == <<primary, replica, archive>>
PublisherSymmetry == Permutations(Publishers)

DirectoryUnused ==
    /\ \A p \in Publishers : ~OnHost(p)
    /\ \A c \in 1..MaxCheckpoints : files[c] = "absent"
    /\ found = {} /\ lost = {}

BucketsUnused ==
    /\ \A p \in Publishers : pc[p] \notin {"put", "verify", "report"}
    /\ \A d \in Destinations : objects[d] = {}
    /\ receipts = {}

OneSinkStep == Next /\ (DirectoryUnused' \/ BucketsUnused')

OneSinkSpec == Init /\ [][OneSinkStep]_vars
=============================================================================
