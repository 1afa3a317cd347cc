---------------------------- MODULE MCOperations ----------------------------
(***************************************************************************)
(* A small instance of Promotion (two runs with good tokens, one with a    *)
(* token of another system and one of an old operator version) and of      *)
(* RecoveryDrill.  The two act on different clusters, so TLC explores them *)
(* side by side: a step of one is taken from an initial state of the other. *)
(***************************************************************************)
EXTENDS Promotion, TLC

CONSTANTS r1, r2, r3, r4, t1, t2, t3, t4, Drills, MaxFailed, MaxOverlap

VARIABLES dpc, clusters, phase, job, jobDeleting, doomed, verdict, report

drillVars == <<dpc, clusters, phase, job, jobDeleting, doomed, verdict, report>>

OneTokenEach == r1 :> t1 @@ r2 :> t2 @@ r3 :> t3 @@ r4 :> t4

Drill == INSTANCE RecoveryDrill WITH pc <- dpc

OperationsInit == Init /\ Drill!Init
PromotionStep == Drill!Init /\ Next /\ UNCHANGED drillVars
DrillStep == Init /\ Drill!Next /\ UNCHANGED vars
OperationsSpec ==
    OperationsInit /\ [][PromotionStep \/ DrillStep]_<<vars, drillVars>>

DrillSymmetry == Permutations(Drills)

-----------------------------------------------------------------------------
(* Whatever fails, at most max_failed_drills clusters exist that nobody is  *)
(* deleting, as long as drills do not overlap, and every verifier Job that  *)
(* nobody is deleting has such a cluster.                                   *)
LeftoversBounded == Drill!LeftoversBounded

(* A drill passes only with a valid report of its own cluster archived, and *)
(* then has asked for the deletion of both cluster and Job.                 *)
PassedMeansVerified == Drill!PassedMeansVerified
=============================================================================
