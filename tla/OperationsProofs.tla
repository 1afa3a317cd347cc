-------------------------- MODULE OperationsProofs --------------------------
(***************************************************************************)
(* The properties of Promotion for any number of runs and tokens, and of   *)
(* RecoveryDrill for any number of drills.                                 *)
(***************************************************************************)
EXTENDS MCOperations, FiniteSetTheorems, SequenceTheorems, TLAPS

-----------------------------------------------------------------------------
(* Promotion.                                                              *)

(* What the resourceVersion guarantees: while it is current, the Cluster   *)
(* is as the preflight found it.                                           *)
VersionFence == \A r \in Runs : pc[r] = "patch" /\ fresh[r] => Eligible(r)

(* A run that passed LoadToken has an accepted token. *)
TokenLoaded == \A r \in Runs : pc[r] \in {"preflight", "patch", "wait"} => TokenOf[r] \notin Rejected

(* The status names only tokens that were promoted. *)
LastPromoted == last \in promoted \cup {NoToken}

PromotionInv ==
    TypeOK /\ VersionFence /\ TokenLoaded /\ LastPromoted
    /\ TokenAcceptable /\ SuccessMeansPromoted

(* The invariant holds when the cluster starts to follow the source. *)
LEMMA InitInv == Init => PromotionInv
BY ConstantsAssumption
   DEF Init, PromotionInv, TypeOK, VersionFence, TokenLoaded, LastPromoted,
       TokenAcceptable, SuccessMeansPromoted

(* Steps of one run keep it: only a fresh preflight leads to a patch. *)
LEMMA RunKeepsInv ==
    ASSUME PromotionInv, NEW r \in Runs,
           LoadToken(r) \/ Preflight(r) \/ PatchCluster(r) \/ PollCluster(r) \/ Stops(r)
    PROVE  PromotionInv'
<1> USE ConstantsAssumption
<1>1. CASE LoadToken(r)
  BY <1>1 DEF LoadToken, Goto, PromotionInv, TypeOK, VersionFence, TokenLoaded, LastPromoted,
       TokenAcceptable, SuccessMeansPromoted, Eligible, spec, status
<1>2. CASE Preflight(r)
  BY <1>2 DEF Preflight, Goto, PromotionInv, TypeOK, VersionFence, TokenLoaded, LastPromoted,
       TokenAcceptable, SuccessMeansPromoted, Eligible, spec, status
<1>3. CASE PatchCluster(r)
  <2>1. CASE Unchanged(r)
    <3>1. Eligible(r)
      BY <1>3, <2>1 DEF PatchCluster, Unchanged, PromotionInv, VersionFence
    <3>2. VersionFence'
      BY <1>3, <2>1 DEF PatchCluster, NewVersion, VersionFence
    <3>3. TokenOf[r] \in Tokens /\ TokenOf[r] \notin Foreign \cup Rejected
      BY <1>3, <3>1 DEF PatchCluster, Eligible, PromotionInv, TokenLoaded
    <3>4. /\ primary' = "target" /\ token' = TokenOf[r]
          /\ fresh' = [q \in Runs |-> FALSE]
          /\ \/ pc' = [pc EXCEPT ![r] = "wait"]
             \/ pc' = [pc EXCEPT ![r] = "failed"]
          /\ UNCHANGED <<delayed, last, switching, ready, broken, promoted>>
      BY <1>3, <2>1 DEF PatchCluster, Goto, NewVersion, status
    <3>5. TypeOK'
      BY <3>1, <3>3, <3>4, ConstantsAssumption DEF PromotionInv, TypeOK, Eligible
    <3>6. TokenLoaded' /\ SuccessMeansPromoted'
      BY <3>3, <3>4 DEF PromotionInv, TypeOK, TokenLoaded, SuccessMeansPromoted
    <3>7. LastPromoted' /\ TokenAcceptable'
      BY <3>3, <3>4 DEF PromotionInv, LastPromoted, TokenAcceptable
    <3> QED
      BY <3>2, <3>5, <3>6, <3>7 DEF PromotionInv
  <2>2. CASE ~Unchanged(r)
    BY <1>3, <2>2
       DEF PatchCluster, Goto, PromotionInv, TypeOK, VersionFence, TokenLoaded, LastPromoted,
           TokenAcceptable, SuccessMeansPromoted, Eligible, status
  <2> QED BY <2>1, <2>2
<1>4. CASE PollCluster(r)
  BY <1>4 DEF PollCluster, Promoted, Goto, PromotionInv, TypeOK, VersionFence, TokenLoaded,
       LastPromoted, TokenAcceptable, SuccessMeansPromoted, Eligible, spec, status
<1>5. CASE Stops(r)
  BY <1>5 DEF Stops, Goto, PromotionInv, TypeOK, VersionFence, TokenLoaded, LastPromoted,
       TokenAcceptable, SuccessMeansPromoted, Eligible, spec, status
<1> QED BY <1>1, <1>2, <1>3, <1>4, <1>5

(* Every write by others ends the freshness of all runs. *)
LEMMA OthersKeepInv ==
    ASSUME PromotionInv,
           StartSwitch \/ CompletePromotion \/ HealthChanges \/ Demote \/ SetDelay
    PROVE  PromotionInv'
<1>1. VersionFence' /\ pc' = pc
  BY DEF StartSwitch, CompletePromotion, HealthChanges, Demote, SetDelay, NewVersion,
         VersionFence
<1>2. TypeOK'
  <2> USE DEF PromotionInv, TypeOK, NewVersion
  <2>1. CASE StartSwitch
    BY <2>1 DEF StartSwitch, spec
  <2>2. CASE CompletePromotion
    BY <2>2 DEF CompletePromotion, spec
  <2>3. CASE HealthChanges
    BY <2>3 DEF HealthChanges, spec
  <2>4. CASE Demote
    BY <2>4 DEF Demote, status
  <2>5. CASE SetDelay
    <3>1. delayed' \in BOOLEAN
      BY <2>5, Zenon DEF SetDelay
    <3> QED BY <2>5, <3>1 DEF SetDelay, status
  <2> QED BY <2>1, <2>2, <2>3, <2>4, <2>5
<1>3. TokenLoaded' /\ LastPromoted' /\ TokenAcceptable' /\ SuccessMeansPromoted'
  BY <1>1, ConstantsAssumption
     DEF StartSwitch, CompletePromotion, HealthChanges, Demote, SetDelay,
         PromotionInv, TokenLoaded, LastPromoted, TokenAcceptable, SuccessMeansPromoted,
         spec, status
<1> QED BY <1>1, <1>2, <1>3 DEF PromotionInv

(* So does every step, and a stuttering step. *)
LEMMA NextKeepsInv == PromotionInv /\ [Next]_vars => PromotionInv'
<1> SUFFICES ASSUME PromotionInv, [Next]_vars PROVE PromotionInv'
  OBVIOUS
<1>1. CASE Next
  BY <1>1, RunKeepsInv, OthersKeepInv DEF Next
<1>2. CASE UNCHANGED vars
  BY <1>2 DEF vars, spec, status, PromotionInv, TypeOK, VersionFence, TokenLoaded,
              LastPromoted, TokenAcceptable, SuccessMeansPromoted, Eligible
<1> QED BY <1>1, <1>2

(* The inductive invariant is an invariant of promote-replica. *)
THEOREM PromotionInvariant == Spec => []PromotionInv
BY InitInv, NextKeepsInv, PTL DEF Spec

(* A successful run promoted the target with its own token. *)
THEOREM SuccessIsPromotion == Spec => []SuccessMeansPromoted
<1>1. PromotionInv => SuccessMeansPromoted
  BY DEF PromotionInv
<1> QED BY <1>1, PromotionInvariant, PTL

(* The Cluster is never given an unacceptable token. *)
THEOREM TokensAccepted == Spec => []TokenAcceptable
<1>1. PromotionInv => TokenAcceptable
  BY DEF PromotionInv
<1> QED BY <1>1, PromotionInvariant, PTL

(* A run patches only a Cluster that satisfies the preflight at that       *)
(* moment.                                                                 *)
THEOREM PatchesEligible == Spec => PatchesEligibleOnly
<1> DEFINE Guarded(r) ==
        pc[r] = "patch" /\ pc'[r] # "patch" /\ spec' # spec =>
            primary = "source" /\ token = NoToken /\ ~delayed /\ ~switching /\ ready
<1>1. PromotionInv /\ [Next]_vars => [\A r \in Runs : Guarded(r)]_vars
  <2> SUFFICES ASSUME PromotionInv, Next, NEW r \in Runs,
                      pc[r] = "patch", pc'[r] # "patch", spec' # spec
               PROVE  primary = "source" /\ token = NoToken /\ ~delayed /\ ~switching /\ ready
    BY DEF vars
  <2>1. PICK q \in Runs : LoadToken(q) \/ Preflight(q) \/ PatchCluster(q) \/ PollCluster(q) \/ Stops(q)
    BY DEF Next, StartSwitch, CompletePromotion, HealthChanges, Demote, SetDelay
  <2>2. PatchCluster(q)
    BY <2>1 DEF LoadToken, Preflight, PollCluster, Stops
  <2>3. q = r
    BY <2>2 DEF PatchCluster, Goto, PromotionInv, TypeOK
  <2>4. Unchanged(r)
    BY <2>2, <2>3 DEF PatchCluster, spec, status
  <2>5. Eligible(r)
    BY <2>4 DEF Unchanged, PromotionInv, VersionFence
  <2> QED BY <2>5 DEF Eligible
<1>2. PatchesEligibleOnly <=> [][\A r \in Runs : Guarded(r)]_vars
  BY DEF PatchesEligibleOnly
<1> QED BY <1>1, <1>2, PromotionInvariant, PTL DEF Spec

-----------------------------------------------------------------------------
(* Recovery drills.  A drill passes by its report alone, however many run; *)
(* the bound on what is left needs that drills do not overlap: what one    *)
(* has listed and pruned, no other replaces before it creates its own.     *)

DrillTypeOK ==
    /\ dpc \in [Drills -> Drill!Over \cup Drill!Calls]
    /\ phase \in [Drills -> Drill!Live \cup {"none", "terminating"}]
    /\ job \in [Drills -> Drill!Working \cup {"none", "succeeded", "failed"}]
    /\ verdict \in [Drills -> {"none", "valid", "invalid"}]
    /\ report \in [Drills -> {"none", "valid", "invalid"}]
    /\ clusters \in Seq(Drills)
    /\ doomed \in [Drills -> Seq(Drills)]

(* A Job succeeds, and a drill goes on to delete it, only with a valid     *)
(* report archived; the Job's deletion is requested before the cluster's.  *)
ReportFirst(d) ==
    /\ job[d] = "succeeded" => report[d] = "valid"
    /\ dpc[d] \in {"delete_job", "delete_cluster", "passed"} => report[d] = "valid"
    /\ dpc[d] \in {"delete_cluster", "passed"} => ~Drill!JobRetained(d)
    /\ dpc[d] = "passed" => phase[d] \notin Drill!Live

(* The pruning loop is entered with a victim. *)
HasVictim(d) == dpc[d] \in {"prune_job", "prune_cluster"} => doomed[d] # <<>>

DrillInv == DrillTypeOK /\ \A d \in Drills : ReportFirst(d) /\ HasVictim(d)

LiveClusters == {d \in Drills : phase[d] \in Drill!Live}
Victims(d) == {doomed[d][i] : i \in DOMAIN doomed[d]}

(* At most one drill runs, and every cluster is listed. *)
Alone == \A d, e \in Drills : dpc[d] \notin Drill!Over /\ dpc[e] \notin Drill!Over => d = e
Listed == \A d \in Drills : phase[d] # "none" => \E i \in DOMAIN clusters : clusters[i] = d

(* Once the victims are gone there is room for one more cluster; a victim  *)
(* is to lose its Job first; and the Job is created for a cluster that is  *)
(* ready.                                                                  *)
RoomMade(d) ==
    /\ dpc[d] = "create_cluster" => doomed[d] = <<>>
    /\ dpc[d] \in {"prune_job", "prune_cluster", "create_cluster"} =>
          Cardinality(LiveClusters \ Victims(d)) < MaxFailed
    /\ dpc[d] = "prune_cluster" => ~Drill!JobRetained(Head(doomed[d]))
    /\ dpc[d] = "create_job" => phase[d] = "ready"

AloneInv ==
    /\ DrillInv /\ Alone /\ Listed /\ IsFiniteSet(LiveClusters)
    /\ \A d \in Drills : RoomMade(d)
    /\ Cardinality(LiveClusters) <= MaxFailed
    /\ Drill!JobHasCluster

(* No drill has run. *)
LEMMA DrillInit == Drill!Init => DrillInv
<1> SUFFICES ASSUME Drill!Init PROVE DrillInv
  OBVIOUS
<1>1. DrillTypeOK
  BY DEF Drill!Init, DrillTypeOK, Drill!Over
<1>2. \A d \in Drills : ReportFirst(d) /\ HasVictim(d)
  BY DEF Drill!Init, ReportFirst, HasVictim
<1> QED BY <1>1, <1>2 DEF DrillInv

(* A sequence without one of its elements keeps the others. *)
LEMMA RemoveOne ==
  ASSUME NEW S, NEW s \in Seq(S), NEW i \in 1..Len(s), NEW t,
         t = Drill!Without(s, i)
  PROVE  /\ t \in Seq(S)
         /\ \A j \in 1..Len(s) : j # i => \E k \in 1..Len(t) : t[k] = s[j]
<1> DEFINE s1 == SubSeq(s, 1, i - 1)
           s2 == SubSeq(s, i + 1, Len(s))
<1>1. Len(s) \in Nat /\ \A j \in 1..Len(s) : s[j] \in S
  BY LenProperties
<1>2. /\ s1 \in Seq(S) /\ Len(s1) = i - 1
      /\ \A j \in 1..(i - 1) : s1[j] = s[j]
  BY <1>1, SubSeqProperties
<1>3. /\ s2 \in Seq(S) /\ Len(s2) = Len(s) - i
      /\ \A j \in 1..(Len(s) - i) : s2[j] = s[i + j]
  <2>1. \A j \in (i + 1)..Len(s) : s[j] \in S
    BY <1>1
  <2>2. i + 1 \in Int /\ Len(s) \in Int
    BY <1>1
  <2>3. s2 \in Seq(S) /\ Len(s2) = IF i + 1 <= Len(s) THEN Len(s) - (i + 1) + 1 ELSE 0
    BY <2>1, <2>2, SubSeqProperties
  <2>4. \A j \in 1..(Len(s) - (i + 1) + 1) : s2[j] = s[(i + 1) + j - 1]
    BY <2>1, <2>2, SubSeqProperties
  <2> HIDE DEF s2
  <2>5. Len(s2) = Len(s) - i
    BY <1>1, <2>3
  <2>6. ASSUME NEW j \in 1..(Len(s) - i) PROVE s2[j] = s[i + j]
    <3>1. j \in 1..(Len(s) - (i + 1) + 1) /\ (i + 1) + j - 1 = i + j
      BY <1>1
    <3> QED BY <2>4, <3>1
  <2> QED BY <2>3, <2>5, <2>6
<1>4. t = s1 \o s2
  BY DEF Drill!Without
<1> HIDE DEF s1, s2
<1>5. /\ s1 \o s2 \in Seq(S) /\ Len(s1 \o s2) = Len(s1) + Len(s2)
      /\ \A k \in 1..(Len(s1) + Len(s2)) :
            (s1 \o s2)[k] = IF k <= Len(s1) THEN s1[k] ELSE s2[k - Len(s1)]
  BY <1>2, <1>3, ConcatProperties
<1>6. /\ t \in Seq(S) /\ Len(t) = Len(s) - 1 /\ Len(t) = Len(s1) + Len(s2)
      /\ Len(s1) = i - 1 /\ i \in 1..Len(s) /\ Len(s) \in Nat
  <2>1. t \in Seq(S)
    BY <1>4, <1>5
  <2>2. Len(t) = Len(s1) + Len(s2)
    BY <1>4, <1>5
  <2>3. Len(s1) = i - 1 /\ Len(s2) = Len(s) - i
    BY <1>2, <1>3
  <2>4. (i - 1) + (Len(s) - i) = Len(s) - 1
    BY <1>1
  <2> QED BY <1>1, <2>1, <2>2, <2>3, <2>4
<1>7. 1..Len(t) = 1..(Len(s) - 1) /\ 1..(Len(s1) + Len(s2)) = 1..(Len(s) - 1)
  BY <1>6, Zenon
<1>8. ASSUME NEW j \in 1..Len(s), j # i PROVE \E k \in 1..(Len(s) - 1) : t[k] = s[j]
  <2>1. CASE j < i
    <3>1. j \in 1..(i - 1) /\ j \in 1..(Len(s) - 1) /\ j <= i - 1
      BY <1>1, <2>1
    <3>2. t[j] = s[j]
      BY <1>2, <1>4, <1>5, <1>7, <3>1
    <3> QED BY <3>1, <3>2
  <2>2. CASE ~(j < i)
    <3>1. PICK k \in Int : k = j - 1
      BY <1>1
    <3>2. k \in 1..(Len(s) - 1) /\ ~(k <= i - 1)
      BY <1>1, <1>8, <2>2, <3>1
    <3>3. PICK m \in Int : m = k - (i - 1)
      BY <1>1, <3>1
    <3>4. m \in 1..(Len(s) - i) /\ i + m = j
      BY <1>1, <1>8, <2>2, <3>1, <3>3
    <3>5. t[k] = s2[m]
      BY <1>2, <1>4, <1>5, <1>7, <3>2, <3>3
    <3>6. s2[m] = s[j]
      BY <1>3, <3>4
    <3> QED BY <3>2, <3>5, <3>6
  <2> QED BY <2>1, <2>2
<1> QED BY <1>6, <1>7, <1>8

(* The victims of a prune are clusters, and what follows one is shorter. *)
LEMMA PruneTyped ==
  ASSUME DrillTypeOK, NEW d \in Drills, doomed[d] # <<>>
  PROVE  Head(doomed[d]) \in Drills /\ Tail(doomed[d]) \in Seq(Drills)
<1>1. doomed[d] \in Seq(Drills)
  BY DEF DrillTypeOK
<1> QED BY <1>1, HeadTailProperties

(* A drill that forgets its victims has still a sequence of clusters. *)
LEMMA VictimsTyped ==
  ASSUME DrillTypeOK, NEW d \in Drills, NEW rest \in {doomed[d], <<>>}
  PROVE  rest \in Seq(Drills)
<1>1. CASE rest = doomed[d]
  BY <1>1 DEF DrillTypeOK
<1>2. CASE rest = <<>>
  BY <1>2
<1> QED BY <1>1, <1>2

(* The clusters that are listed for pruning. *)
LEMMA PrunePrefix ==
  ASSUME DrillTypeOK, MaxFailed \in Nat \ {0}
  PROVE  /\ Len(clusters) \in Nat /\ DOMAIN clusters = 1..Len(clusters)
         /\ Drill!PruneCount \in 0..Len(clusters)
         /\ Len(clusters) - Drill!PruneCount < MaxFailed
         /\ SubSeq(clusters, 1, Drill!PruneCount) \in Seq(Drills)
         /\ Len(SubSeq(clusters, 1, Drill!PruneCount)) = Drill!PruneCount
         /\ \A i \in 1..Drill!PruneCount :
               SubSeq(clusters, 1, Drill!PruneCount)[i] = clusters[i]
<1>1. /\ Len(clusters) \in Nat /\ DOMAIN clusters = 1..Len(clusters)
      /\ \A i \in 1..Len(clusters) : clusters[i] \in Drills
  BY LenProperties DEF DrillTypeOK
<1>2. /\ Drill!PruneCount \in 0..Len(clusters)
      /\ Len(clusters) - Drill!PruneCount < MaxFailed
  BY <1>1 DEF Drill!PruneCount
<1>3. \A i \in 1..Drill!PruneCount : clusters[i] \in Drills
  BY <1>1, <1>2
<1> QED BY <1>1, <1>2, <1>3, SubSeqProperties

(* The calls of a drill. *)
LEMMA DrillCallKeeps ==
  ASSUME DrillInv, MaxFailed \in Nat \ {0}, NEW d \in Drills,
         \/ Drill!Start(d) \/ Drill!ListClusters(d) \/ Drill!PruneJob(d) \/ Drill!PruneCluster(d)
         \/ Drill!CreateCluster(d) \/ Drill!WaitForCluster(d) \/ Drill!CreateJob(d)
         \/ Drill!WaitForJob(d) \/ Drill!DeleteJob(d) \/ Drill!DeleteCluster(d) \/ Drill!Stops(d)
  PROVE  DrillInv'
<1> USE DEF DrillInv
<1>1. CASE Drill!Start(d)
  <2>1. DrillTypeOK'
    BY <1>1 DEF DrillTypeOK, Drill!Start, Drill!Calls
  <2>2. \A q \in Drills : ReportFirst(q)' /\ HasVictim(q)'
    BY <1>1 DEF DrillTypeOK, ReportFirst, HasVictim, Drill!Start, Drill!JobRetained
  <2> QED BY <2>1, <2>2
<1>2. CASE Drill!ListClusters(d)
  <2> DEFINE victims == SubSeq(clusters, 1, Drill!PruneCount)
  <2>1. /\ dpc[d] = "list" /\ doomed' = [doomed EXCEPT ![d] = victims]
        /\ dpc' = [dpc EXCEPT ![d] = IF victims = <<>> THEN "create_cluster" ELSE "prune_job"]
        /\ UNCHANGED <<clusters, phase, job, jobDeleting, verdict, report>>
    BY <1>2 DEF Drill!ListClusters, Drill!PruneNext, Drill!kubernetesVars
  <2>2. victims \in Seq(Drills)
    BY PrunePrefix
  <2> HIDE DEF victims
  <2>3. DrillTypeOK'
    BY <2>1, <2>2 DEF DrillTypeOK, Drill!Calls
  <2>4. \A q \in Drills : ReportFirst(q)' /\ HasVictim(q)'
    BY <2>1 DEF DrillTypeOK, ReportFirst, HasVictim, Drill!JobRetained
  <2> QED BY <2>3, <2>4
<1>3. CASE Drill!PruneJob(d) \/ Drill!DeleteJob(d)
  <2>1. PICK v \in Drills, call \in {"prune_cluster", "delete_cluster", "failed"},
             rest \in {doomed[d], <<>>} :
          /\ jobDeleting' = IF job[v] = "none" THEN jobDeleting ELSE jobDeleting \cup {v}
          /\ dpc' = [dpc EXCEPT ![d] = call]
          /\ doomed' = [doomed EXCEPT ![d] = rest]
          /\ call = "delete_cluster" => v = d /\ dpc[d] = "delete_job"
          /\ call = "prune_cluster" => dpc[d] = "prune_job" /\ rest = doomed[d]
          /\ UNCHANGED <<clusters, phase, job, verdict, report>>
    BY <1>3, PruneTyped DEF Drill!PruneJob, Drill!DeleteJob, Drill!DeleteJobOf, Drill!Confirmed,
                            Drill!Ends, HasVictim
  <2>2. DrillTypeOK'
    <3>1. rest \in Seq(Drills)
      BY <2>1, VictimsTyped
    <3> QED BY <2>1, <3>1 DEF DrillTypeOK, Drill!Calls, Drill!Over
  <2>3. \A q \in Drills : Drill!JobRetained(q)' => Drill!JobRetained(q) /\ q # v
    BY <2>1 DEF Drill!JobRetained
  <2>4. \A q \in Drills : ReportFirst(q)' /\ HasVictim(q)'
    BY <2>1, <2>3 DEF DrillTypeOK, ReportFirst, HasVictim
  <2> QED BY <2>2, <2>4
<1>4. CASE Drill!PruneCluster(d) \/ Drill!DeleteCluster(d)
  <2>1. PICK v \in Drills : Drill!DeleteClusterOf(v) /\ (Drill!DeleteCluster(d) => v = d)
    BY <1>4, PruneTyped DEF Drill!PruneCluster, Drill!DeleteCluster, HasVictim
  <2>2. /\ UNCHANGED <<clusters, job, jobDeleting, verdict, report>>
        /\ phase' = [phase EXCEPT ![v] = IF phase[v] \in Drill!Live THEN "terminating" ELSE phase[v]]
    BY <2>1 DEF Drill!DeleteClusterOf
  <2>3. phase' \in [Drills -> Drill!Live \cup {"none", "terminating"}]
        /\ \A q \in Drills : phase'[q] \in Drill!Live => phase[q] \in Drill!Live /\ q # v
    BY <2>2 DEF DrillTypeOK, Drill!Live
  <2>4. CASE Drill!PruneCluster(d)
    <3>1. PICK call \in {"create_cluster", "prune_job", "failed"},
               rest \in {Tail(doomed[d]), <<>>} :
            /\ dpc[d] = "prune_cluster" /\ dpc' = [dpc EXCEPT ![d] = call]
            /\ call = "prune_job" => rest # <<>>
            /\ doomed' = [doomed EXCEPT ![d] = rest]
      BY <2>4 DEF Drill!PruneCluster, Drill!Confirmed, Drill!Ends, Drill!PruneNext
    <3>2. rest \in Seq(Drills)
      <4>1. Tail(doomed[d]) \in Seq(Drills)
        BY <3>1, PruneTyped DEF HasVictim
      <4>2. CASE rest = <<>>
        BY <4>2
      <4> QED BY <3>1, <4>1, <4>2
    <3>3. DrillTypeOK'
      BY <2>2, <2>3, <3>1, <3>2 DEF DrillTypeOK, Drill!Calls, Drill!Over
    <3>4. \A q \in Drills : ReportFirst(q)' /\ HasVictim(q)'
      BY <2>2, <2>3, <3>1 DEF DrillTypeOK, ReportFirst, HasVictim, Drill!JobRetained
    <3> QED BY <3>3, <3>4
  <2>5. CASE Drill!DeleteCluster(d)
    <3>1. PICK call \in {"passed", "failed"} :
            /\ dpc[d] = "delete_cluster" /\ dpc' = [dpc EXCEPT ![d] = call]
            /\ doomed' = [doomed EXCEPT ![d] = <<>>]
      BY <2>5 DEF Drill!DeleteCluster, Drill!Confirmed, Drill!Ends
    <3>2. DrillTypeOK'
      BY <2>2, <2>3, <3>1 DEF DrillTypeOK, Drill!Over
    <3>3. \A q \in Drills : ReportFirst(q)' /\ HasVictim(q)'
      BY <2>1, <2>2, <2>3, <2>5, <3>1 DEF DrillTypeOK, ReportFirst, HasVictim, Drill!JobRetained
    <3> QED BY <3>2, <3>3
  <2> QED BY <1>4, <2>4, <2>5
<1>5. CASE Drill!CreateCluster(d)
  <2>1. PICK call \in {"wait_cluster", "failed"} :
          dpc' = [dpc EXCEPT ![d] = call] /\ doomed' = [doomed EXCEPT ![d] = <<>>]
    BY <1>5 DEF Drill!CreateCluster, Drill!Confirmed, Drill!Ends
  <2>2. /\ clusters' = Append(clusters, d) /\ phase' = [phase EXCEPT ![d] = "restoring"]
        /\ UNCHANGED <<job, jobDeleting, verdict, report>>
    BY <1>5 DEF Drill!CreateCluster
  <2>3. clusters' \in Seq(Drills)
    BY <2>2, AppendProperties DEF DrillTypeOK
  <2>4. DrillTypeOK'
    BY <2>1, <2>2, <2>3 DEF DrillTypeOK, Drill!Live, Drill!Calls, Drill!Over
  <2>5. \A q \in Drills : ReportFirst(q)' /\ HasVictim(q)'
    BY <2>1, <2>2 DEF DrillTypeOK, ReportFirst, HasVictim, Drill!JobRetained
  <2> QED BY <2>4, <2>5
<1>6. CASE Drill!CreateJob(d)
  <2>1. PICK call \in {"wait_job", "failed"} :
          dpc' = [dpc EXCEPT ![d] = call] /\ doomed' = [doomed EXCEPT ![d] = <<>>]
    BY <1>6 DEF Drill!CreateJob, Drill!Confirmed, Drill!Ends
  <2>2. /\ dpc[d] = "create_job" /\ job' = [job EXCEPT ![d] = "verifying"]
        /\ UNCHANGED <<clusters, phase, jobDeleting, verdict, report>>
    BY <1>6 DEF Drill!CreateJob
  <2>3. DrillTypeOK'
    BY <2>1, <2>2 DEF DrillTypeOK, Drill!Working, Drill!Calls, Drill!Over
  <2>4. \A q \in Drills : ReportFirst(q)' /\ HasVictim(q)'
    BY <2>1, <2>2 DEF DrillTypeOK, ReportFirst, HasVictim, Drill!JobRetained
  <2> QED BY <2>3, <2>4
<1>7. CASE Drill!WaitForCluster(d) \/ Drill!WaitForJob(d) \/ Drill!Stops(d)
  <2>1. PICK call \in {"create_job", "delete_job", "failed"}, rest \in {doomed[d], <<>>} :
          /\ dpc' = [dpc EXCEPT ![d] = call]
          /\ doomed' = [doomed EXCEPT ![d] = rest]
          /\ call = "delete_job" => job[d] = "succeeded"
    <3>1. doomed = [doomed EXCEPT ![d] = doomed[d]]
      BY DEF DrillTypeOK
    <3> QED BY <1>7, <3>1 DEF Drill!WaitForCluster, Drill!WaitForJob, Drill!Stops, Drill!Ends,
                              Drill!JobSucceeded
  <2>2. UNCHANGED <<clusters, phase, job, jobDeleting, verdict, report>>
    BY <1>7 DEF Drill!WaitForCluster, Drill!WaitForJob, Drill!Stops, Drill!kubernetesVars
  <2>3. DrillTypeOK'
    <3>1. rest \in Seq(Drills)
      BY <2>1, VictimsTyped
    <3> QED BY <2>1, <2>2, <3>1 DEF DrillTypeOK, Drill!Calls, Drill!Over
  <2>4. \A q \in Drills : ReportFirst(q)' /\ HasVictim(q)'
    BY <2>1, <2>2 DEF DrillTypeOK, ReportFirst, HasVictim, Drill!JobRetained
  <2> QED BY <2>3, <2>4
<1> QED BY <1>1, <1>2, <1>3, <1>4, <1>5, <1>6, <1>7

(* What the verifier Job may do to the report and to itself. *)
LEMMA VerifierStep ==
  ASSUME DrillInv, NEW d \in Drills,
         \/ Drill!VerifyDatabase(d) \/ Drill!PutReport(d) \/ Drill!HeadReport(d)
         \/ Drill!JobFails(d) \/ Drill!JobExpires(d) \/ Drill!JobRemoved(d)
  PROVE  /\ UNCHANGED <<dpc, clusters, phase, doomed>>
         /\ \E state \in Drill!Working \cup {"none", "succeeded", "failed"} :
               /\ job' = [job EXCEPT ![d] = state]
               /\ state = "succeeded" => report'[d] = "valid"
         /\ \E result \in {"none", "valid", "invalid"} :
               verdict' = [verdict EXCEPT ![d] = result]
         /\ \/ UNCHANGED report
            \/ report[d] = "none" /\ report' = [report EXCEPT ![d] = verdict[d]]
         /\ \A q \in Drills : Drill!JobRetained(q)' => Drill!JobRetained(q)
<1> USE DEF DrillInv
<1>0. /\ job = [job EXCEPT ![d] = job[d]] /\ verdict = [verdict EXCEPT ![d] = verdict[d]]
      /\ job[d] \in Drill!Working \cup {"none", "succeeded", "failed"}
      /\ verdict[d] \in {"none", "valid", "invalid"}
      /\ job[d] = "succeeded" => report[d] = "valid"
  BY DEF DrillTypeOK, ReportFirst
<1>1. CASE Drill!VerifyDatabase(d)
  <2>1. PICK result \in {"valid", "invalid"} : verdict' = [verdict EXCEPT ![d] = result]
    BY <1>1 DEF Drill!VerifyDatabase
  <2>2. /\ job[d] = "verifying" /\ job' = [job EXCEPT ![d] = "publishing"]
        /\ UNCHANGED <<dpc, clusters, phase, jobDeleting, report, doomed>>
    BY <1>1 DEF Drill!VerifyDatabase
  <2>3. "publishing" \in Drill!Working
    BY DEF Drill!Working
  <2>4. \E state \in Drill!Working \cup {"none", "succeeded", "failed"} :
           /\ job' = [job EXCEPT ![d] = state]
           /\ state = "succeeded" => report'[d] = "valid"
    <3>1. "publishing" \in Drill!Working \cup {"none", "succeeded", "failed"}
      BY <2>3
    <3>2. "publishing" # "succeeded"
      OBVIOUS
    <3> QED BY <2>2, <3>1, <3>2, Zenon
  <2>5. \E r \in {"none", "valid", "invalid"} : verdict' = [verdict EXCEPT ![d] = r]
    BY <2>1
  <2>6. UNCHANGED <<dpc, clusters, phase, doomed>> /\ UNCHANGED report
    BY <2>2
  <2>7. \A q \in Drills : Drill!JobRetained(q)' => Drill!JobRetained(q)
    BY <2>2 DEF DrillTypeOK, Drill!JobRetained
  <2> QED BY <2>4, <2>5, <2>6, <2>7
<1>2. CASE Drill!PutReport(d)
  <2>1. /\ job[d] = "publishing"
        /\ UNCHANGED <<dpc, clusters, phase, jobDeleting, doomed>>
    BY <1>2 DEF Drill!PutReport
  <2>2. CASE report[d] = "none"
    <3>1. report' = [report EXCEPT ![d] = verdict[d]] /\ report'[d] = verdict[d]
      BY <1>2, <2>2 DEF Drill!PutReport, DrillTypeOK
    <3>2. \/ /\ job' = [job EXCEPT ![d] = Drill!ExitStatus(d)]
             /\ verdict' = [verdict EXCEPT ![d] = "none"]
          \/ UNCHANGED <<job, verdict>>
      BY <1>2, <2>2 DEF Drill!PutReport, Drill!Exits
    <3>3. /\ Drill!ExitStatus(d) \in {"succeeded", "failed"}
          /\ Drill!ExitStatus(d) = "succeeded" => verdict[d] = "valid"
      BY DEF Drill!ExitStatus
    <3>4. \A q \in Drills : Drill!JobRetained(q)' => Drill!JobRetained(q)
      BY <2>1, <3>2 DEF DrillTypeOK, Drill!JobRetained
    <3> QED BY <1>0, <2>1, <2>2, <3>1, <3>2, <3>3, <3>4
  <2>3. CASE report[d] # "none"
    <3>1. job' = [job EXCEPT ![d] = "confirming"] /\ UNCHANGED <<report, verdict>>
      BY <1>2, <2>3 DEF Drill!PutReport
    <3>2. \A q \in Drills : Drill!JobRetained(q)' => Drill!JobRetained(q)
      BY <2>1, <3>1 DEF DrillTypeOK, Drill!JobRetained
    <3> QED BY <1>0, <2>1, <3>1, <3>2 DEF Drill!Working
  <2> QED BY <2>2, <2>3
<1>3. CASE Drill!HeadReport(d) \/ Drill!JobFails(d)
  <2>1. /\ job[d] # "none" /\ verdict' = [verdict EXCEPT ![d] = "none"]
        /\ UNCHANGED <<dpc, clusters, phase, jobDeleting, report, doomed>>
    BY <1>3 DEF Drill!HeadReport, Drill!JobFails, Drill!Exits, Drill!Working
  <2>2. PICK state \in {"succeeded", "failed"} :
          /\ job' = [job EXCEPT ![d] = state]
          /\ state = "succeeded" => report[d] = "valid"
    BY <1>3 DEF Drill!HeadReport, Drill!JobFails, Drill!Exits, Drill!ExitStatus
  <2>3. \A q \in Drills : Drill!JobRetained(q)' => Drill!JobRetained(q)
    BY <2>1, <2>2 DEF DrillTypeOK, Drill!JobRetained
  <2> QED BY <1>0, <2>1, <2>2, <2>3
<1>4. CASE Drill!JobExpires(d)
  <2>1. /\ jobDeleting' = jobDeleting \cup {d}
        /\ UNCHANGED <<dpc, clusters, phase, job, verdict, report, doomed>>
    BY <1>4 DEF Drill!JobExpires
  <2>2. \A q \in Drills : Drill!JobRetained(q)' => Drill!JobRetained(q)
    BY <2>1 DEF Drill!JobRetained
  <2> QED BY <1>0, <2>1, <2>2
<1>5. CASE Drill!JobRemoved(d)
  <2>1. /\ job' = [job EXCEPT ![d] = "none"] /\ verdict' = [verdict EXCEPT ![d] = "none"]
        /\ jobDeleting' = jobDeleting \ {d}
        /\ UNCHANGED <<dpc, clusters, phase, report, doomed>>
    BY <1>5 DEF Drill!JobRemoved, Drill!Exits
  <2>2. \E state \in Drill!Working \cup {"none", "succeeded", "failed"} :
           /\ job' = [job EXCEPT ![d] = state]
           /\ state = "succeeded" => report'[d] = "valid"
    <3>1. "none" # "succeeded"
      OBVIOUS
    <3> QED BY <2>1, <3>1, Zenon
  <2>3. \E r \in {"none", "valid", "invalid"} : verdict' = [verdict EXCEPT ![d] = r]
    BY <2>1
  <2>4. \A q \in Drills : Drill!JobRetained(q)' => Drill!JobRetained(q)
    BY <2>1 DEF DrillTypeOK, Drill!JobRetained
  <2> QED BY <2>1, <2>2, <2>3, <2>4
<1> QED BY <1>1, <1>2, <1>3, <1>4, <1>5

(* The verifier Job and CloudNativePG. *)
LEMMA DrillClusterKeeps ==
  ASSUME DrillInv, NEW d \in Drills,
         \/ Drill!ClusterChanges(d)
         \/ Drill!VerifyDatabase(d) \/ Drill!PutReport(d) \/ Drill!HeadReport(d)
         \/ Drill!JobFails(d) \/ Drill!JobExpires(d) \/ Drill!JobRemoved(d)
  PROVE  DrillInv'
<1> USE DEF DrillInv
<1>1. CASE Drill!ClusterChanges(d)
  <2>1. UNCHANGED <<dpc, job, jobDeleting, verdict, report, doomed>>
    BY <1>1 DEF Drill!ClusterChanges
  <2>2. /\ phase' \in [Drills -> Drill!Live \cup {"none", "terminating"}]
        /\ \A q \in Drills : phase'[q] \in Drill!Live => phase[q] \in Drill!Live
    BY <1>1 DEF Drill!ClusterChanges, DrillTypeOK, Drill!Live
  <2>3. clusters' \in Seq(Drills)
    <3>1. DOMAIN clusters = 1..Len(clusters)
      BY LenProperties DEF DrillTypeOK
    <3>2. CASE UNCHANGED clusters
      BY <3>2 DEF DrillTypeOK
    <3>3. CASE \E i \in DOMAIN clusters :
                 clusters' = Drill!Without(clusters, i)
      <4>1. PICK i \in 1..Len(clusters) : clusters' = Drill!Without(clusters, i)
        BY <3>1, <3>3
      <4> QED BY <4>1, RemoveOne DEF DrillTypeOK
    <3> QED BY <1>1, <3>2, <3>3 DEF Drill!ClusterChanges
  <2>4. DrillTypeOK'
    BY <2>1, <2>2, <2>3 DEF DrillTypeOK
  <2>5. \A q \in Drills : ReportFirst(q)' /\ HasVictim(q)'
    BY <2>1, <2>2 DEF ReportFirst, HasVictim, Drill!JobRetained
  <2> QED BY <2>4, <2>5
<1>2. CASE ~Drill!ClusterChanges(d)
  <2>1. /\ UNCHANGED <<dpc, clusters, phase, doomed>>
        /\ \A q \in Drills : Drill!JobRetained(q)' => Drill!JobRetained(q)
    BY <1>2, VerifierStep
  <2>2. PICK state \in Drill!Working \cup {"none", "succeeded", "failed"} :
               /\ job' = [job EXCEPT ![d] = state]
               /\ state = "succeeded" => report'[d] = "valid"
    BY <1>2, VerifierStep
  <2>3. verdict' \in [Drills -> {"none", "valid", "invalid"}]
    BY <1>2, VerifierStep DEF DrillTypeOK
  <2>4. \/ UNCHANGED report
        \/ report[d] = "none" /\ report' = [report EXCEPT ![d] = verdict[d]]
    BY <1>2, VerifierStep
  <2>5. DrillTypeOK'
    <3>1. job' \in [Drills -> Drill!Working \cup {"none", "succeeded", "failed"}]
      BY <2>2 DEF DrillTypeOK
    <3>2. report' \in [Drills -> {"none", "valid", "invalid"}]
      <4>1. verdict[d] \in {"none", "valid", "invalid"}
        BY DEF DrillTypeOK
      <4> QED BY <2>4, <4>1 DEF DrillTypeOK
    <3> QED BY <2>1, <2>3, <3>1, <3>2 DEF DrillTypeOK
  <2>6. \A q \in Drills : ReportFirst(q)' /\ HasVictim(q)'
    BY <2>1, <2>2, <2>4 DEF DrillTypeOK, ReportFirst, HasVictim
  <2> QED BY <2>5, <2>6
<1> QED BY <1>1, <1>2

(* Every step keeps the invariant, however many drills run at once. *)
LEMMA DrillStepKeeps ==
  ASSUME MaxFailed \in Nat \ {0}
  PROVE  DrillInv /\ [Drill!Next]_(Drill!vars) => DrillInv'
<1> SUFFICES ASSUME DrillInv, [Drill!Next]_(Drill!vars) PROVE DrillInv'
  OBVIOUS
<1>1. CASE Drill!Next
  BY <1>1, DrillCallKeeps, DrillClusterKeeps DEF Drill!Next
<1>2. CASE UNCHANGED Drill!vars
  BY <1>2 DEF Drill!vars, Drill!kubernetesVars, DrillInv, DrillTypeOK, ReportFirst, HasVictim,
              Drill!JobRetained
<1> QED BY <1>1, <1>2

(* run passes only by way of a Job that archived a valid report, and then   *)
(* requests the deletion of both: for any number of drills, overlapping     *)
(* or not, whatever call or process fails.                                  *)
THEOREM PassedDrillsVerified ==
  ASSUME MaxFailed \in Nat \ {0}
  PROVE  Drill!Spec => []PassedMeansVerified
<1>1. DrillInv => PassedMeansVerified
  BY DEF DrillInv, ReportFirst, PassedMeansVerified, Drill!PassedMeansVerified
<1> QED BY <1>1, DrillInit, DrillStepKeeps, PTL DEF Drill!Spec

-----------------------------------------------------------------------------
(* What is left behind by drills that do not overlap.                      *)

(* A set of clusters that is not larger than before. *)
LEMMA SmallerSet ==
  ASSUME NEW T, IsFiniteSet(T), NEW S, S \subseteq T
  PROVE  /\ IsFiniteSet(S) /\ Cardinality(S) \in Nat /\ Cardinality(T) \in Nat
         /\ Cardinality(S) <= Cardinality(T)
BY FS_Subset, FS_CardinalityType

(* The drills that are not running made no room. *)
LEMMA RoomOfOthers ==
  ASSUME AloneInv, NEW d \in Drills, dpc[d] \notin Drill!Over,
         NEW q \in Drills, q # d, dpc'[q] = dpc[q]
  PROVE  RoomMade(q)'
<1>1. dpc[q] \in Drill!Over
  BY DEF AloneInv, Alone
<1> QED BY <1>1 DEF RoomMade, Drill!Over

(* The drill that runs goes on, and stays the only one. *)
LEMMA StaysAlone ==
  ASSUME AloneInv, NEW d \in Drills, dpc[d] \notin Drill!Over,
         NEW call, dpc' = [dpc EXCEPT ![d] = call]
  PROVE  /\ Alone' /\ dpc'[d] = call
         /\ \A q \in Drills : q # d => dpc'[q] = dpc[q] /\ RoomMade(q)'
<1>1. /\ dpc'[d] = call
      /\ \A q \in Drills : q # d => dpc'[q] = dpc[q]
  BY DEF AloneInv, DrillInv, DrillTypeOK
<1>2. Alone'
  BY <1>1 DEF AloneInv, Alone
<1> QED BY <1>1, <1>2, RoomOfOthers

(* A step that adds no cluster keeps the bound. *)
LEMMA NoNewCluster ==
  ASSUME AloneInv, MaxFailed \in Nat \ {0}, LiveClusters' \subseteq LiveClusters
  PROVE  IsFiniteSet(LiveClusters)' /\ (Cardinality(LiveClusters) <= MaxFailed)'
<1>1. /\ IsFiniteSet(LiveClusters') /\ Cardinality(LiveClusters') \in Nat
      /\ Cardinality(LiveClusters) \in Nat /\ Cardinality(LiveClusters') <= Cardinality(LiveClusters)
  BY SmallerSet DEF AloneInv
<1>2. Cardinality(LiveClusters) <= MaxFailed
  BY DEF AloneInv
<1> QED BY <1>1, <1>2

(* A finite sequence has no more elements from an index on than places. *)
LEMMA SuffixBound ==
  ASSUME NEW S, NEW s \in Seq(S), NEW m \in 0..Len(s),
         NEW T, \A x \in T : \E i \in (m + 1)..Len(s) : s[i] = x
  PROVE  IsFiniteSet(T) /\ Cardinality(T) <= Len(s) - m
<1> DEFINE I == (m + 1)..Len(s)
           U == {s[i] : i \in I}
           f == [i \in I |-> s[i]]
<1>1. Len(s) \in Nat
  BY LenProperties
<1>2. IsFiniteSet(I) /\ Cardinality(I) = IF m + 1 > Len(s) THEN 0 ELSE Len(s) - (m + 1) + 1
  <2>1. m + 1 \in Int /\ Len(s) \in Int
    BY <1>1
  <2> QED BY <2>1, FS_Interval
<1>3. Cardinality(I) = Len(s) - m
  BY <1>1, <1>2
<1>4. f \in Surjection(I, U)
  BY DEF Surjection
<1> HIDE DEF f, I, U
<1>5. IsFiniteSet(U) /\ Cardinality(U) <= Cardinality(I)
  BY <1>2, <1>4, FS_Surjection
<1>6. T \subseteq U
  BY DEF U, I
<1>7. /\ IsFiniteSet(T) /\ Cardinality(T) \in Nat /\ Cardinality(U) \in Nat
      /\ Cardinality(T) <= Cardinality(U)
  BY <1>5, <1>6, SmallerSet
<1> QED BY <1>1, <1>3, <1>5, <1>7

(* The start of a drill, when no other runs. *)
LEMMA AloneStart ==
  ASSUME AloneInv, DrillInv', MaxFailed \in Nat \ {0}, MaxOverlap = 1,
         NEW d \in Drills, Drill!Start(d)
  PROVE  AloneInv'
<1>1. /\ dpc' = [dpc EXCEPT ![d] = "list"]
      /\ UNCHANGED <<clusters, phase, job, jobDeleting, doomed>>
      /\ Drill!Cardinality(Drill!Running) < 1
  BY DEF Drill!Start
<1>2. Drill!Running = {}
  <2>1. Drill!Cardinality(Drill!Running) = Cardinality(Drill!Running)
    BY Zenon DEF Drill!Cardinality, Cardinality
  <2>2. SUFFICES ASSUME NEW q \in Drill!Running PROVE FALSE
    OBVIOUS
  <2>3. Drill!Running = {q}
    BY DEF Drill!Running, AloneInv, Alone
  <2>4. Cardinality({q}) = 1
    BY FS_Singleton
  <2> QED BY <1>1, <2>1, <2>3, <2>4
<1>3. \A q \in Drills : dpc'[q] \in Drill!Over \/ (q = d /\ dpc'[q] = "list")
  BY <1>1, <1>2 DEF Drill!Running, AloneInv, DrillInv, DrillTypeOK
<1>4. Alone'
  BY <1>3 DEF Alone
<1>5. \A q \in Drills : RoomMade(q)'
  BY <1>3 DEF RoomMade, Drill!Over
<1>6. LiveClusters' = LiveClusters /\ Listed' /\ Drill!JobHasCluster'
  BY <1>1 DEF AloneInv, LiveClusters, Listed, Drill!JobHasCluster, Drill!JobRetained
<1> QED BY <1>4, <1>5, <1>6, NoNewCluster DEF AloneInv

(* The list of the clusters to prune. *)
LEMMA AloneList ==
  ASSUME AloneInv, DrillInv', MaxFailed \in Nat \ {0}, NEW d \in Drills, Drill!ListClusters(d)
  PROVE  AloneInv'
<1> DEFINE victims == SubSeq(clusters, 1, Drill!PruneCount)
<1>1. /\ dpc[d] = "list" /\ doomed' = [doomed EXCEPT ![d] = victims]
      /\ dpc' = [dpc EXCEPT ![d] = IF victims = <<>> THEN "create_cluster" ELSE "prune_job"]
      /\ UNCHANGED <<clusters, phase, job, jobDeleting, verdict, report>>
  BY DEF Drill!ListClusters, Drill!PruneNext, Drill!kubernetesVars
<1>2. /\ Len(clusters) \in Nat /\ DOMAIN clusters = 1..Len(clusters)
      /\ Drill!PruneCount \in 0..Len(clusters)
      /\ Len(clusters) - Drill!PruneCount < MaxFailed
      /\ victims \in Seq(Drills) /\ Len(victims) = Drill!PruneCount
      /\ \A i \in 1..Drill!PruneCount : victims[i] = clusters[i]
  BY PrunePrefix DEF AloneInv, DrillInv
<1> HIDE DEF victims
<1>3. dpc[d] \notin Drill!Over
  BY <1>1 DEF Drill!Over
<1>4. /\ Alone' /\ dpc'[d] = IF victims = <<>> THEN "create_cluster" ELSE "prune_job"
      /\ \A q \in Drills : q # d => RoomMade(q)'
  BY <1>1, <1>3, StaysAlone
<1>5. LiveClusters' = LiveClusters /\ Listed' /\ Drill!JobHasCluster'
  BY <1>1 DEF AloneInv, LiveClusters, Listed, Drill!JobHasCluster, Drill!JobRetained
<1>6. doomed'[d] = victims
  BY <1>1 DEF AloneInv, DrillInv, DrillTypeOK
<1>7. Cardinality(LiveClusters' \ Victims(d)') < MaxFailed
  <2> DEFINE rest == LiveClusters' \ Victims(d)'
  <2>1. Victims(d)' = {victims[i] : i \in 1..Drill!PruneCount}
    <3>1. DOMAIN victims = 1..Drill!PruneCount
      BY <1>2, LenProperties
    <3> QED BY <1>6, <3>1 DEF Victims
  <2>2. \A x \in rest : \E i \in (Drill!PruneCount + 1)..Len(clusters) : clusters[i] = x
    <3> SUFFICES ASSUME NEW x \in rest
                 PROVE  \E i \in (Drill!PruneCount + 1)..Len(clusters) : clusters[i] = x
      OBVIOUS
    <3>1. PICK i \in 1..Len(clusters) : clusters[i] = x
      BY <1>2, <1>5 DEF AloneInv, Listed, LiveClusters, Drill!Live
    <3>2. i \notin 1..Drill!PruneCount
      BY <1>2, <2>1, <3>1
    <3> QED BY <1>2, <3>1, <3>2
  <2> HIDE DEF rest
  <2>3. IsFiniteSet(rest) /\ Cardinality(rest) <= Len(clusters) - Drill!PruneCount
    BY <1>2, <2>2, SuffixBound DEF AloneInv, DrillInv, DrillTypeOK
  <2>4. Cardinality(rest) \in Nat
    BY <2>3, FS_CardinalityType
  <2>5. Cardinality(rest) < MaxFailed
    BY <1>2, <2>3, <2>4
  <2> QED BY <2>5 DEF rest
<1>8. RoomMade(d)'
  BY <1>4, <1>6, <1>7 DEF RoomMade
<1> QED BY <1>4, <1>5, <1>8, NoNewCluster DEF AloneInv

(* Pruning: the Job of a victim, then its cluster. *)
LEMMA AlonePrune ==
  ASSUME AloneInv, DrillInv', MaxFailed \in Nat \ {0}, NEW d \in Drills,
         Drill!PruneJob(d) \/ Drill!PruneCluster(d)
  PROVE  AloneInv'
<1> DEFINE v == Head(doomed[d])
<1>0. /\ dpc[d] \in {"prune_job", "prune_cluster"} /\ dpc[d] \notin Drill!Over
      /\ RoomMade(d) /\ doomed[d] # <<>> /\ DrillTypeOK
  BY DEF Drill!PruneJob, Drill!PruneCluster, Drill!Over, AloneInv, DrillInv, HasVictim
<1>1. v \in Drills /\ doomed[d] \in Seq(Drills)
  BY <1>0, PruneTyped DEF DrillTypeOK
<1>2. CASE Drill!PruneJob(d)
  <2>1. PICK call \in {"prune_cluster", "failed"} :
          /\ dpc' = [dpc EXCEPT ![d] = call]
          /\ call = "prune_cluster" => doomed' = [doomed EXCEPT ![d] = doomed[d]]
    BY <1>2 DEF Drill!PruneJob, Drill!Confirmed, Drill!Ends
  <2>2. /\ jobDeleting' = IF job[v] = "none" THEN jobDeleting ELSE jobDeleting \cup {v}
        /\ UNCHANGED <<clusters, phase, job>>
    BY <1>2 DEF Drill!PruneJob, Drill!DeleteJobOf
  <2>3. Alone' /\ dpc'[d] = call /\ \A q \in Drills : q # d => RoomMade(q)'
    BY <1>0, <2>1, StaysAlone
  <2>4. \A q \in Drills : Drill!JobRetained(q)' => Drill!JobRetained(q) /\ q # v
    BY <2>2 DEF Drill!JobRetained
  <2>5. LiveClusters' = LiveClusters /\ Listed' /\ Drill!JobHasCluster'
    BY <2>2, <2>4 DEF AloneInv, LiveClusters, Listed, Drill!JobHasCluster
  <2>6. RoomMade(d)'
    <3>1. CASE call = "failed"
      BY <2>3, <3>1 DEF RoomMade
    <3>2. CASE call = "prune_cluster"
      <4>1. doomed'[d] = doomed[d]
        BY <1>0, <2>1, <3>2 DEF DrillTypeOK
      <4>2. Victims(d)' = Victims(d) /\ Head(doomed'[d]) = v
        BY <4>1 DEF Victims
      <4>3. v \in Drills
        BY <1>1
      <4>4. (~Drill!JobRetained(Head(doomed[d])))'
        <5>1. job'[v] = "none" \/ v \in jobDeleting'
          BY <2>2, <4>3
        <5> HIDE DEF v
        <5>2. job'[Head(doomed'[d])] = "none" \/ Head(doomed'[d]) \in jobDeleting'
          BY <4>2, <5>1
        <5> QED BY <5>2 DEF Drill!JobRetained
      <4> QED BY <1>0, <2>3, <2>5, <3>2, <4>2, <4>4 DEF RoomMade
    <3> QED BY <3>1, <3>2
  <2> QED BY <2>3, <2>5, <2>6, NoNewCluster DEF AloneInv
<1>3. CASE Drill!PruneCluster(d)
  <2>1. PICK call \in {"create_cluster", "prune_job", "failed"} :
          /\ dpc' = [dpc EXCEPT ![d] = call]
          /\ call = "create_cluster" => Tail(doomed[d]) = <<>>
          /\ call # "failed" => doomed' = [doomed EXCEPT ![d] = Tail(doomed[d])]
    BY <1>3 DEF Drill!PruneCluster, Drill!Confirmed, Drill!Ends, Drill!PruneNext
  <2>2. /\ dpc[d] = "prune_cluster"
        /\ phase' = [phase EXCEPT ![v] = IF phase[v] \in Drill!Live THEN "terminating" ELSE phase[v]]
        /\ UNCHANGED <<clusters, job, jobDeleting>>
    BY <1>3 DEF Drill!PruneCluster, Drill!DeleteClusterOf
  <2>3. Alone' /\ dpc'[d] = call /\ \A q \in Drills : q # d => RoomMade(q)'
    BY <1>0, <2>1, StaysAlone
  <2>4. /\ v \notin LiveClusters' /\ LiveClusters' = LiveClusters \ {v}
        /\ \A q \in Drills : phase'[q] # "none" => phase[q] # "none"
        /\ \A q \in Drills : q # v => phase'[q] = phase[q]
    BY <1>0, <1>1, <2>2 DEF DrillTypeOK, LiveClusters, Drill!Live
  <2>5. Listed'
    BY <2>2, <2>4 DEF AloneInv, Listed
  <2>6. Drill!JobHasCluster'
    <3>1. ~Drill!JobRetained(v)
      BY <1>0, <2>2 DEF RoomMade
    <3>2. \A q \in Drills : Drill!JobRetained(q)' => Drill!JobRetained(q)
      BY <2>2 DEF Drill!JobRetained
    <3> QED BY <2>2, <2>4, <3>1, <3>2 DEF AloneInv, Drill!JobHasCluster
  <2>7. call # "failed" => doomed'[d] = Tail(doomed[d])
    BY <1>0, <2>1 DEF DrillTypeOK
  <2>8. call # "failed" => Victims(d) \subseteq Victims(d)' \cup {v}
    <3> SUFFICES ASSUME NEW i \in DOMAIN doomed[d], doomed[d][i] # v
                 PROVE  \E j \in DOMAIN Tail(doomed[d]) : Tail(doomed[d])[j] = doomed[d][i]
      BY <2>7 DEF Victims
    <3>1. /\ Tail(doomed[d]) \in Seq(Drills) /\ Len(Tail(doomed[d])) = Len(doomed[d]) - 1
          /\ \A j \in 1..Len(Tail(doomed[d])) : Tail(doomed[d])[j] = doomed[d][j + 1]
      BY <1>0, <1>1, HeadTailProperties
    <3>2. /\ Len(doomed[d]) \in Nat /\ i \in 1..Len(doomed[d])
          /\ DOMAIN Tail(doomed[d]) = 1..Len(Tail(doomed[d]))
      BY <1>1, <3>1, LenProperties
    <3>3. v = doomed[d][1]
      BY <1>0, <1>1
    <3>4. i # 1
      BY <3>3
    <3>5. PICK j \in Nat : j = i - 1
      BY <3>2
    <3>6. j \in 1..Len(Tail(doomed[d])) /\ j + 1 = i
      BY <3>1, <3>2, <3>4, <3>5
    <3> QED BY <3>1, <3>2, <3>6
  <2>9. ASSUME call # "failed" PROVE Cardinality(LiveClusters' \ Victims(d)') < MaxFailed
    <3> DEFINE old == LiveClusters \ Victims(d)
               new == LiveClusters' \ Victims(d)'
    <3>1. new \subseteq old
      BY <2>4, <2>8, <2>9
    <3>2. IsFiniteSet(old)
      BY SmallerSet DEF AloneInv
    <3>3. Cardinality(old) < MaxFailed
      BY <1>0, <2>2 DEF RoomMade
    <3> HIDE DEF old, new
    <3>4. Cardinality(new) \in Nat /\ Cardinality(old) \in Nat /\ Cardinality(new) <= Cardinality(old)
      BY <3>1, <3>2, SmallerSet
    <3>5. Cardinality(new) < MaxFailed
      BY <3>3, <3>4
    <3> QED BY <3>5 DEF new
  <2>10. RoomMade(d)'
    BY <2>1, <2>3, <2>7, <2>9 DEF RoomMade
  <2>11. LiveClusters' \subseteq LiveClusters
    BY <2>4
  <2> QED BY <2>3, <2>5, <2>6, <2>10, <2>11, NoNewCluster DEF AloneInv
<1> QED BY <1>2, <1>3

(* The new cluster takes the room that was made. *)
LEMMA AloneCreate ==
  ASSUME AloneInv, DrillInv', MaxFailed \in Nat \ {0}, NEW d \in Drills, Drill!CreateCluster(d)
  PROVE  AloneInv'
<1>1. /\ dpc[d] = "create_cluster" /\ dpc[d] \notin Drill!Over
      /\ clusters' = Append(clusters, d) /\ phase' = [phase EXCEPT ![d] = "restoring"]
      /\ UNCHANGED <<job, jobDeleting>>
  BY DEF Drill!CreateCluster, Drill!Over
<1>2. PICK call \in {"wait_cluster", "failed"} : dpc' = [dpc EXCEPT ![d] = call]
  BY DEF Drill!CreateCluster, Drill!Confirmed, Drill!Ends
<1>3. Alone' /\ dpc'[d] = call /\ \A q \in Drills : q # d => RoomMade(q)'
  BY <1>1, <1>2, StaysAlone
<1>4. RoomMade(d)'
  BY <1>3 DEF RoomMade
<1>5. LiveClusters' = LiveClusters \cup {d}
  BY <1>1 DEF AloneInv, DrillInv, DrillTypeOK, LiveClusters, Drill!Live
<1>6. IsFiniteSet(LiveClusters') /\ Cardinality(LiveClusters') <= MaxFailed
  <2>1. Victims(d) = {}
    <3>1. doomed[d] = <<>>
      BY <1>1 DEF AloneInv, RoomMade
    <3>2. DOMAIN doomed[d] = {}
      BY <3>1
    <3> QED BY <3>2 DEF Victims
  <2>2. LiveClusters \ Victims(d) = LiveClusters
    BY <2>1
  <2>3. Cardinality(LiveClusters) < MaxFailed
    BY <1>1, <2>2 DEF AloneInv, RoomMade
  <2>4. /\ IsFiniteSet(LiveClusters \cup {d}) /\ Cardinality(LiveClusters) \in Nat
        /\ Cardinality(LiveClusters \cup {d}) =
             IF d \in LiveClusters THEN Cardinality(LiveClusters) ELSE Cardinality(LiveClusters) + 1
    BY FS_AddElement, FS_CardinalityType DEF AloneInv
  <2> QED BY <1>5, <2>3, <2>4
<1>7. Listed'
  <2>1. /\ Len(clusters) \in Nat /\ DOMAIN clusters = 1..Len(clusters)
        /\ clusters' \in Seq(Drills) /\ Len(clusters') = Len(clusters) + 1
        /\ DOMAIN clusters' = 1..(Len(clusters) + 1)
        /\ \A i \in 1..Len(clusters) : clusters'[i] = clusters[i]
        /\ clusters'[Len(clusters) + 1] = d
    BY <1>1, AppendProperties, LenProperties DEF AloneInv, DrillInv, DrillTypeOK
  <2>2. ASSUME NEW q \in Drills, phase'[q] # "none"
        PROVE  \E i \in DOMAIN clusters' : clusters'[i] = q
    <3>1. CASE q = d
      BY <2>1, <3>1
    <3>2. CASE q # d
      <4>1. phase[q] # "none"
        BY <1>1, <2>2, <3>2 DEF AloneInv, DrillInv, DrillTypeOK
      <4>2. PICK i \in 1..Len(clusters) : clusters[i] = q
        BY <2>1, <4>1 DEF AloneInv, Listed
      <4>3. i \in DOMAIN clusters' /\ clusters'[i] = q
        BY <2>1, <4>2
      <4> QED BY <4>3
    <3> QED BY <3>1, <3>2
  <2> QED BY <2>2 DEF Listed
<1>8. Drill!JobHasCluster'
  BY <1>1 DEF AloneInv, DrillInv, DrillTypeOK, Drill!JobHasCluster, Drill!JobRetained, Drill!Live
<1> QED BY <1>3, <1>4, <1>6, <1>7, <1>8 DEF AloneInv

(* The other calls of a drill. *)
LEMMA AloneCalls ==
  ASSUME AloneInv, DrillInv', MaxFailed \in Nat \ {0}, NEW d \in Drills,
         \/ Drill!WaitForCluster(d) \/ Drill!CreateJob(d) \/ Drill!WaitForJob(d)
         \/ Drill!DeleteJob(d) \/ Drill!DeleteCluster(d) \/ Drill!Stops(d)
  PROVE  AloneInv'
<1>1. /\ UNCHANGED clusters /\ dpc[d] \notin Drill!Over
  BY DEF Drill!WaitForCluster, Drill!CreateJob, Drill!WaitForJob, Drill!DeleteJob,
         Drill!DeleteCluster, Drill!Stops, Drill!DeleteJobOf, Drill!DeleteClusterOf,
         Drill!kubernetesVars, Drill!Over
<1>2. PICK call \in {"create_job", "wait_job", "delete_job", "delete_cluster", "passed", "failed"} :
        dpc' = [dpc EXCEPT ![d] = call] /\ (call = "create_job" => phase[d] = "ready" /\ phase' = phase)
  BY DEF Drill!WaitForCluster, Drill!CreateJob, Drill!WaitForJob, Drill!DeleteJob,
         Drill!DeleteCluster, Drill!Stops, Drill!Confirmed, Drill!Ends, Drill!kubernetesVars
<1>3. Alone' /\ dpc'[d] = call /\ \A q \in Drills : q # d => RoomMade(q)'
  BY <1>1, <1>2, StaysAlone
<1>4. RoomMade(d)'
  BY <1>2, <1>3 DEF RoomMade
<1>5. LiveClusters' \subseteq LiveClusters /\ Listed' /\ Drill!JobHasCluster'
  <2> USE DEF AloneInv, DrillInv, LiveClusters, Listed, Drill!JobHasCluster, Drill!JobRetained
  <2>1. CASE Drill!WaitForCluster(d) \/ Drill!WaitForJob(d) \/ Drill!Stops(d)
    BY <1>1, <2>1 DEF Drill!WaitForCluster, Drill!WaitForJob, Drill!Stops, Drill!kubernetesVars
  <2>2. CASE Drill!CreateJob(d)
    <3>1. phase[d] = "ready"
      BY <2>2 DEF RoomMade, Drill!CreateJob
    <3> QED BY <1>1, <2>2, <3>1 DEF DrillTypeOK, Drill!CreateJob, Drill!Live
  <2>3. CASE Drill!DeleteJob(d)
    BY <1>1, <2>3 DEF DrillTypeOK, Drill!DeleteJob, Drill!DeleteJobOf
  <2>4. CASE Drill!DeleteCluster(d)
    <3>1. ~Drill!JobRetained(d) /\ UNCHANGED <<job, jobDeleting>>
      BY <2>4 DEF ReportFirst, Drill!DeleteCluster, Drill!DeleteClusterOf
    <3>2. phase' = [phase EXCEPT ![d] = IF phase[d] \in Drill!Live THEN "terminating" ELSE phase[d]]
      BY <2>4 DEF Drill!DeleteCluster, Drill!DeleteClusterOf
    <3>3. /\ \A q \in Drills : phase'[q] \in Drill!Live => phase[q] \in Drill!Live
          /\ \A q \in Drills : phase'[q] # "none" => phase[q] # "none"
          /\ \A q \in Drills : q # d => phase'[q] = phase[q]
      BY <3>2 DEF DrillTypeOK, Drill!Live
    <3> QED BY <1>1, <3>1, <3>3
  <2> QED BY <2>1, <2>2, <2>3, <2>4
<1> QED BY <1>3, <1>4, <1>5, NoNewCluster DEF AloneInv

(* CloudNativePG changes no cluster that is counted into one that is not    *)
(* listed, and the verifier Job ends without a successor.                   *)
LEMMA AloneCluster ==
  ASSUME AloneInv, DrillInv', MaxFailed \in Nat \ {0}, NEW d \in Drills,
         \/ Drill!ClusterChanges(d)
         \/ Drill!VerifyDatabase(d) \/ Drill!PutReport(d) \/ Drill!HeadReport(d)
         \/ Drill!JobFails(d) \/ Drill!JobExpires(d) \/ Drill!JobRemoved(d)
  PROVE  AloneInv'
<1>0. DrillTypeOK
  BY DEF AloneInv, DrillInv
<1>1. /\ UNCHANGED <<dpc, doomed>>
      /\ \A q \in Drills : Drill!JobRetained(q)' => Drill!JobRetained(q)
  <2>1. CASE Drill!ClusterChanges(d)
    BY <2>1 DEF Drill!ClusterChanges, Drill!JobRetained
  <2>2. CASE ~Drill!ClusterChanges(d)
    BY <2>2, VerifierStep DEF AloneInv
  <2> QED BY <2>1, <2>2
<1>2. /\ LiveClusters' = LiveClusters /\ Listed'
      /\ \A q \in Drills : phase[q] = "ready" => phase'[q] = "ready"
  <2>1. CASE UNCHANGED <<phase, clusters>>
    BY <2>1 DEF LiveClusters, Listed, AloneInv
  <2>2. CASE /\ phase[d] = "restoring" /\ UNCHANGED clusters
             /\ phase' \in {[phase EXCEPT ![d] = "ready"], [phase EXCEPT ![d] = "error"]}
    BY <1>0, <2>2 DEF DrillTypeOK, LiveClusters, Listed, AloneInv, Drill!Live
  <2>3. CASE /\ phase[d] = "terminating" /\ phase' = [phase EXCEPT ![d] = "none"]
             /\ \E i \in DOMAIN clusters :
                   /\ clusters[i] = d
                   /\ clusters' = Drill!Without(clusters, i)
    <3>1. LiveClusters' = LiveClusters /\ \A q \in Drills : phase[q] = "ready" => phase'[q] = "ready"
      BY <1>0, <2>3 DEF DrillTypeOK, LiveClusters, Drill!Live
    <3>2. DOMAIN clusters = 1..Len(clusters) /\ clusters \in Seq(Drills)
      BY <1>0, LenProperties DEF DrillTypeOK
    <3>3. PICK i \in 1..Len(clusters) :
            /\ clusters[i] = d
            /\ clusters' = Drill!Without(clusters, i)
      BY <2>3, <3>2
    <3>4. /\ clusters' \in Seq(Drills)
          /\ \A j \in 1..Len(clusters) : j # i => \E k \in 1..Len(clusters') : clusters'[k] = clusters[j]
      BY <3>2, <3>3, RemoveOne
    <3>5. DOMAIN clusters' = 1..Len(clusters')
      BY <3>4, LenProperties
    <3>6. ASSUME NEW q \in Drills, phase'[q] # "none"
          PROVE  \E k \in DOMAIN clusters' : clusters'[k] = q
      <4>1. q # d /\ phase[q] # "none"
        BY <1>0, <2>3, <3>6 DEF DrillTypeOK
      <4>2. PICK j \in 1..Len(clusters) : clusters[j] = q
        BY <3>2, <4>1 DEF AloneInv, Listed
      <4>3. j # i
        BY <3>3, <4>1, <4>2
      <4> QED BY <3>4, <3>5, <4>2, <4>3
    <3> QED BY <3>1, <3>6 DEF Listed
  <2>4. CASE ~Drill!ClusterChanges(d)
    BY <2>1, <2>4, VerifierStep DEF AloneInv
  <2> QED BY <2>2, <2>3, <2>4 DEF Drill!ClusterChanges
<1>3. Alone'
  BY <1>1 DEF AloneInv, Alone
<1>4. Drill!JobHasCluster'
  BY <1>1, <1>2 DEF AloneInv, Drill!JobHasCluster, LiveClusters
<1>5. ASSUME NEW q \in Drills PROVE RoomMade(q)'
  <2>1. RoomMade(q) /\ HasVictim(q)
    BY DEF AloneInv, DrillInv
  <2>2. dpc[q] = "prune_cluster" => Head(doomed[q]) \in Drills
    BY <1>0, <2>1, PruneTyped DEF HasVictim
  <2>3. Victims(q)' = Victims(q)
    BY <1>1 DEF Victims
  <2>4. dpc[q] = "prune_cluster" => (~Drill!JobRetained(Head(doomed[q])))'
    <3>1. SUFFICES ASSUME dpc[q] = "prune_cluster"
                   PROVE  (~Drill!JobRetained(Head(doomed[q])))'
      OBVIOUS
    <3> DEFINE v == Head(doomed[q])
    <3>2. v \in Drills /\ ~Drill!JobRetained(v)
      BY <2>1, <2>2, <3>1 DEF RoomMade
    <3>3. Head(doomed'[q]) = v
      BY <1>1
    <3> HIDE DEF v
    <3>4. \A w \in Drills : ~Drill!JobRetained(w) => job'[w] = "none" \/ w \in jobDeleting'
      BY <1>1 DEF Drill!JobRetained
    <3>5. job'[Head(doomed'[q])] = "none" \/ Head(doomed'[q]) \in jobDeleting'
      BY <3>2, <3>3, <3>4
    <3> QED BY <3>5 DEF Drill!JobRetained
  <2> QED BY <1>1, <1>2, <2>1, <2>2, <2>3, <2>4 DEF RoomMade
<1> QED BY <1>2, <1>3, <1>4, <1>5, NoNewCluster DEF AloneInv

(* max_failed_drills bounds the clusters that nobody deletes, and every    *)
(* verifier Job that nobody deletes has such a cluster, for any number of  *)
(* drills and any bound, whatever call or process fails, as long as the    *)
(* CronJob's drills do not overlap (concurrencyPolicy: Forbid).            *)
THEOREM LeftoversAreBounded ==
  ASSUME MaxFailed \in Nat \ {0}, MaxOverlap = 1
  PROVE  Drill!Spec => []LeftoversBounded
<1>1. Drill!Init => AloneInv
  <2> SUFFICES ASSUME Drill!Init PROVE AloneInv
    OBVIOUS
  <2>1. LiveClusters = {}
    BY DEF Drill!Init, LiveClusters, Drill!Live
  <2>2. IsFiniteSet(LiveClusters) /\ Cardinality(LiveClusters) <= MaxFailed
    BY <2>1, FS_EmptySet
  <2>3. Alone /\ Listed /\ Drill!JobHasCluster /\ \A d \in Drills : RoomMade(d)
    BY DEF Drill!Init, Alone, Listed, Drill!JobHasCluster, Drill!JobRetained, RoomMade,
           Drill!Over
  <2> QED BY <2>2, <2>3, DrillInit DEF AloneInv
<1>2. AloneInv /\ [Drill!Next]_(Drill!vars) => AloneInv'
  <2> SUFFICES ASSUME AloneInv, [Drill!Next]_(Drill!vars) PROVE AloneInv'
    OBVIOUS
  <2>1. DrillInv'
    BY DrillStepKeeps DEF AloneInv
  <2>2. CASE Drill!Next
    BY <2>1, <2>2, AloneStart, AloneList, AlonePrune, AloneCreate, AloneCalls, AloneCluster
       DEF Drill!Next
  <2>3. CASE UNCHANGED Drill!vars
    <3>1. UNCHANGED <<dpc, clusters, phase, job, jobDeleting, doomed>>
      BY <2>3 DEF Drill!vars, Drill!kubernetesVars
    <3>2. LiveClusters' = LiveClusters /\ \A d \in Drills : Victims(d)' = Victims(d)
      BY <3>1 DEF LiveClusters, Victims
    <3>3. Alone' /\ Listed' /\ Drill!JobHasCluster'
      BY <3>1 DEF AloneInv, Alone, Listed, Drill!JobHasCluster, Drill!JobRetained
    <3>4. \A d \in Drills : RoomMade(d)'
      BY <3>1, <3>2 DEF AloneInv, RoomMade, Drill!JobRetained
    <3> QED BY <2>1, <3>2, <3>3, <3>4 DEF AloneInv
  <2> QED BY <2>2, <2>3
<1>3. AloneInv => LeftoversBounded
  <2>1. Drill!Cardinality(LiveClusters) = Cardinality(LiveClusters)
    BY Zenon DEF Drill!Cardinality, Cardinality
  <2>2. AloneInv => Drill!RetainedBounded
    BY <2>1 DEF AloneInv, Drill!RetainedBounded, LiveClusters
  <2> QED BY <2>2 DEF AloneInv, LeftoversBounded, Drill!LeftoversBounded
<1> QED BY <1>1, <1>2, <1>3, PTL DEF Drill!Spec
=============================================================================
