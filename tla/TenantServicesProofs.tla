------------------------ MODULE TenantServicesProofs ------------------------
(***************************************************************************)
(* API keys and guardrail configurations of a tenant, for any number of    *)
(* keys, versions and concurrent requests.                                 *)
(***************************************************************************)
EXTENDS MCTenantServices, Sequences, FiniteSetTheorems, SequenceTheorems, TLAPS

-----------------------------------------------------------------------------
(* API keys.  The argument is the row lock: from the count of the active   *)
(* admins to the UPDATE nobody else revokes, so the other admin that the   *)
(* count found is still there.                                             *)

(* Only finitely many keys have been issued. *)
Issued == {k \in Keys : key[k] # "absent"}

(* What a transaction found when it locked the tenant row is still so. *)
RowHeld ==
    \A r \in Requests :
        /\ pc[r] = "issue" => rowLock = r /\ tenant = "active"
        /\ pc[r] = "revoke" =>
              /\ rowLock = r /\ tenant # "absent"
              /\ ActiveAdmins \ {target[r]} # {}

KeysInv == TypeOK /\ IsFiniteSet(Issued) /\ RowHeld /\ AdminRemains

(* A set with more than one element has another one. *)
LEMMA AnotherElement ==
  ASSUME NEW S, IsFiniteSet(S), Cardinality(S) > 1, NEW x
  PROVE  S \ {x} # {}
<1> SUFFICES ASSUME S \ {x} = {} PROVE FALSE
  OBVIOUS
<1>1. S \in SUBSET {x}
  OBVIOUS
<1>2. IsFiniteSet({x}) /\ Cardinality({x}) = 1
  BY FS_Singleton
<1>3. Cardinality(S) <= 1
  BY <1>1, <1>2, FS_Subset
<1> QED
  BY <1>3, FS_CardinalityType

(* No tenant is registered yet. *)
LEMMA KeysInit == Init => KeysInv
BY FS_EmptySet, ConstantsAssumption
   DEF Init, KeysInv, TypeOK, Issued, RowHeld, AdminRemains

(* A key that is issued keeps the issued keys finite. *)
LEMMA IssuedFinite ==
  ASSUME TypeOK, IsFiniteSet(Issued), NEW k \in Keys, NEW s, s # "absent",
         key' = [key EXCEPT ![k] = s]
  PROVE  IsFiniteSet(Issued')
<1>1. Issued' = Issued \cup {k}
  BY DEF TypeOK, Issued
<1> QED
  BY <1>1, FS_AddElement

(* Every step keeps the invariant. *)
LEMMA KeysStepKeeps == KeysInv /\ [Next]_vars => KeysInv'
<1> SUFFICES ASSUME KeysInv, [Next]_vars PROVE KeysInv'
  OBVIOUS
<1> USE ConstantsAssumption
<1>1. ASSUME NEW k \in Keys, CreateTenant(k) PROVE KeysInv'
  <2>1. TypeOK' /\ AdminRemains'
    BY <1>1 DEF KeysInv, TypeOK, CreateTenant, AdminRemains, ActiveAdmins
  <2>2. RowHeld'
    BY <1>1 DEF KeysInv, TypeOK, CreateTenant, RowHeld, ActiveAdmins
  <2>3. IsFiniteSet(Issued')
    BY <1>1, IssuedFinite DEF KeysInv, CreateTenant
  <2> QED BY <2>1, <2>2, <2>3 DEF KeysInv
<1>2. ASSUME NEW s \in {"active", "suspended"}, SetTenantStatus(s) PROVE KeysInv'
  BY <1>2 DEF KeysInv, TypeOK, SetTenantStatus, RowFree, RowHeld, AdminRemains,
              ActiveAdmins, Issued
<1>3. ASSUME NEW r \in Requests, NEW k, Authenticate(r, k) PROVE KeysInv'
  BY <1>3 DEF KeysInv, TypeOK, Authenticate, RowHeld, AdminRemains, ActiveAdmins, Issued
<1>4. ASSUME NEW r \in Requests, NEW k \in Keys, LockToIssue(r, k) PROVE KeysInv'
  BY <1>4 DEF KeysInv, TypeOK, LockToIssue, RowFree, RowHeld, AdminRemains,
              ActiveAdmins, Issued
<1>5. ASSUME NEW r \in Requests, NEW k \in Keys, LockToRevoke(r, k) PROVE KeysInv'
  <2>1. ActiveAdmins \ {k} # {}
    <3>1. CASE k \in AdminKeys
      <4>1. ActiveAdmins \in SUBSET Issued
        BY DEF ActiveAdmins, Issued
      <4>2. IsFiniteSet(ActiveAdmins)
        BY <4>1, FS_Subset DEF KeysInv
      <4> QED
        BY <1>5, <3>1, <4>2, AnotherElement DEF LockToRevoke, MayRevoke
    <3>2. CASE k \notin AdminKeys
      BY <1>5, <3>2 DEF LockToRevoke, KeysInv, AdminRemains, ActiveAdmins
    <3> QED BY <3>1, <3>2
  <2> QED
    BY <1>5, <2>1 DEF KeysInv, TypeOK, LockToRevoke, RowFree, RowHeld, AdminRemains,
                      ActiveAdmins, Issued
<1>6. ASSUME NEW r \in Requests, InsertKey(r) PROVE KeysInv'
  <2>1. target[r] \in Keys /\ rowLock = r /\ tenant = "active"
    BY <1>6 DEF InsertKey, KeysInv, TypeOK, RowHeld
  <2>2. IsFiniteSet(Issued')
    BY <1>6, <2>1, IssuedFinite DEF InsertKey, KeysInv
  <2>3. ActiveAdmins \subseteq ActiveAdmins'
    BY <1>6, <2>1 DEF InsertKey, ActiveAdmins, KeysInv, TypeOK
  <2>4. TypeOK'
    BY <1>6, <2>1 DEF KeysInv, TypeOK, InsertKey, Finish, RowHeld
  <2>5. RowHeld' /\ AdminRemains'
    BY <1>6, <2>1, <2>3 DEF KeysInv, TypeOK, InsertKey, Finish, RowHeld, AdminRemains
  <2> QED BY <2>2, <2>4, <2>5 DEF KeysInv
<1>7. ASSUME NEW r \in Requests, UpdateKey(r) PROVE KeysInv'
  <2>1. target[r] \in Keys /\ rowLock = r /\ tenant # "absent"
    BY <1>7 DEF UpdateKey, KeysInv, TypeOK, RowHeld
  <2>2. IsFiniteSet(Issued')
    BY <1>7, <2>1, IssuedFinite DEF UpdateKey, KeysInv
  <2>3. ActiveAdmins' = ActiveAdmins \ {target[r]}
    BY <1>7, <2>1 DEF UpdateKey, ActiveAdmins, KeysInv, TypeOK
  <2>4. TypeOK'
    BY <1>7, <2>1 DEF KeysInv, TypeOK, UpdateKey, Finish, RowHeld
  <2>5. RowHeld' /\ AdminRemains'
    BY <1>7, <2>1, <2>3 DEF KeysInv, TypeOK, UpdateKey, Finish, RowHeld, AdminRemains
  <2> QED BY <2>2, <2>4, <2>5 DEF KeysInv
<1>8. ASSUME NEW r \in Requests, Abandon(r) PROVE KeysInv'
  BY <1>8 DEF KeysInv, TypeOK, Abandon, Finish, RowHeld, AdminRemains, ActiveAdmins, Issued
<1>9. CASE UNCHANGED vars
  BY <1>9 DEF vars, KeysInv, TypeOK, RowHeld, AdminRemains, ActiveAdmins, Issued
<1> QED
  BY <1>1, <1>2, <1>3, <1>4, <1>5, <1>6, <1>7, <1>8, <1>9 DEF Next

(* The inductive invariant of the tenant row and its keys. *)
THEOREM KeysInvariant == Spec => []KeysInv
BY KeysInit, KeysStepKeeps, PTL DEF Spec

(* A registered tenant always has an active admin key, however many        *)
(* rotations race.                                                         *)
THEOREM AdminAlwaysRemains == Spec => []AdminRemains
<1>1. KeysInv => AdminRemains
  BY DEF KeysInv
<1> QED BY <1>1, KeysInvariant, PTL

(* No key comes into force while the tenant is suspended. *)
THEOREM NoKeyIssuedSuspended == Spec => NoKeyWhileSuspended
<1> DEFINE Issues == \A k \in Keys : key[k] # "active" /\ key'[k] = "active" =>
                        tenant' = "active"
<1>1. KeysInv /\ [Next]_vars => [Issues]_vars
  <2> SUFFICES ASSUME KeysInv, Next, NEW k \in Keys, key[k] # "active", key'[k] = "active"
               PROVE  tenant' = "active"
    OBVIOUS
  <2>1. CASE \E a \in Keys : CreateTenant(a)
    BY <2>1 DEF CreateTenant
  <2>2. CASE \E r \in Requests : InsertKey(r)
    BY <2>2 DEF InsertKey, KeysInv, RowHeld
  <2>3. CASE \E r \in Requests : UpdateKey(r)
    BY <2>3 DEF UpdateKey, KeysInv, TypeOK
  <2> QED
    BY <2>1, <2>2, <2>3 DEF Next, SetTenantStatus, Authenticate, LockToIssue, LockToRevoke,
                            Abandon
<1>2. NoKeyWhileSuspended <=> [][Issues]_vars
  BY DEF NoKeyWhileSuspended
<1> QED BY <1>1, <1>2, KeysInvariant, PTL DEF Spec

-----------------------------------------------------------------------------
(* Guardrail configurations.  Numbers are given out once, so a number that *)
(* is given out is above everything committed before, and a committed      *)
(* activation and the digest of its version never change.                  *)

IsSequence(s) == Len(s) \in Nat /\ s = [i \in 1..Len(s) |-> s[i]]

GuardrailsTyped ==
    /\ bundle = [v \in Versions |-> bundle[v]]
    /\ sequence \in Nat
    /\ gpc \in [Admins -> {"idle", "asked", "inserted", "checking"}]
    /\ held = [r \in Admins |-> held[r]]
    /\ IsSequence(activations) /\ IsSequence(evidence)

(* What holds of an activation from its INSERT on: its number was given    *)
(* out, above all numbers that had been committed when it was asked for,   *)
(* and it has the digest its version is registered with.                   *)
Numbered(a) ==
    /\ DOMAIN a = DOMAIN Config!NoActivation
    /\ a.sequence \in 1..sequence
    /\ \A earlier \in a.before : earlier < a.sequence
    /\ a.version \in Versions
    /\ a.bundle = bundle[a.version] /\ a.bundle # NoBundle

(* What holds of an activation that a check read, from the read on: of the *)
(* activations committed by then it is the one with the greatest number.   *)
InForce(a) ==
    \/ /\ a.before = {}
       /\ a.sequence = 0 /\ a.version = NoVersion /\ a.bundle = NoBundle
    \/ /\ a.sequence \in a.before
       /\ \A n \in a.before : n <= a.sequence
       /\ \E i \in 1..Len(activations) :
            /\ activations[i].sequence = a.sequence
            /\ activations[i].version = a.version
            /\ activations[i].bundle = a.bundle

(* A request is an activation record at every point of its way. *)
RequestsSound ==
    \A r \in Admins :
        /\ gpc[r] = "asked" =>
              /\ DOMAIN held[r] = DOMAIN Config!NoActivation
              /\ held[r].version \in Versions
              /\ held[r].before \subseteq 0..sequence
        /\ gpc[r] = "inserted" =>
              /\ Numbered(held[r])
              /\ held[r].sequence \notin Config!Committed
              /\ \A q \in Admins \ {r} :
                    gpc[q] = "inserted" => held[q].sequence # held[r].sequence
        /\ gpc[r] = "checking" => InForce(held[r])

GuardrailsInv ==
    /\ GuardrailsTyped /\ RequestsSound
    /\ \A i \in 1..Len(activations) : Numbered(activations[i])
    /\ IsFiniteSet(Config!Committed)
    /\ Cardinality(Config!Committed) = Len(activations)
    /\ Config!EvidenceBound

(* A nonempty set of natural numbers has a least one.                      *)
LEMMA LeastNumber ==
  ASSUME NEW T \in SUBSET Nat, T # {}
  PROVE  \E n \in T : \A m \in T : n <= m
<1> DEFINE U == {1..n : n \in T}
<1>1. U \subseteq FiniteSubsetsOf(Nat) /\ U # {}
  <2> SUFFICES ASSUME NEW n \in T PROVE 1..n \in FiniteSubsetsOf(Nat)
    OBVIOUS
  <2>1. IsFiniteSet(1..n) /\ 1..n \subseteq Nat
    BY FS_Interval
  <2> QED BY <2>1 DEF FiniteSubsetsOf
<1>2. \E x \in U : \A y \in U : ~(<<y, x>> \in StrictSubsetOrdering(Nat))
  <2> HIDE DEF U
  <2> QED BY <1>1, WFMin, FS_StrictSubsetOrderingWellFounded
<1>3. PICK n \in T : \A m \in T : ~(<<1..m, 1..n>> \in StrictSubsetOrdering(Nat))
  BY <1>2
<1>4. ASSUME NEW m \in T, m < n PROVE FALSE
  <2>1. 1..m \subseteq 1..n /\ 1..m # 1..n
    <3>1. n \in 1..n /\ n \notin 1..m
      BY <1>4
    <3> QED BY <1>4, <3>1
  <2>2. 1..m \in SUBSET Nat /\ 1..n \in SUBSET Nat
    OBVIOUS
  <2>3. <<1..m, 1..n>> \in StrictSubsetOrdering(Nat)
    BY <2>1, <2>2 DEF StrictSubsetOrdering
  <2> QED BY <1>3, <2>3
<1> QED BY <1>4

(* A sequence of rows stays one when a row is appended. *)
LEMMA AppendRow ==
  ASSUME NEW s, IsSequence(s), NEW e
  PROVE  /\ IsSequence(Append(s, e))
         /\ Len(Append(s, e)) = Len(s) + 1
         /\ \A i \in 1..Len(s) : Append(s, e)[i] = s[i]
         /\ Append(s, e)[Len(s) + 1] = e
<1> DEFINE S == {s[i] : i \in 1..Len(s)} \cup {e}
<1>1. s \in Seq(S)
  BY DEF IsSequence
<1>2. Append(s, e) \in Seq(S) /\ Len(Append(s, e)) = Len(s) + 1
  BY <1>1
<1>3. IsSequence(Append(s, e))
  BY <1>2, LenProperties DEF IsSequence
<1>4. /\ \A i \in 1..Len(s) : Append(s, e)[i] = s[i]
      /\ Append(s, e)[Len(s) + 1] = e
  BY <1>1 DEF IsSequence
<1> QED
  BY <1>2, <1>3, <1>4

(* What get_active_guardrail_config returns is the committed activation    *)
(* with the greatest number, or none when nothing is committed.            *)
LEMMA ActiveIsLast ==
  ASSUME GuardrailsInv
  PROVE  InForce([Config!Active EXCEPT !.before = Config!Committed])
<1>0. CASE activations = <<>>
  <2>1. DOMAIN activations = {}
    BY <1>0
  <2>2. Config!Committed = {} /\ Config!Active = Config!NoActivation
    BY <1>0, <2>1 DEF Config!Committed, Config!Active
  <2> QED
    BY <2>2 DEF InForce, Config!NoActivation
<1> SUFFICES ASSUME activations # <<>>
             PROVE  InForce([Config!Active EXCEPT !.before = Config!Committed])
  BY <1>0
<1>1. /\ Len(activations) \in Nat /\ DOMAIN activations = 1..Len(activations)
      /\ sequence \in Nat
      /\ \A i \in 1..Len(activations) : activations[i].sequence \in 1..sequence
  BY DEF GuardrailsInv, GuardrailsTyped, IsSequence, Numbered
<1>2. 1 \in DOMAIN activations
  <2> DEFINE S == {activations[i] : i \in 1..Len(activations)}
  <2>1. activations \in Seq(S)
    BY <1>1 DEF GuardrailsInv, GuardrailsTyped, IsSequence
  <2> HIDE DEF S
  <2> QED BY <1>1, <2>1
<1> DEFINE T == {sequence - activations[i].sequence : i \in DOMAIN activations}
<1>3. T \in SUBSET Nat /\ T # {}
  BY <1>1, <1>2
<1>4. PICK n \in T : \A m \in T : n <= m
  BY <1>3, LeastNumber
<1>5. \E i \in DOMAIN activations :
        \A j \in DOMAIN activations : activations[j].sequence <= activations[i].sequence
  <2>1. PICK i \in DOMAIN activations : n = sequence - activations[i].sequence
    OBVIOUS
  <2>2. ASSUME NEW j \in DOMAIN activations
        PROVE  activations[j].sequence <= activations[i].sequence
    <3>1. n <= sequence - activations[j].sequence
      BY <1>4
    <3>2. activations[i].sequence \in Nat /\ activations[j].sequence \in Nat
      BY <1>1
    <3> QED BY <1>1, <2>1, <3>1, <3>2
  <2> QED BY <2>2
<1>6. PICK i \in 1..Len(activations) :
        /\ Config!Active = activations[i]
        /\ \A j \in DOMAIN activations : activations[j].sequence <= activations[i].sequence
  BY <1>1, <1>5 DEF Config!Active
<1> DEFINE a == [Config!Active EXCEPT !.before = Config!Committed]
<1>7. DOMAIN Config!Active = {"sequence", "version", "bundle", "before"}
  BY <1>6 DEF GuardrailsInv, Numbered, Config!NoActivation
<1>8. /\ a.sequence = activations[i].sequence /\ a.version = activations[i].version
      /\ a.bundle = activations[i].bundle /\ a.before = Config!Committed
  BY <1>6, <1>7
<1> HIDE DEF a
<1>9. a.sequence \in a.before /\ \A n2 \in a.before : n2 <= a.sequence
  BY <1>1, <1>6, <1>8 DEF Config!Committed
<1>10. InForce(a)
  BY <1>8, <1>9 DEF InForce
<1> QED
  BY <1>10 DEF a

(* Nothing is registered. *)
LEMMA GuardrailsInit == Config!Init => GuardrailsInv
<1> SUFFICES ASSUME Config!Init PROVE GuardrailsInv
  OBVIOUS
<1>1. IsSequence(activations) /\ IsSequence(evidence) /\ Len(activations) = 0
      /\ DOMAIN activations = {} /\ DOMAIN evidence = {}
  BY DEF Config!Init, IsSequence
<1>2. Config!Committed = {} /\ Config!EvidenceBound
  BY <1>1 DEF Config!Committed, Config!EvidenceBound
<1>3. GuardrailsTyped /\ RequestsSound
  BY <1>1 DEF GuardrailsTyped, RequestsSound, Config!Init
<1> QED
  BY <1>1, <1>2, <1>3, FS_EmptySet DEF GuardrailsInv

(* Where only requests change, what is committed stays as it is. *)
LEMMA NothingCommitted ==
  ASSUME GuardrailsInv, UNCHANGED <<bundle, activations, evidence>>,
         sequence' \in Nat, sequence <= sequence'
  PROVE  /\ \A a : Numbered(a) => Numbered(a)'
         /\ \A a : InForce(a) => InForce(a)'
         /\ \A i \in 1..Len(activations') : Numbered(activations[i])'
         /\ Config!Committed' = Config!Committed
         /\ Config!EvidenceBound'
<1>1. \A a : Numbered(a) => Numbered(a)'
  <2> SUFFICES ASSUME NEW a, Numbered(a) PROVE Numbered(a)'
    OBVIOUS
  <2>1. a.sequence \in 1..sequence'
    BY DEF Numbered, GuardrailsInv, GuardrailsTyped
  <2> QED BY <2>1 DEF Numbered
<1>2. \A i \in 1..Len(activations') : Numbered(activations[i])'
  BY <1>1 DEF GuardrailsInv, Numbered
<1>3. Config!Committed' = Config!Committed /\ Config!EvidenceBound'
  BY DEF GuardrailsInv, Config!Committed, Config!EvidenceBound
<1>4. \A a : InForce(a) => InForce(a)'
  BY DEF InForce
<1> QED
  BY <1>1, <1>2, <1>3, <1>4

(* A request ends. *)
LEMMA FinishRequest ==
  ASSUME GuardrailsInv, NEW r \in Admins, Config!Finish(r)
  PROVE  /\ gpc' \in [Admins -> {"idle", "asked", "inserted", "checking"}]
         /\ held' = [q \in Admins |-> held'[q]]
         /\ gpc'[r] = "idle"
         /\ \A q \in Admins \ {r} : gpc'[q] = gpc[q] /\ held'[q] = held[q]
<1>1. held' = [q \in Admins |-> IF q = r THEN Config!NoActivation ELSE held[q]]
  BY DEF GuardrailsInv, GuardrailsTyped, Config!Finish
<1>2. held' = [q \in Admins |-> held'[q]]
  BY <1>1
<1> QED
  BY <1>1, <1>2 DEF GuardrailsInv, GuardrailsTyped, Config!Finish

(* A version that is registered keeps its digest. *)
LEMMA RegisterKeeps ==
  ASSUME GuardrailsInv, NEW v \in Versions, NEW b, Config!Register(v, b)
  PROVE  GuardrailsInv'
<1>1. /\ bundle' = [u \in Versions |-> IF u = v THEN b ELSE bundle[u]]
      /\ bundle[v] = NoBundle
      /\ UNCHANGED <<activations, sequence, gpc, held, evidence>>
  BY DEF Config!Register, GuardrailsInv, GuardrailsTyped
<1>2. \A u \in Versions : bundle[u] # NoBundle => bundle'[u] = bundle[u]
  BY <1>1
<1>3. \A a : Numbered(a) => Numbered(a)'
  BY <1>1, <1>2 DEF Numbered
<1>4. bundle' = [u \in Versions |-> bundle'[u]]
  BY <1>1
<1>5. GuardrailsTyped' /\ Config!Committed' = Config!Committed
  BY <1>1, <1>4 DEF GuardrailsInv, GuardrailsTyped, IsSequence, Config!Committed
<1>6. RequestsSound'
  BY <1>1, <1>3, <1>5 DEF GuardrailsInv, RequestsSound, Numbered, InForce
<1>7. \A i \in 1..Len(activations') : Numbered(activations[i])'
  BY <1>1, <1>3 DEF GuardrailsInv, Numbered
<1>8. Config!EvidenceBound'
  <2> SUFFICES ASSUME NEW i \in DOMAIN evidence
               PROVE  LET e == evidence[i] IN
                      \/ /\ e.before = {}
                         /\ e.activation = 0 /\ e.version = NoVersion
                         /\ e.bundle = NoBundle
                      \/ /\ e.activation \in e.before
                         /\ \A s \in e.before : s <= e.activation
                         /\ e.bundle = bundle'[e.version]
                         /\ \E j \in DOMAIN activations :
                              /\ activations[j].sequence = e.activation
                              /\ activations[j].version = e.version
                              /\ activations[j].bundle = e.bundle
    BY <1>1 DEF Config!EvidenceBound
  <2>1. DOMAIN activations = 1..Len(activations)
    BY DEF GuardrailsInv, GuardrailsTyped, IsSequence
  <2>2. \A j \in DOMAIN activations :
            activations[j].version \in Versions /\ activations[j].bundle # NoBundle
    BY <2>1 DEF GuardrailsInv, Numbered
  <2> QED
    BY <1>2, <2>2 DEF GuardrailsInv, Config!EvidenceBound
<1> QED
  BY <1>1, <1>5, <1>6, <1>7, <1>8 DEF GuardrailsInv

(* A request notes what is committed when it begins. *)
LEMMA AskServerKeeps ==
  ASSUME GuardrailsInv, NEW r \in Admins, NEW v \in Versions, Config!AskServer(r, v)
  PROVE  GuardrailsInv'
<1> DEFINE a == [Config!NoActivation EXCEPT !.version = v, !.before = Config!Committed]
<1>1. /\ held' = [q \in Admins |-> IF q = r THEN a ELSE held[q]]
      /\ gpc' = [q \in Admins |-> IF q = r THEN "asked" ELSE gpc[q]]
      /\ UNCHANGED <<bundle, activations, sequence, evidence>>
  BY DEF Config!AskServer, GuardrailsInv, GuardrailsTyped
<1>2. /\ DOMAIN a = DOMAIN Config!NoActivation
      /\ a.version = v /\ a.before = Config!Committed
  BY DEF Config!NoActivation
<1> HIDE DEF a
<1>3. held' = [q \in Admins |-> held'[q]]
  BY <1>1
<1>4. /\ \A i \in 1..Len(activations') : Numbered(activations[i])'
      /\ Config!Committed' = Config!Committed /\ Config!EvidenceBound'
      /\ \A b : Numbered(b) => Numbered(b)'
      /\ \A b : InForce(b) => InForce(b)'
  BY <1>1, NothingCommitted DEF GuardrailsInv, GuardrailsTyped
<1>5. GuardrailsTyped'
  BY <1>1, <1>3 DEF GuardrailsInv, GuardrailsTyped, IsSequence
<1>6. Config!Committed \subseteq 0..sequence
  BY DEF GuardrailsInv, GuardrailsTyped, IsSequence, Numbered, Config!Committed
<1>7. RequestsSound'
  <2>1. \A q \in Admins \ {r} : gpc'[q] = gpc[q] /\ held'[q] = held[q]
    BY <1>1
  <2>2. gpc'[r] = "asked" /\ held'[r] = a
    BY <1>1 DEF GuardrailsInv, GuardrailsTyped
  <2>3. \A q \in Admins : gpc'[q] = "checking" => InForce(held[q])'
    BY <1>1, <2>1, <2>2 DEF GuardrailsInv, RequestsSound, InForce
  <2>4. \A q \in Admins : gpc'[q] = "inserted" => Numbered(held[q])'
    BY <1>1, <2>1, <2>2 DEF GuardrailsInv, RequestsSound, Numbered
  <2> QED
    BY <1>1, <1>2, <1>4, <1>6, <2>1, <2>2, <2>3, <2>4 DEF GuardrailsInv, RequestsSound
<1> QED
  BY <1>1, <1>4, <1>5, <1>7 DEF GuardrailsInv

(* The number is new, and above everything committed before. *)
LEMMA InsertActivationKeeps ==
  ASSUME GuardrailsInv, NEW r \in Admins, Config!InsertActivation(r)
  PROVE  GuardrailsInv'
<1> DEFINE v == held[r].version
           a == [held[r] EXCEPT !.sequence = sequence + 1, !.bundle = bundle[v]]
<1>1. /\ gpc[r] = "asked" /\ v \in Versions /\ bundle[v] # NoBundle
      /\ held[r].before \subseteq 0..sequence
      /\ DOMAIN held[r] = {"sequence", "version", "bundle", "before"}
  BY DEF Config!InsertActivation, GuardrailsInv, RequestsSound, Config!NoActivation
<1>2. /\ held' = [q \in Admins |-> IF q = r THEN a ELSE held[q]]
      /\ gpc' = [q \in Admins |-> IF q = r THEN "inserted" ELSE gpc[q]]
      /\ sequence' = sequence + 1
      /\ UNCHANGED <<bundle, activations, evidence>>
  BY DEF Config!InsertActivation, Config!NextNumber, GuardrailsInv, GuardrailsTyped
<1>3. /\ a.sequence = sequence + 1 /\ a.version = v /\ a.bundle = bundle[v]
      /\ a.before = held[r].before /\ DOMAIN a = DOMAIN Config!NoActivation
  BY <1>1 DEF Config!NoActivation
<1> HIDE DEF a, v
<1>4. held' = [q \in Admins |-> held'[q]] /\ sequence \in Nat /\ sequence' \in Nat
  BY <1>2 DEF GuardrailsInv, GuardrailsTyped
<1>5. /\ \A i \in 1..Len(activations') : Numbered(activations[i])'
      /\ Config!Committed' = Config!Committed /\ Config!EvidenceBound'
      /\ \A b : Numbered(b) => Numbered(b)'
  BY <1>2, <1>4, NothingCommitted
<1>6. GuardrailsTyped'
  BY <1>2, <1>4 DEF GuardrailsInv, GuardrailsTyped, IsSequence
<1>7. Config!Committed \subseteq 0..sequence
  BY DEF GuardrailsInv, GuardrailsTyped, IsSequence, Numbered, Config!Committed
<1>8. Numbered(held[r])'
  BY <1>1, <1>2, <1>3, <1>4 DEF Numbered
<1>9. RequestsSound'
  <2> SUFFICES ASSUME NEW q \in Admins
               PROVE  /\ gpc'[q] = "asked" =>
                            /\ DOMAIN held'[q] = DOMAIN Config!NoActivation
                            /\ held'[q].version \in Versions
                            /\ held'[q].before \subseteq 0..sequence'
                      /\ gpc'[q] = "inserted" =>
                            /\ Numbered(held[q])'
                            /\ held'[q].sequence \notin Config!Committed
                            /\ \A p \in Admins \ {q} : gpc'[p] = "inserted" =>
                                  held'[p].sequence # held'[q].sequence
                      /\ gpc'[q] = "checking" => InForce(held[q])'
    BY <1>2, <1>5 DEF RequestsSound
  <2>1. \A p \in Admins : gpc[p] = "inserted" => held[p].sequence \in 1..sequence
    BY DEF GuardrailsInv, RequestsSound, Numbered
  <2>2. CASE q = r
    BY <1>2, <1>3, <1>4, <1>7, <1>8, <2>1, <2>2 DEF Numbered
  <2>3. CASE q # r
    <3>1. gpc'[q] = gpc[q] /\ held'[q] = held[q]
      BY <1>2, <2>3
    <3>2. gpc'[q] = "inserted" => \A p \in Admins \ {q} : gpc'[p] = "inserted" =>
                                     held'[p].sequence # held'[q].sequence
      BY <1>2, <1>3, <1>4, <2>1, <3>1 DEF GuardrailsInv, RequestsSound
    <3>3. gpc'[q] = "inserted" => Numbered(held[q])'
      BY <1>5, <3>1 DEF GuardrailsInv, RequestsSound, Numbered
    <3>4. gpc'[q] = "checking" => InForce(held[q])'
      BY <1>2, <3>1 DEF GuardrailsInv, RequestsSound, InForce
    <3> QED
      BY <1>2, <1>4, <3>1, <3>2, <3>3, <3>4 DEF GuardrailsInv, RequestsSound
  <2> QED BY <2>2, <2>3
<1> QED
  BY <1>2, <1>5, <1>6, <1>9 DEF GuardrailsInv

(* A committed activation adds one number to the committed ones. *)
LEMMA CommitActivationKeeps ==
  ASSUME GuardrailsInv, NEW r \in Admins, Config!CommitActivation(r)
  PROVE  GuardrailsInv'
<1> DEFINE n == Len(activations)
<1>1. /\ gpc[r] = "inserted" /\ activations' = Append(activations, held[r])
      /\ Config!Finish(r) /\ UNCHANGED <<bundle, sequence, evidence>>
  BY DEF Config!CommitActivation
<1>2. /\ Numbered(held[r]) /\ held[r].sequence \notin Config!Committed
      /\ \A q \in Admins \ {r} :
            gpc[q] = "inserted" => held[q].sequence # held[r].sequence
  BY <1>1 DEF GuardrailsInv, RequestsSound
<1>3. n \in Nat /\ DOMAIN activations = 1..n
  BY DEF GuardrailsInv, GuardrailsTyped, IsSequence
<1>4. /\ IsSequence(activations') /\ Len(activations') = n + 1
      /\ \A i \in 1..n : activations'[i] = activations[i]
      /\ activations'[n + 1] = held[r]
      /\ DOMAIN activations' = 1..(n + 1)
  BY <1>1, AppendRow DEF GuardrailsInv, GuardrailsTyped, IsSequence
<1> HIDE DEF n
<1>5. Config!Committed' = Config!Committed \cup {held[r].sequence}
  <2>1. 1..(n + 1) = 1..n \cup {n + 1}
    BY <1>3
  <2> QED
    BY <1>3, <1>4, <2>1 DEF Config!Committed
<1>6. /\ IsFiniteSet(Config!Committed')
      /\ Cardinality(Config!Committed') = Len(activations')
  BY <1>2, <1>4, <1>5, FS_AddElement DEF GuardrailsInv, n
<1>7. \A a : Numbered(a) => Numbered(a)'
  BY <1>1 DEF Numbered
<1>8. \A i \in 1..Len(activations') : Numbered(activations[i])'
  <2> SUFFICES ASSUME NEW i \in 1..(n + 1) PROVE Numbered(activations[i])'
    BY <1>4
  <2>1. Numbered(activations'[i])
    BY <1>2, <1>3, <1>4 DEF GuardrailsInv, n
  <2> QED BY <1>1, <2>1 DEF Numbered
<1>9. GuardrailsTyped'
  BY <1>1, <1>4, FinishRequest DEF GuardrailsInv, GuardrailsTyped, IsSequence
<1>10. RequestsSound'
  <2>1. \A q \in Admins : q # r => gpc'[q] = gpc[q] /\ held'[q] = held[q]
    BY <1>1, FinishRequest
  <2>2. gpc'[r] = "idle"
    BY <1>1, FinishRequest
  <2>3. ASSUME NEW q \in Admins, q # r, gpc[q] = "checking"
        PROVE  InForce(held[q])'
    <3>1. InForce(held[q]) /\ held'[q] = held[q]
      BY <2>1, <2>3 DEF GuardrailsInv, RequestsSound
    <3>2. \A i \in 1..Len(activations) :
            i \in 1..Len(activations') /\ activations'[i] = activations[i]
      BY <1>3, <1>4 DEF n
    <3> QED
      BY <3>1, <3>2 DEF InForce
  <2> QED
    BY <1>1, <1>2, <1>4, <1>5, <2>1, <2>2, <2>3
       DEF GuardrailsInv, RequestsSound, Numbered
<1>11. Config!EvidenceBound'
  <2>1. DOMAIN activations \subseteq DOMAIN activations'
    BY <1>3, <1>4
  <2> QED
    BY <1>1, <1>3, <1>4, <2>1 DEF GuardrailsInv, Config!EvidenceBound
<1> QED
  BY <1>6, <1>8, <1>9, <1>10, <1>11 DEF GuardrailsInv

(* A check reads the last committed activation, or that there is none. *)
LEMMA StartCheckKeeps ==
  ASSUME GuardrailsInv, NEW r \in Admins, NEW asked, Config!StartCheck(r, asked)
  PROVE  GuardrailsInv'
<1> DEFINE a == [Config!Active EXCEPT !.before = Config!Committed]
<1>1. /\ held' = [q \in Admins |-> IF q = r THEN a ELSE held[q]]
      /\ gpc' = [q \in Admins |-> IF q = r THEN "checking" ELSE gpc[q]]
      /\ UNCHANGED <<bundle, activations, sequence, evidence>>
  BY DEF Config!StartCheck, GuardrailsInv, GuardrailsTyped
<1>0. InForce(a)
  BY ActiveIsLast
<1> HIDE DEF a
<1>2. held' = [q \in Admins |-> held'[q]]
  BY <1>1
<1>3. /\ \A i \in 1..Len(activations') : Numbered(activations[i])'
      /\ Config!Committed' = Config!Committed /\ Config!EvidenceBound'
  BY <1>1, NothingCommitted DEF GuardrailsInv, GuardrailsTyped
<1>4. GuardrailsTyped'
  BY <1>1, <1>2 DEF GuardrailsInv, GuardrailsTyped, IsSequence
<1>5. RequestsSound'
  BY <1>0, <1>1, <1>3 DEF GuardrailsInv, RequestsSound, Numbered, InForce
<1> QED
  BY <1>1, <1>3, <1>4, <1>5 DEF GuardrailsInv

(* Evidence is stored with the activation that was read. *)
LEMMA SaveEvidenceKeeps ==
  ASSUME GuardrailsInv, NEW r \in Admins, NEW passed, NEW expected,
         Config!SaveEvidence(r, passed, expected)
  PROVE  GuardrailsInv'
<1> DEFINE n == Len(evidence)
           new == Config!Record(r, held[r], passed, expected)
<1>1. /\ gpc[r] = "checking" /\ evidence' = Append(evidence, new)
      /\ Config!Finish(r) /\ UNCHANGED <<bundle, activations, sequence>>
  BY DEF Config!SaveEvidence
<1>2. /\ new.activation = held[r].sequence /\ new.version = held[r].version
      /\ new.bundle = held[r].bundle /\ new.before = held[r].before
  BY DEF Config!Record
<1>3. n \in Nat /\ DOMAIN evidence = 1..n /\ DOMAIN activations = 1..Len(activations)
  BY DEF GuardrailsInv, GuardrailsTyped, IsSequence
<1> HIDE DEF new
<1>4. /\ IsSequence(evidence') /\ DOMAIN evidence' = 1..(n + 1)
      /\ \A i \in 1..n : evidence'[i] = evidence[i]
      /\ evidence'[n + 1] = new
  BY <1>1, AppendRow DEF GuardrailsInv, GuardrailsTyped, IsSequence
<1> HIDE DEF n
<1>5. InForce(held[r]) /\ \A j \in 1..Len(activations) : Numbered(activations[j])
  BY <1>1 DEF GuardrailsInv, RequestsSound
<1>6. Config!EvidenceBound'
  <2> SUFFICES ASSUME NEW i \in 1..(n + 1)
               PROVE  LET e == evidence'[i] IN
                      \/ /\ e.before = {}
                         /\ e.activation = 0 /\ e.version = NoVersion
                         /\ e.bundle = NoBundle
                      \/ /\ e.activation \in e.before
                         /\ \A s \in e.before : s <= e.activation
                         /\ e.bundle = bundle[e.version]
                         /\ \E j \in DOMAIN activations :
                              /\ activations[j].sequence = e.activation
                              /\ activations[j].version = e.version
                              /\ activations[j].bundle = e.bundle
    BY <1>1, <1>4 DEF Config!EvidenceBound
  <2>1. CASE i \in 1..n
    BY <1>3, <1>4, <2>1 DEF GuardrailsInv, Config!EvidenceBound
  <2>2. CASE i = n + 1
    <3>1. evidence'[i] = new
      BY <1>4, <2>2
    <3> QED
      BY <1>2, <1>3, <1>5, <3>1 DEF Numbered, InForce
  <2> QED
    BY <1>3, <2>1, <2>2
<1>7. GuardrailsTyped' /\ Config!Committed' = Config!Committed
  BY <1>1, <1>4, FinishRequest
     DEF GuardrailsInv, GuardrailsTyped, IsSequence, Config!Committed
<1>8. RequestsSound'
  BY <1>1, <1>7, FinishRequest DEF GuardrailsInv, RequestsSound, Numbered, InForce
<1>9. \A i \in 1..Len(activations') : Numbered(activations[i])'
  BY <1>1 DEF GuardrailsInv, Numbered
<1> QED
  BY <1>1, <1>6, <1>7, <1>8, <1>9 DEF GuardrailsInv

(* Every step keeps the invariant. *)
LEMMA GuardrailsStepKeeps == GuardrailsInv /\ [Config!Next]_(Config!vars) => GuardrailsInv'
<1> SUFFICES ASSUME GuardrailsInv, [Config!Next]_(Config!vars) PROVE GuardrailsInv'
  OBVIOUS
<1>1. ASSUME NEW r \in Admins, Config!Abandon(r) PROVE GuardrailsInv'
  <2>1. /\ Config!Finish(r) /\ UNCHANGED <<bundle, activations, sequence, evidence>>
    BY <1>1 DEF Config!Abandon
  <2>2. /\ \A i \in 1..Len(activations') : Numbered(activations[i])'
        /\ Config!Committed' = Config!Committed /\ Config!EvidenceBound'
    BY <2>1, NothingCommitted DEF GuardrailsInv, GuardrailsTyped
  <2>3. GuardrailsTyped'
    BY <2>1, FinishRequest DEF GuardrailsInv, GuardrailsTyped, IsSequence
  <2>4. RequestsSound'
    BY <2>1, <2>2, FinishRequest DEF GuardrailsInv, RequestsSound, Numbered, InForce
  <2> QED
    BY <2>1, <2>2, <2>3, <2>4 DEF GuardrailsInv
<1>2. CASE UNCHANGED Config!vars
  <2>1. GuardrailsTyped' /\ RequestsSound' /\ Config!Committed' = Config!Committed
    BY <1>2 DEF Config!vars, GuardrailsInv, GuardrailsTyped, IsSequence, RequestsSound,
                Numbered, InForce, Config!Committed
  <2>2. Config!EvidenceBound' /\ \A i \in 1..Len(activations') : Numbered(activations[i])'
    BY <1>2 DEF Config!vars, GuardrailsInv, Numbered, Config!EvidenceBound
  <2> QED
    BY <1>2, <2>1, <2>2 DEF Config!vars, GuardrailsInv
<1> QED
  BY <1>1, <1>2, RegisterKeeps, AskServerKeeps, InsertActivationKeeps,
     CommitActivationKeeps, StartCheckKeeps, SaveEvidenceKeeps DEF Config!Next

(* The inductive invariant of guardrail configurations. *)
THEOREM GuardrailsInvariant == Config!Spec => []GuardrailsInv
BY GuardrailsInit, GuardrailsStepKeeps, PTL DEF Config!Spec

(* Activations of any number of requests have distinct numbers, and one    *)
(* that was requested after another had been committed comes after it.     *)
THEOREM ActivationsOrdered == Config!Spec => []ActivationOrder
<1>1. ASSUME GuardrailsInv PROVE ActivationOrder
  <2>1. DOMAIN activations = 1..Len(activations)
    BY <1>1 DEF GuardrailsInv, GuardrailsTyped, IsSequence
  <2>2. \A i \in DOMAIN activations : \A earlier \in activations[i].before :
            earlier < activations[i].sequence
    BY <1>1, <2>1 DEF GuardrailsInv, Numbered
  <2>3. Cardinality(Config!Committed) = Len(activations)
    BY <1>1 DEF GuardrailsInv
  <2>4. Config!Cardinality(Config!Committed) = Cardinality(Config!Committed)
    BY Zenon DEF Config!Cardinality, Cardinality
  <2> QED
    BY <2>2, <2>3, <2>4 DEF ActivationOrder, Config!ActivationOrder
<1> QED BY <1>1, GuardrailsInvariant, PTL

(* Evidence names the last activation committed when its check began, its  *)
(* version and the digest it is registered with, whatever was activated    *)
(* while the server answered.                                              *)
THEOREM EvidenceIsBound == Config!Spec => []Config!EvidenceBound
<1>1. GuardrailsInv => Config!EvidenceBound
  BY DEF GuardrailsInv
<1> QED BY <1>1, GuardrailsInvariant, PTL

-----------------------------------------------------------------------------
(* The efficacy report. *)

Labels == {"none", "pass_through", "intervention"}

(* A stored check has an answer and one of the three labels. *)
Labelled ==
    /\ IsSequence(evidence)
    /\ \A i \in 1..Len(evidence) :
          evidence[i].passed \in BOOLEAN /\ evidence[i].expected \in Labels

(* Only SaveEvidence adds a check. *)
LEMMA LabelledKept == Labelled /\ [Config!Next]_(Config!vars) => Labelled'
<1> SUFFICES ASSUME Labelled, [Config!Next]_(Config!vars) PROVE Labelled'
  OBVIOUS
<1>1. CASE UNCHANGED evidence
  BY <1>1 DEF Labelled, IsSequence
<1>2. ASSUME NEW r \in Admins, NEW passed \in BOOLEAN, NEW expected \in Labels,
             Config!SaveEvidence(r, passed, expected)
      PROVE  Labelled'
  <2> DEFINE n == Len(evidence)
             new == Config!Record(r, held[r], passed, expected)
  <2>1. evidence' = Append(evidence, new)
    BY <1>2 DEF Config!SaveEvidence
  <2>2. new.passed \in BOOLEAN /\ new.expected \in Labels
    BY DEF Config!Record
  <2> HIDE DEF new
  <2>3. /\ n \in Nat /\ IsSequence(evidence') /\ Len(evidence') = n + 1
        /\ \A i \in 1..n : evidence'[i] = evidence[i]
        /\ evidence'[n + 1] = new
    BY <2>1, AppendRow DEF Labelled, IsSequence
  <2>4. \A i \in 1..n : evidence[i].passed \in BOOLEAN /\ evidence[i].expected \in Labels
    BY DEF Labelled
  <2> HIDE DEF n
  <2>5. \A i \in 1..(n + 1) :
            evidence'[i].passed \in BOOLEAN /\ evidence'[i].expected \in Labels
    BY <2>2, <2>3, <2>4
  <2> QED BY <2>3, <2>5 DEF Labelled
<1>3. CASE Config!Next
  <2>1. CASE \E r \in Admins, passed \in BOOLEAN, expected \in Labels :
                Config!SaveEvidence(r, passed, expected)
    BY <1>2, <2>1
  <2>2. CASE UNCHANGED evidence
    BY <1>1, <2>2
  <2> QED BY <1>3, <2>1, <2>2
          DEF Config!Next, Config!Register, Config!AskServer, Config!InsertActivation,
              Config!CommitActivation, Config!StartCheck, Config!Abandon, Labels
<1> QED BY <1>1, <1>3 DEF Config!vars

(* Two disjoint sets of checks add up. *)
LEMMA PartsAddUp ==
  ASSUME NEW A, IsFiniteSet(A), NEW B, IsFiniteSet(B), A \cap B = {}
  PROVE  /\ Cardinality(A \cup B) = Cardinality(A) + Cardinality(B)
         /\ IsFiniteSet(A \cup B) /\ Cardinality(A) \in Nat /\ Cardinality(B) \in Nat
<1>1. /\ Cardinality(A \cup B) = Cardinality(A) + Cardinality(B) - Cardinality(A \cap B)
      /\ IsFiniteSet(A \cup B)
  BY FS_Union
<1>2. Cardinality(A) \in Nat /\ Cardinality(B) \in Nat /\ Cardinality({}) = 0
  BY FS_CardinalityType, FS_EmptySet
<1>3. Cardinality(A \cup B) = Cardinality(A) + Cardinality(B) - 0
  BY <1>1, <1>2
<1> QED BY <1>1, <1>2, <1>3

(* The cells of the confusion matrix of a version divide its labelled      *)
(* checks.                                                                 *)
LEMMA CellsAddUp ==
  ASSUME Labelled, NEW v
  PROVE  LET m == Config!Metrics(v) IN
         /\ m.tp + m.fp + m.tn + m.fn = m.labeled
         /\ m.accuracy = <<>> <=>
               \A i \in DOMAIN evidence :
                   evidence[i].version = v => evidence[i].expected = "none"
<1> DEFINE items == {i \in DOMAIN evidence : evidence[i].version = v}
           lab == {i \in items : evidence[i].expected # "none"}
           tp == {i \in items : ~evidence[i].passed /\ evidence[i].expected = "intervention"}
           fp == {i \in items : ~evidence[i].passed /\ evidence[i].expected = "pass_through"}
           tn == {i \in items : evidence[i].passed /\ evidence[i].expected = "pass_through"}
           fn == {i \in items : evidence[i].passed /\ evidence[i].expected = "intervention"}
           card(T) == Cardinality(T)
           m == Config!Metrics(v)
<1>0. \A T : Config!Cardinality(T) = Cardinality(T)
  BY Zenon DEF Config!Cardinality, Cardinality
<1>1. /\ m.labeled = Config!Cardinality(lab)
      /\ m.tp = Config!Cardinality(tp) /\ m.fp = Config!Cardinality(fp)
      /\ m.tn = Config!Cardinality(tn) /\ m.fn = Config!Cardinality(fn)
      /\ m.accuracy = IF m.labeled = 0 THEN <<>> ELSE <<m.tp + m.tn, m.labeled>>
  BY DEF Config!Metrics, Config!Count, Config!Group, Config!ExpectedPass,
         Config!ExpectedIntervention
<1>2. DOMAIN evidence = 1..Len(evidence) /\ Len(evidence) \in Nat
  BY DEF Labelled, IsSequence
<1>3. /\ lab \in SUBSET (1..Len(evidence)) /\ tp \in SUBSET lab /\ fp \in SUBSET lab
      /\ tn \in SUBSET lab /\ fn \in SUBSET lab
  BY <1>2
<1>4. /\ ((tp \cup fp) \cup tn) \cup fn = lab
      /\ tp \cap fp = {} /\ (tp \cup fp) \cap tn = {} /\ ((tp \cup fp) \cup tn) \cap fn = {}
  BY <1>2 DEF Labelled, Labels
<1>5. lab = {} <=> \A i \in DOMAIN evidence :
                       evidence[i].version = v => evidence[i].expected = "none"
  OBVIOUS
<1> HIDE DEF lab, tp, fp, tn, fn, m
<1>6. IsFiniteSet(lab)
  <2>1. IsFiniteSet(1..Len(evidence))
    BY <1>2, FS_Interval
  <2> QED BY <1>3, <2>1, FS_Subset
<1>7. IsFiniteSet(tp) /\ IsFiniteSet(fp) /\ IsFiniteSet(tn) /\ IsFiniteSet(fn)
  BY <1>3, <1>6, FS_Subset
<1>8. /\ card(tp \cup fp) = card(tp) + card(fp) /\ IsFiniteSet(tp \cup fp)
      /\ card(tp) \in Nat /\ card(fp) \in Nat
  BY <1>4, <1>7, PartsAddUp
<1>9. /\ card((tp \cup fp) \cup tn) = card(tp \cup fp) + card(tn)
      /\ IsFiniteSet((tp \cup fp) \cup tn) /\ card(tn) \in Nat
  BY <1>4, <1>7, <1>8, PartsAddUp
<1>10. /\ card(((tp \cup fp) \cup tn) \cup fn) = card((tp \cup fp) \cup tn) + card(fn)
       /\ card(fn) \in Nat
  BY <1>4, <1>7, <1>9, PartsAddUp
<1>11. card(tp) + card(fp) + card(tn) + card(fn) = card(lab)
  BY <1>4, <1>8, <1>9, <1>10
<1>12. m.tp + m.fp + m.tn + m.fn = m.labeled
  BY <1>0, <1>1, <1>11
<1>13. m.labeled = 0 <=> lab = {}
  BY <1>0, <1>1, <1>6, FS_EmptySet
<1>14. m.accuracy = <<>> <=> m.labeled = 0
  BY <1>1
<1> QED BY <1>5, <1>12, <1>13, <1>14 DEF m

(* Evidence is bound to the activation in force when its check read it,    *)
(* and the report of each version accounts for every labelled check once.  *)
THEOREM EvidenceIsSound == Config!Spec => []EvidenceSound
<1>1. Config!Init => Labelled
  BY DEF Config!Init, Labelled, IsSequence
<1>2. Config!Spec => []Labelled
  BY <1>1, LabelledKept, PTL DEF Config!Spec
<1>3. GuardrailsInv /\ Labelled => EvidenceSound
  BY CellsAddUp DEF GuardrailsInv, EvidenceSound, Config!EvidenceSound, Config!EfficacyAddsUp
<1> QED BY <1>2, <1>3, GuardrailsInvariant, PTL
=============================================================================
