----------------------------- MODULE Guardrails -----------------------------
(***************************************************************************)
(* The versions of one guardrail configuration of one tenant: immutable    *)
(* registrations, append-only activations whose order is a BIGSERIAL, and  *)
(* checks that read the active version, wait for NeMo Guardrails and then  *)
(* store evidence bound to what they read (store.py, api.py,               *)
(* guardrails.py).  Requests run concurrently.                             *)
(***************************************************************************)
EXTENDS Naturals, Sequences, FiniteSets

CONSTANTS
    Versions,
    Bundles,          \* bundle digests
    NoVersion,        \* none active, none asked for
    NoBundle,         \* a version that is not registered
    Requests,
    MaxActivations,   \* bound: activations attempted in one behaviour
    MaxEvidence       \* bound: checks stored in one behaviour

VARIABLES
    bundle,        \* guardrail_config_versions: the digest of each version
    activations,   \* guardrail_config_activations in the order of commits
    sequence,      \* last activation_sequence given out
    pc,            \* where each request is
    held,          \* the activation it inserts, or the one its check read
    evidence       \* guardrail_evidence

vars == <<bundle, activations, sequence, pc, held, evidence>>

(* An activation; before holds the numbers that had been committed when    *)
(* the request that inserts or reads it began, for the properties only.    *)
NoActivation == [sequence |-> 0, version |-> NoVersion, bundle |-> NoBundle,
                 before |-> {}]

Init ==
    /\ bundle = [v \in Versions |-> NoBundle]
    /\ activations = <<>>
    /\ sequence = 0
    /\ pc = [r \in Requests |-> "idle"]
    /\ held = [r \in Requests |-> NoActivation]
    /\ evidence = <<>>

Committed == {activations[i].sequence : i \in DOMAIN activations}

Finish(r) ==
    /\ pc' = [pc EXCEPT ![r] = "idle"]
    /\ held' = [held EXCEPT ![r] = NoActivation]

-----------------------------------------------------------------------------
(* Mutant: ON CONFLICT DO UPDATE. *)
RegisterAgain(v, b) ==
    /\ bundle' = [bundle EXCEPT ![v] = b]
    /\ UNCHANGED <<activations, sequence, pc, held, evidence>>

(* register_guardrail_config_version: a second registration of a version   *)
(* violates the primary key and is refused.                                *)
Register(v, b) ==
    /\ bundle[v] = NoBundle
    /\ bundle' = [bundle EXCEPT ![v] = b]
    /\ UNCHANGED <<activations, sequence, pc, held, evidence>>

(* The activation request, while the server still has to be asked whether  *)
(* it serves the configuration; any refusal or error is Abandon.           *)
AskServer(r, v) ==
    /\ pc[r] = "idle"
    /\ pc' = [pc EXCEPT ![r] = "asked"]
    /\ held' = [held EXCEPT ![r] = [NoActivation EXCEPT !.version = v,
                                                        !.before = Committed]]
    /\ UNCHANGED <<bundle, activations, sequence, evidence>>

(* Mutant: the number is taken before the server is asked. *)
EarlyNumber(r) == 1 + Cardinality(held[r].before)

(* nextval, which no rollback gives back. *)
NextNumber(r) == sequence + 1

(* activate_guardrail_config: the registered version and the INSERT. *)
InsertActivation(r) ==
    LET v == held[r].version IN
    /\ pc[r] = "asked"
    /\ bundle[v] # NoBundle
    /\ sequence < MaxActivations
    /\ sequence' = sequence + 1
    /\ held' = [held EXCEPT ![r].sequence = NextNumber(r), ![r].bundle = bundle[v]]
    /\ pc' = [pc EXCEPT ![r] = "inserted"]
    /\ UNCHANGED <<bundle, activations, evidence>>

CommitActivation(r) ==
    /\ pc[r] = "inserted"
    /\ activations' = Append(activations, held[r])
    /\ Finish(r)
    /\ UNCHANGED <<bundle, sequence, evidence>>

-----------------------------------------------------------------------------
(* get_active_guardrail_config: ORDER BY activation_sequence DESC LIMIT 1 *)
Active ==
    IF activations = <<>> THEN NoActivation
    ELSE activations[CHOOSE i \in DOMAIN activations :
            \A j \in DOMAIN activations :
                activations[j].sequence <= activations[i].sequence]

(* check_guardrails: the active version is read, and must be the one the   *)
(* caller asked for, if any; then NeMo Guardrails is called.               *)
StartCheck(r, asked) ==
    /\ pc[r] = "idle"
    /\ asked # NoVersion => Active.version = asked
    /\ pc' = [pc EXCEPT ![r] = "checking"]
    /\ held' = [held EXCEPT ![r] = [Active EXCEPT !.before = Committed]]
    /\ UNCHANGED <<bundle, activations, sequence, evidence>>

(* A stored check of activation a, which request r read. *)
Record(r, a, passed, expected) ==
    [activation |-> a.sequence, version |-> a.version, bundle |-> a.bundle,
     before |-> held[r].before, passed |-> passed, expected |-> expected]

(* Mutant: the active version is read again when the answer is there. *)
SaveEvidenceLate(r, passed, expected) ==
    /\ pc[r] = "checking"
    /\ Len(evidence) < MaxEvidence
    /\ evidence' = Append(evidence, Record(r, Active, passed, expected))
    /\ Finish(r)
    /\ UNCHANGED <<bundle, activations, sequence>>

(* Its answer passes the text through or intervenes; the evidence is       *)
(* stored with the caller's label and the activation read before the call. *)
SaveEvidence(r, passed, expected) ==
    /\ pc[r] = "checking"
    /\ Len(evidence) < MaxEvidence
    /\ evidence' = Append(evidence, Record(r, held[r], passed, expected))
    /\ Finish(r)
    /\ UNCHANGED <<bundle, activations, sequence>>

(* The request is refused, its call fails, or its process is lost; a       *)
(* number it took is lost with it.                                         *)
Abandon(r) ==
    /\ pc[r] # "idle"
    /\ Finish(r)
    /\ UNCHANGED <<bundle, activations, sequence, evidence>>

Next ==
    \/ \E v \in Versions, b \in Bundles : Register(v, b)
    \/ \E r \in Requests :
        \/ \E v \in Versions : AskServer(r, v)
        \/ InsertActivation(r) \/ CommitActivation(r)
        \/ \E asked \in Versions \cup {NoVersion} : StartCheck(r, asked)
        \/ \E passed \in BOOLEAN,
              expected \in {"none", "pass_through", "intervention"} :
                SaveEvidence(r, passed, expected)
        \/ Abandon(r)

Spec == Init /\ [][Next]_vars

-----------------------------------------------------------------------------
(* build_guardrail_efficacy_report: one group of records per version.  A   *)
(* record stands by its place, so that equal ones count each.              *)
Group(v) == {i \in DOMAIN evidence : evidence[i].version = v}

Count(items, Test(_)) == Cardinality({i \in items : Test(evidence[i])})

(* Mutant: checks without a label count as expected to pass. *)
ExpectedPassLoose(e) == e.expected # "intervention"

ExpectedPass(e) == e.expected = "pass_through"
ExpectedIntervention(e) == e.expected = "intervention"

Metrics(v) ==
    LET items == Group(v)
        labeled == Count(items, LAMBDA e : e.expected # "none")
        tp == Count(items, LAMBDA e : ~e.passed /\ ExpectedIntervention(e))
        fp == Count(items, LAMBDA e : ~e.passed /\ ExpectedPass(e))
        tn == Count(items, LAMBDA e : e.passed /\ ExpectedPass(e))
        fn == Count(items, LAMBDA e : e.passed /\ ExpectedIntervention(e))
        ratio(n, d) == IF d = 0 THEN <<>> ELSE <<n, d>>
    IN  [samples |-> Cardinality(items), labeled |-> labeled,
         tp |-> tp, fp |-> fp, tn |-> tn, fn |-> fn,
         accuracy |-> ratio(tp + tn, labeled),
         precision |-> ratio(tp, tp + fp),
         recall |-> ratio(tp, tp + fn),
         false_positive_rate |-> ratio(fp, fp + tn)]

-----------------------------------------------------------------------------
(* Registrations, requests and activations are well typed, and committed    *)
(* activations have numbers that were given out.                            *)
TypeOK ==
    /\ bundle \in [Versions -> Bundles \cup {NoBundle}]
    /\ sequence \in 0..MaxActivations
    /\ pc \in [Requests -> {"idle", "asked", "inserted", "checking"}]
    /\ \A i \in DOMAIN activations :
        /\ activations[i].version \in Versions
        /\ activations[i].sequence \in 1..sequence

(* Activations that do not overlap are ordered as they happened, although  *)
(* numbers are given out before commits and lost by rollbacks: a rollback  *)
(* requested after an activation returned replaces it.                     *)
ActivationOrder ==
    /\ Cardinality(Committed) = Len(activations)
    /\ \A i \in DOMAIN activations :
          \A earlier \in activations[i].before :
              earlier < activations[i].sequence

(* Evidence names the activation that was in force when its check began:   *)
(* of the activations committed by then the last one, with its version and *)
(* the digest that version is registered with; or none, when there was     *)
(* none.                                                                   *)
EvidenceBound ==
    \A i \in DOMAIN evidence :
        LET e == evidence[i] IN
        \/ /\ e.before = {}
           /\ e.activation = 0 /\ e.version = NoVersion /\ e.bundle = NoBundle
        \/ /\ e.activation \in e.before
           /\ \A s \in e.before : s <= e.activation
           /\ e.bundle = bundle[e.version]
           /\ \E j \in DOMAIN activations :
                /\ activations[j].sequence = e.activation
                /\ activations[j].version = e.version
                /\ activations[j].bundle = e.bundle

(* Every labelled check is in exactly one cell of the confusion matrix of  *)
(* its version, and a metric is null exactly when no check was labelled.   *)
EfficacyAddsUp ==
    \A v \in Versions \cup {NoVersion} :
        LET m == Metrics(v) IN
        /\ m.tp + m.fp + m.tn + m.fn = m.labeled
        /\ m.accuracy = <<>> <=>
              \A i \in DOMAIN evidence :
                  evidence[i].version = v => evidence[i].expected = "none"

(* "New checks automatically bind the active version, bundle digest, and   *)
(* activation ID" (docs/nemo-guardrails.md): the activation in force when  *)
(* the check read it, neither an older one nor one that was committed      *)
(* while the server was answering; and the efficacy report of each version *)
(* accounts for every labelled check of it once, with "a metric is null    *)
(* when its denominator is zero".                                          *)
EvidenceSound == EvidenceBound /\ EfficacyAddsUp
=============================================================================
