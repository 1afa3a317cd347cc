-------------------- MODULE CheckpointPublicationProofs ---------------------
(***************************************************************************)
(* What a receipt of CheckpointPublication is worth, for any number of     *)
(* destinations, publishers and checkpoints.  The argument: a publisher    *)
(* has visited the destinations before its index, each with a verified     *)
(* copy or with a failure, and nothing it found stored is ever deleted.    *)
(***************************************************************************)
EXTENDS CheckpointPublication, FiniteSetTheorems, TLAPS

FileStates == {"absent", "torn", "written", "synced"}

Visited(p) == {Sinks[i] : i \in 1..(next[p] - 1)}

(* The envelope an attempt publishes was signed. *)
EnvelopeSigned(p) == pc[p] # "idle" => envelope[p] \in 1..signed

(* The loop accounts for every destination before the index. *)
Accounted(p) ==
    /\ pc[p] \in {"put", "verify"} => copies[p] \cup failures[p] = Visited(p)
    /\ pc[p] = "report" => copies[p] \cup failures[p] = Destinations

(* A copy that was verified is stored where objects are retained. *)
CopiesVerified(p) ==
    /\ pc[p] = "verify" => envelope[p] \in objects[Destination(p)]
    /\ \A d \in copies[p] : d \notin Lax /\ envelope[p] \in objects[d]

(* Without a failing call only a destination without retention fails. *)
CleanFailures(p) == clean[p] => failures[p] \subseteq Lax

(* A publisher to the directory has no copies at the buckets. *)
FileFresh(p) == pc[p] \in {"open", "write", "sync"} => copies[p] = {}

AttemptInv(p) ==
    /\ EnvelopeSigned(p) /\ Accounted(p) /\ CopiesVerified(p) /\ CleanFailures(p)
    /\ FileFresh(p)

(* O_EXCL leaves one writer to each file, which finds it as it left it. *)
Writing(p) == pc[p] \in {"write", "sync"}

WritersAlone ==
    \A p \in Publishers :
        Writing(p) =>
            /\ files[envelope[p]] = (IF pc[p] = "write" THEN "torn" ELSE "written")
            /\ \A q \in Publishers \ {p} : Writing(q) => envelope[q] # envelope[p]

PublicationInv ==
    /\ TypeOK /\ ReceiptSound /\ WritersAlone
    /\ \A p \in Publishers : AttemptInv(p)

-----------------------------------------------------------------------------
(* The destinations are distinct. *)
LEMMA SinksDistinct ==
  /\ Len(Sinks) \in Nat \ {0}
  /\ \A i \in 1..Len(Sinks) : Sinks[i] \in Destinations
  /\ \A i, j \in 1..Len(Sinks) : Sinks[i] = Sinks[j] => i = j
<1>1. /\ Len(Sinks) \in Nat \ {0}
      /\ Sinks \in [1..Len(Sinks) -> Destinations]
  BY ConstantsAssumption
<1>2. Sinks \in Surjection(1..Len(Sinks), Destinations)
  BY <1>1 DEF Surjection, Destinations
<1>3. IsFiniteSet(1..Len(Sinks)) /\ Cardinality(1..Len(Sinks)) = Len(Sinks)
  BY <1>1, FS_Interval
<1>4. Sinks \in Injection(1..Len(Sinks), Destinations)
  BY <1>2, <1>3, FS_SurjSameCardinalityImpliesInj, ConstantsAssumption
<1>5. \A i, j \in 1..Len(Sinks) : Sinks[i] = Sinks[j] => i = j
  BY <1>1, <1>4 DEF Injection, IsInjective
<1> QED BY <1>1, <1>5

(* No request has been made. *)
LEMMA InitInv == Init => PublicationInv
<1> SUFFICES ASSUME Init PROVE PublicationInv
  OBVIOUS
<1> USE ConstantsAssumption, SinksDistinct
<1>1. TypeOK
  BY DEF Init, TypeOK
<1>2. ReceiptSound
  BY DEF Init, ReceiptSound, CopiesRetained, FilesComplete
<1>3. \A p \in Publishers : AttemptInv(p)
  BY DEF Init, AttemptInv, EnvelopeSigned, Accounted, CopiesVerified, CleanFailures, FileFresh
<1>4. WritersAlone
  BY DEF Init, WritersAlone, Writing
<1> QED BY <1>1, <1>2, <1>3, <1>4 DEF PublicationInv

(* The others' attempts are not disturbed: objects and envelopes are never *)
(* deleted.                                                                *)
LEMMA OthersKept ==
  ASSUME PublicationInv, NEW p \in Publishers,
         pc'[p] = pc[p], envelope'[p] = envelope[p], next'[p] = next[p],
         copies'[p] = copies[p], failures'[p] = failures[p], clean'[p] = clean[p],
         signed' \in Nat, signed <= signed',
         \A d \in Destinations : objects[d] \subseteq objects'[d]
  PROVE  AttemptInv(p)'
<1>0. AttemptInv(p) /\ signed \in Nat
  BY ConstantsAssumption DEF PublicationInv, TypeOK
<1>1. EnvelopeSigned(p)'
  BY <1>0 DEF AttemptInv, EnvelopeSigned
<1>2. Accounted(p)'
  BY <1>0 DEF AttemptInv, Accounted, Visited
<1>3. CopiesVerified(p)'
  <2>1. pc[p] = "verify" => Destination(p) \in Destinations
    BY SinksDistinct DEF Destination, PublicationInv, TypeOK
  <2>2. copies[p] \subseteq Destinations
    BY DEF PublicationInv, TypeOK
  <2>3. Destination(p)' = Destination(p)
    BY DEF Destination
  <2> QED BY <1>0, <2>1, <2>2, <2>3 DEF AttemptInv, CopiesVerified
<1>4. CleanFailures(p)' /\ FileFresh(p)'
  BY <1>0 DEF AttemptInv, CleanFailures, FileFresh
<1> QED BY <1>1, <1>2, <1>3, <1>4 DEF AttemptInv

(* Who does not touch the files disturbs no writer. *)
LEMMA WritersKept ==
  ASSUME PublicationInv, files' = files,
         \A q \in Publishers : pc'[q] \in {"write", "sync"} =>
            pc'[q] = pc[q] /\ envelope'[q] = envelope[q]
  PROVE  WritersAlone'
BY DEF PublicationInv, WritersAlone, Writing

(* A receipt stays true. *)
LEMMA ReceiptsKept ==
  ASSUME PublicationInv, receipts' = receipts,
         \A d \in Destinations : objects[d] \subseteq objects'[d]
  PROVE  CopiesRetained'
BY DEF PublicationInv, ReceiptSound, CopiesRetained

(* The request of an envelope. *)
LEMMA StartKeeps ==
  ASSUME PublicationInv, NEW p \in Publishers, ReuseCheckpoint(p) \/ NewCheckpoint(p)
  PROVE  PublicationInv'
<1> USE SinksDistinct, ConstantsAssumption DEF FileStates
<1>1. PICK c \in 1..signed' : Start(p, c)
  BY DEF ReuseCheckpoint, NewCheckpoint, PublicationInv, TypeOK
<1>2. signed' \in 0..MaxCheckpoints /\ signed <= signed' /\ window' \in {0, signed'}
      /\ signed \in Nat
  BY DEF ReuseCheckpoint, NewCheckpoint, PublicationInv, TypeOK
<1>3. PICK sink \in {"put", "open"} : pc' = [pc EXCEPT ![p] = sink]
  BY <1>1 DEF Start
<1>4. /\ envelope' = [envelope EXCEPT ![p] = c]
      /\ next' = [next EXCEPT ![p] = 1]
      /\ copies' = [copies EXCEPT ![p] = {}]
      /\ failures' = [failures EXCEPT ![p] = {}]
      /\ clean' = [clean EXCEPT ![p] = TRUE]
      /\ UNCHANGED <<objects, receipts, files, exported, found, lost>>
  BY <1>1 DEF Start, fileVars
<1>5. TypeOK'
  <2>1. 1..signed \subseteq 1..signed' /\ 0..signed \subseteq 0..signed' /\ c \in 0..signed'
    BY <1>2
  <2>2. objects' \in [Destinations -> SUBSET (1..signed')] /\ exported' \subseteq 1..signed'
        /\ found' \subseteq 1..signed' /\ lost' \subseteq 1..MaxCheckpoints
    BY <1>4, <2>1 DEF PublicationInv, TypeOK
  <2>3. envelope' \in [Publishers -> 0..signed']
    BY <1>4, <2>1 DEF PublicationInv, TypeOK
  <2>4. /\ pc' \in [Publishers -> {"idle", "put", "verify", "report", "open", "write", "sync"}]
        /\ next' \in [Publishers -> 1..(Len(Sinks) + 1)]
        /\ copies' \in [Publishers -> SUBSET Destinations]
        /\ failures' \in [Publishers -> SUBSET Destinations]
        /\ clean' \in [Publishers -> BOOLEAN]
        /\ files' \in [1..MaxCheckpoints -> FileStates]
    BY <1>3, <1>4 DEF PublicationInv, TypeOK
  <2>5. \A q \in Publishers :
          /\ pc'[q] \in {"put", "verify"} => next'[q] <= Len(Sinks)
          /\ copies'[q] \cap failures'[q] = {}
    BY <1>3, <1>4 DEF PublicationInv, TypeOK
  <2> QED BY <1>2, <2>2, <2>3, <2>4, <2>5 DEF TypeOK
<1>6. ReceiptSound'
  BY <1>4, ReceiptsKept DEF PublicationInv, ReceiptSound, FilesComplete
<1>7. AttemptInv(p)'
  BY <1>2, <1>3, <1>4 DEF PublicationInv, TypeOK, AttemptInv, EnvelopeSigned, Accounted, Visited,
                   CopiesVerified, CleanFailures, FileFresh
<1>8. ASSUME NEW q \in Publishers, q # p PROVE AttemptInv(q)'
  <2>1. /\ pc'[q] = pc[q] /\ envelope'[q] = envelope[q] /\ next'[q] = next[q]
        /\ copies'[q] = copies[q] /\ failures'[q] = failures[q] /\ clean'[q] = clean[q]
    BY <1>3, <1>4, <1>8 DEF PublicationInv, TypeOK
  <2>2. signed' \in Nat /\ signed <= signed'
    BY <1>2
  <2>3. \A d \in Destinations : objects[d] \subseteq objects'[d]
    BY <1>4
  <2> QED BY <2>1, <2>2, <2>3, OthersKept
<1>9. WritersAlone'
  BY <1>3, <1>4, WritersKept DEF PublicationInv, TypeOK
<1> QED BY <1>5, <1>6, <1>7, <1>8, <1>9 DEF PublicationInv

(* Storing the envelope keeps the objects typed and deletes nothing. *)
LEMMA StoreGrows ==
  ASSUME PublicationInv, NEW p \in Publishers, pc[p] \in {"put", "verify"},
         Store(p) \/ UNCHANGED objects
  PROVE  /\ objects' \in [Destinations -> SUBSET (1..signed)]
         /\ \A d \in Destinations : objects[d] \subseteq objects'[d]
         /\ Store(p) => envelope[p] \in objects'[Destination(p)]
<1>1. Destination(p) \in Destinations
  BY SinksDistinct DEF PublicationInv, TypeOK, Destination
<1>2. envelope[p] \in 1..signed
  BY DEF PublicationInv, AttemptInv, EnvelopeSigned
<1>3. CASE UNCHANGED objects /\ ~Store(p)
  BY <1>3 DEF PublicationInv, TypeOK
<1>4. CASE Store(p)
  BY <1>1, <1>2, <1>4 DEF PublicationInv, TypeOK, Store
<1> QED BY <1>3, <1>4

(* A destination is done with: its copy was verified, or it has failed. *)
LEMMA AdvanceKeeps ==
  ASSUME PublicationInv, NEW p \in Publishers, pc[p] \in {"put", "verify"},
         Advance(p), Store(p) \/ UNCHANGED objects,
         UNCHANGED <<signed, window, envelope, receipts, fileVars>>,
         \/ /\ Destination(p) \notin Lax
            /\ envelope[p] \in objects[Destination(p)]
            /\ copies' = [copies EXCEPT ![p] = @ \cup {Destination(p)}]
            /\ UNCHANGED <<failures, clean>>
         \/ /\ failures' = [failures EXCEPT ![p] = @ \cup {Destination(p)}]
            /\ \/ clean' = [clean EXCEPT ![p] = FALSE]
               \/ UNCHANGED clean /\ Destination(p) \in Lax
            /\ UNCHANGED copies
  PROVE  PublicationInv'
<1> USE SinksDistinct DEF FileStates
<1> DEFINE d == Destination(p)
<1>0. TypeOK /\ AttemptInv(p)
  BY DEF PublicationInv
<1>1. /\ next[p] \in 1..Len(Sinks) /\ d \in Destinations /\ d \notin Visited(p)
      /\ Visited(p) \cup {d} = {Sinks[i] : i \in 1..next[p]}
  <2>1. next[p] \in 1..Len(Sinks) /\ d = Sinks[next[p]]
    BY <1>0 DEF TypeOK, Destination
  <2>2. d \in Destinations /\ d \notin Visited(p)
    BY <2>1 DEF Visited
  <2>3. 1..next[p] = 1..(next[p] - 1) \cup {next[p]}
    BY <2>1
  <2> QED BY <2>1, <2>2, <2>3 DEF Visited
<1>2. copies[p] \cup failures[p] = Visited(p)
  BY <1>0 DEF AttemptInv, Accounted
<1>3. /\ next' = [next EXCEPT ![p] = @ + 1]
      /\ pc' = [pc EXCEPT ![p] = IF next[p] = Len(Sinks) THEN "report" ELSE "put"]
  BY DEF Advance
<1>4. /\ objects' \in [Destinations -> SUBSET (1..signed)]
      /\ \A e \in Destinations : objects[e] \subseteq objects'[e]
  BY StoreGrows
<1>5. TypeOK'
  <2>1. /\ signed' \in 0..MaxCheckpoints /\ window' \in {0, signed'}
        /\ objects' \in [Destinations -> SUBSET (1..signed')]
        /\ files' \in [1..MaxCheckpoints -> FileStates]
        /\ exported' \subseteq 1..signed' /\ found' \subseteq 1..signed'
        /\ lost' \subseteq 1..MaxCheckpoints
        /\ envelope' \in [Publishers -> 0..signed']
    BY <1>0, <1>4 DEF TypeOK, fileVars
  <2>2. /\ pc' \in [Publishers -> {"idle", "put", "verify", "report", "open", "write", "sync"}]
        /\ next' \in [Publishers -> 1..(Len(Sinks) + 1)]
    BY <1>0, <1>1, <1>3 DEF TypeOK
  <2>3. /\ copies' \in [Publishers -> SUBSET Destinations]
        /\ failures' \in [Publishers -> SUBSET Destinations]
    <3> HIDE DEF d
    <3>1. CASE copies' = [copies EXCEPT ![p] = @ \cup {d}] /\ UNCHANGED failures
      BY <1>0, <1>1, <3>1 DEF TypeOK
    <3>2. CASE failures' = [failures EXCEPT ![p] = @ \cup {d}] /\ UNCHANGED copies
      BY <1>0, <1>1, <3>2 DEF TypeOK
    <3> QED BY <3>1, <3>2 DEF d
  <2>4. clean' \in [Publishers -> BOOLEAN]
    BY <1>0 DEF TypeOK
  <2>5. \A q \in Publishers : pc'[q] \in {"put", "verify"} => next'[q] <= Len(Sinks)
    BY <1>0, <1>1, <1>3 DEF TypeOK
  <2>6. \A q \in Publishers : copies'[q] \cap failures'[q] = {}
    <3> HIDE DEF d
    <3>0. d \notin copies[p] /\ d \notin failures[p]
      BY <1>1, <1>2
    <3>1. CASE copies' = [copies EXCEPT ![p] = @ \cup {d}] /\ UNCHANGED failures
      BY <1>0, <3>0, <3>1 DEF TypeOK
    <3>2. CASE failures' = [failures EXCEPT ![p] = @ \cup {d}] /\ UNCHANGED copies
      BY <1>0, <3>0, <3>2 DEF TypeOK
    <3> QED BY <3>1, <3>2 DEF d
  <2> QED BY <2>1, <2>2, <2>3, <2>4, <2>5, <2>6 DEF TypeOK
<1>6. ReceiptSound'
  BY <1>4, ReceiptsKept DEF PublicationInv, ReceiptSound, FilesComplete, fileVars
<1>7. AttemptInv(p)'
  <2>1. copies'[p] \cup failures'[p] = Visited(p) \cup {d}
    BY <1>0, <1>2 DEF TypeOK
  <2>2. next'[p] = next[p] + 1 /\ pc'[p] = IF next[p] = Len(Sinks) THEN "report" ELSE "put"
    BY <1>0, <1>3 DEF TypeOK
  <2>3. Visited(p)' = Visited(p) \cup {d}
    <3>1. next'[p] - 1 = next[p]
      BY <1>1, <2>2
    <3> QED BY <1>1, <3>1 DEF Visited
  <2>4. Accounted(p)'
    BY <1>1, <2>1, <2>2, <2>3 DEF Accounted, Destinations
  <2>5. EnvelopeSigned(p)'
    BY <1>0 DEF AttemptInv, EnvelopeSigned
  <2>6. CopiesVerified(p)'
    <3>1. \A e \in copies'[p] : e \in Destinations /\ e \notin Lax /\ envelope[p] \in objects[e]
      BY <1>0, <1>1 DEF TypeOK, AttemptInv, CopiesVerified
    <3> QED BY <1>4, <2>2, <3>1 DEF CopiesVerified
  <2>7. CleanFailures(p)' /\ FileFresh(p)'
    BY <1>0, <2>2 DEF TypeOK, AttemptInv, CleanFailures, FileFresh
  <2> QED BY <2>4, <2>5, <2>6, <2>7 DEF AttemptInv
<1>8. ASSUME NEW q \in Publishers, q # p PROVE AttemptInv(q)'
  <2>1. /\ pc'[q] = pc[q] /\ envelope'[q] = envelope[q] /\ next'[q] = next[q]
        /\ copies'[q] = copies[q] /\ failures'[q] = failures[q] /\ clean'[q] = clean[q]
    BY <1>0, <1>3, <1>8 DEF TypeOK
  <2>2. signed' \in Nat /\ signed <= signed'
    BY <1>0, ConstantsAssumption DEF TypeOK
  <2> QED BY <1>4, <2>1, <2>2, OthersKept
<1>9. WritersAlone'
  BY <1>0, <1>3, WritersKept DEF TypeOK, fileVars
<1> QED BY <1>5, <1>6, <1>7, <1>8, <1>9 DEF PublicationInv

(* The PUT, and the read-back. *)
LEMMA SinkKeeps ==
  ASSUME PublicationInv, NEW p \in Publishers, PutObject(p) \/ VerifyCopy(p)
  PROVE  PublicationInv'
<1> USE SinksDistinct
<1>0. TypeOK /\ AttemptInv(p)
  BY DEF PublicationInv
<1>1. CASE VerifyCopy(p)
  <2>1. pc[p] = "verify" /\ envelope[p] \in objects[Destination(p)]
    BY <1>0, <1>1 DEF VerifyCopy, AttemptInv, CopiesVerified
  <2>2. Advance(p) /\ UNCHANGED <<signed, window, objects, envelope, receipts, fileVars>>
    BY <1>1 DEF VerifyCopy, SinkFails
  <2>3. \/ /\ Destination(p) \notin Lax
           /\ copies' = [copies EXCEPT ![p] = @ \cup {Destination(p)}]
           /\ UNCHANGED <<failures, clean>>
        \/ /\ failures' = [failures EXCEPT ![p] = @ \cup {Destination(p)}]
           /\ \/ clean' = [clean EXCEPT ![p] = FALSE]
              \/ UNCHANGED clean /\ Destination(p) \in Lax
           /\ UNCHANGED copies
    BY <1>1 DEF VerifyCopy, SinkFails, Retained
  <2> QED BY <2>1, <2>2, <2>3, AdvanceKeeps
<1>2. CASE PutObject(p) /\ SinkFails(p) /\ clean' = [clean EXCEPT ![p] = FALSE]
                       /\ (Store(p) \/ UNCHANGED objects)
  BY <1>2, AdvanceKeeps DEF PutObject, SinkFails
<1>3. CASE /\ PutObject(p)
           /\ pc' = [pc EXCEPT ![p] = "verify"]
           /\ envelope[p] \in objects'[Destination(p)]
           /\ Store(p) \/ UNCHANGED objects
           /\ UNCHANGED <<next, copies, failures, clean>>
  <2>1. pc[p] = "put" /\ UNCHANGED <<signed, window, envelope, receipts, files, exported,
                                   found, lost>>
    BY <1>3 DEF PutObject, fileVars
  <2>2. /\ objects' \in [Destinations -> SUBSET (1..signed)]
        /\ \A e \in Destinations : objects[e] \subseteq objects'[e]
    BY <1>3, <2>1, StoreGrows
  <2>3. TypeOK'
    BY <1>0, <1>3, <2>1, <2>2 DEF TypeOK
  <2>4. ReceiptSound'
    BY <2>1, <2>2, ReceiptsKept DEF PublicationInv, ReceiptSound, FilesComplete
  <2>5. AttemptInv(p)'
    <3>1. EnvelopeSigned(p)' /\ CleanFailures(p)' /\ Accounted(p)' /\ FileFresh(p)'
      BY <1>0, <1>3, <2>1 DEF TypeOK, AttemptInv, EnvelopeSigned, CleanFailures, Accounted, Visited,
                              FileFresh
    <3>2. CopiesVerified(p)'
      <4>1. copies[p] \subseteq Destinations
        BY <1>0 DEF TypeOK
      <4>2. Destination(p)' = Destination(p)
        BY <1>3 DEF Destination
      <4> QED BY <1>0, <1>3, <2>1, <2>2, <4>1, <4>2 DEF AttemptInv, CopiesVerified
    <3> QED BY <3>1, <3>2 DEF AttemptInv
  <2>6. ASSUME NEW q \in Publishers, q # p PROVE AttemptInv(q)'
    <3>1. pc'[q] = pc[q]
      BY <1>0, <1>3, <2>6 DEF TypeOK
    <3>2. signed' \in Nat /\ signed <= signed'
      BY <1>0, <2>1, ConstantsAssumption DEF TypeOK
    <3> QED BY <1>3, <2>1, <2>2, <3>1, <3>2, OthersKept
  <2>7. WritersAlone'
    BY <1>0, <1>3, <2>1, WritersKept DEF TypeOK
  <2> QED BY <2>3, <2>4, <2>5, <2>6, <2>7 DEF PublicationInv
<1>4. CASE PutObject(p)
  <2>1. Store(p) => envelope[p] \in objects'[Destination(p)]
    BY <1>4, StoreGrows DEF PutObject
  <2> QED BY <1>2, <1>3, <1>4, <2>1 DEF PutObject, AlreadyStored
<1> QED BY <1>1, <1>4

(* A request that returns or is lost leaves an idle publisher behind, and  *)
(* the others as they were.                                                *)
LEMMA LeaveKeeps ==
  ASSUME PublicationInv, NEW p \in Publishers, Leave(p), UNCHANGED <<signed, objects>>
  PROVE  /\ pc' \in [Publishers -> {"idle", "put", "verify", "report", "open", "write", "sync"}]
         /\ envelope' \in [Publishers -> 0..signed]
         /\ next' \in [Publishers -> 1..(Len(Sinks) + 1)]
         /\ copies' \in [Publishers -> SUBSET Destinations]
         /\ failures' \in [Publishers -> SUBSET Destinations]
         /\ clean' \in [Publishers -> BOOLEAN]
         /\ \A q \in Publishers :
              /\ pc'[q] \in {"put", "verify"} => next'[q] <= Len(Sinks)
              /\ copies'[q] \cap failures'[q] = {}
         /\ \A q \in Publishers : AttemptInv(q)'
         /\ \A q \in Publishers : pc'[q] # "idle" =>
              q # p /\ pc'[q] = pc[q] /\ envelope'[q] = envelope[q]
<1> USE SinksDistinct
<1>0. TypeOK /\ signed \in Nat
  BY ConstantsAssumption DEF PublicationInv, TypeOK
<1>1. /\ pc' \in [Publishers -> {"idle", "put", "verify", "report", "open", "write", "sync"}]
      /\ envelope' \in [Publishers -> 0..signed]
      /\ next' \in [Publishers -> 1..(Len(Sinks) + 1)]
      /\ copies' \in [Publishers -> SUBSET Destinations]
      /\ failures' \in [Publishers -> SUBSET Destinations]
      /\ clean' \in [Publishers -> BOOLEAN]
  BY <1>0 DEF Leave, TypeOK
<1>2. /\ pc'[p] = "idle" /\ copies'[p] = {} /\ failures'[p] = {}
      /\ \A q \in Publishers \ {p} :
            /\ pc'[q] = pc[q] /\ envelope'[q] = envelope[q] /\ next'[q] = next[q]
            /\ copies'[q] = copies[q] /\ failures'[q] = failures[q] /\ clean'[q] = clean[q]
  BY <1>0 DEF Leave, TypeOK
<1>3. \A q \in Publishers :
         /\ pc'[q] \in {"put", "verify"} => next'[q] <= Len(Sinks)
         /\ copies'[q] \cap failures'[q] = {}
  BY <1>0, <1>2 DEF TypeOK
<1>4. AttemptInv(p)'
  BY <1>2 DEF AttemptInv, EnvelopeSigned, Accounted, CopiesVerified, CleanFailures, FileFresh
<1>5. ASSUME NEW q \in Publishers, q # p PROVE AttemptInv(q)'
  <2>1. signed' \in Nat /\ signed <= signed'
    BY <1>0
  <2>2. \A d \in Destinations : objects[d] \subseteq objects'[d]
    OBVIOUS
  <2> QED BY <1>2, <1>5, <2>1, <2>2, OthersKept
<1> QED BY <1>1, <1>2, <1>3, <1>4, <1>5

(* The decision of the policy. *)
LEMMA ReportKeeps ==
  ASSUME PublicationInv, NEW p \in Publishers, Report(p)
  PROVE  PublicationInv'
<1>0. TypeOK /\ AttemptInv(p)
  BY DEF PublicationInv
<1>1. /\ pc[p] = "report" /\ Leave(p)
      /\ UNCHANGED <<signed, window, objects, files, exported, found, lost>>
  BY DEF Report, fileVars
<1>2. TypeOK'
  BY <1>0, <1>1, LeaveKeeps DEF TypeOK
<1>3. ReceiptSound'
  <2>0. FilesComplete'
    BY <1>1 DEF PublicationInv, ReceiptSound, FilesComplete
  <2>1. CASE ~DurabilityMet(p)
    BY <1>1, <2>0, <2>1, ReceiptsKept DEF Report, ReceiptSound
  <2>2. CASE DurabilityMet(p)
    <3> DEFINE new == [checkpoint |-> envelope[p], copies |-> copies[p], failed |-> failures[p]]
    <3>1. receipts' = receipts \cup {new}
      BY <2>2 DEF Report
    <3>2. /\ Cardinality(new.copies) >= RequiredCopies
          /\ \A e \in new.copies : e \notin Lax /\ new.checkpoint \in objects[e]
          /\ new.copies \cap new.failed = {}
          /\ new.copies \cup new.failed = Destinations
      BY <1>0, <1>1, <2>2 DEF DurabilityMet, TypeOK, AttemptInv, CopiesVerified, Accounted
    <3> HIDE DEF new
    <3>3. CopiesRetained'
      BY <1>1, <3>1, <3>2 DEF PublicationInv, ReceiptSound, CopiesRetained
    <3> QED BY <2>0, <3>3 DEF ReceiptSound
  <2> QED BY <2>1, <2>2
<1>4. WritersAlone'
  BY <1>1, LeaveKeeps, WritersKept
<1> QED BY <1>1, <1>2, <1>3, <1>4, LeaveKeeps DEF PublicationInv

(* A request that is lost. *)
LEMMA CrashKeeps ==
  ASSUME PublicationInv, NEW p \in Publishers, Crash(p)
  PROVE  PublicationInv'
<1>1. /\ Leave(p)
      /\ UNCHANGED <<signed, window, objects, receipts, files, exported, found, lost>>
  BY DEF Crash, fileVars
<1>2. TypeOK'
  BY <1>1, LeaveKeeps DEF PublicationInv, TypeOK
<1>3. ReceiptSound'
  BY <1>1, ReceiptsKept DEF PublicationInv, ReceiptSound, FilesComplete
<1>4. WritersAlone'
  BY <1>1, LeaveKeeps, WritersKept
<1> QED BY <1>1, <1>2, <1>3, <1>4, LeaveKeeps DEF PublicationInv

(* What a publisher does to the file of its envelope: it creates it, fills *)
(* it, syncs it and reports it, or finds it complete and reports it.       *)
LEMMA FileKeeps ==
  ASSUME PublicationInv, NEW p \in Publishers, OpenFile(p) \/ WriteFile(p) \/ SyncFile(p)
  PROVE  PublicationInv'
<1> USE DEF FileStates
<1> DEFINE c == envelope[p]
<1>0. TypeOK /\ AttemptInv(p) /\ pc[p] # "idle"
  BY DEF PublicationInv, OpenFile, WriteFile, SyncFile
<1>1. UNCHANGED <<signed, window, objects, receipts, lost>>
  BY DEF OpenFile, WriteFile, SyncFile
<1>2. c \in 1..signed /\ 1..signed \subseteq 1..MaxCheckpoints
  BY <1>0, ConstantsAssumption DEF TypeOK, AttemptInv, EnvelopeSigned
<1>w. Writing(p) => /\ files[c] = (IF pc[p] = "write" THEN "torn" ELSE "written")
                    /\ \A q \in Publishers \ {p} : Writing(q) => envelope[q] # c
  BY DEF PublicationInv, WritersAlone
<1>3. \/ /\ files' = files /\ exported' = exported
         /\ found' \subseteq found \cup {x \in {c} : files[x] \in {"written", "synced"}}
      \/ /\ files[c] = "absent" /\ files' = [files EXCEPT ![c] = "torn"]
         /\ exported' = exported /\ found' = found
      \/ /\ files[c] # "synced" /\ files' = [files EXCEPT ![c] = "written"]
         /\ exported' = exported /\ found' = found
      \/ /\ files' = [files EXCEPT ![c] = "synced"]
         /\ exported' \subseteq exported \cup {c} /\ found' = found
  BY <1>w DEF OpenFile, WriteFile, SyncFile, Becomes, SameBytes, Writing
<1>4. /\ files' \in [1..MaxCheckpoints -> FileStates]
      /\ exported' \subseteq 1..signed /\ found' \subseteq 1..signed
  <2> HIDE DEF c
  <2> QED BY <1>0, <1>2, <1>3 DEF TypeOK
<1>5. FilesComplete'
  <2> HIDE DEF c
  <2>1. /\ \A x \in exported : files[x] = "synced"
        /\ \A x \in found : files[x] \in {"written", "synced"} \/ x \in lost
        /\ exported \subseteq 1..MaxCheckpoints /\ found \subseteq 1..MaxCheckpoints
        /\ c \in 1..MaxCheckpoints /\ files \in [1..MaxCheckpoints -> FileStates]
    BY <1>0, <1>2 DEF PublicationInv, ReceiptSound, FilesComplete, TypeOK
  <2> QED BY <1>1, <1>3, <2>1 DEF FilesComplete
<1>6. ReceiptSound'
  BY <1>1, <1>5, ReceiptsKept DEF ReceiptSound
<1>7. CASE Leave(p)
  <2>1. TypeOK'
    BY <1>0, <1>1, <1>4, <1>7, LeaveKeeps DEF TypeOK
  <2>2. \A q \in Publishers : Writing(q)' =>
            q # p /\ Writing(q) /\ pc'[q] = pc[q] /\ envelope'[q] = envelope[q]
    BY <1>1, <1>7, LeaveKeeps DEF Writing
  <2>3. CASE files' = files
    BY <1>1, <1>7, <2>3, LeaveKeeps, WritersKept, <1>6, <2>1 DEF PublicationInv
  <2>4. CASE files' # files
    <3>1. Writing(p) /\ \A x \in 1..MaxCheckpoints : x # c => files'[x] = files[x]
      BY <1>0, <1>7, <2>4 DEF OpenFile, WriteFile, SyncFile, Becomes, Writing, TypeOK, Leave
    <3>2. \A q \in Publishers : Writing(q) => envelope[q] \in 1..MaxCheckpoints
      BY <1>2 DEF PublicationInv, AttemptInv, EnvelopeSigned, Writing
    <3>3. WritersAlone'
      BY <1>w, <2>2, <3>1, <3>2 DEF PublicationInv, WritersAlone
    <3> QED BY <1>1, <1>6, <1>7, <2>1, <3>3, LeaveKeeps DEF PublicationInv
  <2> QED BY <2>3, <2>4
<1>8. CASE /\ UNCHANGED attemptVars
           /\ pc' = [pc EXCEPT ![p] = "write"] \/ pc' = [pc EXCEPT ![p] = "sync"]
  <2>1. TypeOK'
    BY <1>0, <1>1, <1>4, <1>8 DEF TypeOK, attemptVars
  <2>2. \A q \in Publishers : AttemptInv(q)'
    <3>1. pc[p] \in {"open", "write", "sync"}
      BY DEF OpenFile, WriteFile, SyncFile
    <3> QED
      BY <1>0, <1>1, <1>8, <3>1 DEF PublicationInv, TypeOK, attemptVars, AttemptInv,
         EnvelopeSigned, Accounted, Visited, CopiesVerified, CleanFailures, FileFresh, Destination
  <2>3. /\ pc'[p] \in {"write", "sync"} /\ envelope' = envelope
        /\ files'[c] = (IF pc'[p] = "write" THEN "torn" ELSE "written")
        /\ \A x \in 1..MaxCheckpoints : x # c => files'[x] = files[x]
        /\ Writing(p) \/ files[c] = "absent"
    BY <1>0, <1>2, <1>8 DEF OpenFile, WriteFile, SyncFile, Becomes, Leave, Writing, TypeOK,
                            attemptVars
  <2>4. \A q \in Publishers \ {p} : pc'[q] = pc[q]
    BY <1>0, <1>8 DEF TypeOK
  <2>5. \A q \in Publishers \ {p} : Writing(q) =>
            /\ envelope[q] \in 1..MaxCheckpoints /\ envelope[q] # c
            /\ files[envelope[q]] = (IF pc[q] = "write" THEN "torn" ELSE "written")
            /\ \A q2 \in Publishers \ {q} : Writing(q2) => envelope[q2] # envelope[q]
    BY <1>2, <1>w, <2>3 DEF PublicationInv, WritersAlone, AttemptInv, EnvelopeSigned, Writing
  <2>6. WritersAlone'
    <3> HIDE DEF c
    <3> SUFFICES ASSUME NEW q \in Publishers, Writing(q)'
                 PROVE  /\ files'[envelope[q]] = (IF pc'[q] = "write" THEN "torn" ELSE "written")
                        /\ \A q2 \in Publishers \ {q} :
                              Writing(q2)' => envelope[q2] # envelope[q]
      BY <2>3 DEF WritersAlone
    <3>1. CASE q = p
      BY <2>3, <2>4, <2>5, <3>1 DEF Writing, c
    <3>2. CASE q # p
      BY <2>3, <2>4, <2>5, <3>2 DEF Writing, c
    <3> QED BY <3>1, <3>2
  <2> QED BY <1>6, <2>1, <2>2, <2>6 DEF PublicationInv
<1> QED BY <1>7, <1>8 DEF OpenFile, WriteFile, SyncFile

(* The host fails: no synced file is touched, and what went is noted.      *)
LEMMA HostFailsKeeps ==
  ASSUME PublicationInv, HostFails PROVE PublicationInv'
<1> USE DEF FileStates
<1>0. TypeOK
  BY DEF PublicationInv
<1>1. /\ UNCHANGED <<signed, window, objects, next, copies, failures, clean, receipts, exported,
                     found>>
      /\ files' \in [1..MaxCheckpoints -> FileStates]
      /\ \A c \in 1..MaxCheckpoints : files'[c] \in Surviving(c)
      /\ lost' = lost \cup {c \in 1..MaxCheckpoints :
                              files[c] = "written" /\ files'[c] # "written"}
      /\ pc' = [p \in Publishers |-> IF OnHost(p) THEN "idle" ELSE pc[p]]
      /\ envelope' = [p \in Publishers |-> IF OnHost(p) THEN 0 ELSE envelope[p]]
  BY DEF HostFails
<1>2. TypeOK'
  <2>1. envelope' \in [Publishers -> 0..signed]
    BY <1>0, <1>1, ConstantsAssumption DEF TypeOK
  <2>2. /\ pc' \in [Publishers -> {"idle", "put", "verify", "report", "open", "write", "sync"}]
        /\ \A p \in Publishers : pc'[p] \in {"put", "verify"} => next'[p] <= Len(Sinks)
    BY <1>0, <1>1 DEF TypeOK
  <2>3. lost' \subseteq 1..MaxCheckpoints
    BY <1>0, <1>1 DEF TypeOK
  <2> QED BY <1>0, <1>1, <2>1, <2>2, <2>3 DEF TypeOK
<1>3. FilesComplete'
  <2>1. exported \subseteq 1..MaxCheckpoints /\ found \subseteq 1..MaxCheckpoints
    BY <1>0, ConstantsAssumption DEF TypeOK
  <2>2. \A c \in 1..MaxCheckpoints : files[c] = "synced" => files'[c] = "synced"
    BY <1>1 DEF Surviving
  <2>3. \A c \in 1..MaxCheckpoints : files[c] = "written" =>
            files'[c] = "written" \/ c \in lost'
    BY <1>1
  <2> QED BY <1>1, <2>1, <2>2, <2>3 DEF PublicationInv, ReceiptSound, FilesComplete
<1>4. ReceiptSound'
  BY <1>1, <1>3, ReceiptsKept DEF ReceiptSound
<1>5. WritersAlone'
  BY <1>1 DEF WritersAlone, Writing, OnHost
<1>6. ASSUME NEW p \in Publishers PROVE AttemptInv(p)'
  <2>1. CASE OnHost(p)
    <3>1. pc'[p] = "idle" /\ AttemptInv(p)
      BY <1>1, <2>1 DEF PublicationInv
    <3>2. CopiesVerified(p)'
      <4>1. copies[p] = {}
        BY <2>1 DEF PublicationInv, AttemptInv, FileFresh, OnHost
      <4> QED BY <1>1, <3>1, <4>1 DEF CopiesVerified
    <3> QED BY <1>1, <3>1, <3>2 DEF AttemptInv, EnvelopeSigned, Accounted, CleanFailures, FileFresh
  <2>2. CASE ~OnHost(p)
    <3>1. pc'[p] = pc[p] /\ envelope'[p] = envelope[p] /\ signed \in Nat
      BY <1>0, <1>1, <2>2, ConstantsAssumption DEF TypeOK
    <3> QED BY <1>1, <3>1, OthersKept
  <2> QED BY <2>1, <2>2
<1> QED BY <1>2, <1>4, <1>5, <1>6 DEF PublicationInv

(* Every step of the publishers and of time preserves the invariant. *)
LEMMA NextKeepsInv == PublicationInv /\ [Next]_vars => PublicationInv'
<1> SUFFICES ASSUME PublicationInv, [Next]_vars PROVE PublicationInv'
  OBVIOUS
<1>1. CASE \E p \in Publishers :
            \/ ReuseCheckpoint(p) \/ NewCheckpoint(p)
            \/ PutObject(p) \/ VerifyCopy(p) \/ Report(p)
            \/ OpenFile(p) \/ WriteFile(p) \/ SyncFile(p)
            \/ Crash(p)
  BY <1>1, StartKeeps, SinkKeeps, ReportKeeps, FileKeeps, CrashKeeps
<1>2. CASE WindowPasses \/ UNCHANGED vars
  <2>1. /\ window' \in {0, window}
        /\ UNCHANGED <<signed, objects, pc, envelope, next, copies, failures, clean, receipts,
                       files, exported, found, lost>>
    BY <1>2 DEF WindowPasses, vars, attemptVars, fileVars
  <2>2. TypeOK' /\ ReceiptSound' /\ WritersAlone'
    BY <2>1 DEF PublicationInv, TypeOK, ReceiptSound, CopiesRetained, FilesComplete,
                WritersAlone, Writing
  <2>3. \A p \in Publishers : AttemptInv(p)'
    BY <2>1 DEF PublicationInv, AttemptInv, EnvelopeSigned, Accounted, Visited, CopiesVerified,
                CleanFailures, FileFresh, Destination
  <2> QED BY <2>2, <2>3 DEF PublicationInv
<1> QED BY <1>1, <1>2, HostFailsKeeps DEF Next

(* The invariant holds of every behaviour of the publishers, for any        *)
(* number of destinations, publishers and checkpoints.                      *)
THEOREM PublicationInvariant == Spec => []PublicationInv
<1> QED BY InitInv, NextKeepsInv, PTL DEF Spec

(* A receipt of ReplicatedCheckpointSink names enough destinations that do  *)
(* retain the envelope and accounts for the others; a file reported by the  *)
(* publisher that wrote it is synced, and one that another publisher found  *)
(* holds the whole envelope unless the host failed before it was synced.    *)
THEOREM ReceiptsAreSound == Spec => []ReceiptSound
<1>1. PublicationInv => ReceiptSound
  BY DEF PublicationInv
<1> QED BY <1>1, PublicationInvariant, PTL

(* What earlier and concurrent publishers left at the destinations never    *)
(* keeps an attempt without failing calls from a copy at each of them.      *)
THEOREM CleanAttemptsComplete == Spec => []CleanAttemptCompletes
<1>1. PublicationInv => CleanAttemptCompletes
  BY DEF PublicationInv, TypeOK, AttemptInv, Accounted, CopiesVerified, CleanFailures,
         CleanAttemptCompletes
<1> QED BY <1>1, PublicationInvariant, PTL
=============================================================================
