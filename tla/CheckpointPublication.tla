----------------------- MODULE CheckpointPublication ------------------------
(***************************************************************************)
(* Publication of signed ledger checkpoints to S3 Object Lock buckets or   *)
(* to a directory (src/aecontrol/checkpoints.py): requests that obtain an  *)
(* envelope from create_ledger_checkpoint and offer it to each bucket in   *)
(* turn with a create-only PUT and a read-back, over calls that may fail   *)
(* before or after they took effect, or create one file and write it.      *)
(*                                                                         *)
(* An object key contains the checkpoint id, so an object is named by its  *)
(* destination and the number of its checkpoint; its bytes, digest and     *)
(* retention are those of the one persisted envelope.  One destination is  *)
(* S3ObjectLockCheckpointSink alone, more are ReplicatedCheckpointSink.    *)
(***************************************************************************)
EXTENDS Naturals, Sequences, FiniteSets

CONSTANTS
    Sinks,           \* the destinations, in the order they are tried
    Lax,             \* those that accept a PUT without retaining the object
    RequiredCopies,
    Publishers,      \* API requests and CronJob pods
    MaxCheckpoints   \* bound: envelopes signed in one behaviour

Destinations == {Sinks[i] : i \in 1..Len(Sinks)}

ASSUME ConstantsAssumption ==
    /\ Sinks \in Seq(Destinations) /\ Sinks # <<>>
    /\ Cardinality(Destinations) = Len(Sinks)
    /\ Lax \subseteq Destinations
    /\ RequiredCopies \in 1..Len(Sinks)
    /\ MaxCheckpoints \in Nat \ {0}

VARIABLES
    signed,        \* number of envelopes persisted so far
    window,        \* the envelope younger than five minutes of the head, or 0
    objects,       \* envelopes stored at each destination
    pc,            \* where each publisher is
    envelope,      \* the checkpoint it publishes
    next,          \* index of the destination it is at
    copies,        \* destinations with a verified receipt
    failures,      \* destinations that failed
    receipts,      \* the publications reported
    files,         \* the file of each checkpoint: absent, torn, written (all
                   \* bytes can be read) or synced (they are on disk)
    exported,      \* checkpoints reported by the publisher that wrote the file
    found,         \* those reported by one that found the file
    lost,          \* history: written files that went with a failing host
    clean          \* history: no call of this attempt has failed

attemptVars == <<envelope, next, copies, failures, clean>>
fileVars == <<files, exported, found, lost>>
vars == <<signed, window, objects, pc, attemptVars, receipts, fileVars>>

Init ==
    /\ signed = 0
    /\ window = 0
    /\ objects = [d \in Destinations |-> {}]
    /\ pc = [p \in Publishers |-> "idle"]
    /\ envelope = [p \in Publishers |-> 0]
    /\ next = [p \in Publishers |-> 1]
    /\ copies = [p \in Publishers |-> {}]
    /\ failures = [p \in Publishers |-> {}]
    /\ receipts = {}
    /\ files = [c \in 1..MaxCheckpoints |-> "absent"]
    /\ exported = {} /\ found = {} /\ lost = {}
    /\ clean = [p \in Publishers |-> TRUE]

-----------------------------------------------------------------------------
(* The request returns or raises, and what it held is gone with it. *)
Leave(p) ==
    /\ pc' = [pc EXCEPT ![p] = "idle"]
    /\ envelope' = [envelope EXCEPT ![p] = 0]
    /\ next' = [next EXCEPT ![p] = 1]
    /\ copies' = [copies EXCEPT ![p] = {}]
    /\ failures' = [failures EXCEPT ![p] = {}]
    /\ clean' = [clean EXCEPT ![p] = TRUE]

(* publish_ledger_checkpoint, and the checkpoint command with --s3 or       *)
(* --output: the envelope first, fresh or reused.                           *)
Start(p, c) ==
    /\ pc[p] = "idle"
    /\ \E sink \in {"put", "open"} : pc' = [pc EXCEPT ![p] = sink]
    /\ envelope' = [envelope EXCEPT ![p] = c]
    /\ next' = [next EXCEPT ![p] = 1]
    /\ copies' = [copies EXCEPT ![p] = {}]
    /\ failures' = [failures EXCEPT ![p] = {}]
    /\ clean' = [clean EXCEPT ![p] = TRUE]
    /\ UNCHANGED <<objects, receipts, fileVars>>

ReuseCheckpoint(p) ==
    /\ window # 0
    /\ Start(p, window)
    /\ UNCHANGED <<signed, window>>

NewCheckpoint(p) ==
    /\ window = 0
    /\ signed < MaxCheckpoints
    /\ signed' = signed + 1
    /\ window' = signed + 1
    /\ Start(p, signed + 1)

(* Five minutes pass, or the ledger head moves. *)
WindowPasses ==
    /\ window # 0
    /\ signed < MaxCheckpoints
    /\ window' = 0
    /\ UNCHANGED <<signed, objects, pc, attemptVars, receipts, fileVars>>

-----------------------------------------------------------------------------
Destination(p) == Sinks[next[p]]

(* On to the next destination, or to the decision of the policy. *)
Advance(p) ==
    /\ next' = [next EXCEPT ![p] = @ + 1]
    /\ pc' = [pc EXCEPT ![p] = IF next[p] = Len(Sinks) THEN "report" ELSE "put"]

(* CheckpointPublicationError of one sink: recorded, and the loop goes on. *)
SinkFails(p) ==
    /\ failures' = [failures EXCEPT ![p] = @ \cup {Destination(p)}]
    /\ Advance(p)
    /\ UNCHANGED <<copies>>

(* The Object Lock preflight and the PUT with If-None-Match: *.            *)
Store(p) ==
    objects' = [objects EXCEPT ![Destination(p)] = @ \cup {envelope[p]}]

(* Mutant: 412 is an error like any other. *)
ConflictIsError(p) ==
    /\ envelope[p] \in objects[Destination(p)]
    /\ SinkFails(p)
    /\ UNCHANGED <<objects, clean>>

(* The object exists: PreconditionFailed, which is not an error. *)
AlreadyStored(p) ==
    /\ envelope[p] \in objects[Destination(p)]
    /\ pc' = [pc EXCEPT ![p] = "verify"]
    /\ UNCHANGED <<objects, next, copies, failures, clean>>

(* It is created; or a call fails, with or without having created it. *)
PutObject(p) ==
    /\ pc[p] = "put"
    /\ \/ AlreadyStored(p)
       \/ /\ envelope[p] \notin objects[Destination(p)]
          /\ Store(p)
          /\ pc' = [pc EXCEPT ![p] = "verify"]
          /\ UNCHANGED <<next, copies, failures, clean>>
       \/ /\ Store(p) \/ UNCHANGED objects
          /\ SinkFails(p)
          /\ clean' = [clean EXCEPT ![p] = FALSE]
    /\ UNCHANGED <<signed, window, envelope, receipts, fileVars>>

(* Mutant: the response to the PUT is proof enough. *)
TrustPut(d) == TRUE

(* What HEAD and GET must show: the bytes, COMPLIANCE mode, the deadline. *)
Retained(d) == d \notin Lax

(* _verify_copy. *)
VerifyCopy(p) ==
    /\ pc[p] = "verify"
    /\ \/ /\ Retained(Destination(p))
          /\ copies' = [copies EXCEPT ![p] = @ \cup {Destination(p)}]
          /\ Advance(p)
          /\ UNCHANGED <<failures, clean>>
       \/ /\ ~Retained(Destination(p))
          /\ SinkFails(p)
          /\ UNCHANGED clean
       \/ /\ SinkFails(p)
          /\ clean' = [clean EXCEPT ![p] = FALSE]
    /\ UNCHANGED <<signed, window, objects, envelope, receipts, fileVars>>

DurabilityMet(p) == Cardinality(copies[p]) >= RequiredCopies

(* The receipt, or "durability policy was not met"; nothing is deleted. *)
Report(p) ==
    /\ pc[p] = "report"
    /\ receipts' = IF DurabilityMet(p)
                   THEN receipts \cup {[checkpoint |-> envelope[p],
                                        copies |-> copies[p],
                                        failed |-> failures[p]]}
                   ELSE receipts
    /\ Leave(p)
    /\ UNCHANGED <<signed, window, objects, fileVars>>

-----------------------------------------------------------------------------
(* FileCheckpointSink.publish *)

Becomes(c, state) == files' = [files EXCEPT ![c] = state]

(* Mutant: a file that exists is taken for the checkpoint. *)
AnyBytes(c) == TRUE

(* read_bytes sees what was flushed, synced or not. *)
SameBytes(c) == files[c] \in {"written", "synced"}

(* O_CREAT | O_EXCL: an empty file of one's own; or one that is there, and  *)
(* is reported as published if its bytes are those of the envelope.         *)
OpenFile(p) ==
    LET c == envelope[p] IN
    /\ pc[p] = "open"
    /\ \/ /\ files[c] = "absent"
          /\ Becomes(c, "torn")
          /\ pc' = [pc EXCEPT ![p] = "write"]
          /\ UNCHANGED <<attemptVars, found>>
       \/ /\ files[c] # "absent"
          /\ found' = IF SameBytes(c) THEN found \cup {c} ELSE found
          /\ Leave(p)
          /\ UNCHANGED files
    /\ UNCHANGED <<signed, window, objects, receipts, exported, lost>>

(* write and flush; or one of them raises, and the file stays with less     *)
(* than the envelope or, by the flush of its close, with all of it.         *)
WriteFile(p) ==
    LET c == envelope[p] IN
    /\ pc[p] = "write"
    /\ \/ /\ Becomes(c, "written")
          /\ pc' = [pc EXCEPT ![p] = "sync"]
          /\ UNCHANGED attemptVars
       \/ Becomes(c, "written") /\ Leave(p)
       \/ Leave(p) /\ UNCHANGED files
    /\ UNCHANGED <<signed, window, objects, receipts, exported, found, lost>>

(* Mutant: published as soon as it is flushed. *)
NoSync(p) ==
    /\ pc[p] = "sync"
    /\ exported' = exported \cup {envelope[p]}
    /\ Leave(p)
    /\ UNCHANGED <<signed, window, objects, receipts, files, found, lost>>

(* fsync, and the report; or it raises.  The synced file is taken to have   *)
(* its name on disk as well, which ext4 and XFS see to: the code does not   *)
(* sync the directory.                                                      *)
SyncFile(p) ==
    LET c == envelope[p] IN
    /\ pc[p] = "sync"
    /\ \/ Becomes(c, "synced") /\ exported' = exported \cup {c}
       \/ UNCHANGED <<files, exported>>
    /\ Leave(p)
    /\ UNCHANGED <<signed, window, objects, receipts, found, lost>>

(* The host of the directory fails with its publishers: of a file that was  *)
(* not synced any part of its bytes, or the file itself, may be gone.       *)
Surviving(c) ==
    CASE files[c] = "written" -> {"absent", "torn", "written"}
      [] files[c] = "torn" -> {"absent", "torn"}
      [] OTHER -> {files[c]}

OnHost(p) == pc[p] \in {"open", "write", "sync"}

HostFails ==
    /\ files' \in [1..MaxCheckpoints -> {"absent", "torn", "written", "synced"}]
    /\ \A c \in 1..MaxCheckpoints : files'[c] \in Surviving(c)
    /\ lost' = lost \cup {c \in 1..MaxCheckpoints :
                            files[c] = "written" /\ files'[c] # "written"}
    /\ pc' = [p \in Publishers |-> IF OnHost(p) THEN "idle" ELSE pc[p]]
    /\ envelope' = [p \in Publishers |-> IF OnHost(p) THEN 0 ELSE envelope[p]]
    /\ UNCHANGED <<signed, window, objects, next, copies, failures, clean, receipts,
                   exported, found>>

-----------------------------------------------------------------------------
(* The request is lost with its process. *)
Crash(p) ==
    /\ pc[p] # "idle"
    /\ Leave(p)
    /\ UNCHANGED <<signed, window, objects, receipts, fileVars>>

Next ==
    \/ \E p \in Publishers :
        \/ ReuseCheckpoint(p) \/ NewCheckpoint(p)
        \/ PutObject(p) \/ VerifyCopy(p) \/ Report(p)
        \/ OpenFile(p) \/ WriteFile(p) \/ SyncFile(p)
        \/ Crash(p)
    \/ WindowPasses \/ HostFails

Spec == Init /\ [][Next]_vars

-----------------------------------------------------------------------------
(* Objects, files, attempts and receipts are well typed, a publisher is at  *)
(* a destination while it works, and no destination both failed and has a   *)
(* verified copy.                                                           *)
TypeOK ==
    /\ signed \in 0..MaxCheckpoints
    /\ window \in {0, signed}
    /\ objects \in [Destinations -> SUBSET (1..signed)]
    /\ pc \in [Publishers -> {"idle", "put", "verify", "report", "open", "write",
                           "sync"}]
    /\ files \in [1..MaxCheckpoints -> {"absent", "torn", "written", "synced"}]
    /\ exported \subseteq 1..signed /\ found \subseteq 1..signed
    /\ lost \subseteq 1..MaxCheckpoints
    /\ envelope \in [Publishers -> 0..signed]
    /\ next \in [Publishers -> 1..(Len(Sinks) + 1)]
    /\ copies \in [Publishers -> SUBSET Destinations]
    /\ failures \in [Publishers -> SUBSET Destinations]
    /\ clean \in [Publishers -> BOOLEAN]
    /\ \A p \in Publishers :
          /\ pc[p] \in {"put", "verify"} => next[p] <= Len(Sinks)
          /\ copies[p] \cap failures[p] = {}

(* A receipt of the buckets names the required number of destinations that *)
(* do retain that very checkpoint, and accounts for each destination once. *)
CopiesRetained ==
    \A r \in receipts :
        /\ Cardinality(r.copies) >= RequiredCopies
        /\ \A d \in r.copies : d \notin Lax /\ r.checkpoint \in objects[d]
        /\ r.copies \cap r.failed = {}
        /\ r.copies \cup r.failed = Destinations

(* A file is reported by the publisher that wrote it only when the whole   *)
(* envelope is on disk, where it stays.  One that another publisher found  *)
(* and reported held the whole envelope, and holds it unless the host      *)
(* failed before the writer's fsync: who finds a file does not sync it, so *)
(* that report alone does not mean that the file will survive.             *)
FilesComplete ==
    /\ \A c \in exported : files[c] = "synced"
    /\ \A c \in found : files[c] \in {"written", "synced"} \/ c \in lost

(* A reported publication is what it says: "never treats a PutObject       *)
(* response alone as durable evidence" for the buckets, and for files      *)
(* never a torn one, whatever a crash, a full disk, a failing fsync or a   *)
(* publisher that is still writing left under its name.                    *)
ReceiptSound == CopiesRetained /\ FilesComplete

(* What earlier attempts left behind never stands in the way: an attempt   *)
(* none of whose calls fails has a copy at every destination that retains  *)
(* objects, whichever of them a lost, failed or concurrent attempt had     *)
(* already written.                                                        *)
CleanAttemptCompletes ==
    \A p \in Publishers :
        pc[p] = "report" /\ clean[p] => copies[p] = Destinations \ Lax
=============================================================================
