---------------------- MODULE ResultPublicationProofs ----------------------
(***************************************************************************)
(* Proofs about ResultPublication, for any list of originals and any       *)
(* number of faults: type correctness, the three safety invariants, the    *)
(* action property ResultIsNeverWithdrawn, and that the module implements  *)
(* ResultHandover.                                                         *)
(***************************************************************************)
EXTENDS ResultPublication, TLAPS

-----------------------------------------------------------------------------
(* The inductive invariant *)

(* What the coordinator's place says about the folder.  While it polls,    *)
(* fetches and publishes there is no manifest; every file it has passed is *)
(* safe; it cleans up and acknowledges only over a durable result.         *)
PlaceInv ==
    /\ pc \in {"poll", "fetch", "original", "record", "manifest"}
          => ~Published
    /\ pc = "original" => \A i \in 1..(at - 1) : Originals[i] \in Safe
    /\ pc \in {"record", "manifest"} => OriginalSet \subseteq Safe
    /\ pc = "manifest" => \A r \in survivors : r.status \in Ready
    /\ pc = "resync" => Published
    /\ pc \in {"upload", "local", "ack", "final"}
          => Durable /\ mem.status \in Ready

(* Nothing is published that the GPU service had not computed.             *)
FetchedInv ==
    pc \in {"original", "record", "manifest"} \/ names # {}
        => gpu \in {"completed", "released", "lapsed"}

IInv ==
    /\ TypeOK
    /\ PlaceInv
    /\ FetchedInv
    /\ ManifestIsLast
    /\ AckedResultIsDurable
    /\ EarlyRemovalNeedsResult

-----------------------------------------------------------------------------
(* Lemmas about the folder *)

(* The positions of Originals enumerate OriginalSet.                       *)
LEMMA OriginalsEnumerated ==
    /\ Len(Originals) \in Nat \ {0}
    /\ \A i \in 1..Len(Originals) : Originals[i] \in OriginalSet
    /\ \A f \in OriginalSet : \E i \in 1..Len(Originals) : f = Originals[i]
<1>1. DOMAIN Originals = 1..Len(Originals) /\ Len(Originals) \in Nat
  BY OriginalsAssumption
<1>2. Len(Originals) \in Nat \ {0}
  BY OriginalsAssumption
<1>3. QED
  BY <1>1, <1>2 DEF OriginalSet, Range

(* The public cleanup status is a cleanup status.                          *)
LEMMA CleanupOfType ==
    ASSUME NEW r \in Record
    PROVE  CleanupOf(r) \in CleanupStatus
BY DEF CleanupOf, CleanupStatus

(* What writing meeting.json does to the folder: no file loses its safety, *)
(* and only r can newly come back after a power loss.                      *)
LEMMA WriteRecordEffect ==
    ASSUME TypeOK, NEW r \in Record, NEW u \in UploadState,
           NEW outcome \in Outcome, WriteRecord(r, u, outcome)
    PROVE  /\ names' = names
           /\ unsynced' \subseteq unsynced
           /\ record' \in {record, r}
           /\ record' \in survivors'
           /\ survivors' \subseteq survivors \union {r}
           /\ upload' \in UploadState
           /\ upload' = "present" <=> u = "present"
           /\ outcome = "synced" => unsynced' = {} /\ survivors' = {r}
<1>1. CASE outcome = "failed"
  BY <1>1 DEF WriteRecord, TypeOK
<1>2. CASE outcome = "named"
  BY <1>2 DEF WriteRecord, TypeOK
<1>3. CASE outcome = "synced"
  BY <1>3 DEF WriteRecord, TypeOK, AfterSync, UploadState
<1>4. QED
  BY <1>1, <1>2, <1>3 DEF Outcome

(* What writing a write-once file does to the folder.                      *)
LEMMA WriteOnceEffect ==
    ASSUME TypeOK, NEW f, NEW outcome \in Outcome, WriteOnce(f, outcome)
    PROVE  /\ names \subseteq names'
           /\ names' \subseteq names \union {f}
           /\ unsynced' \subseteq unsynced \union ({f} \ names)
           /\ unsynced' \subseteq names'
           /\ record' = record
           /\ record' \in survivors'
           /\ survivors' \subseteq survivors
           /\ upload' \in UploadState
           /\ upload' = "present" <=> upload = "present"
           /\ outcome = "synced" => unsynced' = {} /\ f \in names'
<1>1. CASE outcome = "failed"
  BY <1>1 DEF WriteOnce, TypeOK
<1>2. CASE outcome = "named"
  BY <1>2 DEF WriteOnce, TypeOK
<1>3. CASE outcome = "synced"
  BY <1>3 DEF WriteOnce, TypeOK, AfterSync, UploadState
<1>4. QED
  BY <1>1, <1>2, <1>3 DEF Outcome

(* Charging keeps the count of faults within its bound.                    *)
LEMMA ChargeType ==
    ASSUME TypeOK, NEW n \in Nat, Charge(n)
    PROVE  faults' \in 0..MaxFaults
BY FaultsAssumption DEF Charge, TypeOK

LEMMA FaultyType ==
    ASSUME NEW outcome
    PROVE  Faulty(outcome) \in Nat
BY DEF Faulty

-----------------------------------------------------------------------------
(* Type correctness *)

LEMMA TypeInit == Init => TypeOK
<1> SUFFICES ASSUME Init
             PROVE  TypeOK
  OBVIOUS
<1>1. record \in Record
  BY DEF Init, Record, CleanupStatus
<1>2. 1 \in 1..Len(Originals) /\ 0 \in 0..MaxFaults
  BY OriginalsEnumerated, FaultsAssumption
<1>3. QED
  BY <1>1, <1>2 DEF Init, TypeOK, UploadState, Places, GPUStatus

(* Every record a step writes is a record.                                 *)
LEMMA RecordUpdates ==
    ASSUME NEW r \in Record
    PROVE  /\ \A status \in {"processing", "failed"} \union Ready :
                 [r EXCEPT !.status = status] \in Record
           /\ \A status \in {"processing", "failed"}, job \in CleanupStatus :
                 [r EXCEPT !.status = status, !.job = job] \in Record
           /\ [r EXCEPT !.status = "review_required", !.ack = TRUE] \in Record
           /\ \A local \in CleanupStatus : [r EXCEPT !.local = local] \in Record
           /\ \A job \in CleanupStatus :
                 [r EXCEPT !.ack = FALSE, !.job = job] \in Record
           /\ [r EXCEPT !.cleanup = CleanupOf(r)] \in Record
BY CleanupOfType DEF Record, Ready

(* A write of meeting.json by any step keeps the types of the folder.      *)
LEMMA WriteRecordType ==
    ASSUME TypeOK, NEW r \in Record, NEW u \in UploadState,
           NEW outcome \in Outcome, WriteRecord(r, u, outcome)
    PROVE  /\ names' \subseteq FileNames
           /\ unsynced' \subseteq names'
           /\ record' \in Record
           /\ survivors' \subseteq Record
           /\ record' \in survivors'
           /\ upload' \in UploadState
BY WriteRecordEffect DEF TypeOK

LEMMA TypeStep == TypeOK /\ [Next]_vars => TypeOK'
<1> SUFFICES ASSUME TypeOK, [Next]_vars
             PROVE  TypeOK'
  OBVIOUS
<1> USE CleanupOfType
<1>1. CASE Begin
  BY <1>1 DEF Begin, TypeOK, disk, Places
<1>2. CASE Fetch
  BY <1>2, OriginalsEnumerated DEF Fetch, TypeOK, disk, Places
<1>3. CASE Unavailable
  BY <1>3, ChargeType DEF Unavailable, TypeOK, disk, Places
<1>4. ASSUME NEW outcome \in Outcome, PollRunning(outcome)
      PROVE  TypeOK'
  <2>1. [record EXCEPT !.status = "processing"] \in Record
    BY RecordUpdates DEF TypeOK
  <2>2. QED
    BY <1>4, <2>1, WriteRecordType, ChargeType, FaultyType
       DEF PollRunning, TypeOK, Places
<1>5. ASSUME NEW outcome \in Outcome, PollCompleted(outcome)
      PROVE  TypeOK'
  <2>1. PICK receipt \in CleanupStatus :
           WriteRecord([record EXCEPT !.status = "processing",
                                      !.job = receipt], upload, outcome)
    BY <1>5 DEF PollCompleted, CleanupStatus
  <2>2. [record EXCEPT !.status = "processing", !.job = receipt] \in Record
    BY RecordUpdates DEF TypeOK
  <2>3. QED
    BY <1>5, <2>1, <2>2, WriteRecordType, ChargeType, FaultyType
       DEF PollCompleted, Continue, TypeOK, Places
<1>6. ASSUME NEW outcome \in Outcome, PollEnded(outcome)
      PROVE  TypeOK'
  <2>1. PICK receipt \in CleanupStatus :
           WriteRecord([record EXCEPT !.status = "failed",
                                      !.job = receipt], upload, outcome)
    BY <1>6 DEF PollEnded, CleanupStatus
  <2>2. [record EXCEPT !.status = "failed", !.job = receipt] \in Record
    BY RecordUpdates DEF TypeOK
  <2>3. QED
    BY <1>6, <2>1, <2>2, WriteRecordType, ChargeType, FaultyType
       DEF PollEnded, TypeOK, Places
<1>7. ASSUME NEW outcome \in Outcome, PollFails(outcome) \/ FetchFails(outcome)
      PROVE  TypeOK'
  <2>1. [record EXCEPT !.status = "failed"] \in Record
    BY RecordUpdates DEF TypeOK
  <2>2. 1 + Faulty(outcome) \in Nat
    BY FaultyType
  <2>3. QED
    BY <1>7, <2>1, <2>2, WriteRecordType, ChargeType, FaultyType
       DEF PollFails, FetchFails, TypeOK, Places
<1>8. ASSUME NEW outcome \in Outcome, PublishOriginal(outcome)
      PROVE  TypeOK'
  <2>1. Originals[at] \in FileNames
    BY OriginalsEnumerated DEF TypeOK, FileNames
  <2>2. /\ names' \subseteq FileNames /\ unsynced' \subseteq names'
        /\ record' \in survivors' /\ survivors' \subseteq Record
        /\ upload' \in UploadState /\ record' \in Record
    BY <1>8, <2>1, WriteOnceEffect DEF PublishOriginal, TypeOK
  <2>3. at' \in 1..Len(Originals) /\ pc' \in Places
    BY <1>8, OriginalsEnumerated DEF PublishOriginal, Continue, TypeOK, Places
  <2>4. QED
    BY <1>8, <2>2, <2>3, ChargeType, FaultyType DEF PublishOriginal, TypeOK
<1>9. ASSUME NEW outcome \in Outcome, PublishRecord(outcome)
      PROVE  TypeOK'
  <2>1. [record EXCEPT !.status = "review_required", !.ack = TRUE] \in Record
    BY RecordUpdates DEF TypeOK
  <2>2. QED
    BY <1>9, <2>1, WriteRecordType, ChargeType, FaultyType
       DEF PublishRecord, Continue, TypeOK, Places
<1>10. ASSUME NEW outcome \in Outcome, PublishManifest(outcome)
       PROVE  TypeOK'
  <2>1. /\ names' \subseteq FileNames /\ unsynced' \subseteq names'
        /\ record' \in survivors' /\ survivors' \subseteq Record
        /\ upload' \in UploadState /\ record' \in Record
    BY <1>10, WriteOnceEffect DEF PublishManifest, TypeOK, FileNames
  <2>2. QED
    BY <1>10, <2>1, ChargeType, FaultyType
       DEF PublishManifest, Continue, CleanupPlace, TypeOK, Places
<1>11. ASSUME NEW ok \in BOOLEAN, Resync(ok)
       PROVE  TypeOK'
  <2>1. faults' \in 0..MaxFaults
    BY <1>11, ChargeType DEF Resync
  <2>2. upload' \in UploadState
    BY <1>11 DEF Resync, AfterSync, UploadState, TypeOK
  <2>3. pc' \in Places
    BY <1>11 DEF Resync, CleanupPlace, Places
  <2>4. QED
    BY <1>11, <2>1, <2>2, <2>3 DEF Resync, TypeOK
<1>12. ASSUME NEW outcome \in Outcome, RemoveUpload(outcome)
       PROVE  TypeOK'
  <2>1. mem' \in Record
    BY <1>12, RecordUpdates DEF RemoveUpload, TypeOK, CleanupStatus
  <2>2. upload' \in UploadState
    BY <1>12 DEF RemoveUpload, AfterUnlink, UploadState, TypeOK
  <2>3. QED
    BY <1>12, <2>1, <2>2, ChargeType, FaultyType
       DEF RemoveUpload, TypeOK, Places
<1>13. ASSUME NEW outcome \in Outcome, SaveLocal(outcome)
       PROVE  TypeOK'
  <2>1. mem \in Record /\ upload \in UploadState
    BY DEF TypeOK
  <2>2. QED
    BY <1>13, <2>1, WriteRecordType, ChargeType, FaultyType
       DEF SaveLocal, Continue, TypeOK, Places
<1>14. ASSUME NEW outcome \in Outcome, SaveFinal(outcome)
       PROVE  TypeOK'
  <2>1. [mem EXCEPT !.cleanup = CleanupOf(mem)] \in Record
    BY RecordUpdates DEF TypeOK
  <2>2. QED
    BY <1>14, <2>1, WriteRecordType, ChargeType, FaultyType
       DEF SaveFinal, TypeOK, Places
<1>15. ASSUME NEW arrives \in BOOLEAN, NEW answered \in BOOLEAN,
              SendAck(arrives, answered)
       PROVE  TypeOK'
  <2>1. mem' \in Record
    BY <1>15, RecordUpdates DEF SendAck, TypeOK, CleanupStatus
  <2>2. gpu' \in GPUStatus
    BY <1>15 DEF SendAck, GPUStatus, TypeOK
  <2>3. faults' \in 0..MaxFaults
    BY <1>15, ChargeType DEF SendAck
  <2>4. QED
    BY <1>15, <2>1, <2>2, <2>3 DEF SendAck, TypeOK, disk, Places
<1>16. ASSUME NEW unlink \in Outcome, NEW outcome \in Outcome,
              ExpireUpload(unlink, outcome)
       PROVE  TypeOK'
  <2> DEFINE expiring == [record EXCEPT !.local = "expired"]
             expired  == [expiring EXCEPT !.cleanup = CleanupOf(expiring)]
  <2>1. expiring \in Record
    BY RecordUpdates DEF TypeOK, CleanupStatus
  <2>2. expired \in Record
    BY <2>1, RecordUpdates
  <2>3. record \in Record /\ upload \in UploadState
    BY DEF TypeOK
  <2>4. AfterUnlink(upload) \in UploadState /\ "removed" \in UploadState
    BY <2>3 DEF AfterUnlink, UploadState
  <2>5. PICK r \in Record, u \in UploadState : WriteRecord(r, u, outcome)
    <3>1. CASE unlink = "failed"
      BY <1>16, <2>3, <3>1 DEF ExpireUpload
    <3>2. CASE unlink = "named"
      BY <1>16, <2>3, <2>4, <3>2 DEF ExpireUpload
    <3>3. CASE unlink = "synced"
      BY <1>16, <2>2, <2>4, <3>3 DEF ExpireUpload
    <3>4. QED
      BY <3>1, <3>2, <3>3 DEF Outcome
  <2>6. faults' \in 0..MaxFaults
    <3>1. Faulty(unlink) + Faulty(outcome) \in Nat
      BY FaultyType
    <3>2. QED
      BY <1>16, <3>1, ChargeType DEF ExpireUpload
  <2>7. QED
    BY <1>16, <2>5, <2>6, WriteRecordType DEF ExpireUpload, TypeOK
<1>17. CASE ExpireAborts
  BY <1>17 DEF ExpireAborts, TypeOK, UploadState
<1>18. ASSUME NEW outcome \in Outcome, Review(outcome)
       PROVE  TypeOK'
  <2>1. PICK status \in Ready :
           WriteRecord([record EXCEPT !.status = status], upload, outcome)
    BY <1>18 DEF Review
  <2>2. [record EXCEPT !.status = status] \in Record
    BY RecordUpdates DEF TypeOK
  <2>3. QED
    BY <1>18, <2>1, <2>2, WriteRecordType, ChargeType, FaultyType
       DEF Review, TypeOK
<1>19. CASE GPUFinishes
  BY <1>19 DEF GPUFinishes, TypeOK, disk, GPUStatus
<1>20. CASE GPULapses
  BY <1>20 DEF GPULapses, TypeOK, disk, GPUStatus
<1>21. CASE DeadlinePasses
  BY <1>21 DEF DeadlinePasses, TypeOK, disk
<1>22. CASE Crash
  BY <1>22, ChargeType DEF Crash, TypeOK, disk, Places
<1>23. CASE PowerLoss
  BY <1>23, ChargeType DEF PowerLoss, TypeOK, disk, Places, UploadState
<1>24. CASE UNCHANGED vars
  BY <1>24 DEF vars, disk, TypeOK
<1>25. QED
  BY <1>1, <1>2, <1>3, <1>4, <1>5, <1>6, <1>7, <1>8, <1>9, <1>10, <1>11,
     <1>12, <1>13, <1>14, <1>15, <1>16, <1>17, <1>18, <1>19, <1>20, <1>21,
     <1>22, <1>23, <1>24
     DEF Next, Step, Janitor, Environment

(* Type correctness, for any list of originals and any number of faults.   *)
THEOREM Typing == Spec => []TypeOK
BY TypeInit, TypeStep, PTL DEF Spec

-----------------------------------------------------------------------------
(* Safety *)

(* Writing meeting.json keeps what is published: no ready record is ever   *)
(* replaced by another one once there is a manifest.                       *)
LEMMA WriteRecordKeeps ==
    ASSUME IInv, NEW r \in Record, NEW u \in UploadState,
           NEW outcome \in Outcome, WriteRecord(r, u, outcome),
           Published => r.status \in Ready
    PROVE  /\ names' = names
           /\ Safe \subseteq Safe'
           /\ Published' <=> Published
           /\ ManifestIsLast'
           /\ Durable => Durable'
           /\ upload' = "present" <=> u = "present"
<1>1. /\ names' = names /\ unsynced' \subseteq unsynced
      /\ survivors' \subseteq survivors \union {r}
      /\ upload' = "present" <=> u = "present"
  BY WriteRecordEffect DEF IInv
<1>2. Safe \subseteq Safe' /\ (Published' <=> Published)
  BY <1>1 DEF Safe, Published
<1>3. ManifestIsLast'
  BY <1>1, <1>2 DEF IInv, ManifestIsLast
<1>4. Durable => Published
  BY DEF Durable, FileNames, Safe, Published
<1>5. Durable => Durable'
  BY <1>1, <1>2, <1>4 DEF Durable
<1>6. QED
  BY <1>1, <1>2, <1>3, <1>5

(* Writing a write-once file keeps what is published, and the manifest may *)
(* only be written over safe originals and ready records.                  *)
LEMMA WriteOnceKeeps ==
    ASSUME IInv, NEW f, NEW outcome \in Outcome, WriteOnce(f, outcome),
           f = Manifest => /\ OriginalSet \subseteq Safe
                           /\ \A r \in survivors : r.status \in Ready
    PROVE  /\ Safe \subseteq Safe'
           /\ ManifestIsLast'
           /\ Durable => Durable'
           /\ f # Manifest => (Published' <=> Published)
           /\ outcome = "synced" => f \in Safe'
           /\ survivors' \subseteq survivors
           /\ upload' = "present" <=> upload = "present"
<1>1. /\ names \subseteq names' /\ names' \subseteq names \union {f}
      /\ unsynced' \subseteq unsynced \union ({f} \ names)
      /\ survivors' \subseteq survivors
      /\ upload' = "present" <=> upload = "present"
      /\ outcome = "synced" => unsynced' = {} /\ f \in names'
  BY WriteOnceEffect DEF IInv
<1>2. Safe \subseteq Safe'
  BY <1>1 DEF Safe
<1>3. Published' => Published \/ f = Manifest
  BY <1>1 DEF Published
<1>4. ManifestIsLast'
  BY <1>1, <1>2, <1>3 DEF IInv, ManifestIsLast
<1>5. Durable => Durable'
  BY <1>1, <1>2 DEF Durable
<1>6. QED
  BY <1>1, <1>2, <1>3, <1>4, <1>5 DEF Safe, Published

LEMMA InvInit == Init => IInv
<1> SUFFICES ASSUME Init
             PROVE  IInv
  OBVIOUS
<1>1. TypeOK
  BY TypeInit
<1>2. QED
  BY <1>1 DEF Init, IInv, PlaceInv, FetchedInv, ManifestIsLast, Published,
              AckedResultIsDurable, EarlyRemovalNeedsResult

(* One step: the result stays durable, and the invariant holds again.      *)
LEMMA InvStep == IInv /\ [Next]_vars => IInv' /\ (Durable => Durable')
<1> SUFFICES ASSUME IInv, [Next]_vars
             PROVE  IInv' /\ (Durable => Durable')
  OBVIOUS
<1> DEFINE Goal == IInv' /\ (Durable => Durable')
<1>t. TypeOK /\ TypeOK'
  BY TypeStep DEF IInv
<1>r. record \in Record /\ mem \in Record /\ upload \in UploadState
      /\ record \in survivors
  BY <1>t DEF TypeOK
<1>p. Durable => Published
  BY DEF Durable, FileNames, Safe, Published
<1>1. CASE Begin
  <2>1. UNCHANGED disk /\ UNCHANGED gpu /\ UNCHANGED deadline
        /\ pc' = IF Published THEN "resync" ELSE "poll"
    BY <1>1 DEF Begin
  <2>2. QED
    BY <1>t, <2>1 DEF IInv, PlaceInv, FetchedInv, ManifestIsLast, Published,
       AckedResultIsDurable, EarlyRemovalNeedsResult, Durable, Safe, disk
<1>2. CASE Fetch
  <2>1. UNCHANGED disk /\ UNCHANGED deadline /\ pc = "fetch"
        /\ pc' = "original" /\ at' = 1 /\ gpu = "completed" /\ gpu' = gpu
    BY <1>2 DEF Fetch
  <2>2. QED
    BY <1>t, <2>1 DEF IInv, PlaceInv, FetchedInv, ManifestIsLast, Published,
       AckedResultIsDurable, EarlyRemovalNeedsResult, Durable, Safe, disk
<1>3. CASE Unavailable
  <2>1. UNCHANGED disk /\ UNCHANGED gpu /\ UNCHANGED deadline /\ pc' = "idle"
    BY <1>3 DEF Unavailable
  <2>2. QED
    BY <1>t, <2>1 DEF IInv, PlaceInv, FetchedInv, ManifestIsLast, Published,
       AckedResultIsDurable, EarlyRemovalNeedsResult, Durable, Safe, disk
<1>4. ASSUME NEW outcome \in Outcome, NEW r \in Record,
             WriteRecord(r, upload, outcome),
             pc \in {"poll", "fetch"}, pc' \in {"idle", "fetch"},
             UNCHANGED <<gpu, deadline>>
      PROVE  Goal
  <2>1. ~Published
    BY <1>4 DEF IInv, PlaceInv
  <2>2. /\ names' = names /\ Safe \subseteq Safe' /\ ~Published'
        /\ ManifestIsLast' /\ (Durable => Durable')
        /\ upload' = "present" <=> upload = "present"
    BY <1>4, <1>r, <2>1, WriteRecordKeeps
  <2>3. QED
    BY <1>4, <1>t, <2>2 DEF IInv, PlaceInv, FetchedInv,
       AckedResultIsDurable, EarlyRemovalNeedsResult
<1>5. ASSUME NEW outcome \in Outcome,
             \/ PollRunning(outcome) \/ PollCompleted(outcome)
             \/ PollEnded(outcome) \/ PollFails(outcome) \/ FetchFails(outcome)
      PROVE  Goal
  <2>1. PICK r \in Record : WriteRecord(r, upload, outcome)
    <3>1. CASE PollRunning(outcome)
      BY <1>r, <3>1, RecordUpdates DEF PollRunning
    <3>2. CASE PollCompleted(outcome)
      <4>1. PICK receipt \in CleanupStatus :
               WriteRecord([record EXCEPT !.status = "processing",
                                          !.job = receipt], upload, outcome)
        BY <3>2 DEF PollCompleted, CleanupStatus
      <4>2. QED
        BY <1>r, <4>1, RecordUpdates
    <3>3. CASE PollEnded(outcome)
      <4>1. PICK receipt \in CleanupStatus :
               WriteRecord([record EXCEPT !.status = "failed",
                                          !.job = receipt], upload, outcome)
        BY <3>3 DEF PollEnded, CleanupStatus
      <4>2. QED
        BY <1>r, <4>1, RecordUpdates
    <3>4. CASE PollFails(outcome) \/ FetchFails(outcome)
      BY <1>r, <3>4, RecordUpdates DEF PollFails, FetchFails
    <3>5. QED
      BY <1>5, <3>1, <3>2, <3>3, <3>4
  <2>2. pc \in {"poll", "fetch"} /\ pc' \in {"idle", "fetch"}
        /\ UNCHANGED <<gpu, deadline>>
    BY <1>5 DEF PollRunning, PollCompleted, PollEnded, PollFails, FetchFails,
                Continue
  <2>3. QED
    BY <1>4, <2>1, <2>2
<1>6. ASSUME NEW outcome \in Outcome, PublishOriginal(outcome)
      PROVE  Goal
  <2> DEFINE f == Originals[at]
  <2>1. f \in OriginalSet /\ f # Manifest
    BY <1>t, OriginalsEnumerated, OriginalsAssumption DEF TypeOK
  <2>2. /\ pc = "original" /\ WriteOnce(f, outcome)
        /\ UNCHANGED <<gpu, deadline>> /\ ~Published
        /\ gpu \in {"completed", "released", "lapsed"}
    BY <1>6 DEF PublishOriginal, IInv, PlaceInv, FetchedInv
  <2>3. /\ Safe \subseteq Safe' /\ ManifestIsLast' /\ (Durable => Durable')
        /\ ~Published' /\ (outcome = "synced" => f \in Safe')
        /\ upload' = "present" <=> upload = "present"
    BY <2>1, <2>2, WriteOnceKeeps
  <2>4. \A i \in 1..(at - 1) : Originals[i] \in Safe'
    BY <2>2, <2>3 DEF IInv, PlaceInv
  <2>5. PlaceInv'
    <3>1. CASE outcome # "synced"
      BY <1>6, <3>1, <2>3 DEF PublishOriginal, Continue, PlaceInv
    <3>2. CASE outcome = "synced" /\ at < Len(Originals)
      <4>1. pc' = "original" /\ at' = at + 1
        BY <1>6, <3>2 DEF PublishOriginal, Continue
      <4>2. \A i \in 1..(at' - 1) : i \in 1..(at - 1) \/ i = at
        BY <4>1, <1>t DEF TypeOK
      <4>3. \A i \in 1..(at' - 1) : (Originals[i])' \in Safe'
        BY <4>2, <2>3, <2>4, <3>2
      <4>4. QED
        BY <4>1, <4>3, <2>3 DEF PlaceInv
    <3>3. CASE outcome = "synced" /\ ~(at < Len(Originals))
      <4>1. pc' = "record"
        BY <1>6, <3>3 DEF PublishOriginal, Continue
      <4>2. \A i \in 1..Len(Originals) : i \in 1..(at - 1) \/ i = at
        BY <3>3, <1>t, OriginalsEnumerated DEF TypeOK
      <4>3. \A i \in 1..Len(Originals) : Originals[i] \in Safe'
        BY <4>2, <2>3, <2>4, <3>3
      <4>4. OriginalSet \subseteq Safe'
        BY <4>3, OriginalsEnumerated
      <4>5. QED
        BY <4>1, <4>4, <2>3 DEF PlaceInv
    <3>4. QED
      BY <3>1, <3>2, <3>3
  <2>6. QED
    BY <1>t, <2>2, <2>3, <2>5 DEF IInv, FetchedInv,
       AckedResultIsDurable, EarlyRemovalNeedsResult
<1>7. ASSUME NEW outcome \in Outcome, PublishRecord(outcome)
      PROVE  Goal
  <2> DEFINE r == [record EXCEPT !.status = "review_required", !.ack = TRUE]
  <2>1. r \in Record /\ r.status \in Ready
    BY <1>r, RecordUpdates DEF Record, Ready
  <2>2. /\ pc = "record" /\ WriteRecord(r, upload, outcome)
        /\ UNCHANGED <<gpu, deadline>> /\ ~Published
        /\ OriginalSet \subseteq Safe
        /\ gpu \in {"completed", "released", "lapsed"}
    BY <1>7 DEF PublishRecord, IInv, PlaceInv, FetchedInv
  <2>3. /\ names' = names /\ Safe \subseteq Safe' /\ ~Published'
        /\ ManifestIsLast' /\ (Durable => Durable')
        /\ upload' = "present" <=> upload = "present"
    BY <1>r, <2>1, <2>2, WriteRecordKeeps
  <2>4. outcome = "synced" => survivors' = {r}
    BY <1>r, <1>t, <2>1, <2>2, WriteRecordEffect
  <2>5. pc' = IF outcome = "synced" THEN "manifest" ELSE "idle"
    BY <1>7 DEF PublishRecord, Continue
  <2>6. PlaceInv'
    BY <2>1, <2>2, <2>3, <2>4, <2>5 DEF PlaceInv
  <2>7. QED
    BY <1>t, <2>2, <2>3, <2>6 DEF IInv, FetchedInv,
       AckedResultIsDurable, EarlyRemovalNeedsResult
<1>8. ASSUME NEW outcome \in Outcome, PublishManifest(outcome)
      PROVE  Goal
  <2>1. /\ pc = "manifest" /\ WriteOnce(Manifest, outcome)
        /\ UNCHANGED <<gpu, deadline>> /\ mem' = record
        /\ OriginalSet \subseteq Safe
        /\ \A r \in survivors : r.status \in Ready
        /\ gpu \in {"completed", "released", "lapsed"}
    BY <1>8 DEF PublishManifest, IInv, PlaceInv, FetchedInv
  <2>2. /\ Safe \subseteq Safe' /\ ManifestIsLast' /\ (Durable => Durable')
        /\ (outcome = "synced" => Manifest \in Safe')
        /\ survivors' \subseteq survivors
        /\ upload' = "present" <=> upload = "present"
    BY <2>1, WriteOnceKeeps
  <2>3. pc' \in {"idle", "upload", "ack", "final"}
        /\ (outcome # "synced" => pc' = "idle")
    BY <1>8 DEF PublishManifest, Continue, CleanupPlace
  <2>4. outcome = "synced" => Durable'
    BY <2>1, <2>2 DEF Durable, FileNames
  <2>5. PlaceInv'
    BY <1>r, <2>1, <2>3, <2>4 DEF PlaceInv
  <2>6. QED
    BY <1>t, <2>1, <2>2, <2>5 DEF IInv, FetchedInv,
       AckedResultIsDurable, EarlyRemovalNeedsResult
<1>9. ASSUME NEW ok \in BOOLEAN, Resync(ok)
      PROVE  Goal
  <2>1. /\ UNCHANGED <<names, record, gpu, deadline>> /\ mem' = record
        /\ Published /\ unsynced' \subseteq unsynced
        /\ survivors' \subseteq survivors
        /\ upload' = "present" <=> upload = "present"
    BY <1>9, <1>r DEF Resync, IInv, PlaceInv, AfterSync
  <2>2. Safe \subseteq Safe' /\ Published'
    BY <2>1 DEF Safe, Published
  <2>3. ManifestIsLast' /\ (Durable => Durable')
    BY <2>1, <2>2 DEF IInv, ManifestIsLast, Durable
  <2>4. record.status \in Ready
    BY <1>r, <2>1 DEF IInv, ManifestIsLast
  <2>5. /\ pc' \in {"idle", "upload", "ack", "final"}
        /\ pc' # "idle" => unsynced' = {}
    BY <1>9 DEF Resync, CleanupPlace
  <2>6. pc' # "idle" => Durable'
    BY <2>2, <2>3, <2>5 DEF Durable, FileNames, Safe, Published, ManifestIsLast
  <2>7. PlaceInv'
    BY <2>1, <2>4, <2>5, <2>6 DEF PlaceInv
  <2>8. QED
    BY <1>t, <2>1, <2>3, <2>5, <2>7 DEF IInv, FetchedInv,
       AckedResultIsDurable, EarlyRemovalNeedsResult
<1>10. ASSUME NEW outcome \in Outcome, RemoveUpload(outcome)
       PROVE  Goal
  <2>1. /\ pc = "upload" /\ Durable /\ mem.status \in Ready
        /\ pc' = "local" /\ UNCHANGED <<names, record, gpu, deadline>>
        /\ unsynced' \subseteq unsynced /\ survivors' \subseteq survivors
    BY <1>10, <1>r DEF RemoveUpload, IInv, PlaceInv
  <2>2. mem'.status = mem.status
    BY <1>10, <1>r DEF RemoveUpload, Record
  <2>3. Durable' /\ ManifestIsLast'
    BY <2>1 DEF Durable, ManifestIsLast, Published, Safe, FileNames
  <2>4. QED
    BY <1>t, <2>1, <2>2, <2>3 DEF IInv, PlaceInv, FetchedInv,
       AckedResultIsDurable, EarlyRemovalNeedsResult
<1>11. ASSUME NEW outcome \in Outcome,
              SaveLocal(outcome) \/ SaveFinal(outcome)
       PROVE  Goal
  <2>1. /\ Durable /\ mem.status \in Ready /\ UNCHANGED <<gpu, deadline, mem>>
        /\ pc' \in {"idle", "ack", "final"}
    BY <1>11 DEF SaveLocal, SaveFinal, Continue, IInv, PlaceInv
  <2>2. PICK r \in Record : /\ WriteRecord(r, upload, outcome)
                            /\ r.status \in Ready
    <3>1. CASE SaveLocal(outcome)
      BY <1>r, <2>1, <3>1 DEF SaveLocal
    <3>2. CASE SaveFinal(outcome)
      <4>1. [mem EXCEPT !.cleanup = CleanupOf(mem)] \in Record
        BY <1>r, RecordUpdates
      <4>2. [mem EXCEPT !.cleanup = CleanupOf(mem)].status = mem.status
        BY <1>r DEF Record
      <4>3. QED
        BY <2>1, <3>2, <4>1, <4>2 DEF SaveFinal
    <3>3. QED
      BY <1>11, <3>1, <3>2
  <2>3. Durable' /\ ManifestIsLast' /\ names' = names
        /\ (upload' = "present" <=> upload = "present")
    BY <1>r, <2>1, <2>2, WriteRecordKeeps
  <2>4. QED
    BY <1>t, <2>1, <2>3 DEF IInv, PlaceInv, FetchedInv,
       AckedResultIsDurable, EarlyRemovalNeedsResult
<1>12. ASSUME NEW arrives \in BOOLEAN, NEW answered \in BOOLEAN,
              SendAck(arrives, answered)
       PROVE  Goal
  <2>1. /\ Durable /\ mem.status \in Ready /\ pc' = "final"
        /\ UNCHANGED disk /\ UNCHANGED deadline
    BY <1>12 DEF SendAck, IInv, PlaceInv
  <2>2. gpu' = gpu \/ gpu' = "released"
    BY <1>12 DEF SendAck
  <2>3. mem'.status = mem.status
    BY <1>12, <1>r DEF SendAck, Record
  <2>4. Durable' /\ ManifestIsLast'
    BY <2>1 DEF IInv, Durable, ManifestIsLast, Published, Safe, disk
  <2>5. QED
    BY <1>t, <2>1, <2>2, <2>3, <2>4 DEF IInv, PlaceInv, FetchedInv,
       AckedResultIsDurable, EarlyRemovalNeedsResult, disk
<1>13. CASE Janitor
  <2>1. deadline /\ UNCHANGED <<pc, at, mem, gpu, deadline>> /\ pc = "idle"
    BY <1>13 DEF Janitor, ExpireUpload, ExpireAborts, SweepAborts
  <2>2. names' = names /\ ManifestIsLast' /\ (Durable => Durable')
    <3>1. CASE ExpireAborts
      BY <1>r, <3>1 DEF ExpireAborts, IInv, ManifestIsLast, Published, Safe,
                        Durable
    <3>2. ASSUME NEW unlink \in Outcome, NEW outcome \in Outcome,
                 ExpireUpload(unlink, outcome)
          PROVE  names' = names /\ ManifestIsLast' /\ (Durable => Durable')
      <4> DEFINE expiring == [record EXCEPT !.local = "expired"]
                 expired  == [expiring EXCEPT !.cleanup = CleanupOf(expiring)]
      <4>1. expired \in Record
        BY <1>r, RecordUpdates DEF CleanupStatus
      <4>2. expired.status = record.status
        BY <1>r DEF Record
      <4>3. AfterUnlink(upload) \in UploadState /\ "removed" \in UploadState
        BY <1>r DEF AfterUnlink, UploadState
      <4>4. PICK r \in Record, u \in UploadState :
               r.status = record.status /\ WriteRecord(r, u, outcome)
        <5>1. CASE unlink = "failed"
          BY <3>2, <1>r, <5>1 DEF ExpireUpload
        <5>2. CASE unlink = "named"
          BY <3>2, <1>r, <4>3, <5>2 DEF ExpireUpload
        <5>3. CASE unlink = "synced"
          BY <3>2, <4>1, <4>2, <4>3, <5>3 DEF ExpireUpload
        <5>4. QED
          BY <5>1, <5>2, <5>3 DEF Outcome
      <4>5. Published => r.status \in Ready
        BY <1>r, <4>4 DEF IInv, ManifestIsLast
      <4>6. QED
        BY <4>4, <4>5, WriteRecordKeeps
    <3>3. QED
      BY <1>13, <3>1, <3>2 DEF Janitor
  <2>3. QED
    BY <1>t, <2>1, <2>2 DEF IInv, PlaceInv, FetchedInv,
       AckedResultIsDurable, EarlyRemovalNeedsResult
<1>14. ASSUME NEW outcome \in Outcome, Review(outcome)
       PROVE  Goal
  <2>1. PICK status \in Ready :
           WriteRecord([record EXCEPT !.status = status], upload, outcome)
    BY <1>14 DEF Review
  <2>2. /\ [record EXCEPT !.status = status] \in Record
        /\ [record EXCEPT !.status = status].status \in Ready
    BY <1>r, RecordUpdates DEF Record
  <2>3. /\ names' = names /\ ManifestIsLast' /\ (Durable => Durable')
        /\ (upload' = "present" <=> upload = "present")
    BY <1>r, <2>1, <2>2, WriteRecordKeeps
  <2>4. UNCHANGED <<pc, at, mem, gpu, deadline>> /\ pc = "idle"
    BY <1>14 DEF Review
  <2>5. QED
    BY <1>t, <2>3, <2>4 DEF IInv, PlaceInv, FetchedInv,
       AckedResultIsDurable, EarlyRemovalNeedsResult
<1>15. CASE GPUFinishes \/ GPULapses \/ DeadlinePasses
  <2>1. /\ UNCHANGED <<disk, pc, at, mem>>
        /\ gpu \in {"completed", "released", "lapsed"}
              => gpu' \in {"completed", "released", "lapsed"}
        /\ gpu' = "released" => gpu = "released"
        /\ ~deadline' => ~deadline
    BY <1>15, <1>t DEF GPUFinishes, GPULapses, DeadlinePasses, TypeOK, GPUStatus
  <2>2. (Durable' <=> Durable) /\ (Published' <=> Published) /\ Safe' = Safe
    BY <2>1 DEF disk, Durable, Safe, Published
  <2>3. PlaceInv' /\ ManifestIsLast'
    BY <2>1, <2>2 DEF IInv, PlaceInv, ManifestIsLast, disk
  <2>4. QED
    BY <1>t, <2>1, <2>2, <2>3 DEF IInv, FetchedInv,
       AckedResultIsDurable, EarlyRemovalNeedsResult, disk
<1>16. CASE Crash
  <2>1. UNCHANGED disk /\ UNCHANGED gpu /\ UNCHANGED deadline /\ pc' = "idle"
    BY <1>16 DEF Crash
  <2>2. QED
    BY <1>t, <2>1 DEF IInv, PlaceInv, FetchedInv, ManifestIsLast, Published,
       AckedResultIsDurable, EarlyRemovalNeedsResult, Durable, Safe, disk
<1>17. CASE PowerLoss
  <2>1. /\ UNCHANGED <<gpu, deadline>> /\ pc' = "idle" /\ unsynced' = {}
        /\ names' \subseteq names /\ Safe \subseteq names'
        /\ survivors' \subseteq survivors
        /\ upload = "present" => upload' = "present"
    BY <1>17 DEF PowerLoss, Safe
  <2>2. Safe \subseteq Safe' /\ (Published' => Published)
    BY <2>1 DEF Safe, Published
  <2>3. ManifestIsLast' /\ (Durable => Durable')
    BY <2>1, <2>2 DEF IInv, ManifestIsLast, Durable
  <2>4. upload' # "present" => upload # "present"
    BY <2>1
  <2>5. QED
    BY <1>t, <2>1, <2>3, <2>4 DEF IInv, PlaceInv, FetchedInv,
       AckedResultIsDurable, EarlyRemovalNeedsResult
<1>18. CASE UNCHANGED vars
  BY <1>t, <1>18 DEF IInv, PlaceInv, FetchedInv, ManifestIsLast, Published,
     AckedResultIsDurable, EarlyRemovalNeedsResult, Durable, Safe, vars, disk
<1>19. QED
  BY <1>1, <1>2, <1>3, <1>5, <1>6, <1>7, <1>8, <1>9, <1>10, <1>11, <1>12,
     <1>13, <1>14, <1>15, <1>16, <1>17, <1>18 DEF Next, Step, Environment

LEMMA Invariance == Spec => []IInv
BY InvInit, InvStep, PTL DEF Spec

(* An ACK is only ever sent over a result that survives a power loss.      *)
THEOREM AckIsSafe == Spec => []AckedResultIsDurable
BY Invariance, PTL DEF IInv

(* A visible manifest never stands over missing or doubtful artifacts.     *)
THEOREM ManifestCommits == Spec => []ManifestIsLast
BY Invariance, PTL DEF IInv

(* Audio is never removed early without a durable result in its place.     *)
THEOREM SourceOrResult == Spec => []EarlyRemovalNeedsResult
BY Invariance, PTL DEF IInv

-----------------------------------------------------------------------------
(* No result is withdrawn *)

(* Only the step that writes the manifest publishes.                       *)
LEMMA OnlyManifestPublishes ==
    ASSUME IInv, [Next]_vars, ~Published, Published'
    PROVE  record.status \in Ready
<1> SUFFICES ASSUME ~(record.status \in Ready)
             PROVE  FALSE
  OBVIOUS
<1>t. TypeOK
  BY DEF IInv
<1>1. ASSUME NEW outcome \in Outcome, PublishManifest(outcome)
      PROVE  FALSE
  BY <1>1, <1>t DEF PublishManifest, IInv, PlaceInv, TypeOK
<1>2. ASSUME NEW outcome \in Outcome, PublishOriginal(outcome)
      PROVE  FALSE
  <2>1. Originals[at] # Manifest
    BY <1>t, OriginalsEnumerated, OriginalsAssumption DEF TypeOK
  <2>2. names' \subseteq names \union {Originals[at]}
    BY <1>2, <1>t, WriteOnceEffect DEF PublishOriginal
  <2>3. QED
    BY <2>1, <2>2 DEF Published
<1>3. ~(names' \subseteq names)
  BY DEF Published
<1>4. ASSUME NEW r, NEW u, NEW outcome, WriteRecord(r, u, outcome)
      PROVE  FALSE
  BY <1>3, <1>4 DEF WriteRecord
<1>5. ASSUME NEW outcome \in Outcome,
             \/ PollRunning(outcome) \/ PollCompleted(outcome)
             \/ PollEnded(outcome) \/ PollFails(outcome) \/ FetchFails(outcome)
             \/ PublishRecord(outcome) \/ SaveLocal(outcome)
             \/ SaveFinal(outcome) \/ Review(outcome)
      PROVE  FALSE
  BY <1>4, <1>5 DEF PollRunning, PollCompleted, PollEnded, PollFails,
                    FetchFails, PublishRecord, SaveLocal, SaveFinal, Review
<1>6. ASSUME NEW unlink \in Outcome, NEW outcome \in Outcome,
             ExpireUpload(unlink, outcome)
      PROVE  FALSE
  <2>1. CASE unlink = "failed"
    BY <1>4, <1>6, <2>1 DEF ExpireUpload
  <2>2. CASE unlink = "named"
    BY <1>4, <1>6, <2>2 DEF ExpireUpload
  <2>3. CASE unlink = "synced"
    BY <1>4, <1>6, <2>3 DEF ExpireUpload
  <2>4. QED
    BY <2>1, <2>2, <2>3 DEF Outcome
<1>7. ~(Begin \/ Fetch \/ Unavailable \/ ExpireAborts \/ GPUFinishes
        \/ GPULapses \/ DeadlinePasses \/ Crash \/ UNCHANGED vars)
  BY <1>3 DEF Begin, Fetch, Unavailable, ExpireAborts, GPUFinishes, GPULapses,
     DeadlinePasses, Crash, vars, disk
<1>8. ~PowerLoss
  BY <1>3 DEF PowerLoss
<1>9. ASSUME NEW outcome \in Outcome, RemoveUpload(outcome)
      PROVE  FALSE
  BY <1>3, <1>9 DEF RemoveUpload
<1>10. ASSUME NEW ok \in BOOLEAN, Resync(ok)
       PROVE  FALSE
  BY <1>3, <1>10 DEF Resync
<1>11. ASSUME NEW arrives \in BOOLEAN, NEW answered \in BOOLEAN,
              SendAck(arrives, answered)
       PROVE  FALSE
  BY <1>3, <1>11 DEF SendAck, disk
<1>12. CASE Step
  BY <1>12, <1>1, <1>2, <1>5, <1>7, <1>9, <1>10, <1>11 DEF Step
<1>13. CASE Janitor
  BY <1>13, <1>6, <1>7 DEF Janitor
<1>14. CASE Environment
  BY <1>14, <1>5, <1>7, <1>8 DEF Environment
<1>15. QED
  BY <1>7, <1>12, <1>13, <1>14 DEF Next

(* A durable result stays durable, and a failed meeting does not become    *)
(* ready without a new attempt.                                            *)
THEOREM NeverWithdrawn == Spec => ResultIsNeverWithdrawn
<1>1. IInv /\ [Next]_vars =>
         [/\ Durable => Durable'
          /\ ShownStatus = "failed" => ShownStatus' \notin Ready]_vars
  <2> SUFFICES ASSUME IInv, [Next]_vars
               PROVE  /\ Durable => Durable'
                      /\ ShownStatus = "failed" => ShownStatus' \notin Ready
    OBVIOUS
  <2>1. Durable => Durable'
    BY InvStep
  <2>2. ASSUME ShownStatus = "failed"
        PROVE  ShownStatus' \notin Ready
    <3>1. record.status \notin Ready
      BY <2>2 DEF ShownStatus, Ready
    <3>2. ~Published
      BY <3>1 DEF IInv, TypeOK, ManifestIsLast
    <3>3. ~Published'
      BY <3>1, <3>2, OnlyManifestPublishes
    <3>4. QED
      BY <3>3 DEF ShownStatus, Ready
  <2>3. QED
    BY <2>1, <2>2
<1>2. QED
  BY <1>1, Invariance, PTL DEF Spec, ResultIsNeverWithdrawn

-----------------------------------------------------------------------------
(* Refinement *)

(* The GPU job changes in three ways, and only an ACK over a durable       *)
(* result releases the payload.                                            *)
LEMMA GPUSteps ==
    ASSUME IInv, [Next]_vars, gpu' # gpu
    PROVE  /\ UNCHANGED disk
           /\ \/ gpu = "running" /\ gpu' \in {"completed", "failed", "void"}
              \/ gpu = "failed" /\ gpu' = "void"
              \/ gpu = "completed" /\ gpu' = "lapsed"
              \/ gpu = "completed" /\ gpu' = "released" /\ Durable
<1>1. CASE GPUFinishes
  BY <1>1 DEF GPUFinishes
<1>2. CASE GPULapses
  BY <1>2 DEF GPULapses
<1>3. ASSUME NEW arrives \in BOOLEAN, NEW answered \in BOOLEAN,
             SendAck(arrives, answered)
      PROVE  UNCHANGED disk /\ gpu = "completed" /\ gpu' = "released" /\ Durable
  BY <1>3 DEF SendAck, IInv, PlaceInv
<1>4. ~( \/ Begin \/ Fetch \/ Unavailable \/ ExpireAborts
         \/ DeadlinePasses \/ Crash \/ PowerLoss \/ UNCHANGED vars )
  BY DEF Begin, Fetch, Unavailable, ExpireAborts, DeadlinePasses, Crash,
     PowerLoss, vars
<1>5. ASSUME NEW outcome \in Outcome,
             \/ PollRunning(outcome) \/ PollCompleted(outcome)
             \/ PollEnded(outcome) \/ PollFails(outcome) \/ FetchFails(outcome)
             \/ PublishOriginal(outcome) \/ PublishRecord(outcome)
      PROVE  FALSE
  BY <1>5 DEF PollRunning, PollCompleted, PollEnded, PollFails, FetchFails,
     PublishOriginal, PublishRecord
<1>6. ASSUME NEW outcome \in Outcome,
             \/ PublishManifest(outcome) \/ RemoveUpload(outcome)
             \/ SaveLocal(outcome) \/ SaveFinal(outcome) \/ Review(outcome)
      PROVE  FALSE
  BY <1>6 DEF PublishManifest, RemoveUpload, SaveLocal, SaveFinal, Review
<1>7. ASSUME NEW ok \in BOOLEAN, Resync(ok)
      PROVE  FALSE
  BY <1>7 DEF Resync
<1>8. ASSUME NEW unlink \in Outcome, NEW outcome \in Outcome,
             ExpireUpload(unlink, outcome)
      PROVE  FALSE
  BY <1>8 DEF ExpireUpload
<1>9. CASE Step
  BY <1>9, <1>3, <1>4, <1>5, <1>6, <1>7 DEF Step
<1>10. CASE Janitor
  BY <1>10, <1>4, <1>8 DEF Janitor
<1>11. CASE Environment
  BY <1>11, <1>1, <1>2, <1>4, <1>6 DEF Environment
<1>12. QED
  BY <1>4, <1>9, <1>10, <1>11 DEF Next

(* The coordinator, the folder and the GPU service together hand a result  *)
(* over as ResultHandover promises.                                        *)
THEOREM ImplementsHandover == Spec => HandoverSpec
<1> USE DEF Handover!Next, Handover!Compute, Handover!Secure,
            Handover!Release, Handover!Lapse
<1>1. Init => Handover!Init
  BY DEF Init, Handover!Init, Durable, FileNames, Safe
<1>2. IInv /\ [Next]_vars => [Handover!Next]_(Handover!vars)
  <2> SUFFICES ASSUME IInv, [Next]_vars
               PROVE  Handover!Next \/ UNCHANGED Handover!vars
    OBVIOUS
  <2>1. gpu \in GPUStatus /\ gpu' \in GPUStatus
    BY TypeStep DEF IInv, TypeOK
  <2>2. Durable \in BOOLEAN /\ Durable' \in BOOLEAN
    BY DEF Durable
  <2>3. CASE gpu' = gpu
    <3>1. CASE Durable' = Durable
      BY <2>3, <3>1 DEF Handover!vars
    <3>2. CASE ~Durable /\ Durable'
      <4>1. names' # {} /\ IInv'
        BY <3>2, InvStep DEF Durable, FileNames, Safe
      <4>2. gpu \in {"completed", "lapsed"}
        BY <2>3, <3>2, <4>1 DEF IInv, FetchedInv, AckedResultIsDurable
      <4>3. QED
        BY <2>3, <3>2, <4>2
    <3>3. QED
      BY <2>2, <3>1, <3>2, InvStep
  <2>4. CASE gpu' # gpu
    <3>1. UNCHANGED disk
      BY <2>4, GPUSteps
    <3>2. Durable' = Durable
      BY <3>1 DEF disk, Durable, Safe
    <3>3. QED
      BY <2>4, <3>2, GPUSteps DEF Handover!vars
  <2>5. QED
    BY <2>3, <2>4
<1>3. QED
  BY <1>1, <1>2, Invariance, PTL DEF Spec, HandoverSpec, Handover!Spec
=============================================================================
