------------------------ MODULE MeetingFolderProofs ------------------------
(***************************************************************************)
(* Proofs about MeetingFolder, for any number of retries, deletions,       *)
(* originals and faults: type correctness and the three invariants of its  *)
(* run.                                                                    *)
(***************************************************************************)
EXTENDS MeetingFolder, WellFoundedInduction, TLAPS

-----------------------------------------------------------------------------
(* The inductive invariant *)

(* Of each original, in the folder or in the archive, something durable.   *)
OriginalsInv ==
    \A o \in had : kept[Top(o)] = {"there"} \/ kept[Archived(o)] = {"there"}

FunctionsInv ==
    /\ shown = [e \in Entries |-> shown[e]]
    /\ kept = [e \in Entries |-> kept[e]]

(* Whatever is left of the archived record, it is the failed attempt's.    *)
RecordArchived ==
    \A old \in kept[Archived("meeting.json")] : old # None /\ old.attempt = 1

(* The next attempt waits, alone in its folder, whatever is left of it.    *)
NextAttempt ==
    /\ \A r \in kept[Record] : r.attempt = 2
    /\ \A o \in Range(Originals) : kept[Top(o)] = {None}
    /\ RecordArchived

Holds(c) == pc[c] \notin {"idle", "wait"} \union Answers

HoldsRoot(c) == pc[c] \in {"hide", "undo", "remove"}

(* Each lock has one owner; the data root's is the tick's or a call's.     *)
LockInv ==
    /\ \A c, d \in Calls : Holds(c) /\ Holds(d) => c = d
    /\ tick # "idle" => \A c \in Calls : ~HoldsRoot(c)

(* What the steps before each place of a retry have made durable.          *)
RetryPlace(c) ==
    /\ pc[c] \in {"record", "copy", "unlink"} => Now.attempt = 1
    /\ pc[c] \in {"copy", "unlink"} => RecordArchived
    /\ pc[c] = "unlink" => Left # {} /\ kept[Archived(First)] = {"there"}
    /\ pc[c] = "accepted" => NextAttempt

RetryInv == \A c \in Calls : RetryPlace(c)

(* Which names the folder may come back with, at each place of a deletion. *)
NamePlace(c) ==
    /\ pc[c] = "root" => name = "folder"
    /\ pc[c] \in {"hide", "undo"} => name = "tombstone" /\ "folder" \in nameKept
    /\ pc[c] \in {"remove", "deleted"} => "folder" \notin nameKept

NameInv == \A c \in Calls : NamePlace(c)

IInv ==
    /\ TypeOK
    /\ FunctionsInv
    /\ OriginalsInv
    /\ LockInv
    /\ RetryInv
    /\ NameInv

-----------------------------------------------------------------------------
(* Lemmas about the folder *)

(* The entries are different from each other, and each has its directory.  *)
LEMMA EntryFacts ==
    /\ Record \in Entries /\ Record[1] = "folder"
    /\ Values(Record) = Records \union {None}
    /\ Archived("meeting.json") \in Entries
    /\ Archived("meeting.json")[1] = "archive"
    /\ Archived("meeting.json") # Record
    /\ Values(Archived("meeting.json")) = Records \union {None}
    /\ \A o \in Range(Originals) :
          /\ Top(o) \in Entries /\ Archived(o) \in Entries
          /\ Top(o)[1] = "folder" /\ Archived(o)[1] = "archive"
          /\ Top(o) # Record /\ Archived(o) # Record
          /\ Archived(o) # Archived("meeting.json")
          /\ Top(o) # Archived("meeting.json")
          /\ Values(Top(o)) = {"there", None}
          /\ Values(Archived(o)) = {"there", None}
    /\ \A o, p \in Range(Originals) :
          /\ Top(o) # Archived(p)
          /\ o # p => Top(o) # Top(p) /\ Archived(o) # Archived(p)
BY OriginalsAssumption DEF Entries, Files, Record, Archived, Top, Values

(* The loop's next original is one that is still in the folder.            *)
LEMMA FirstFacts ==
    ASSUME Left # {}
    PROVE  /\ First \in Range(Originals)
           /\ shown[Top(First)] # None
<1>1. DOMAIN Originals \subseteq Nat
  BY OriginalsAssumption
<1>2. Left \subseteq Nat
  BY <1>1 DEF Left
<1>3. PICK i \in Left : \A j \in Left : ~ (<<j, i>> \in OpToRel(<, Nat))
  BY <1>2, NatLessThanWellFounded, WFMin
<1>4. \A j \in Left : i <= j
  <2> SUFFICES ASSUME NEW j \in Left, j < i PROVE FALSE
    BY <1>2
  <2>1. <<j, i>> \in OpToRel(<, Nat)
    BY <1>2 DEF OpToRel
  <2>2. QED
    BY <1>3, <2>1
<1>5. Min(Left) \in Left
  BY <1>4 DEF Min
<1>6. QED
  BY <1>5 DEF First, Left, Range

(* What giving an entry the value v does: no other entry shows something   *)
(* else or may newly come back as something else, and a fsync settles the  *)
(* whole directory.                                                        *)
Effect(e, v) ==
    \A x \in Entries :
       /\ shown'[x] \in kept'[x]
       /\ shown'[x] = shown[x] \/ (x = e /\ shown'[x] = v)
       /\ \A w \in kept'[x] : w \in kept[x] \/ (x = e /\ w = v)

Settled(directory) ==
    \A x \in Entries : x[1] = directory => kept'[x] = {shown'[x]}

LEMMA ChangeEffect ==
    ASSUME TypeOK, FunctionsInv, NEW e \in Entries, NEW v,
           NEW outcome \in {"failed", "named", "synced"}, Change(e, v, outcome)
    PROVE  /\ FunctionsInv'
           /\ Effect(e, v)
           /\ outcome = "synced" => Settled(e[1]) /\ shown'[e] = v
<1>1. CASE outcome = "failed"
  BY <1>1 DEF Change, TypeOK, FunctionsInv, Effect
<1>2. CASE outcome = "named"
  <2>1. /\ shown' = [shown EXCEPT ![e] = v]
        /\ kept' = [kept EXCEPT ![e] = @ \union {v}]
    BY <1>2 DEF Change
  <2>2. QED
    BY <1>2, <2>1 DEF TypeOK, FunctionsInv, Effect
<1>3. CASE outcome = "synced"
  <2>1. /\ shown' = [shown EXCEPT ![e] = v]
        /\ kept' = [x \in Entries |-> IF x[1] = e[1] THEN {shown'[x]} ELSE kept[x]]
    BY <1>3 DEF Change
  <2>2. \A x \in Entries : shown'[x] = IF x = e THEN v ELSE shown[x]
    BY <2>1 DEF FunctionsInv
  <2>3. FunctionsInv'
    BY <2>1 DEF FunctionsInv
  <2>4. Effect(e, v)
    BY <2>1, <2>2 DEF TypeOK, Effect
  <2>5. QED
    BY <2>1, <2>2, <2>3, <2>4 DEF Settled
<1>4. QED
  BY <1>1, <1>2, <1>3

LEMMA ChargeType ==
    ASSUME TypeOK, NEW outcome, Charge(outcome)
    PROVE  faults' \in 0..MaxFaults
BY FaultsAssumption DEF Charge, TypeOK

(* The conjuncts of TypeOK about the folder, about its names, and the rest. *)
FolderOK ==
    /\ \A e \in Entries : shown[e] \in kept[e] /\ kept[e] \subseteq Values(e)
    /\ None \notin kept[Record]

NameOK ==
    /\ nameKept \subseteq {"folder", "tombstone", "gone"}
    /\ name \in nameKept
    /\ whole \in BOOLEAN

LocalOK ==
    /\ had \subseteq Range(Originals)
    /\ pc \in [Calls -> Places \union Answers]
    /\ tick \in {"idle", "sweep", "visit"}
    /\ expired \in BOOLEAN
    /\ faults \in 0..MaxFaults

LEMMA TypeParts == TypeOK <=> FolderOK /\ NameOK /\ LocalOK
BY DEF TypeOK, FolderOK, NameOK, LocalOK

LEMMA InvParts ==
    ASSUME FolderOK', NameOK', LocalOK', FunctionsInv', OriginalsInv', LockInv',
           RetryInv', NameInv'
    PROVE  IInv'
BY DEF IInv, TypeOK, FolderOK, NameOK, LocalOK

(* The record that is read is a record.                                    *)
LEMMA NowFacts ==
    ASSUME FolderOK
    PROVE  /\ Now \in kept[Record] /\ Now \in Records /\ Now # None
           /\ kept[Record] \subseteq Records
BY EntryFacts DEF FolderOK, Now

(* A change keeps the folder's types and every original, if an original    *)
(* leaves the folder only when its copy is durable.                        *)
LEMMA FolderStep ==
    ASSUME FolderOK, OriginalsInv, had \subseteq Range(Originals), had' = had,
           NEW e \in Entries, NEW v \in Values(e), Effect(e, v),
           e = Record => v # None,
           \A o \in had :
              e = Top(o) /\ v # "there" => kept[Archived(o)] = {"there"},
           \A o \in had : e = Archived(o) => v = "there"
    PROVE  FolderOK' /\ OriginalsInv'
<1>1. FolderOK'
  <2>1. \A x \in Entries : shown'[x] \in kept'[x] /\ kept'[x] \subseteq Values(x)
    BY DEF FolderOK, Effect
  <2>2. None \notin kept'[Record]
    BY EntryFacts DEF FolderOK, Effect
  <2>3. QED
    BY <2>1, <2>2 DEF FolderOK, Record, Values
<1>2. OriginalsInv'
  <2> SUFFICES ASSUME NEW o \in had
               PROVE  \/ kept'[Top(o)] = {"there"}
                      \/ kept'[Archived(o)] = {"there"}
    BY DEF OriginalsInv, Top, Archived
  <2>1. /\ Top(o) \in Entries /\ Archived(o) \in Entries
        /\ Top(o) # Archived(o)
    BY EntryFacts
  <2>2. /\ \A w \in kept'[Top(o)] : w \in kept[Top(o)] \/ (Top(o) = e /\ w = v)
        /\ \A w \in kept'[Archived(o)] :
              w \in kept[Archived(o)] \/ (Archived(o) = e /\ w = v)
        /\ kept'[Top(o)] # {} /\ kept'[Archived(o)] # {}
    BY <2>1 DEF Effect
  <2>3. CASE kept[Archived(o)] = {"there"}
    BY <2>2, <2>3
  <2>4. CASE kept[Archived(o)] # {"there"}
    BY <2>2, <2>4 DEF OriginalsInv
  <2>5. QED
    BY <2>3, <2>4
<1>3. QED
  BY <1>1, <1>2

-----------------------------------------------------------------------------
(* Lemmas about calls *)

(* A step that leaves the folder's entries alone keeps all that is said of *)
(* them, and of the calls that stay where they are.                        *)
LEMMA QuietFolder ==
    ASSUME IInv, UNCHANGED <<shown, kept, had>>
    PROVE  /\ FolderOK' /\ FunctionsInv' /\ OriginalsInv'
           /\ \A c \in Calls : pc'[c] = pc[c] => RetryPlace(c)'
<1>1. FolderOK'
  BY DEF IInv, TypeOK, FolderOK, Record, Values
<1>2. FunctionsInv' /\ OriginalsInv'
  BY DEF IInv, FunctionsInv, OriginalsInv, Top, Archived
<1>3. /\ Left' = Left /\ First' = First /\ Now' = Now
      /\ RecordArchived' = RecordArchived /\ NextAttempt' = NextAttempt
  BY DEF Left, First, Now, RecordArchived, NextAttempt, Record, Top, Archived
<1>4. ASSUME NEW c \in Calls, pc'[c] = pc[c]
      PROVE  RetryPlace(c)'
  <2>1. RetryPlace(c)
    BY DEF IInv, RetryInv
  <2>2. QED
    BY <1>3, <1>4, <2>1 DEF RetryPlace, Archived
<1>5. QED
  BY <1>1, <1>2, <1>4

LEMMA QuietNames ==
    ASSUME IInv, UNCHANGED names
    PROVE  /\ NameOK'
           /\ \A c \in Calls : pc'[c] = pc[c] => NamePlace(c)'
BY DEF IInv, TypeOK, NameOK, NameInv, NamePlace, names

(* The call c goes to a place: locks keep their one owner when c has them  *)
(* already, or takes those that nobody has.                                *)
LEMMA GotoLocks ==
    ASSUME IInv, NEW c \in Calls, NEW place \in Places \union Answers,
           Goto(c, place), tick' = tick,
           place \in {"idle", "wait"} \union Answers \/ Holds(c) \/ ~Locked,
           place \in {"hide", "undo", "remove"} => HoldsRoot(c) \/ ~RootLocked
    PROVE  /\ LockInv'
           /\ pc' \in [Calls -> Places \union Answers]
           /\ pc'[c] = place
           /\ \A d \in Calls : d # c => pc'[d] = pc[d]
<1>1. pc \in [Calls -> Places \union Answers]
  BY DEF IInv, TypeOK
<1>2. pc' = [pc EXCEPT ![c] = place]
  BY DEF Goto
<1>3. /\ pc' \in [Calls -> Places \union Answers]
      /\ pc'[c] = place
      /\ \A d \in Calls : d # c => pc'[d] = pc[d]
  BY <1>1, <1>2
<1>4. LockInv
  BY DEF IInv
<1>5. ASSUME NEW a \in Calls, NEW b \in Calls, Holds(a)', Holds(b)'
      PROVE  a = b
  <2>1. CASE ~Locked
    <3>1. \A d \in Calls : ~Holds(d)
      BY <2>1 DEF Locked, Holds
    <3>2. \A d \in Calls : Holds(d)' => d = c
      BY <1>3, <3>1 DEF Holds
    <3>3. QED
      BY <1>5, <3>2
  <2>2. CASE Locked
    <3>1. Holds(c)' => Holds(c)
      BY <1>3, <2>2 DEF Holds
    <3>2. \A d \in Calls : Holds(d)' => Holds(d)
      BY <1>3, <3>1 DEF Holds
    <3>3. QED
      BY <1>4, <1>5, <3>2 DEF LockInv
  <2>3. QED
    BY <2>1, <2>2
<1>6. ASSUME tick' # "idle", NEW d \in Calls
      PROVE  ~HoldsRoot(d)'
  <2>1. ~HoldsRoot(d) /\ ~HoldsRoot(c)
    BY <1>4, <1>6 DEF LockInv
  <2>2. RootLocked
    BY <1>6 DEF RootLocked
  <2>3. QED
    BY <1>3, <2>1, <2>2 DEF HoldsRoot
<1>7. QED
  BY <1>3, <1>5, <1>6 DEF LockInv

(* Nobody else holds the meeting's lock, and while its first attempt is    *)
(* retried nobody was told of another.                                     *)
LEMMA OthersWait ==
    ASSUME IInv, NEW c \in Calls, Holds(c)
    PROVE  \A d \in Calls \ {c} : pc[d] \in {"idle", "wait"} \union Answers
BY DEF IInv, LockInv, Holds

LEMMA NobodyAccepted ==
    ASSUME IInv, Now.attempt = 1
    PROVE  \A d \in Calls : pc[d] # "accepted"
<1>1. Now \in kept[Record]
  BY NowFacts, TypeParts DEF IInv
<1>2. QED
  BY <1>1 DEF IInv, RetryInv, RetryPlace, NextAttempt

(* A step of a retry.                                                      *)
LEMMA RetryStep ==
    ASSUME IInv, NEW c \in Calls, pc[c] \in {"record", "copy", "unlink"},
           NEW e \in Entries, NEW v \in Values(e),
           NEW outcome \in {"failed", "named", "synced"},
           NEW next \in {"copy", "unlink", "accepted"},
           Step(c, e, v, outcome, next),
           e = Record => v # None,
           \A o \in had :
              e = Top(o) /\ v # "there" => kept[Archived(o)] = {"there"},
           \A o \in had : e = Archived(o) => v = "there",
           Effect(e, v) /\ Settled(e[1]) /\ shown'[e] = v /\ pc'[c] = next
              => RetryPlace(c)'
    PROVE  IInv'
<1> DEFINE place == IF outcome = "synced" THEN next ELSE "failed"
<1>1. /\ Change(e, v, outcome) /\ Charge(outcome) /\ Goto(c, place)
      /\ UNCHANGED names /\ had' = had /\ tick' = tick /\ expired' = expired
  BY DEF Step
<1>2. Holds(c) /\ place \in Places \union Answers
  BY DEF Holds, Answers, Places
<1>3. /\ LockInv' /\ pc' \in [Calls -> Places \union Answers] /\ pc'[c] = place
      /\ \A d \in Calls : d # c => pc'[d] = pc[d]
  <2>1. place \notin {"hide", "undo", "remove"}
    OBVIOUS
  <2>2. QED
    BY <1>1, <1>2, <2>1, GotoLocks
<1>4. /\ TypeOK /\ FunctionsInv /\ OriginalsInv
      /\ FolderOK /\ had \subseteq Range(Originals)
  BY TypeParts DEF IInv, LocalOK
<1>5. /\ FunctionsInv' /\ Effect(e, v)
      /\ outcome = "synced" => Settled(e[1]) /\ shown'[e] = v
  BY <1>1, <1>4, ChangeEffect
<1>6. FolderOK' /\ OriginalsInv'
  BY <1>1, <1>4, <1>5, FolderStep
<1>7. LocalOK'
  BY <1>1, <1>3, <1>4, ChargeType DEF LocalOK, TypeOK
<1>8. RetryInv'
  <2>1. RetryPlace(c)'
    <3>1. CASE outcome = "synced"
      BY <1>3, <1>5, <3>1
    <3>2. CASE outcome # "synced"
      BY <1>3, <3>2 DEF RetryPlace
    <3>3. QED
      BY <3>1, <3>2
  <2>2. ASSUME NEW d \in Calls, d # c
        PROVE  RetryPlace(d)'
    <3>1. Now.attempt = 1
      BY DEF IInv, RetryInv, RetryPlace
    <3>2. pc'[d] \in {"idle", "wait"} \union Answers /\ pc'[d] # "accepted"
      BY <1>2, <1>3, <2>2, <3>1, OthersWait, NobodyAccepted
    <3>3. QED
      BY <3>2 DEF RetryPlace, Answers
  <2>3. QED
    BY <2>1, <2>2 DEF RetryInv
<1>9. NameOK' /\ NameInv'
  <2>1. NamePlace(c)'
    BY <1>3 DEF NamePlace
  <2>2. QED
    BY <1>1, <1>3, <2>1, QuietNames DEF NameInv
<1>10. QED
  BY <1>3, <1>5, <1>6, <1>7, <1>8, <1>9, InvParts

(* A step that changes no entry of the folder and moves one call.          *)
LEMMA CallStep ==
    ASSUME IInv, NEW c \in Calls, NEW place \in Places \union Answers,
           Goto(c, place), UNCHANGED <<shown, kept, had>>, tick' = tick,
           expired' = expired, faults' \in 0..MaxFaults,
           place \in {"idle", "wait"} \union Answers \/ Holds(c) \/ ~Locked,
           place \in {"hide", "undo", "remove"} => HoldsRoot(c) \/ ~RootLocked,
           NameOK',
           pc'[c] = place => RetryPlace(c)' /\ NamePlace(c)',
           \A d \in Calls \ {c} : pc'[d] = pc[d] => NamePlace(d)'
    PROVE  IInv'
<1>1. /\ LockInv' /\ pc' \in [Calls -> Places \union Answers] /\ pc'[c] = place
      /\ \A d \in Calls : d # c => pc'[d] = pc[d]
  BY GotoLocks
<1>2. FolderOK' /\ FunctionsInv' /\ OriginalsInv'
  BY QuietFolder
<1>3. RetryInv'
  BY <1>1, QuietFolder DEF RetryInv
<1>4. NameInv'
  BY <1>1 DEF NameInv
<1>5. LocalOK'
  BY <1>1, TypeParts DEF IInv, LocalOK
<1>6. QED
  BY <1>1, <1>2, <1>3, <1>4, <1>5, InvParts

-----------------------------------------------------------------------------
(* The steps of a retry *)

LEMMA ArchiveRecordKeeps ==
    ASSUME IInv, NEW c \in Calls, NEW outcome \in Outcome, ArchiveRecord(c, outcome)
    PROVE  IInv'
<1> DEFINE e == Archived("meeting.json")
<1>1. /\ e \in Entries /\ e # Record /\ e[1] = "archive"
      /\ Record \in Entries /\ Now \in Records /\ Now # None
      /\ Now \in Values(e)
      /\ \A o \in had : e # Top(o) /\ e # Archived(o)
  BY EntryFacts, NowFacts, TypeParts DEF IInv, LocalOK
<1>2. pc[c] = "record" /\ StepOnce(c, e, Now, outcome, "copy")
  BY DEF ArchiveRecord
<1>3. Now.attempt = 1
  BY <1>2 DEF IInv, RetryInv, RetryPlace
<1>4. CASE Step(c, e, Now, outcome, "copy")
  <2>1. ASSUME Effect(e, Now), Settled(e[1]), shown'[e] = Now, pc'[c] = "copy"
        PROVE  RetryPlace(c)'
    <3>1. shown'[Record] = shown[Record]
      BY <1>1, <2>1 DEF Effect
    <3>2. Now' = Now
      BY <3>1 DEF Now, Record
    <3>3. kept'[e] = {Now}
      BY <1>1, <2>1 DEF Settled
    <3>4. RecordArchived'
      BY <1>1, <1>3, <3>3 DEF RecordArchived, Archived
    <3>5. QED
      BY <1>3, <2>1, <3>2, <3>4 DEF RetryPlace
  <2>2. outcome \in {"failed", "named", "synced"}
    BY DEF Outcome
  <2>3. QED
    BY <1>1, <1>2, <1>4, <2>1, <2>2, RetryStep
<1>5. CASE /\ Goto(c, "failed")
           /\ UNCHANGED <<disk, had, tick, expired, faults>>
  <2>1. NameOK' /\ \A d \in Calls : pc'[d] = pc[d] => NamePlace(d)'
    BY <1>5, QuietNames DEF disk
  <2>2. pc'[c] = "failed" => RetryPlace(c)' /\ NamePlace(c)'
    BY DEF RetryPlace, NamePlace
  <2>3. UNCHANGED <<shown, kept, had>> /\ faults' \in 0..MaxFaults
    BY <1>5 DEF disk, IInv, TypeOK
  <2>4. "failed" \in Answers
    BY DEF Answers
  <2>5. QED
    BY <1>5, <2>1, <2>2, <2>3, <2>4, CallStep
<1>6. QED
  BY <1>2, <1>4, <1>5 DEF StepOnce

LEMMA ArchiveOriginalKeeps ==
    ASSUME IInv, NEW c \in Calls, NEW outcome \in Outcome,
           ArchiveOriginal(c, outcome)
    PROVE  IInv'
<1> DEFINE e == Archived(First)
<1>1. /\ pc[c] = "copy" /\ Left # {}
      /\ StepOnce(c, e, "there", outcome, "unlink")
  BY DEF ArchiveOriginal
<1>2. First \in Range(Originals)
  BY <1>1, FirstFacts
<1>3. /\ e \in Entries /\ e # Record /\ e[1] = "archive"
      /\ e # Archived("meeting.json") /\ Archived("meeting.json") \in Entries
      /\ Record \in Entries /\ "there" \in Values(e)
      /\ Values(e) = {"there", None}
      /\ \A o \in Range(Originals) : Top(o) \in Entries /\ e # Top(o)
  BY <1>2, EntryFacts
<1>4. /\ shown[e] \in {"there", None} /\ had \subseteq Range(Originals)
      /\ \A x \in Entries : shown[x] \in kept[x]
  BY <1>3 DEF IInv, TypeOK
<1>5. Step(c, e, "there", outcome, "unlink")
  BY <1>1, <1>4 DEF StepOnce
<1>6. RetryPlace(c)
  BY DEF IInv, RetryInv
<1>7. ASSUME Effect(e, "there"), Settled(e[1]), shown'[e] = "there",
             pc'[c] = "unlink"
      PROVE  RetryPlace(c)'
  <2>1. Now' = Now
    BY <1>3, <1>7 DEF Now, Effect, Record
  <2>2. Left' = Left
    <3>1. \A i \in DOMAIN Originals : shown'[Top(Originals[i])] = shown[Top(Originals[i])]
      BY <1>3, <1>7 DEF Effect, Range
    <3>2. QED
      BY <3>1 DEF Left, Top
  <2>3. First' = First
    BY <2>2 DEF First
  <2>4. kept'[e] = {"there"}
    BY <1>3, <1>7 DEF Settled
  <2>5. RecordArchived'
    <3>1. RecordArchived
      BY <1>1, <1>6 DEF RetryPlace
    <3>2. \A w \in kept'[Archived("meeting.json")] : w \in kept[Archived("meeting.json")]
      BY <1>3, <1>7 DEF Effect
    <3>3. QED
      BY <3>1, <3>2 DEF RecordArchived, Archived
  <2>6. kept'[Archived(First)] = {"there"}
    BY <2>4
  <2>7. QED
    BY <1>1, <1>6, <1>7, <2>1, <2>2, <2>3, <2>5, <2>6 DEF RetryPlace, Archived
<1>8. outcome \in {"failed", "named", "synced"}
  BY DEF Outcome
<1>9. QED
  BY <1>1, <1>3, <1>4, <1>5, <1>7, <1>8, RetryStep

LEMMA UnlinkOriginalKeeps ==
    ASSUME IInv, NEW c \in Calls, NEW outcome \in Outcome,
           UnlinkOriginal(c, outcome)
    PROVE  IInv'
<1> DEFINE e == Top(First)
<1>1. pc[c] = "unlink" /\ Step(c, e, None, outcome, "copy")
  BY DEF UnlinkOriginal
<1>2. /\ Left # {} /\ kept[Archived(First)] = {"there"} /\ Now.attempt = 1
      /\ RecordArchived
  BY <1>1 DEF IInv, RetryInv, RetryPlace
<1>3. First \in Range(Originals)
  BY <1>2, FirstFacts
<1>4. /\ e \in Entries /\ e # Record /\ e # Archived("meeting.json")
      /\ Record \in Entries /\ Archived("meeting.json") \in Entries
      /\ None \in Values(e)
      /\ \A o \in Range(Originals) : e # Archived(o) /\ (e = Top(o) => o = First)
  BY <1>3, EntryFacts
<1>5. had \subseteq Range(Originals)
  BY DEF IInv, TypeOK
<1>6. ASSUME Effect(e, None), pc'[c] = "copy"
      PROVE  RetryPlace(c)'
  <2>1. Now' = Now
    BY <1>4, <1>6 DEF Now, Effect, Record
  <2>2. \A w \in kept'[Archived("meeting.json")] : w \in kept[Archived("meeting.json")]
    BY <1>4, <1>6 DEF Effect
  <2>3. RecordArchived'
    BY <1>2, <2>2 DEF RecordArchived, Archived
  <2>4. QED
    BY <1>2, <1>6, <2>1, <2>3 DEF RetryPlace
<1>7. outcome \in {"failed", "named", "synced"}
  BY DEF Outcome
<1>8. QED
  BY <1>1, <1>2, <1>4, <1>5, <1>6, <1>7, RetryStep

LEMMA SaveAttemptKeeps ==
    ASSUME IInv, NEW c \in Calls, NEW outcome \in Outcome, SaveAttempt(c, outcome)
    PROVE  IInv'
<1> DEFINE v == [Now EXCEPT !.attempt = @ + 1]
<1>1. pc[c] = "copy" /\ Left = {} /\ Step(c, Record, v, outcome, "accepted")
  BY DEF SaveAttempt
<1>2. Now.attempt = 1 /\ RecordArchived
  BY <1>1 DEF IInv, RetryInv, RetryPlace
<1>3. Now \in Records
  BY NowFacts, TypeParts DEF IInv
<1>4. v \in Records /\ v.attempt = 2
  BY <1>2, <1>3 DEF Records
<1>5. v # None
  BY <1>4, NoneAssumption
<1>6. /\ Record \in Entries /\ v \in Values(Record) /\ Record[1] = "folder"
      /\ Archived("meeting.json") \in Entries /\ Archived("meeting.json") # Record
      /\ \A o \in Range(Originals) : /\ Record # Top(o) /\ Record # Archived(o)
                                     /\ Top(o) \in Entries /\ Top(o)[1] = "folder"
  BY <1>4, EntryFacts
<1>7. had \subseteq Range(Originals)
  BY DEF IInv, TypeOK
<1> HIDE DEF v
<1>8. ASSUME Effect(Record, v), Settled(Record[1]), shown'[Record] = v,
             pc'[c] = "accepted"
      PROVE  RetryPlace(c)'
  <2>1. kept'[Record] = {v}
    BY <1>6, <1>8 DEF Settled
  <2>2. ASSUME NEW o \in Range(Originals)
        PROVE  kept'[Top(o)] = {None}
    <3>1. shown[Top(o)] = None
      BY <1>1 DEF Left, Range
    <3>2. shown'[Top(o)] = None
      BY <1>6, <1>8, <3>1 DEF Effect
    <3>3. QED
      BY <1>6, <1>8, <3>2 DEF Settled
  <2>3. \A w \in kept'[Archived("meeting.json")] : w \in kept[Archived("meeting.json")]
    BY <1>6, <1>8 DEF Effect
  <2>4. RecordArchived'
    BY <1>2, <2>3 DEF RecordArchived, Archived
  <2>5. NextAttempt'
    BY <1>4, <2>1, <2>2, <2>4 DEF NextAttempt, Record, Top
  <2>6. QED
    BY <1>8, <2>5 DEF RetryPlace
<1>9. outcome \in {"failed", "named", "synced"}
  BY DEF Outcome
<1>10. Step(c, Record, v, outcome, "accepted")
  BY <1>1 DEF v
<1>11. QED
  BY <1>1, <1>5, <1>6, <1>7, <1>8, <1>9, <1>10, RetryStep

-----------------------------------------------------------------------------
(* Taking the meeting's lock, and the steps of a deletion *)

LEMMA CallKeeps ==
    ASSUME IInv, NEW c \in Calls, Call(c)
    PROVE  IInv'
<1> DEFINE place == IF name = "folder" THEN "wait" ELSE "refused"
<1>1. /\ Goto(c, place) /\ UNCHANGED <<shown, kept, had>> /\ UNCHANGED names
      /\ tick' = tick /\ expired' = expired /\ faults' = faults
  BY DEF Call, disk
<1>2. NameOK' /\ \A d \in Calls : pc'[d] = pc[d] => NamePlace(d)'
  BY <1>1, QuietNames
<1>3. place \in {"wait", "refused"} /\ place \in Places \union Answers
  BY DEF Places, Answers
<1>4. pc'[c] = place => RetryPlace(c)' /\ NamePlace(c)'
  BY <1>3 DEF RetryPlace, NamePlace
<1>5. faults' \in 0..MaxFaults
  BY <1>1 DEF IInv, TypeOK
<1>6. place \in {"idle", "wait"} \union Answers
  BY DEF Answers
<1> HIDE DEF place
<1>7. QED
  BY <1>1, <1>2, <1>3, <1>4, <1>5, <1>6, CallStep

LEMMA LockKeeps ==
    ASSUME IInv, NEW c \in Calls, Lock(c)
    PROVE  IInv'
<1>1. /\ ~Locked /\ UNCHANGED <<shown, kept, had>> /\ UNCHANGED names
      /\ tick' = tick /\ expired' = expired /\ faults' = faults
  BY DEF Lock, disk
<1>2. PICK place \in {"record", "root", "refused"} :
         /\ Goto(c, place)
         /\ place = "record" => Now.attempt = 1
         /\ place = "root" => name = "folder"
  BY DEF Lock, MayRetry, MayDelete
<1>3. NameOK' /\ \A d \in Calls : pc'[d] = pc[d] => NamePlace(d)'
  BY <1>1, QuietNames
<1>4. pc'[c] = place => RetryPlace(c)' /\ NamePlace(c)'
  BY <1>1, <1>2 DEF RetryPlace, NamePlace, Now, Record, names
<1>5. faults' \in 0..MaxFaults
  BY <1>1 DEF IInv, TypeOK
<1>6. place \in Places \union Answers /\ place \notin {"hide", "undo", "remove"}
  BY DEF Places, Answers
<1>7. QED
  BY <1>1, <1>2, <1>3, <1>4, <1>5, <1>6, CallStep

(* A call with the meeting's lock gives the folder another name.           *)
LEMMA NameStep ==
    ASSUME IInv, NEW c \in Calls, Holds(c), NEW place \in Places \union Answers,
           Goto(c, place), UNCHANGED <<shown, kept, had>>, tick' = tick,
           expired' = expired, faults' \in 0..MaxFaults,
           place \in {"hide", "undo", "remove"} => HoldsRoot(c) \/ ~RootLocked,
           place \notin {"record", "copy", "unlink", "accepted"},
           NameOK', pc'[c] = place => NamePlace(c)',
           "folder" \in nameKept' => "folder" \in nameKept
    PROVE  IInv'
<1>1. ASSUME NEW d \in Calls \ {c}, pc'[d] = pc[d]
      PROVE  NamePlace(d)'
  <2>1. pc[d] \in {"idle", "wait"} \union Answers
    BY OthersWait
  <2>2. NamePlace(d)
    BY DEF IInv, NameInv
  <2>3. QED
    BY <1>1, <2>1, <2>2 DEF NamePlace, Answers
<1>2. pc'[c] = place => RetryPlace(c)'
  BY DEF RetryPlace
<1>3. QED
  BY <1>1, <1>2, CallStep

LEMMA HideKeeps ==
    ASSUME IInv, NEW c \in Calls, NEW outcome \in Outcome, Hide(c, outcome)
    PROVE  IInv'
<1> DEFINE place == IF outcome = "failed" THEN "failed" ELSE "hide"
<1>1. /\ pc[c] = "root" /\ ~RootLocked /\ outcome \in {"failed", "named"}
      /\ Rename("tombstone", outcome) /\ Goto(c, place)
      /\ UNCHANGED <<shown, kept, had>> /\ whole' = whole
      /\ tick' = tick /\ expired' = expired
  BY DEF Hide
<1>2. faults' \in 0..MaxFaults
  BY ChargeType DEF Hide, IInv, TypeOK
<1>3. TypeOK /\ name = "folder"
  BY <1>1 DEF IInv, NameInv, NamePlace
<1>4. /\ name' = IF outcome = "failed" THEN name ELSE "tombstone"
      /\ nameKept' = IF outcome = "failed" THEN nameKept
                     ELSE nameKept \union {"tombstone"}
  BY <1>1 DEF Rename
<1>5. NameOK'
  BY <1>1, <1>3, <1>4 DEF TypeOK, NameOK
<1>6. Holds(c)
  BY <1>1 DEF Holds, Answers
<1>7. pc'[c] = place => NamePlace(c)'
  BY <1>1, <1>3, <1>4 DEF NamePlace, TypeOK
<1>8. /\ place \in Places \union Answers
      /\ place \notin {"record", "copy", "unlink", "accepted"}
  BY DEF Places, Answers
<1>9. "folder" \in nameKept' => "folder" \in nameKept
  BY <1>4
<1> HIDE DEF place
<1>10. QED
  BY <1>1, <1>2, <1>5, <1>6, <1>7, <1>8, <1>9, NameStep

LEMMA SyncHiddenKeeps ==
    ASSUME IInv, NEW c \in Calls, NEW outcome \in Outcome, SyncHidden(c, outcome)
    PROVE  IInv'
<1> DEFINE place == IF outcome = "synced" THEN "remove" ELSE "undo"
<1>1. /\ pc[c] = "hide" /\ outcome \in {"failed", "synced"}
      /\ Rename(name, outcome) /\ Goto(c, place) /\ Charge(outcome)
      /\ UNCHANGED <<shown, kept, had>> /\ whole' = whole
      /\ tick' = tick /\ expired' = expired
  BY DEF SyncHidden, Outcome
<1>2. TypeOK /\ name = "tombstone" /\ "folder" \in nameKept
  BY <1>1 DEF IInv, NameInv, NamePlace
<1>3. faults' \in 0..MaxFaults
  BY <1>1, <1>2, ChargeType
<1>4. /\ name' = name
      /\ nameKept' = IF outcome = "failed" THEN nameKept ELSE {name}
  BY <1>1 DEF Rename
<1>5. NameOK'
  BY <1>1, <1>2, <1>4 DEF TypeOK, NameOK
<1>6. Holds(c) /\ HoldsRoot(c)
  BY <1>1 DEF Holds, HoldsRoot, Answers
<1>7. pc'[c] = place => NamePlace(c)'
  BY <1>1, <1>2, <1>4 DEF NamePlace
<1>8. /\ place \in Places \union Answers
      /\ place \notin {"record", "copy", "unlink", "accepted"}
  BY DEF Places, Answers
<1>9. "folder" \in nameKept' => "folder" \in nameKept
  BY <1>2
<1> HIDE DEF place
<1>10. QED
  BY <1>1, <1>3, <1>5, <1>6, <1>7, <1>8, <1>9, NameStep

LEMMA UnhideKeeps ==
    ASSUME IInv, NEW c \in Calls, NEW outcome \in Outcome, Unhide(c, outcome)
    PROVE  IInv'
<1>1. /\ pc[c] = "undo" /\ Rename("folder", outcome) /\ Goto(c, "failed")
      /\ Charge(outcome) /\ UNCHANGED <<shown, kept, had>> /\ whole' = whole
      /\ tick' = tick /\ expired' = expired
  BY DEF Unhide
<1>2. TypeOK /\ name = "tombstone" /\ "folder" \in nameKept
  BY <1>1 DEF IInv, NameInv, NamePlace
<1>3. faults' \in 0..MaxFaults
  BY <1>1, <1>2, ChargeType
<1>4. NameOK'
  BY <1>1, <1>2 DEF TypeOK, NameOK, Rename, Outcome
<1>5. Holds(c) /\ "failed" \in Answers
  BY <1>1 DEF Holds, Answers
<1>6. pc'[c] = "failed" => NamePlace(c)'
  BY DEF NamePlace
<1>7. QED
  BY <1>1, <1>2, <1>3, <1>4, <1>5, <1>6, NameStep

(* A removal only makes the folder come back less.                         *)
LEMMA RemoveEffect ==
    ASSUME TypeOK, NEW outcome \in Outcome \union {"half"}, RemoveTree(outcome)
    PROVE  /\ NameOK' /\ UNCHANGED <<shown, kept>> /\ faults' \in 0..MaxFaults
           /\ "folder" \in nameKept' => "folder" \in nameKept
<1>1. /\ Charge(outcome) /\ UNCHANGED <<shown, kept>>
      /\ whole' = (whole /\ outcome = "failed")
  BY DEF RemoveTree
<1>2. /\ name' \in {name, "gone"}
      /\ name' \in nameKept' /\ nameKept' \subseteq nameKept \union {"gone"}
  <2>1. CASE outcome = "half"
    BY <2>1 DEF RemoveTree, TypeOK
  <2>2. CASE outcome # "half"
    BY <2>2 DEF RemoveTree, Rename, TypeOK, Outcome
  <2>3. QED
    BY <2>1, <2>2
<1>3. whole' \in BOOLEAN
  BY <1>1
<1>4. QED
  BY <1>1, <1>2, <1>3, ChargeType DEF TypeOK, NameOK

LEMMA RemoveKeeps ==
    ASSUME IInv, NEW c \in Calls, NEW outcome \in Outcome \union {"half"},
           Remove(c, outcome)
    PROVE  IInv'
<1>1. /\ pc[c] = "remove" /\ RemoveTree(outcome) /\ Goto(c, "deleted")
      /\ had' = had /\ tick' = tick /\ expired' = expired
  BY DEF Remove
<1>2. TypeOK /\ "folder" \notin nameKept
  BY <1>1 DEF IInv, NameInv, NamePlace
<1>3. /\ NameOK' /\ UNCHANGED <<shown, kept>> /\ faults' \in 0..MaxFaults
      /\ "folder" \notin nameKept'
  BY <1>1, <1>2, RemoveEffect
<1>4. Holds(c) /\ "deleted" \in Answers
  BY <1>1 DEF Holds, Answers
<1>5. pc'[c] = "deleted" => NamePlace(c)'
  BY <1>3 DEF NamePlace
<1>6. QED
  BY <1>1, <1>3, <1>4, <1>5, NameStep

-----------------------------------------------------------------------------
(* The tick, the deadline and deaths *)

(* The tick saves the record of a meeting whose lock is free.              *)
LEMMA TickSaves ==
    ASSUME IInv, ~Locked, NEW v \in Records, v.attempt = Now.attempt,
           NEW outcome \in {"failed", "named", "synced"},
           Change(Record, v, outcome), UNCHANGED <<had, pc>>
    PROVE  FolderOK' /\ FunctionsInv' /\ OriginalsInv' /\ RetryInv'
<1>1. /\ TypeOK /\ FunctionsInv /\ OriginalsInv
      /\ FolderOK /\ had \subseteq Range(Originals) /\ had' = had
  BY TypeParts DEF IInv, LocalOK
<1>2. /\ Record \in Entries /\ v \in Values(Record) /\ v # None
      /\ \A o \in Range(Originals) : /\ Record # Top(o) /\ Record # Archived(o)
                                     /\ Top(o) \in Entries
      /\ Archived("meeting.json") \in Entries
      /\ Record # Archived("meeting.json")
  BY EntryFacts, NoneAssumption
<1>3. FunctionsInv' /\ Effect(Record, v)
  BY <1>1, <1>2, ChangeEffect
<1>4. FolderOK' /\ OriginalsInv'
  BY <1>1, <1>2, <1>3, FolderStep
<1>5. ASSUME NextAttempt
      PROVE  NextAttempt'
  <2>1. v.attempt = 2
    BY <1>1, <1>5, NowFacts DEF NextAttempt
  <2>2. \A w \in kept'[Record] : w \in kept[Record] \/ w = v
    BY <1>2, <1>3 DEF Effect
  <2>3. \A r \in kept'[Record] : r.attempt = 2
    BY <1>5, <2>1, <2>2 DEF NextAttempt
  <2>4. ASSUME NEW o \in Range(Originals)
        PROVE  kept'[Top(o)] = {None}
    <3>1. /\ \A w \in kept'[Top(o)] : w \in kept[Top(o)]
          /\ kept'[Top(o)] # {}
      BY <1>2, <1>3 DEF Effect
    <3>2. QED
      BY <1>5, <3>1 DEF NextAttempt
  <2>5. \A w \in kept'[Archived("meeting.json")] : w \in kept[Archived("meeting.json")]
    BY <1>2, <1>3 DEF Effect
  <2>6. QED
    BY <1>5, <2>3, <2>4, <2>5 DEF NextAttempt, RecordArchived, Record, Top, Archived
<1>6. RetryInv'
  <2> SUFFICES ASSUME NEW c \in Calls PROVE RetryPlace(c)'
    BY DEF RetryInv
  <2>1. pc'[c] \in {"idle", "wait"} \union Answers
    BY DEF Locked
  <2>2. pc'[c] = "accepted" => NextAttempt
    BY DEF IInv, RetryInv, RetryPlace
  <2>3. QED
    BY <1>5, <2>1, <2>2 DEF RetryPlace, Answers
<1>7. QED
  BY <1>3, <1>4, <1>6

(* A step that moves no call keeps the owners of the locks.                *)
LEMMA QuietCalls ==
    ASSUME IInv, pc' = pc, tick' = "idle" \/ tick # "idle" \/ ~RootLocked
    PROVE  LockInv'
<1>1. RootLocked \/ \A c \in Calls : ~HoldsRoot(c)
  BY DEF RootLocked, HoldsRoot
<1>2. tick # "idle" \/ ~RootLocked => \A c \in Calls : ~HoldsRoot(c)
  BY <1>1 DEF IInv, LockInv
<1>3. QED
  BY <1>2 DEF IInv, LockInv, Holds, HoldsRoot

LEMMA TickStartKeeps ==
    ASSUME IInv, TickStart
    PROVE  IInv'
<1>1. /\ ~RootLocked /\ tick' = "sweep" /\ UNCHANGED <<shown, kept, had>>
      /\ UNCHANGED names /\ pc' = pc /\ expired' = expired /\ faults' = faults
  BY DEF TickStart, disk
<1>2. FolderOK' /\ FunctionsInv' /\ OriginalsInv' /\ RetryInv'
  BY <1>1, QuietFolder DEF RetryInv
<1>3. NameOK' /\ NameInv'
  BY <1>1, QuietNames DEF NameInv
<1>4. LockInv'
  BY <1>1, QuietCalls
<1>5. LocalOK'
  BY <1>1, TypeParts DEF IInv, LocalOK
<1>6. QED
  BY <1>2, <1>3, <1>4, <1>5, InvParts

LEMMA SweepKeeps ==
    ASSUME IInv, NEW outcome \in Outcome \union {"half"}, Sweep(outcome)
    PROVE  IInv'
<1>1. /\ tick = "sweep" /\ tick' = "visit" /\ UNCHANGED <<had, pc>>
      /\ expired' = expired
  BY DEF Sweep
<1>2. LockInv'
  BY <1>1, QuietCalls
<1>3. TypeOK
  BY DEF IInv
<1>4. CASE name = "tombstone" /\ RemoveTree(outcome)
  <2>1. /\ NameOK' /\ UNCHANGED <<shown, kept>> /\ faults' \in 0..MaxFaults
        /\ "folder" \in nameKept' => "folder" \in nameKept
    BY <1>3, <1>4, RemoveEffect
  <2>2. FolderOK' /\ FunctionsInv' /\ OriginalsInv' /\ RetryInv'
    BY <1>1, <2>1, QuietFolder DEF RetryInv
  <2>3. NameInv'
    <3> SUFFICES ASSUME NEW c \in Calls PROVE NamePlace(c)'
      BY DEF NameInv
    <3>1. NamePlace(c) /\ ~HoldsRoot(c)
      BY <1>1 DEF IInv, NameInv, LockInv
    <3>2. QED
      BY <1>1, <1>4, <2>1, <3>1 DEF NamePlace, HoldsRoot
  <2>4. LocalOK'
    BY <1>1, <2>1, TypeParts DEF IInv, LocalOK
  <2>5. QED
    BY <1>2, <2>1, <2>2, <2>3, <2>4, InvParts
<1>5. CASE /\ ~Locked /\ outcome # "half"
           /\ Change(Record, [Now EXCEPT !.upload = FALSE], outcome)
           /\ Charge(outcome)
           /\ UNCHANGED names
  <2> DEFINE v == [Now EXCEPT !.upload = FALSE]
  <2>1. v \in Records /\ v.attempt = Now.attempt
    BY NowFacts, TypeParts DEF IInv, Records
  <2>2. outcome \in {"failed", "named", "synced"} /\ Change(Record, v, outcome)
    BY <1>5 DEF Outcome
  <2> HIDE DEF v
  <2>3. FolderOK' /\ FunctionsInv' /\ OriginalsInv' /\ RetryInv'
    BY <1>1, <1>5, <2>1, <2>2, TickSaves
  <2>4. NameOK' /\ NameInv'
    BY <1>1, <1>5, QuietNames DEF NameInv
  <2>5. LocalOK'
    BY <1>1, <1>3, <1>5, ChargeType DEF TypeOK, LocalOK
  <2>6. QED
    BY <1>2, <2>3, <2>4, <2>5, InvParts
<1>6. CASE UNCHANGED <<disk, faults>>
  <2>1. FolderOK' /\ FunctionsInv' /\ OriginalsInv' /\ RetryInv'
    BY <1>1, <1>6, QuietFolder DEF RetryInv, disk
  <2>2. NameOK' /\ NameInv'
    BY <1>1, <1>6, QuietNames DEF NameInv, disk
  <2>3. LocalOK'
    BY <1>1, <1>3, <1>6 DEF TypeOK, LocalOK
  <2>4. QED
    BY <1>2, <2>1, <2>2, <2>3, InvParts
<1>7. QED
  BY <1>4, <1>5, <1>6 DEF Sweep

LEMMA VisitKeeps ==
    ASSUME IInv, NEW outcome \in Outcome, Visit(outcome)
    PROVE  IInv'
<1>1. /\ tick' = "idle" /\ UNCHANGED names /\ UNCHANGED <<had, pc>>
      /\ expired' = expired
  BY DEF Visit
<1>2. LockInv'
  BY <1>1, QuietCalls
<1>3. NameOK' /\ NameInv'
  BY <1>1, QuietNames DEF NameInv
<1>4. TypeOK
  BY DEF IInv
<1>5. CASE /\ ~Locked
           /\ Change(Record, [Now EXCEPT !.receipt = FALSE], outcome)
           /\ Charge(outcome)
  <2> DEFINE v == [Now EXCEPT !.receipt = FALSE]
  <2>1. v \in Records /\ v.attempt = Now.attempt
    BY NowFacts, TypeParts DEF IInv, Records
  <2>2. outcome \in {"failed", "named", "synced"} /\ Change(Record, v, outcome)
    BY <1>5 DEF Outcome
  <2> HIDE DEF v
  <2>3. FolderOK' /\ FunctionsInv' /\ OriginalsInv' /\ RetryInv'
    BY <1>1, <1>5, <2>1, <2>2, TickSaves
  <2>4. LocalOK'
    BY <1>1, <1>4, <1>5, ChargeType DEF TypeOK, LocalOK
  <2>5. QED
    BY <1>2, <1>3, <2>3, <2>4, InvParts
<1>6. CASE UNCHANGED <<shown, kept, faults>>
  <2>1. FolderOK' /\ FunctionsInv' /\ OriginalsInv' /\ RetryInv'
    BY <1>1, <1>6, QuietFolder DEF RetryInv
  <2>2. LocalOK'
    BY <1>1, <1>4, <1>6 DEF TypeOK, LocalOK
  <2>3. QED
    BY <1>2, <1>3, <2>1, <2>2, InvParts
<1>7. QED
  BY <1>5, <1>6 DEF Visit

LEMMA DeadlineKeeps ==
    ASSUME IInv, UNCHANGED <<disk, had, pc, tick, faults>>, expired' \in BOOLEAN
    PROVE  IInv'
<1>1. FolderOK' /\ FunctionsInv' /\ OriginalsInv' /\ RetryInv'
  BY QuietFolder DEF RetryInv, disk
<1>2. NameOK' /\ NameInv'
  BY QuietNames DEF NameInv, disk
<1>3. LockInv'
  BY QuietCalls
<1>4. LocalOK'
  BY TypeParts DEF IInv, LocalOK
<1>5. QED
  BY <1>1, <1>2, <1>3, <1>4, InvParts

(* After a death nobody holds a lock, and only answered calls are known.   *)
LEMMA DieEffect ==
    ASSUME IInv, Die
    PROVE  /\ LockInv' /\ LocalOK'
           /\ \A c \in Calls : /\ pc'[c] \in {"idle"} \union Answers
                               /\ pc'[c] = pc[c] \/ pc'[c] = "lost"
<1>1. /\ pc' = [c \in Calls |-> IF pc[c] \in {"idle"} \union Answers THEN pc[c]
                               ELSE "lost"]
      /\ tick' = "idle" /\ had' = had /\ expired' = expired /\ Charge("failed")
  BY DEF Die
<1>2. TypeOK
  BY DEF IInv
<1>3. \A c \in Calls : /\ pc'[c] \in {"idle"} \union Answers
                       /\ pc'[c] = pc[c] \/ pc'[c] = "lost"
  BY <1>1 DEF Answers
<1>4. LockInv'
  BY <1>1, <1>3 DEF LockInv, Holds, Answers
<1>5. pc' \in [Calls -> Places \union Answers]
  BY <1>1, <1>2, <1>3 DEF TypeOK, Places
<1>6. LocalOK'
  BY <1>1, <1>2, <1>5, ChargeType DEF TypeOK, LocalOK
<1>7. QED
  BY <1>3, <1>4, <1>6

LEMMA CrashKeeps ==
    ASSUME IInv, Crash
    PROVE  IInv'
<1>1. Die /\ UNCHANGED <<shown, kept, had>> /\ UNCHANGED names
  BY DEF Crash, Die, names
<1>2. /\ LockInv' /\ LocalOK'
      /\ \A c \in Calls : pc'[c] = pc[c] \/ pc'[c] = "lost"
  BY <1>1, DieEffect
<1>3. FolderOK' /\ FunctionsInv' /\ OriginalsInv' /\ RetryInv'
  BY <1>1, <1>2, QuietFolder DEF RetryInv, RetryPlace
<1>4. NameOK' /\ NameInv'
  BY <1>1, <1>2, QuietNames DEF NameInv, NamePlace
<1>5. QED
  BY <1>2, <1>3, <1>4, InvParts

LEMMA PowerLossKeeps ==
    ASSUME IInv, PowerLoss
    PROVE  IInv'
<1>1. /\ LockInv' /\ LocalOK' /\ had' = had /\ whole' = whole
      /\ \A c \in Calls : /\ pc'[c] \in {"idle"} \union Answers
                          /\ pc'[c] = pc[c] \/ pc'[c] = "lost"
  BY DieEffect DEF PowerLoss, Die
<1>2. /\ TypeOK /\ had \subseteq Range(Originals) /\ RetryInv /\ OriginalsInv
      /\ NameInv
  BY DEF IInv, TypeOK
<1>3. /\ shown' = [e \in Entries |-> shown'[e]]
      /\ \A e \in Entries : shown'[e] \in kept[e]
  <2> DEFINE unsynced == { e \in Entries : kept[e] # {shown[e]} }
  <2>1. PICK left \in [unsynced -> UNION { kept[e] : e \in unsynced }] :
           /\ \A e \in unsynced : left[e] \in kept[e]
           /\ shown' = [e \in Entries |-> IF e \in unsynced THEN left[e]
                                          ELSE shown[e]]
    BY DEF PowerLoss
  <2>2. QED
    BY <1>2, <2>1 DEF TypeOK
<1>4. kept' = [e \in Entries |-> {shown'[e]}]
  BY DEF PowerLoss
<1>5. \A e \in Entries : kept'[e] = {shown'[e]}
  BY <1>4
<1>6. FunctionsInv'
  BY <1>3, <1>4 DEF FunctionsInv
<1>7. FolderOK'
  <2>1. \A e \in Entries : shown'[e] \in kept'[e] /\ kept'[e] \subseteq Values(e)
    BY <1>2, <1>3, <1>5 DEF TypeOK
  <2>2. None \notin kept'[Record]
    BY <1>2, <1>3, <1>5, EntryFacts DEF TypeOK
  <2>3. QED
    BY <2>1, <2>2 DEF FolderOK, Record, Values
<1>8. OriginalsInv'
  <2> SUFFICES ASSUME NEW o \in had
               PROVE  \/ kept'[Top(o)] = {"there"}
                      \/ kept'[Archived(o)] = {"there"}
    BY <1>1 DEF OriginalsInv, Top, Archived
  <2>1. Top(o) \in Entries /\ Archived(o) \in Entries
    BY <1>2, EntryFacts
  <2>2. QED
    BY <1>2, <1>3, <1>5, <2>1 DEF OriginalsInv
<1>9. ASSUME NextAttempt
      PROVE  NextAttempt'
  <2>1. /\ Record \in Entries /\ Archived("meeting.json") \in Entries
        /\ \A o \in Range(Originals) : Top(o) \in Entries
    BY EntryFacts
  <2>2. \A r \in kept'[Record] : r.attempt = 2
    BY <1>3, <1>5, <1>9, <2>1 DEF NextAttempt
  <2>3. \A o \in Range(Originals) : kept'[Top(o)] = {None}
    BY <1>3, <1>5, <1>9, <2>1 DEF NextAttempt
  <2>4. \A old \in kept'[Archived("meeting.json")] : old # None /\ old.attempt = 1
    BY <1>3, <1>5, <1>9, <2>1 DEF NextAttempt, RecordArchived
  <2>5. QED
    BY <2>2, <2>3, <2>4 DEF NextAttempt, RecordArchived, Record, Top, Archived
<1>10. RetryInv'
  <2> SUFFICES ASSUME NEW c \in Calls PROVE RetryPlace(c)'
    BY DEF RetryInv
  <2>1. pc'[c] = "accepted" => NextAttempt
    BY <1>1, <1>2 DEF RetryInv, RetryPlace
  <2>2. QED
    BY <1>1, <1>9, <2>1 DEF RetryPlace, Answers
<1>11. name' \in nameKept /\ nameKept' = {name'}
  BY DEF PowerLoss
<1>12. NameOK'
  BY <1>1, <1>2, <1>11 DEF TypeOK, NameOK
<1>13. NameInv'
  <2> SUFFICES ASSUME NEW c \in Calls PROVE NamePlace(c)'
    BY DEF NameInv
  <2>1. pc'[c] = "deleted" => "folder" \notin nameKept
    BY <1>1, <1>2 DEF NameInv, NamePlace
  <2>2. QED
    BY <1>1, <1>11, <2>1 DEF NamePlace, Answers
<1>14. QED
  BY <1>1, <1>6, <1>7, <1>8, <1>10, <1>12, <1>13, InvParts

-----------------------------------------------------------------------------
(* Theorems *)

(* A publication that failed half-way: its originals are in the folder.    *)
LEMMA InitInv == Init => IInv
<1> SUFFICES ASSUME Init PROVE IInv
  OBVIOUS
<1>1. PICK r \in { q \in Records : q.attempt = 1 }, n \in 0..Len(Originals) :
         /\ had = { Originals[i] : i \in 1..n }
         /\ shown = [e \in Entries |->
                       IF e = Record THEN r
                       ELSE IF e[1] = "folder" /\ e[2] \in had THEN "there"
                       ELSE None]
  BY DEF Init
<1>2. /\ kept = [e \in Entries |-> {shown[e]}]
      /\ name = "folder" /\ nameKept = {"folder"} /\ whole = TRUE
      /\ pc = [c \in Calls |-> "idle"] /\ tick = "idle"
      /\ expired = FALSE /\ faults = 0
  BY DEF Init
<1>3. had \subseteq Range(Originals)
  BY <1>1, OriginalsAssumption DEF Range
<1>4. ASSUME NEW o \in had
      PROVE  kept[Top(o)] = {"there"}
  <2>1. Top(o) \in Entries /\ Top(o) # Record
    BY <1>3, EntryFacts
  <2>2. Top(o)[1] = "folder" /\ Top(o)[2] = o
    BY DEF Top
  <2>3. QED
    BY <1>1, <1>2, <2>1, <2>2
<1>5. FolderOK
  <2>1. ASSUME NEW e \in Entries
        PROVE  shown[e] \in Values(e)
    <3>1. CASE e = Record
      BY <1>1, <3>1, EntryFacts
    <3>2. CASE e # Record
      <4>1. e[2] \in had => e[2] # "meeting.json"
        BY <1>3, OriginalsAssumption
      <4>2. QED
        BY <1>1, <3>2, <4>1 DEF Values
    <3>3. QED
      BY <3>1, <3>2
  <2>2. None \notin kept[Record]
    BY <1>1, <1>2, EntryFacts, NoneAssumption
  <2>3. QED
    BY <1>2, <2>1, <2>2 DEF FolderOK
<1>6. NameOK
  BY <1>2 DEF NameOK
<1>7. LocalOK
  <2>1. 0 \in 0..MaxFaults
    BY FaultsAssumption
  <2>2. "idle" \in Places \union Answers
    BY DEF Places
  <2>3. QED
    BY <1>2, <1>3, <2>1, <2>2 DEF LocalOK
<1>8. FunctionsInv
  BY <1>1, <1>2 DEF FunctionsInv
<1>9. OriginalsInv
  BY <1>4 DEF OriginalsInv
<1>10. LockInv /\ RetryInv /\ NameInv
  BY <1>2 DEF LockInv, Holds, RetryInv, RetryPlace, NameInv, NamePlace
<1>11. QED
  BY <1>5, <1>6, <1>7, <1>8, <1>9, <1>10, TypeParts DEF IInv

(* Every step of a call, of the tick, and every death.                     *)
LEMMA NextKeeps == IInv /\ [Next]_vars => IInv'
<1> SUFFICES ASSUME IInv, [Next]_vars PROVE IInv'
  OBVIOUS
<1>1. CASE UNCHANGED vars
  BY <1>1, DeadlineKeeps DEF vars, names, disk, IInv, TypeOK
<1>2. ASSUME NEW c \in Calls, Call(c) \/ Lock(c)
      PROVE  IInv'
  BY <1>2, CallKeeps, LockKeeps
<1>3. ASSUME NEW c \in Retries, Retry(c)
      PROVE  IInv'
  <2>1. c \in Calls
    BY DEF Calls
  <2>2. QED
    BY <1>3, <2>1, ArchiveRecordKeeps, ArchiveOriginalKeeps,
       UnlinkOriginalKeeps, SaveAttemptKeeps DEF Retry
<1>4. ASSUME NEW c \in Deletes, HideAny(c) \/ Delete(c)
      PROVE  IInv'
  <2>1. c \in Calls
    BY DEF Calls
  <2>2. QED
    BY <1>4, <2>1, HideKeeps, SyncHiddenKeeps, UnhideKeeps, RemoveKeeps
       DEF HideAny, Delete
<1>5. CASE Tick
  BY <1>5, TickStartKeeps, SweepKeeps, VisitKeeps DEF Tick
<1>6. CASE Deadline
  BY <1>6, DeadlineKeeps DEF Deadline
<1>7. CASE Crash
  BY <1>7, CrashKeeps
<1>8. CASE PowerLoss
  BY <1>8, PowerLossKeeps
<1>9. QED
  BY <1>1, <1>2, <1>3, <1>4, <1>5, <1>6, <1>7, <1>8 DEF Next

(* The inductive invariant holds in every reachable state.                 *)
THEOREM Invariance == Spec => []IInv
  BY InitInv, NextKeeps, PTL DEF Spec

(* The folder, its archive and its names hold what the code can read.      *)
THEOREM Typing == Spec => []TypeOK
<1>1. IInv => TypeOK
  BY DEF IInv
<1>2. QED
  BY <1>1, Invariance, PTL

(* _archive_attempt, interrupted at any step and repeated any number of    *)
(* times, loses no original of the failed attempt.                         *)
THEOREM OriginalsAreSafe == Spec => []OriginalsSurvive
<1>1. IInv => OriginalsSurvive
  BY DEF IInv, OriginalsInv, OriginalsSurvive
<1>2. QED
  BY <1>1, Invariance, PTL

(* A retry is answered 202 only when the next attempt is durable, beside   *)
(* none of the originals, and the failed one's record is archived; neither *)
(* the tick nor a power loss takes that back.                              *)
THEOREM RetryIsClean == Spec => []AcceptedRetryIsClean
<1>1. IInv => AcceptedRetryIsClean
  BY DEF IInv, RetryInv, RetryPlace, NextAttempt, RecordArchived,
         AcceptedRetryIsClean, Calls
<1>2. QED
  BY <1>1, Invariance, PTL

(* A folder whose removal may have begun, or whose DELETE was answered     *)
(* 204, never gets the meeting's name back.                                *)
THEOREM DeletionIsFinal == Spec => []DeletedStaysGone
<1>1. IInv => DeletedStaysGone
  BY DEF IInv, NameInv, NamePlace, DeletedStaysGone, Calls
<1>2. QED
  BY <1>1, Invariance, PTL
=============================================================================
