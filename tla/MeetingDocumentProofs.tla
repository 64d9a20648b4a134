------------------------ MODULE MeetingDocumentProofs ------------------------
(***************************************************************************)
(* Proofs about MeetingDocument, for any inputs of the adapter, any bundle *)
(* and any sequence of reviews.                                            *)
(***************************************************************************)
EXTENDS MeetingDocument, WellFoundedInduction, TLAPS

-----------------------------------------------------------------------------
(* The inductive invariant *)

Segment(s) ==
    s = [id |-> s.id, start |-> s.start, end |-> s.end,
         speaker |-> s.speaker, text |-> s.text, edited |-> s.edited]

(* What is published was validated, whoever wrote it.                      *)
Sound(d) ==
    /\ ValidTranscript(d)
    /\ ValidInsights(d)
    /\ \A v \in Range(d.speakers) : v.identity \in {"unreviewed", "named", "unknown"}

ReviewInv ==
    /\ status = "new" => snapshot = None
    /\ Published =>
          /\ Sound(original)
          /\ \A s \in Range(original.segments) : Segment(s)
          /\ Sound(Current)

ApprovalInv ==
    status = "approved" =>
       \A v \in Range(Current.speakers) : v.identity # "unreviewed"

IInv == ReviewInv /\ ApprovalInv

-----------------------------------------------------------------------------
(* The minutes are computed from the original and the snapshot.            *)
LEMMA CurrentDepends ==
    ASSUME UNCHANGED <<original, snapshot>>
    PROVE  Current' = Current
BY DEF Current

(* The adapter's segments have all of their fields.                        *)
LEMMA AdaptedSegments ==
    ASSUME NEW p, NEW s \in Range(Adapted(p).segments)
    PROVE  Segment(s)
<1>1. PICK i \in DOMAIN p.utterances : s = Adapted(p).segments[i]
  BY DEF Adapted, Range
<1> QED
  BY <1>1 DEF Adapted, Segment

(* A new result is validated before it is shown.                           *)
LEMMA BundleIsSound ==
    ASSUME NEW d, ValidBundle(d)
    PROVE  Sound(d)
BY DEF ValidBundle, Sound

LEMMA InitIInv == Init => IInv
BY DEF Init, IInv, ReviewInv, ApprovalInv, Published

LEMMA NextIInv == IInv /\ [Next]_vars => IInv'
<1> SUFFICES ASSUME IInv, [Next]_vars PROVE IInv'
  OBVIOUS
<1>1. CASE Adapt
  <2>1. CASE Adaptable(payload) /\ ValidBundle(Adapted(payload))
    <3>1. /\ original' = Adapted(payload) /\ snapshot' = snapshot
          /\ snapshot = None /\ status' = "review_required"
      BY <1>1, <2>1 DEF Adapt, IInv, ReviewInv
    <3>2. Current' = Adapted(payload)
      BY <3>1 DEF Current
    <3>3. \A s \in Range(Adapted(payload).segments) : Segment(s)
      BY AdaptedSegments
    <3> QED
      BY <2>1, <3>1, <3>2, <3>3, BundleIsSound DEF IInv, ReviewInv, ApprovalInv
  <2>2. CASE ~(Adaptable(payload) /\ ValidBundle(Adapted(payload)))
    BY <1>1, <2>2 DEF Adapt, IInv, ReviewInv, ApprovalInv, Published
  <2> QED
    BY <2>1, <2>2
<1>2. ASSUME NEW d \in Bundles, Receive(d)
      PROVE  IInv'
  <2>1. CASE ValidBundle(d)
    <3>1. /\ original' = d /\ snapshot' = snapshot
          /\ snapshot = None /\ status' = "review_required"
      BY <1>2, <2>1 DEF Receive, IInv, ReviewInv
    <3>2. Current' = d
      BY <3>1 DEF Current
    <3>3. \A s \in Range(d.segments) : Segment(s)
      BY SegmentsAssumption DEF Segment
    <3> QED
      BY <2>1, <3>1, <3>2, <3>3, BundleIsSound DEF IInv, ReviewInv, ApprovalInv
  <2>2. CASE ~ValidBundle(d)
    BY <1>2, <2>2 DEF Receive, IInv, ReviewInv, ApprovalInv, Published
  <2> QED
    BY <2>1, <2>2
<1>3. ASSUME NEW r \in Requests, Review(r)
      PROVE  IInv'
  <2>1. /\ Published /\ Acceptable(original, r) /\ snapshot' = r
        /\ status' = "review_required" /\ original' = original
    BY <1>3 DEF Review
  <2>2. Current' = original \/ Current' = Overlay(original, r)
    BY <2>1 DEF Current
  <2>3. Overlay(original, r).speakers = r.speakers
    BY DEF Overlay
  <2>4. Sound(Overlay(original, r))
    BY <2>1, <2>3, VoicesAssumption DEF Acceptable, Sound
  <2>5. Sound(original) /\ \A s \in Range(original.segments) : Segment(s)
    BY <2>1 DEF IInv, ReviewInv
  <2> QED
    BY <2>1, <2>2, <2>4, <2>5 DEF IInv, ReviewInv, ApprovalInv
<1>4. CASE Approve
  <2>1. /\ status = "review_required" /\ status' = "approved"
        /\ UNCHANGED <<original, snapshot>>
        /\ \A v \in Range(Current.speakers) : v.identity # "unreviewed"
    BY <1>4 DEF Approve
  <2>2. Current' = Current
    BY <2>1, CurrentDepends
  <2> QED
    BY <2>1, <2>2 DEF IInv, ReviewInv, ApprovalInv, Published
<1>5. CASE UNCHANGED vars
  <2>1. Current' = Current
    BY <1>5, CurrentDepends DEF vars
  <2> QED
    BY <1>5, <2>1 DEF vars, IInv, ReviewInv, ApprovalInv, Published
<1> QED
  BY <1>1, <1>2, <1>3, <1>4, <1>5 DEF Next

-----------------------------------------------------------------------------
(* A voice that exists has a name in the minutes.                          *)
LEMMA NameIsThere ==
    ASSUME NEW d, NEW id, \E v \in Range(d.speakers) : v.id = id
    PROVE  \E v \in Range(d.speakers) : NameOf(d, id) = v.identity
<1>1. Find(d.speakers, id) \in Range(d.speakers)
  BY DEF Find
<1> QED
  BY <1>1 DEF NameOf

(* The validators are enough for every lookup of the PDF.                  *)
LEMMA SoundIsPrintable ==
    ASSUME NEW d, Sound(d)
    PROVE  \A name \in SegmentNames(d) \union EvidenceNames(d) \union TaskNames(d) :
              \E v \in Range(d.speakers) : name = v.identity
<1>1. \A s \in Range(d.segments) : \E v \in Range(d.speakers) : v.id = s.speaker
  BY DEF Sound, ValidTranscript
<1>2. ASSUME NEW name \in SegmentNames(d)
      PROVE  \E v \in Range(d.speakers) : name = v.identity
  BY <1>1, <1>2, NameIsThere DEF SegmentNames
<1>3. ASSUME NEW name \in EvidenceNames(d)
      PROVE  \E v \in Range(d.speakers) : name = v.identity
  <2>1. PICK e \in UNION { Range(item.evidence) : item \in Items(d) } :
           name = IF \E s \in Range(d.segments) : s.id = e.segment
                  THEN NameOf(d, Find(d.segments, e.segment).speaker) ELSE None
    BY <1>3 DEF EvidenceNames
  <2>2. \E s \in Range(d.segments) : s.id = e.segment
    <3>1. PICK item \in Items(d) : e \in Range(item.evidence)
      OBVIOUS
    <3> QED
      BY <3>1 DEF Sound, ValidInsights, Cites
  <2>3. Find(d.segments, e.segment) \in Range(d.segments)
    BY <2>2 DEF Find
  <2>4. name = NameOf(d, Find(d.segments, e.segment).speaker)
    BY <2>1, <2>2
  <2> QED
    BY <1>1, <2>3, <2>4, NameIsThere
<1>4. ASSUME NEW name \in TaskNames(d)
      PROVE  \E v \in Range(d.speakers) : name = v.identity
  <2>1. PICK item \in Range(d.tasks) :
           item.assignee # None /\ name = NameOf(d, item.assignee)
    BY <1>4 DEF TaskNames
  <2>2. \E v \in Range(d.speakers) : v.id = item.assignee
    BY <2>1 DEF Sound, ValidInsights
  <2> QED
    BY <2>1, <2>2, NameIsThere
<1> QED
  BY <1>2, <1>3, <1>4

(* An edit marks its segment and leaves its identity and interval.         *)
LEMMA EditMarks ==
    ASSUME NEW s, NEW e, Segment(s)
    PROVE  /\ Edit(s, e).edited
           /\ Edit(s, e).id = s.id
           /\ Edit(s, e).start = s.start
           /\ Edit(s, e).end = s.end
BY DEF Segment, Edit

(* Each segment of an overlay is the machine's or an edit of it.           *)
LEMMA OverlayShows ==
    ASSUME NEW d, NEW r
    PROVE  /\ DOMAIN Overlay(d, r).segments = DOMAIN d.segments
           /\ \A i \in DOMAIN d.segments :
                 \/ Overlay(d, r).segments[i] = d.segments[i]
                 \/ \E e : Overlay(d, r).segments[i] = Edit(d.segments[i], e)
BY DEF Overlay

-----------------------------------------------------------------------------
(* IInv holds of every behaviour of the document.                          *)
THEOREM Invariance == Spec => []IInv
  BY InitIInv, NextIInv, PTL DEF Spec

(* The validators and the approval are enough for the PDF: whatever was    *)
(* received and reviewed, render_pdf finds each segment and speaker it     *)
(* looks up, and prints no voice that nobody has reviewed.                 *)
THEOREM ApprovedIsPrintable == Spec => []MinutesCanBePrinted
<1>1. IInv => MinutesCanBePrinted
  <2> SUFFICES ASSUME IInv, status = "approved",
                      NEW name \in SegmentNames(Current)
                             \union EvidenceNames(Current) \union TaskNames(Current)
               PROVE  name \in {"named", "unknown"}
    BY DEF MinutesCanBePrinted
  <2>1. Sound(Current)
    BY DEF IInv, ReviewInv, Published
  <2>2. PICK v \in Range(Current.speakers) : name = v.identity
    BY <2>1, SoundIsPrintable
  <2> QED
    BY <2>1, <2>2 DEF Sound, IInv, ApprovalInv
<1> QED
  BY <1>1, Invariance, PTL

(* What the minutes do not mark as edited is what the machine heard, after *)
(* any sequence of reviews.                                                *)
THEOREM EditsAreMarked == Spec => []MachineShows
<1>1. IInv => MachineShows
  <2> SUFFICES ASSUME IInv, Published
               PROVE  /\ DOMAIN Current.segments = DOMAIN original.segments
                      /\ \A i \in DOMAIN original.segments :
                            LET now == Current.segments[i]
                                then == original.segments[i]
                            IN /\ <<now.id, now.start, now.end>>
                                     = <<then.id, then.start, then.end>>
                               /\ ~now.edited => now = then
    BY DEF MachineShows
  <2>1. \A i \in DOMAIN original.segments : Segment(original.segments[i])
    BY DEF IInv, ReviewInv, Range
  <2>2. CASE snapshot = None
    BY <2>2 DEF Current
  <2>3. CASE snapshot # None
    <3>1. Current = Overlay(original, snapshot)
      BY <2>3 DEF Current
    <3>2. ASSUME NEW i \in DOMAIN original.segments
          PROVE  \/ Current.segments[i] = original.segments[i]
                 \/ /\ Current.segments[i].edited
                    /\ Current.segments[i].id = original.segments[i].id
                    /\ Current.segments[i].start = original.segments[i].start
                    /\ Current.segments[i].end = original.segments[i].end
      BY <2>1, <3>1, OverlayShows, EditMarks
    <3> QED
      BY <3>1, <3>2, OverlayShows
  <2> QED
    BY <2>2, <2>3
<1> QED
  BY <1>1, Invariance, PTL

-----------------------------------------------------------------------------
(* The adapter's loop *)

(* Induction over the natural numbers, said of a set.                      *)
LEMMA Induction ==
    ASSUME NEW S \in SUBSET Nat, 0 \in S, \A n \in Nat : n \in S => n + 1 \in S
    PROVE  S = Nat
<1> SUFFICES ASSUME S # Nat PROVE FALSE
  OBVIOUS
<1>1. Nat \ S \subseteq Nat /\ Nat \ S # {}
  OBVIOUS
<1>2. PICK n \in Nat \ S : \A m \in Nat \ S : ~ (<<m, n>> \in OpToRel(<, Nat))
  BY <1>1, NatLessThanWellFounded, WFMin
<1>3. n \in Nat /\ n # 0 /\ n - 1 \in Nat /\ n - 1 < n
  OBVIOUS
<1>4. n - 1 \in S
  BY <1>2, <1>3 DEF OpToRel
<1>5. (n - 1) + 1 = n
  BY <1>3
<1> QED
  BY <1>2, <1>3, <1>4, <1>5

(* There is a function that does what the loop does, utterance by          *)
(* utterance: one that does it for m is extended to m + 1.                 *)
LEMMA HeardExists ==
    ASSUME NEW us, NEW N \in Nat
    PROVE  \E g : g = [n \in 0..N |-> IF n = 0 THEN <<>>
                                      ELSE Hear(g[n - 1], us[n].label)]
<1> DEFINE Value(g, n) == IF n = 0 THEN <<>> ELSE Hear(g[n - 1], us[n].label)
           S == { m \in Nat : \E g : g = [n \in 0..m |-> Value(g, n)] }
<1>1. 0 \in S
  <2>1. [n \in 0..0 |-> <<>>] = [n \in 0..0 |-> Value([k \in 0..0 |-> <<>>], n)]
    OBVIOUS
  <2> QED
    BY <2>1
<1>2. ASSUME NEW m \in Nat, m \in S PROVE m + 1 \in S
  <2>1. PICK g : g = [n \in 0..m |-> Value(g, n)]
    BY <1>2
  <2> DEFINE h == [n \in 0..m + 1 |-> IF n = m + 1 THEN Hear(g[m], us[m + 1].label)
                                      ELSE g[n]]
  <2>2. ASSUME NEW n \in 0..m + 1 PROVE h[n] = Value(h, n)
    <3>1. CASE n = m + 1
      <4>1. n # 0 /\ n - 1 = m /\ m \in 0..m + 1 /\ m # m + 1
        BY <3>1
      <4>2. h[n - 1] = g[m] /\ h[n] = Hear(g[m], us[n].label)
        BY <3>1, <4>1
      <4> QED
        BY <4>1, <4>2
    <3>2. CASE n # m + 1 /\ n # 0
      <4>1. n \in 0..m /\ n - 1 \in 0..m + 1 /\ n - 1 # m + 1
        BY <3>2
      <4>2. h[n] = g[n] /\ h[n - 1] = g[n - 1]
        BY <3>2, <4>1
      <4>3. g[n] = Value(g, n)
        BY <2>1, <4>1
      <4> QED
        BY <3>2, <4>2, <4>3
    <3>3. CASE n = 0
      <4>1. 0 \in 0..m /\ 0 # m + 1 /\ 0 \in 0..m + 1
        OBVIOUS
      <4>2. g[0] = Value(g, 0)
        BY <2>1, <4>1
      <4>3. h[0] = g[0]
        BY <4>1
      <4> QED
        BY <3>3, <4>2, <4>3
    <3> QED
      BY <3>1, <3>2, <3>3
  <2>3. h = [n \in 0..m + 1 |-> Value(h, n)]
    <3> HIDE DEF Value
    <3> QED
      BY <2>2
  <2> HIDE DEF h
  <2> QED
    BY <2>3
<1> HIDE DEF S
<1>3. S \subseteq Nat
  BY DEF S
<1>4. S = Nat
  BY <1>1, <1>2, <1>3, Induction
<1> QED
  BY <1>4 DEF S

LEMMA HeardSteps ==
    ASSUME NEW us, Len(us) \in Nat
    PROVE  Heard(us) = [n \in 0..Len(us) |->
              IF n = 0 THEN <<>> ELSE Hear(Heard(us)[n - 1], us[n].label)]
<1> DEFINE Is(g) == g = [n \in 0..Len(us) |->
                           IF n = 0 THEN <<>> ELSE Hear(g[n - 1], us[n].label)]
<1>1. \E g : Is(g)
  BY HeardExists
<1>2. Heard(us) = CHOOSE g : Is(g)
  BY DEF Heard
<1>3. Is(CHOOSE g : Is(g))
  <2> HIDE DEF Is
  <2> QED
    BY <1>1
<1> QED
  BY <1>2, <1>3

(* After k utterances the list has each of their labels once, nothing      *)
(* else, and begins with every earlier list.                               *)
Distinct(s) == \A a, b \in 1..Len(s) : s[a] = s[b] => a = b

Begins(s, t) == Len(s) <= Len(t) /\ \A n \in 1..Len(s) : t[n] = s[n]

HeardInv(us, k) ==
    LET now == Heard(us)[k]
    IN /\ now \in Seq({ us[i].label : i \in 1..Len(us) })
       /\ Distinct(now)
       /\ \A i \in 1..k : \E n \in 1..Len(now) : now[n] = us[i].label
       /\ \A n \in 1..Len(now) : \E i \in 1..k : now[n] = us[i].label
       /\ \A j \in 0..k : Begins(Heard(us)[j], now)

(* One more utterance.                                                     *)
LEMMA HearKeeps ==
    ASSUME NEW T, NEW s \in Seq(T), NEW l \in T, Distinct(s)
    PROVE  /\ Hear(s, l) \in Seq(T)
           /\ Distinct(Hear(s, l))
           /\ Begins(s, Hear(s, l))
           /\ Len(Hear(s, l)) <= Len(s) + 1
<1>1. Len(s) \in Nat /\ DOMAIN s = 1..Len(s) /\ Begins(s, s)
  BY DEF Begins
<1>2. CASE l \in Range(s)
  <2>1. Hear(s, l) = s
    BY <1>2 DEF Hear
  <2> QED
    BY <1>1, <2>1
<1>3. CASE l \notin Range(s)
  <2> DEFINE t == Append(s, l)
  <2>1. Hear(s, l) = t
    BY <1>3 DEF Hear
  <2>2. /\ t \in Seq(T) /\ Len(t) = Len(s) + 1 /\ t[Len(s) + 1] = l
        /\ \A n \in 1..Len(s) : t[n] = s[n]
    OBVIOUS
  <2>3. \A n \in 1..Len(s) : s[n] # l
    BY <1>1, <1>3 DEF Range
  <2> HIDE DEF t
  <2>4. \A n \in 1..Len(t) : n = Len(s) + 1 \/ n \in 1..Len(s)
    BY <1>1, <2>2
  <2>5. Distinct(t)
    BY <1>1, <2>2, <2>3, <2>4 DEF Distinct
  <2>6. Begins(s, t) /\ Len(t) <= Len(s) + 1
    BY <1>1, <2>2 DEF Begins
  <2> QED
    BY <2>1, <2>2, <2>5, <2>6
<1> QED
  BY <1>2, <1>3

LEMMA HearHears ==
    ASSUME NEW T, NEW s \in Seq(T), NEW l \in T
    PROVE  \E n \in 1..Len(Hear(s, l)) : Hear(s, l)[n] = l
<1>1. Len(s) \in Nat /\ DOMAIN s = 1..Len(s)
  OBVIOUS
<1>2. CASE l \in Range(s)
  BY <1>1, <1>2 DEF Hear, Range
<1>3. CASE l \notin Range(s)
  <2>1. /\ Hear(s, l) = Append(s, l) /\ Len(Append(s, l)) = Len(s) + 1
        /\ Append(s, l)[Len(s) + 1] = l
    BY <1>3 DEF Hear
  <2> QED
    BY <1>1, <2>1
<1> QED
  BY <1>2, <1>3

LEMMA HearAddsNothingElse ==
    ASSUME NEW T, NEW s \in Seq(T), NEW l \in T, NEW t, t = Hear(s, l),
           NEW n \in 1..Len(t), t[n] # l
    PROVE  n \in 1..Len(s) /\ t[n] = s[n]
<1>1. Len(s) \in Nat /\ DOMAIN s = 1..Len(s)
  OBVIOUS
<1>2. CASE l \in Range(s)
  BY <1>1, <1>2 DEF Hear
<1>3. CASE l \notin Range(s)
  <2>1. /\ Hear(s, l) = Append(s, l) /\ Len(Append(s, l)) = Len(s) + 1
        /\ Append(s, l)[Len(s) + 1] = l
        /\ \A m \in 1..Len(s) : Append(s, l)[m] = s[m]
    BY <1>3 DEF Hear
  <2>2. n \in 1..Len(s) + 1 /\ n # Len(s) + 1
    BY <2>1
  <2>3. n \in 1..Len(s)
    BY <1>1, <2>2
  <2> QED
    BY <2>1, <2>3
<1> QED
  BY <1>2, <1>3

LEMMA LenIsNat ==
    ASSUME NEW T, NEW s \in Seq(T)
    PROVE  Len(s) \in Nat
OBVIOUS

LEMMA BeginsTransitive ==
    ASSUME NEW T, NEW r \in Seq(T), NEW s \in Seq(T), NEW t \in Seq(T),
           Begins(r, s), Begins(s, t)
    PROVE  Begins(r, t)
<1>1. Len(r) \in Nat /\ Len(s) \in Nat /\ Len(t) \in Nat
  OBVIOUS
<1> QED
  BY <1>1 DEF Begins

LEMMA HeardGrows ==
    ASSUME NEW us, Len(us) \in Nat
    PROVE  \A k \in 0..Len(us) : HeardInv(us, k)
<1> DEFINE T == { us[i].label : i \in 1..Len(us) }
           H == Heard(us)
           S == { k \in Nat : k <= Len(us) => \A j \in 0..k : HeardInv(us, j) }
<1>1. /\ H[0] = <<>>
      /\ \A n \in 1..Len(us) : H[n] = Hear(H[n - 1], us[n].label)
  <2>1. ASSUME NEW n \in 1..Len(us) PROVE H[n] = Hear(H[n - 1], us[n].label)
    <3>1. n \in 0..Len(us) /\ n # 0
      OBVIOUS
    <3> QED
      BY <3>1, HeardSteps
  <2>2. 0 \in 0..Len(us)
    OBVIOUS
  <2> QED
    BY <2>1, <2>2, HeardSteps
<1>2. HeardInv(us, 0)
  <2>1. /\ <<>> \in Seq(T) /\ Len(<<>>) = 0 /\ 1..0 = {}
        /\ \A j \in 0..0 : j = 0
    OBVIOUS
  <2> HIDE DEF T
  <2> QED
    BY <1>1, <2>1 DEF HeardInv, Distinct, Begins, T
<1>3. ASSUME NEW k \in Nat, k + 1 <= Len(us), \A j \in 0..k : HeardInv(us, j)
      PROVE  HeardInv(us, k + 1)
  <2> DEFINE l == us[k + 1].label
  <2>1. k + 1 \in 1..Len(us) /\ k \in 0..k /\ (k + 1) - 1 = k
    BY <1>3
  <2>2. l \in T
    BY <2>1
  <2>3. H[k + 1] = Hear(H[k], l)
    BY <1>1, <2>1
  <2>4. /\ H[k] \in Seq(T) /\ Distinct(H[k])
        /\ \A i \in 1..k : \E n \in 1..Len(H[k]) : H[k][n] = us[i].label
        /\ \A n \in 1..Len(H[k]) : \E i \in 1..k : H[k][n] = us[i].label
        /\ \A j \in 0..k : Begins(H[j], H[k])
    BY <1>3, <2>1 DEF HeardInv
  <2>5. \A j \in 0..k : H[j] \in Seq(T)
    BY <1>3 DEF HeardInv
  <2> HIDE DEF T, H, l
  <2>6. H[k + 1] \in Seq(T) /\ Distinct(H[k + 1]) /\ Begins(H[k], H[k + 1])
    BY <2>2, <2>3, <2>4, HearKeeps
  <2>7. ASSUME NEW i \in 1..k + 1
        PROVE  \E n \in 1..Len(H[k + 1]) : H[k + 1][n] = us[i].label
    <3>1. CASE i = k + 1
      <4>1. \E n \in 1..Len(Hear(H[k], l)) : Hear(H[k], l)[n] = l
        BY <2>2, <2>4, HearHears
      <4> QED
        BY <2>3, <3>1, <4>1 DEF l
    <3>2. CASE i # k + 1
      <4>1. i \in 1..k
        BY <3>2
      <4>2. PICK n \in 1..Len(H[k]) : H[k][n] = us[i].label
        BY <2>4, <4>1
      <4>3. Len(H[k]) \in Nat /\ Len(H[k + 1]) \in Nat
        BY <2>4, <2>6, LenIsNat
      <4>4. n \in 1..Len(H[k + 1]) /\ H[k + 1][n] = H[k][n]
        BY <2>6, <4>3 DEF Begins
      <4> QED
        BY <4>2, <4>4
    <3> QED
      BY <3>1, <3>2
  <2>8. ASSUME NEW n \in 1..Len(H[k + 1])
        PROVE  \E i \in 1..k + 1 : H[k + 1][n] = us[i].label
    <3>1. CASE H[k + 1][n] = l
      <4>1. k + 1 \in 1..k + 1
        OBVIOUS
      <4> QED
        BY <3>1, <4>1 DEF l
    <3>2. CASE H[k + 1][n] # l
      <4>0. n \in 1..Len(H[k]) /\ H[k + 1][n] = H[k][n]
        <5>1. PICK s, t : s = H[k] /\ t = H[k + 1]
          OBVIOUS
        <5>2. s \in Seq(T) /\ t = Hear(s, l) /\ n \in 1..Len(t) /\ t[n] # l
          BY <2>3, <2>4, <3>2, <5>1
        <5>3. n \in 1..Len(s) /\ t[n] = s[n]
          BY <2>2, <5>2, HearAddsNothingElse
        <5> QED
          BY <5>1, <5>3
      <4>1. PICK i \in 1..k : H[k][n] = us[i].label
        BY <2>4, <4>0
      <4>2. i \in 1..k + 1
        OBVIOUS
      <4> QED
        BY <4>0, <4>1, <4>2
    <3> QED
      BY <3>1, <3>2
  <2>9. ASSUME NEW j \in 0..k + 1 PROVE Begins(H[j], H[k + 1])
    <3>1. CASE j = k + 1
      <4>1. Len(H[k + 1]) \in Nat
        BY <2>6, LenIsNat
      <4> QED
        BY <3>1, <4>1 DEF Begins
    <3>2. CASE j \in 0..k
      BY <2>4, <2>5, <2>6, <3>2, BeginsTransitive
    <3> QED
      BY <3>1, <3>2
  <2> QED
    BY <2>6, <2>7, <2>8, <2>9 DEF HeardInv, H, T
<1>4. 0 \in S
  <2>1. \A j \in 0..0 : j = 0
    OBVIOUS
  <2> QED
    BY <1>2, <2>1
<1>5. ASSUME NEW k \in Nat, k \in S PROVE k + 1 \in S
  <2> SUFFICES ASSUME k + 1 <= Len(us), NEW j \in 0..k + 1 PROVE HeardInv(us, j)
    OBVIOUS
  <2>1. \A i \in 0..k : HeardInv(us, i)
    BY <1>5
  <2>2. j = k + 1 \/ j \in 0..k
    OBVIOUS
  <2> QED
    BY <1>3, <2>1, <2>2
<1>6. S \subseteq Nat
  OBVIOUS
<1> HIDE DEF S
<1>7. S = Nat
  BY <1>4, <1>5, <1>6, Induction
<1> QED
  BY <1>7 DEF S
-----------------------------------------------------------------------------
(* Voices *)

(* The voice of an utterance is the place of its label.                    *)
LEMMA VoiceIsPlace ==
    ASSUME NEW us, Len(us) \in Nat, NEW i \in 1..Len(us)
    PROVE  /\ Voice(us[i].label, us) \in DOMAIN Labels(us)
           /\ Labels(us)[Voice(us[i].label, us)] = us[i].label
<1>1. HeardInv(us, Len(us)) /\ i \in 1..Len(us)
  BY HeardGrows
<1>2. PICK n \in 1..Len(Labels(us)) : Labels(us)[n] = us[i].label
  BY <1>1 DEF HeardInv, Labels
<1>3. DOMAIN Labels(us) = 1..Len(Labels(us))
  BY <1>1 DEF HeardInv, Labels
<1> QED
  BY <1>2, <1>3 DEF Voice

LEMMA LabelsAreDistinct ==
    ASSUME NEW us, Len(us) \in Nat
    PROVE  /\ Len(Labels(us)) \in Nat
           /\ DOMAIN Labels(us) = 1..Len(Labels(us))
           /\ Distinct(Labels(us))
<1>1. HeardInv(us, Len(us))
  BY HeardGrows
<1> QED
  BY <1>1 DEF HeardInv, Labels

(* Two utterances have one voice exactly when they have one label.         *)
LEMMA SameVoice ==
    ASSUME NEW us, Len(us) \in Nat, NEW i \in 1..Len(us), NEW j \in 1..Len(us)
    PROVE  Voice(us[i].label, us) = Voice(us[j].label, us)
              <=> us[i].label = us[j].label
BY VoiceIsPlace

(* A voice's number says how many were heard before it.                    *)
LEMMA VoicesInOrder ==
    ASSUME NEW us, Len(us) \in Nat, NEW j \in 1..Len(us),
           NEW n \in 1..Voice(us[j].label, us) - 1
    PROVE  \E i \in 1..j - 1 : Voice(us[i].label, us) = n
<1> DEFINE H == Heard(us)
           L == Labels(us)
           l == us[j].label
           v == Voice(l, us)
<1>1. j - 1 \in 0..Len(us) /\ j \in 0..Len(us) /\ Len(us) \in 0..Len(us) /\ j # 0
  OBVIOUS
<1>2. HeardInv(us, j - 1) /\ HeardInv(us, j) /\ HeardInv(us, Len(us))
  BY <1>1, HeardGrows
<1>3. H[j] = Hear(H[j - 1], l)
  BY <1>1, HeardSteps
<1>4. v \in 1..Len(L) /\ L[v] = l /\ Len(L) \in Nat /\ Distinct(L)
  BY VoiceIsPlace, LabelsAreDistinct
<1>5. /\ Begins(H[j - 1], L) /\ Begins(H[j], L)
  BY <1>1, <1>2 DEF HeardInv, Labels
<1>6. PICK T : H[j - 1] \in Seq(T) /\ l \in T /\ Distinct(H[j - 1]) /\ H[j] \in Seq(T)
  <2>1. l \in { us[i].label : i \in 1..Len(us) }
    OBVIOUS
  <2> QED
    BY <1>2, <2>1 DEF HeardInv
<1>7. PICK m \in 1..Len(H[j]) : H[j][m] = l
  <2>1. j \in 1..j
    OBVIOUS
  <2> QED
    BY <1>2, <2>1 DEF HeardInv
<1> HIDE DEF H, L, v, l
<1>8. Len(H[j]) \in Nat /\ Len(H[j - 1]) \in Nat
  BY <1>6, LenIsNat
<1>9. v = m
  <2>1. m \in 1..Len(L) /\ L[m] = l
    BY <1>4, <1>5, <1>7, <1>8 DEF Begins
  <2> QED
    BY <1>4, <2>1 DEF Distinct
<1>10. Len(H[j]) <= Len(H[j - 1]) + 1
  BY <1>3, <1>6, HearKeeps
<1>11. n \in 1..Len(H[j - 1])
  <2>1. n \in 1..m - 1
    BY <1>9 DEF v, l
  <2> QED
    BY <1>7, <1>8, <1>10, <2>1
<1>12. PICK i \in 1..j - 1 : H[j - 1][n] = us[i].label
  BY <1>2, <1>11 DEF HeardInv, H
<1>13. i \in 1..Len(us)
  BY <1>1
<1>14. L[n] = us[i].label /\ n \in 1..Len(L)
  BY <1>4, <1>5, <1>8, <1>11, <1>12 DEF Begins
<1>15. Voice(us[i].label, us) \in 1..Len(L) /\ L[Voice(us[i].label, us)] = us[i].label
  BY <1>13, VoiceIsPlace, LabelsAreDistinct DEF L
<1>16. Voice(us[i].label, us) = n
  BY <1>4, <1>14, <1>15 DEF Distinct
<1> QED
  BY <1>16
-----------------------------------------------------------------------------
(* The bundle that the adapter builds *)

LEMMA PayloadLists ==
    ASSUME NEW p \in Payloads
    PROVE  /\ \A list \in {p.utterances, p.facts, p.decisions, p.tasks} :
                 list \in Seq(Range(list))
           /\ \A list \in {p.facts, p.decisions, p.tasks} :
                 \A ids \in Range(list) : ids \in Seq(Range(ids))
           /\ \A i \in DOMAIN p.utterances :
                 p.utterances[i].start \in Nat /\ p.utterances[i].end \in Nat
BY PayloadsAssumption DEF IsList, Range

LEMMA ListFacts ==
    ASSUME NEW s, s \in Seq(Range(s))
    PROVE  Len(s) \in Nat /\ DOMAIN s = 1..Len(s)
OBVIOUS

(* A source's evidence is the utterance with its identifier.               *)
LEMMA EvidenceIs ==
    ASSUME NEW us, Unique(us), NEW ids, NEW k \in DOMAIN ids,
           NEW i \in DOMAIN us, us[i].id = ids[k]
    PROVE  EvidenceFor(ids, us)[k] =
              [segment |-> us[i].id, start |-> us[i].start, end |-> us[i].end]
<1>1. \A j \in DOMAIN us : us[j].id = us[i].id => j = i
  BY DEF Unique, IsInjective
<1>2. \A x \in Range(us) : x.id = ids[k] => x = us[i]
  BY <1>1 DEF Range
<1>3. us[i] \in Range(us)
  BY DEF Range
<1>4. (CHOOSE x \in Range(us) : x.id = ids[k]) = us[i]
  BY <1>2, <1>3
<1> QED
  BY <1>4 DEF EvidenceFor

(* What the adapter's lists consist of, field by field.                    *)
LEMMA SegmentFields ==
    ASSUME NEW p, NEW i \in DOMAIN p.utterances
    PROVE  /\ Adapted(p).segments[i].id = p.utterances[i].id
           /\ Adapted(p).segments[i].start = p.utterances[i].start
           /\ Adapted(p).segments[i].end = p.utterances[i].end
           /\ Adapted(p).segments[i].speaker =
                 Voice(p.utterances[i].label, p.utterances)
           /\ Adapted(p).segments[i].edited = FALSE
BY DEF Adapted

LEMMA SpeakerFields ==
    ASSUME NEW p, NEW i \in DOMAIN Labels(p.utterances)
    PROVE  /\ Adapted(p).speakers[i].id = i
           /\ Adapted(p).speakers[i].identity = "unreviewed"
BY DEF Adapted

LEMMA AdaptedDomains ==
    ASSUME NEW p
    PROVE  /\ DOMAIN Adapted(p).segments = DOMAIN p.utterances
           /\ DOMAIN Adapted(p).speakers = DOMAIN Labels(p.utterances)
           /\ DOMAIN Adapted(p).tasks = DOMAIN p.tasks
BY DEF Adapted, AdaptedItems

LEMMA AdaptedTranscript ==
    ASSUME NEW p \in Payloads, Adaptable(p)
    PROVE  ValidTranscript(Adapted(p))
<1> DEFINE d == Adapted(p)
           us == p.utterances
<1>1. Len(us) \in Nat /\ DOMAIN us = 1..Len(us)
  BY PayloadLists, ListFacts
<1>2. \A i \in DOMAIN us :
         /\ d.segments[i].id = us[i].id /\ d.segments[i].start = us[i].start
         /\ d.segments[i].end = us[i].end
         /\ d.segments[i].speaker = Voice(us[i].label, us)
  BY SegmentFields
<1>3. Unique(us) /\ Ordered(us) /\ \A u \in Range(us) : u.start < u.end
  BY DEF Adaptable
<1>4. /\ DOMAIN d.segments = DOMAIN us /\ DOMAIN d.speakers = DOMAIN Labels(us)
      /\ \A i \in DOMAIN d.speakers : d.speakers[i].id = i
  BY AdaptedDomains, SpeakerFields
<1> HIDE DEF d, us
<1>5. Unique(d.speakers)
  BY <1>4 DEF Unique, IsInjective
<1>6. Unique(d.segments)
  <2>1. [i \in DOMAIN d.segments |-> d.segments[i].id] = [i \in DOMAIN us |-> us[i].id]
    BY <1>2, <1>4
  <2> QED
    BY <1>3, <2>1 DEF Unique
<1>7. Ordered(d.segments)
  BY <1>2, <1>3, <1>4 DEF Ordered
<1>8. ASSUME NEW s \in Range(d.segments)
      PROVE  s.start < s.end /\ \E v \in Range(d.speakers) : v.id = s.speaker
  <2>1. PICK i \in DOMAIN us : s = d.segments[i]
    BY <1>4 DEF Range
  <2>2. s.start < s.end
    <3>1. us[i] \in Range(us)
      BY DEF Range
    <3> QED
      BY <1>2, <1>3, <2>1, <3>1
  <2>3. s.speaker \in DOMAIN d.speakers
    <3>1. Voice(us[i].label, us) \in DOMAIN Labels(us)
      BY <1>1, VoiceIsPlace
    <3> QED
      BY <1>2, <1>4, <2>1, <3>1
  <2>4. d.speakers[s.speaker].id = s.speaker /\ d.speakers[s.speaker] \in Range(d.speakers)
    BY <1>4, <2>3 DEF Range
  <2> QED
    BY <2>2, <2>4
<1>9. ValidTranscript(d)
  BY <1>5, <1>6, <1>7, <1>8 DEF ValidTranscript
<1> QED
  BY <1>9 DEF d

(* Each item rests on the sources that it was drawn from.                  *)
LEMMA ItemFields ==
    ASSUME NEW c, NEW list, NEW us, NEW i \in DOMAIN list
    PROVE  /\ AdaptedItems(c, list, us)[i].id = <<c, i>>
           /\ AdaptedItems(c, list, us)[i].assignee = None
           /\ AdaptedItems(c, list, us)[i].evidence = EvidenceFor(list[i], us)
BY DEF AdaptedItems

LEMMA AdaptedItemsAreList ==
    ASSUME NEW c, NEW list, list \in Seq(Range(list)), NEW us, NEW T,
           \A i \in DOMAIN list : AdaptedItems(c, list, us)[i] \in T
    PROVE  /\ AdaptedItems(c, list, us) \in Seq(T)
           /\ Len(AdaptedItems(c, list, us)) = Len(list)
<1>1. Len(list) \in Nat /\ DOMAIN list = 1..Len(list)
  OBVIOUS
<1>2. PICK s : s = AdaptedItems(c, list, us)
  OBVIOUS
<1>3. s = [i \in 1..Len(list) |-> s[i]] /\ \A i \in 1..Len(list) : s[i] \in T
  BY <1>1, <1>2 DEF AdaptedItems
<1>4. s \in [1..Len(list) -> T]
  BY <1>3
<1>5. s \in Seq(T) /\ Len(s) = Len(list)
  BY <1>1, <1>4
<1> QED
  BY <1>2, <1>5

LEMMA Concatenation ==
    ASSUME NEW T, NEW r \in Seq(T), NEW s \in Seq(T)
    PROVE  /\ DOMAIN (r \o s) = 1..Len(r) + Len(s)
           /\ \A i \in 1..Len(r) : (r \o s)[i] = r[i]
           /\ \A i \in Len(r) + 1..Len(r) + Len(s) : (r \o s)[i] = s[i - Len(r)]
OBVIOUS

(* The summary is the facts and then the decisions.                        *)
LEMMA AdaptedSummary ==
    ASSUME NEW p \in Payloads
    PROVE  LET s == Adapted(p).summary
               m == Len(p.facts)
               n == Len(p.decisions)
           IN /\ DOMAIN s = 1..m + n
              /\ \A i \in 1..m :
                    /\ s[i].id = <<"key-fact", i>>
                    /\ s[i].evidence = EvidenceFor(p.facts[i], p.utterances)
              /\ \A i \in m + 1..m + n :
                    /\ s[i].id = <<"decision", i - m>>
                    /\ s[i].evidence = EvidenceFor(p.decisions[i - m], p.utterances)
<1>1. PICK r, s : /\ r = AdaptedItems("key-fact", p.facts, p.utterances)
                  /\ s = AdaptedItems("decision", p.decisions, p.utterances)
  OBVIOUS
<1>2. Adapted(p).summary = r \o s
  BY <1>1 DEF Adapted
<1>3. PICK m, n : m = Len(p.facts) /\ n = Len(p.decisions)
  OBVIOUS
<1>4. /\ p.facts \in Seq(Range(p.facts)) /\ p.decisions \in Seq(Range(p.decisions))
      /\ m \in Nat /\ n \in Nat /\ DOMAIN p.facts = 1..m /\ DOMAIN p.decisions = 1..n
  BY <1>3, PayloadLists, ListFacts
<1>5. /\ \A i \in 1..m : r[i].id = <<"key-fact", i>>
                         /\ r[i].evidence = EvidenceFor(p.facts[i], p.utterances)
      /\ \A i \in 1..n : s[i].id = <<"decision", i>>
                         /\ s[i].evidence = EvidenceFor(p.decisions[i], p.utterances)
  BY <1>1, <1>4, ItemFields
<1>6. PICK T : T = { r[i] : i \in 1..m } \union { s[i] : i \in 1..n }
  OBVIOUS
<1>7. r \in Seq(T) /\ Len(r) = m
  <2>1. \A i \in DOMAIN p.facts :
           AdaptedItems("key-fact", p.facts, p.utterances)[i] \in T
    BY <1>1, <1>4, <1>6
  <2> QED
    BY <1>1, <1>3, <1>4, <2>1, AdaptedItemsAreList
<1>8. s \in Seq(T) /\ Len(s) = n
  <2>1. \A i \in DOMAIN p.decisions :
           AdaptedItems("decision", p.decisions, p.utterances)[i] \in T
    BY <1>1, <1>4, <1>6
  <2> QED
    BY <1>1, <1>3, <1>4, <2>1, AdaptedItemsAreList
<1>9. /\ DOMAIN (r \o s) = 1..m + n
      /\ \A i \in 1..m : (r \o s)[i] = r[i]
      /\ \A i \in m + 1..m + n : (r \o s)[i] = s[i - m]
  BY <1>7, <1>8, Concatenation
<1>10. \A i \in m + 1..m + n : i - m \in 1..n
  BY <1>4
<1>11. PICK t : t = r \o s
  OBVIOUS
<1>12. /\ DOMAIN t = 1..m + n
       /\ \A i \in 1..m :
             /\ t[i].id = <<"key-fact", i>>
             /\ t[i].evidence = EvidenceFor(p.facts[i], p.utterances)
       /\ \A i \in m + 1..m + n :
             /\ t[i].id = <<"decision", i - m>>
             /\ t[i].evidence = EvidenceFor(p.decisions[i - m], p.utterances)
  <2>1. /\ DOMAIN t = 1..m + n
        /\ \A i \in 1..m : t[i] = r[i]
        /\ \A i \in m + 1..m + n : t[i] = s[i - m]
    BY <1>9, <1>11
  <2> QED
    BY <1>5, <1>10, <2>1
<1> QED
  BY <1>2, <1>3, <1>11, <1>12

LEMMA AdaptedTasks ==
    ASSUME NEW p \in Payloads
    PROVE  /\ DOMAIN Adapted(p).tasks = DOMAIN p.tasks
           /\ \A i \in DOMAIN p.tasks :
                 /\ Adapted(p).tasks[i].id = <<"task", i>>
                 /\ Adapted(p).tasks[i].assignee = None
                 /\ Adapted(p).tasks[i].evidence = EvidenceFor(p.tasks[i], p.utterances)
<1>1. Adapted(p).tasks = AdaptedItems("task", p.tasks, p.utterances)
  BY DEF Adapted
<1>2. ASSUME NEW i \in DOMAIN p.tasks
      PROVE  /\ AdaptedItems("task", p.tasks, p.utterances)[i].id = <<"task", i>>
             /\ AdaptedItems("task", p.tasks, p.utterances)[i].assignee = None
             /\ AdaptedItems("task", p.tasks, p.utterances)[i].evidence =
                   EvidenceFor(p.tasks[i], p.utterances)
  BY ItemFields
<1> QED
  BY <1>1, <1>2, AdaptedDomains

LEMMA AdaptedSources ==
    ASSUME NEW p \in Payloads, NEW item \in Items(Adapted(p))
    PROVE  \E ids \in Sources(p) : item.evidence = EvidenceFor(ids, p.utterances)
<1>1. PICK m, n : m = Len(p.facts) /\ n = Len(p.decisions)
  OBVIOUS
<1>2. m \in Nat /\ n \in Nat /\ DOMAIN p.facts = 1..m /\ DOMAIN p.decisions = 1..n
  BY <1>1, PayloadLists, ListFacts
<1>3. PICK s : s = Adapted(p).summary
  OBVIOUS
<1>4. /\ DOMAIN s = 1..m + n
      /\ \A i \in 1..m : s[i].evidence = EvidenceFor(p.facts[i], p.utterances)
      /\ \A i \in m + 1..m + n :
            s[i].evidence = EvidenceFor(p.decisions[i - m], p.utterances)
  BY <1>1, <1>3, AdaptedSummary
<1>5. CASE item \in Range(Adapted(p).tasks)
  <2>1. PICK i \in DOMAIN p.tasks : item = Adapted(p).tasks[i]
    BY <1>5, AdaptedTasks DEF Range
  <2>2. item.evidence = EvidenceFor(p.tasks[i], p.utterances)
    BY <2>1, AdaptedTasks
  <2>3. p.tasks[i] \in Sources(p)
    BY DEF Sources, Range
  <2> QED
    BY <2>2, <2>3
<1>6. CASE item \in Range(s)
  <2>1. PICK i \in 1..m + n : item = s[i]
    BY <1>4, <1>6 DEF Range
  <2>2. CASE i \in 1..m
    <3>1. p.facts[i] \in Sources(p)
      BY <1>2, <2>2 DEF Sources, Range
    <3> QED
      BY <1>4, <2>1, <2>2, <3>1
  <2>3. CASE i \notin 1..m
    <3>1. i \in m + 1..m + n /\ i - m \in 1..n
      BY <1>2, <2>3
    <3>2. p.decisions[i - m] \in Sources(p)
      BY <1>2, <3>1 DEF Sources, Range
    <3> QED
      BY <1>4, <2>1, <3>1, <3>2
  <2> QED
    BY <2>2, <2>3
<1> QED
  BY <1>3, <1>5, <1>6 DEF Items

LEMMA AdaptedIdentifiers ==
    ASSUME NEW p \in Payloads
    PROVE  Unique(Adapted(p).summary) /\ Unique(Adapted(p).tasks)
<1>1. PICK m, n : m = Len(p.facts) /\ n = Len(p.decisions)
  OBVIOUS
<1>2. m \in Nat /\ n \in Nat
  BY <1>1, PayloadLists, ListFacts
<1>3. PICK s : s = Adapted(p).summary
  OBVIOUS
<1>4. /\ DOMAIN s = 1..m + n
      /\ \A i \in 1..m : s[i].id = <<"key-fact", i>>
      /\ \A i \in m + 1..m + n : s[i].id = <<"decision", i - m>>
  BY <1>1, <1>3, AdaptedSummary
<1>5. ASSUME NEW i \in 1..m + n, NEW j \in 1..m + n, s[i].id = s[j].id
      PROVE  i = j
  <2>1. \A k \in 1..m + n : k \in 1..m \/ k \in m + 1..m + n
    BY <1>2
  <2>2. CASE i \in 1..m
    <3>1. j \in 1..m
      BY <1>4, <1>5, <2>1, <2>2, "key-fact" # "decision"
    <3> QED
      BY <1>4, <1>5, <2>2, <3>1
  <2>3. CASE i \in m + 1..m + n
    <3>1. j \in m + 1..m + n
      BY <1>4, <1>5, <2>1, <2>3, "key-fact" # "decision"
    <3>2. i - m = j - m
      BY <1>4, <1>5, <2>3, <3>1
    <3> QED
      BY <1>2, <3>2
  <2> QED
    BY <2>1, <2>2, <2>3
<1>6. Unique(s)
  BY <1>4, <1>5 DEF Unique, IsInjective
<1>7. PICK t : t = Adapted(p).tasks
  OBVIOUS
<1>8. DOMAIN t = DOMAIN p.tasks /\ \A i \in DOMAIN t : t[i].id = <<"task", i>>
  BY <1>7, AdaptedTasks
<1>9. Unique(t)
  BY <1>8 DEF Unique, IsInjective
<1> QED
  BY <1>3, <1>6, <1>7, <1>9

LEMMA AdaptedIsValid ==
    ASSUME NEW p \in Payloads, Adaptable(p)
    PROVE  ValidBundle(Adapted(p))
<1> DEFINE d == Adapted(p)
           us == p.utterances
<1>1. ValidTranscript(d)
  BY AdaptedTranscript
<1>2. ASSUME NEW ids \in Sources(p)
      PROVE  /\ EvidenceFor(ids, us) # <<>>
             /\ \A e \in Range(EvidenceFor(ids, us)) : Cites(e, d)
  <2>1. ids \in Seq(Range(ids)) /\ ids # <<>>
    BY PayloadLists DEF Sources, Adaptable
  <2>2. 1 \in DOMAIN ids
    BY <2>1
  <2>3. DOMAIN EvidenceFor(ids, us) = DOMAIN ids
    BY DEF EvidenceFor
  <2>4. EvidenceFor(ids, us) # <<>>
    BY <2>2, <2>3
  <2>5. ASSUME NEW e \in Range(EvidenceFor(ids, us)) PROVE Cites(e, d)
    <3>1. PICK k \in DOMAIN ids : e = EvidenceFor(ids, us)[k]
      BY <2>3 DEF Range
    <3>2. ids[k] \in { u.id : u \in Range(us) }
      BY DEF Adaptable, Range
    <3>3. PICK i \in DOMAIN us : us[i].id = ids[k]
      BY <3>2 DEF Range
    <3>4. Unique(us)
      BY DEF Adaptable
    <3>5. e = [segment |-> us[i].id, start |-> us[i].start, end |-> us[i].end]
      BY <3>1, <3>3, <3>4, EvidenceIs
    <3>6. /\ us[i].start \in Nat /\ us[i].end \in Nat /\ us[i] \in Range(us)
          /\ us[i].start < us[i].end
      <4>1. us[i] \in Range(us)
        BY DEF Range
      <4>2. us[i].start < us[i].end
        BY <4>1 DEF Adaptable
      <4> QED
        BY <4>1, <4>2, PayloadLists
    <3>7. PICK s : s = d.segments[i] /\ s.id = us[i].id /\ s.start = us[i].start
                   /\ s.end = us[i].end
      BY SegmentFields
    <3>8. s \in Range(d.segments)
      BY <3>7, AdaptedDomains DEF Range
    <3> HIDE DEF d, us
    <3> QED
      BY <3>5, <3>6, <3>7, <3>8 DEF Cites
  <2> QED
    BY <2>4, <2>5
<1>3. ValidInsights(d)
  <2>1. \A item \in Items(d) :
           item.evidence # <<>> /\ \A e \in Range(item.evidence) : Cites(e, d)
    BY <1>2, AdaptedSources
  <2>2. \A item \in Range(d.tasks) : item.assignee = None
    BY AdaptedTasks DEF Range
  <2> QED
    BY <2>1, <2>2, AdaptedIdentifiers DEF ValidInsights
<1>4. \A s \in Range(d.segments) : ~s.edited
  BY SegmentFields, AdaptedDomains DEF Range
<1>5. \A v \in Range(d.speakers) : v.identity = "unreviewed"
  <2> SUFFICES ASSUME NEW i \in DOMAIN d.speakers
               PROVE  d.speakers[i].identity = "unreviewed"
    BY DEF Range
  <2> QED
    BY SpeakerFields, AdaptedDomains
<1> QED
  BY <1>1, <1>3, <1>4, <1>5 DEF ValidBundle
-----------------------------------------------------------------------------
(* The adapter is faithful *)

(* What was built is what the adapter makes of an input that it accepts.   *)
AdapterInv ==
    /\ payload \in Payloads \union {None}
    /\ status # "broken"
    /\ payload # None /\ original # None =>
          Adaptable(payload) /\ original = Adapted(payload)
    /\ status = "new" => original = None

LEMMA InitAdapterInv == Init => AdapterInv
BY DEF Init, AdapterInv

LEMMA NextAdapterInv == AdapterInv /\ [Next]_vars => AdapterInv'
<1> SUFFICES ASSUME AdapterInv, [Next]_vars PROVE AdapterInv'
  OBVIOUS
<1>1. CASE Adapt
  <2>1. payload \in Payloads /\ payload' = payload /\ status = "new" /\ original = None
    BY <1>1 DEF Adapt, AdapterInv
  <2>2. CASE Adaptable(payload)
    <3>1. ValidBundle(Adapted(payload))
      BY <2>1, <2>2, AdaptedIsValid
    <3>2. original' = Adapted(payload) /\ status' = "review_required"
      BY <1>1, <2>2, <3>1 DEF Adapt
    <3> QED
      BY <2>1, <2>2, <3>2 DEF AdapterInv
  <2>3. CASE ~Adaptable(payload)
    <3>1. original' = original /\ status' = "rejected"
      BY <1>1, <2>3 DEF Adapt
    <3> QED
      BY <2>1, <3>1 DEF AdapterInv
  <2> QED
    BY <2>2, <2>3
<1>2. ASSUME NEW d \in Bundles, Receive(d)
      PROVE  AdapterInv'
  BY <1>2 DEF Receive, AdapterInv
<1>3. ASSUME NEW r \in Requests, Review(r)
      PROVE  AdapterInv'
  BY <1>3 DEF Review, AdapterInv
<1>4. CASE Approve
  BY <1>4 DEF Approve, AdapterInv
<1>5. CASE UNCHANGED vars
  BY <1>5 DEF vars, AdapterInv
<1> QED
  BY <1>1, <1>2, <1>3, <1>4, <1>5 DEF Next

(* A task rests on an utterance exactly when it was drawn from it.         *)
LEMMA TaskEvidence ==
    ASSUME NEW p \in Payloads, Adaptable(p),
           NEW t \in DOMAIN p.tasks, NEW i \in DOMAIN p.utterances
    PROVE  (\E k \in DOMAIN p.tasks[t] : p.tasks[t][k] = p.utterances[i].id)
              <=> \E e \in Range(Adapted(p).tasks[t].evidence) :
                     e = [segment |-> Adapted(p).segments[i].id,
                          start |-> p.utterances[i].start,
                          end |-> p.utterances[i].end]
<1>1. PICK us, ids : us = p.utterances /\ ids = p.tasks[t]
  OBVIOUS
<1>2. Unique(us) /\ Range(ids) \subseteq { u.id : u \in Range(us) }
  <2>1. ids \in Sources(p)
    BY <1>1 DEF Sources, Range
  <2> QED
    BY <1>1, <2>1 DEF Adaptable
<1>3. Adapted(p).tasks[t].evidence = EvidenceFor(ids, us)
  BY <1>1, AdaptedTasks
<1>4. Adapted(p).segments[i].id = us[i].id /\ i \in DOMAIN us
  BY <1>1, SegmentFields
<1>5. DOMAIN EvidenceFor(ids, us) = DOMAIN ids
  BY DEF EvidenceFor
<1>6. PICK e : e = [segment |-> us[i].id, start |-> us[i].start, end |-> us[i].end]
  OBVIOUS
<1>7. ASSUME NEW k \in DOMAIN ids, ids[k] = us[i].id
      PROVE  e \in Range(EvidenceFor(ids, us))
  <2>1. EvidenceFor(ids, us)[k] = e
    BY <1>2, <1>4, <1>6, <1>7, EvidenceIs
  <2> QED
    BY <1>5, <2>1 DEF Range
<1>8. ASSUME e \in Range(EvidenceFor(ids, us))
      PROVE  \E k \in DOMAIN ids : ids[k] = us[i].id
  <2>1. PICK k \in DOMAIN ids : EvidenceFor(ids, us)[k] = e
    BY <1>5, <1>8 DEF Range
  <2>2. ids[k] \in { u.id : u \in Range(us) }
    BY <1>2 DEF Range
  <2>3. PICK j \in DOMAIN us : us[j].id = ids[k]
    BY <2>2 DEF Range
  <2>4. EvidenceFor(ids, us)[k] =
           [segment |-> us[j].id, start |-> us[j].start, end |-> us[j].end]
    BY <1>2, <2>3, EvidenceIs
  <2>5. us[j].id = us[i].id
    BY <1>6, <2>1, <2>4
  <2> QED
    BY <2>3, <2>5
<1> QED
  BY <1>1, <1>3, <1>4, <1>6, <1>7, <1>8

LEMMA FaithfulBundle ==
    ASSUME AdapterInv
    PROVE  AdapterIsFaithful
<1> SUFFICES ASSUME payload # None, original # None
             PROVE  LET us == payload.utterances
                        segments == original.segments
                    IN /\ \A i, j \in DOMAIN us :
                             segments[i].speaker = segments[j].speaker
                                <=> us[i].label = us[j].label
                       /\ \A j \in DOMAIN us : \A n \in 1..segments[j].speaker - 1 :
                             \E i \in 1..j - 1 : segments[i].speaker = n
                       /\ \A t \in DOMAIN payload.tasks, i \in DOMAIN us :
                             (\E k \in DOMAIN payload.tasks[t] : payload.tasks[t][k] = us[i].id)
                               <=> \E e \in Range(original.tasks[t].evidence) :
                                      e = [segment |-> segments[i].id,
                                           start |-> us[i].start, end |-> us[i].end]
  BY DEF AdapterIsFaithful, AdapterInv
<1>1. PICK p, us : p = payload /\ us = p.utterances
  OBVIOUS
<1>2. p \in Payloads /\ Adaptable(p) /\ original = Adapted(p)
  BY <1>1 DEF AdapterInv
<1>3. Len(us) \in Nat /\ DOMAIN us = 1..Len(us)
  BY <1>1, <1>2, PayloadLists, ListFacts
<1>4. PICK segments : segments = original.segments
  OBVIOUS
<1>5. \A i \in DOMAIN us : segments[i].speaker = Voice(us[i].label, us)
  BY <1>1, <1>2, <1>4, SegmentFields
<1>6. \A i, j \in DOMAIN us :
         segments[i].speaker = segments[j].speaker <=> us[i].label = us[j].label
  BY <1>3, <1>5, SameVoice
<1>7. ASSUME NEW j \in DOMAIN us, NEW n \in 1..segments[j].speaker - 1
      PROVE  \E i \in 1..j - 1 : segments[i].speaker = n
  <2>1. j \in 1..Len(us) /\ n \in 1..Voice(us[j].label, us) - 1
    BY <1>3, <1>5
  <2>2. PICK i \in 1..j - 1 : Voice(us[i].label, us) = n
    BY <1>3, <2>1, VoicesInOrder
  <2>3. i \in DOMAIN us
    BY <1>3, <2>1
  <2> QED
    BY <1>5, <2>2, <2>3
<1>8. \A t \in DOMAIN p.tasks, i \in DOMAIN us :
         (\E k \in DOMAIN p.tasks[t] : p.tasks[t][k] = us[i].id)
            <=> \E e \in Range(original.tasks[t].evidence) :
                   e = [segment |-> segments[i].id,
                        start |-> us[i].start, end |-> us[i].end]
  BY <1>1, <1>2, <1>4, TaskEvidence
<1> QED
  BY <1>1, <1>4, <1>6, <1>7, <1>8

(* Whatever lists of utterances, facts, decisions and tasks the pipeline   *)
(* hands over, the adapter either refuses them or builds a bundle that the *)
(* validators accept, with one voice for each label, numbered as they are  *)
(* first heard, and each task's evidence drawn from its own utterances     *)
(* (services/pipeline_result_adapter.py).                                  *)
THEOREM AdapterMixesUpNothing == Spec => []AdapterIsFaithful
<1>1. AdapterInv => AdapterIsFaithful
  BY FaithfulBundle
<1> QED
  BY <1>1, InitAdapterInv, NextAdapterInv, PTL DEF Spec
=============================================================================
