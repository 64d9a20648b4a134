--------------------------- MODULE MeetingDocument ---------------------------
(***************************************************************************)
(* What a meeting's minutes say, from the machine to the PDF: the offline  *)
(* pipeline's result is converted to a bundle                              *)
(* (services/pipeline_result_adapter.py), or the GPU service sends one;    *)
(* the validators of models/transcript.py and models/insights.py accept    *)
(* it; PUT /review lays a snapshot of edits over the machine's result, and *)
(* POST /approve releases it for the PDF (services/reviews.py).            *)
(*                                                                         *)
(* A text is the machine's or typed by a reviewer, an identifier derived   *)
(* from a source identifier by uuid5 is that source identifier.            *)
(***************************************************************************)
EXTENDS Naturals, Sequences, Functions

CONSTANTS
    Payloads,  \* what the pipeline may hand to the adapter
    Bundles,   \* what the GPU service may send
    Requests,  \* what PUT /review may send
    None

(* A segment has an identifier, an interval, a voice and a text; a voice   *)
(* was not reviewed, or was named or declared unknown by a reviewer.       *)
ASSUME SegmentsAssumption ==
    \A d \in Bundles : \A s \in Range(d.segments) :
       s = [id |-> s.id, start |-> s.start, end |-> s.end,
            speaker |-> s.speaker, text |-> s.text, edited |-> s.edited]

IsList(s) == s \in Seq(Range(s))

(* The types of the pipeline's JSON: lists, of utterances with times from  *)
(* 0 on and of lists of identifiers.  An input of other types is refused   *)
(* before anything here looks at it.                                       *)
ASSUME PayloadsAssumption ==
    /\ None \notin Payloads
    /\ \A p \in Payloads :
          /\ \A list \in {p.utterances, p.facts, p.decisions, p.tasks} : IsList(list)
          /\ \A u \in Range(p.utterances) : u.start \in Nat /\ u.end \in Nat
          /\ \A list \in {p.facts, p.decisions, p.tasks} :
                \A ids \in Range(list) : IsList(ids)

ASSUME VoicesAssumption ==
    \A r \in Requests : \A v \in Range(r.speakers) :
       v.identity \in {"unreviewed", "named", "unknown"}

VARIABLES
    payload,   \* the input of the adapter, None for a received bundle
    original,  \* the machine's result, None before there is one
    snapshot,  \* the committed review, None at revision 0
    status     \* of the meeting, or what became of the input

vars == <<payload, original, snapshot, status>>

-----------------------------------------------------------------------------
(* Validators.  A document has speakers [id, identity], segments [id,      *)
(* start, end, speaker, text, edited], and a summary and tasks of items    *)
(* [id, evidence, assignee] that cite segments [segment, start, end].      *)

Unique(s) == IsInjective([i \in DOMAIN s |-> s[i].id])

Ordered(s) == \A i, j \in DOMAIN s : i <= j => s[i].start <= s[j].start

(* TranscriptV1.valid_references, Segment.valid_interval                   *)
ValidTranscript(d) ==
    /\ Unique(d.speakers)
    /\ Unique(d.segments)
    /\ Ordered(d.segments)
    /\ \A s \in Range(d.segments) :
          /\ s.start < s.end
          /\ \E v \in Range(d.speakers) : v.id = s.speaker

Items(d) == Range(d.summary) \union Range(d.tasks)

Cites(e, d) ==
    \E s \in Range(d.segments) :
       /\ s.id = e.segment
       /\ s.start <= e.start
       /\ e.start < e.end
       /\ e.end <= s.end

(* InsightsV1.unique_ids and validate_against                              *)
ValidInsights(d) ==
    /\ Unique(d.summary)
    /\ Unique(d.tasks)
    /\ \A item \in Items(d) :
          item.evidence # <<>> /\ \A e \in Range(item.evidence) : Cites(e, d)
    /\ \A item \in Range(d.tasks) :
          \/ item.assignee = None
          \/ \E v \in Range(d.speakers) : v.id = item.assignee

(* ResultBundleV1.valid_machine_bundle                                     *)
ValidBundle(d) ==
    /\ ValidTranscript(d)
    /\ ValidInsights(d)
    /\ \A s \in Range(d.segments) : ~s.edited
    /\ \A v \in Range(d.speakers) : v.identity = "unreviewed"

-----------------------------------------------------------------------------
(* The adapter *)

(* An input has utterances [id, start, end, label], lists of facts,        *)
(* decisions and tasks, each a list of the utterances it rests on, the     *)
(* models it was made with, and those that its provenance knows.           *)
Sources(p) == Range(p.facts) \union Range(p.decisions) \union Range(p.tasks)

(* _parse_inputs, unknown references and missing provenance                *)
Adaptable(p) ==
    /\ p.utterances # <<>>
    /\ Unique(p.utterances)
    /\ Ordered(p.utterances)
    /\ \A u \in Range(p.utterances) : u.start < u.end
    /\ \A ids \in Sources(p) :
          /\ ids # <<>>
          /\ IsInjective(ids)
          /\ Range(ids) \subseteq { u.id : u \in Range(p.utterances) }
    /\ p.models \subseteq p.provenance

(* A label that was not heard before is a new voice.                       *)
Hear(before, l) == IF l \in Range(before) THEN before ELSE Append(before, l)

(* The diarization's labels in the order they are first heard, after each  *)
(* utterance; utterances without one share the label None.                 *)
Heard(us) ==
    LET heard[n \in 0..Len(us)] ==
          IF n = 0 THEN <<>> ELSE Hear(heard[n - 1], us[n].label)
    IN heard

Labels(us) == Heard(us)[Len(us)]

(* Mutant: an utterance without a label is the first voice.                *)
VoiceHeard(l, us) ==
    IF l = None THEN 1 ELSE CHOOSE i \in DOMAIN Labels(us) : Labels(us)[i] = l

(* speaker_1, speaker_2, ...                                               *)
Voice(l, us) == CHOOSE i \in DOMAIN Labels(us) : Labels(us)[i] = l

(* _evidence_for: the whole segment of each source                         *)
EvidenceFor(ids, us) ==
    [k \in DOMAIN ids |->
        LET u == CHOOSE x \in Range(us) : x.id = ids[k]
        IN [segment |-> u.id, start |-> u.start, end |-> u.end]]

(* The name of a responsible person stays outside, nobody is assigned.     *)
AdaptedItems(category, list, us) ==
    [i \in DOMAIN list |-> [id |-> <<category, i>>, assignee |-> None,
                            evidence |-> EvidenceFor(list[i], us)]]

Adapted(p) ==
    LET us == p.utterances
    IN [speakers |-> [i \in DOMAIN Labels(us) |->
                         [id |-> i, identity |-> "unreviewed"]],
        segments |-> [i \in DOMAIN us |->
                         [id |-> us[i].id, start |-> us[i].start,
                          end |-> us[i].end, speaker |-> Voice(us[i].label, us),
                          text |-> "machine", edited |-> FALSE]],
        summary |-> AdaptedItems("key-fact", p.facts, us)
                    \o AdaptedItems("decision", p.decisions, us),
        tasks |-> AdaptedItems("task", p.tasks, us)]

Init ==
    /\ payload \in Payloads \union {None}
    /\ original = None
    /\ snapshot = None
    /\ status = "new"

(* The bundle that was built is validated like a received one.             *)
Adapt ==
    /\ status = "new"
    /\ payload # None
    /\ IF Adaptable(payload) /\ ValidBundle(Adapted(payload))
       THEN original' = Adapted(payload) /\ status' = "review_required"
       ELSE /\ status' = IF Adaptable(payload) THEN "broken" ELSE "rejected"
            /\ UNCHANGED original
    /\ UNCHANGED <<payload, snapshot>>

(* The coordinator's poll: a bundle that does not validate is refused.     *)
Receive(d) ==
    /\ status = "new"
    /\ payload = None
    /\ IF ValidBundle(d)
       THEN original' = d /\ status' = "review_required"
       ELSE status' = "rejected" /\ UNCHANGED original
    /\ UNCHANGED <<payload, snapshot>>

-----------------------------------------------------------------------------
(* The review *)

(* Mutant: only a changed text is marked as edited.                        *)
EditText(s, e) ==
    [s EXCEPT !.text = IF e.text = None THEN @ ELSE e.text,
              !.speaker = IF e.speaker = None THEN @ ELSE e.speaker,
              !.edited = e.text # None]

Edit(s, e) ==
    [s EXCEPT !.text = IF e.text = None THEN @ ELSE e.text,
              !.speaker = IF e.speaker = None THEN @ ELSE e.speaker,
              !.edited = TRUE]

(* A request has speakers, edits [segment, text, speaker], a summary and   *)
(* tasks: it replaces all earlier edits, and is laid over the original.    *)
Overlay(d, r) ==
    [speakers |-> r.speakers,
     segments |-> [i \in DOMAIN d.segments |->
                     LET edits == { e \in Range(r.edits) :
                                      e.segment = d.segments[i].id }
                     IN IF edits = {} THEN d.segments[i]
                        ELSE Edit(d.segments[i], CHOOSE e \in edits : TRUE)],
     summary |-> r.summary,
     tasks |-> r.tasks]

(* An edit names a text, a voice or both.                                  *)
HasEdit(e) == e.text # None \/ e.speaker # None

(* Each voice once, each edited segment once and known, voices known; and  *)
(* the result passes the validators.                                       *)
Acceptable(d, r) ==
    LET voices == { v.id : v \in Range(d.speakers) }
    IN /\ Unique(r.speakers)
       /\ { v.id : v \in Range(r.speakers) } = voices
       /\ IsInjective([i \in DOMAIN r.edits |-> r.edits[i].segment])
       /\ \A e \in Range(r.edits) :
             /\ HasEdit(e)
             /\ \E s \in Range(d.segments) : s.id = e.segment
             /\ e.speaker \in voices \union {None}
       /\ ValidTranscript(Overlay(d, r))
       /\ ValidInsights(Overlay(d, r))

(* The minutes that everybody reads: the overlay is computed anew from the *)
(* stored snapshot for every reader.                                       *)
Current == IF snapshot = None THEN original ELSE Overlay(original, snapshot)

Published == status \in {"review_required", "approved"}

Review(r) ==
    /\ Published
    /\ Acceptable(original, r)
    /\ snapshot' = r
    /\ status' = "review_required"
    /\ UNCHANGED <<payload, original>>

(* Mutant: a voice that speaks in no segment needs no review.              *)
ApproveHeard ==
    /\ status = "review_required"
    /\ \A v \in Range(Current.speakers) :
          (\E s \in Range(Current.segments) : s.speaker = v.id)
             => v.identity # "unreviewed"
    /\ status' = "approved"
    /\ UNCHANGED <<payload, original, snapshot>>

Approve ==
    /\ status = "review_required"
    /\ \A v \in Range(Current.speakers) : v.identity # "unreviewed"
    /\ ValidInsights(Current)
    /\ status' = "approved"
    /\ UNCHANGED <<payload, original, snapshot>>

-----------------------------------------------------------------------------
(* The PDF *)

(* A dictionary lookup                                                     *)
Find(list, id) == CHOOSE x \in Range(list) : x.id = id

(* None is a KeyError.                                                     *)
NameOf(d, id) ==
    IF \E v \in Range(d.speakers) : v.id = id
    THEN Find(d.speakers, id).identity ELSE None

(* render_pdf names the speaker of each segment,                           *)
SegmentNames(d) == { NameOf(d, s.speaker) : s \in Range(d.segments) }

(* of each segment that is cited as evidence,                              *)
EvidenceNames(d) ==
    { IF \E s \in Range(d.segments) : s.id = e.segment
      THEN NameOf(d, Find(d.segments, e.segment).speaker) ELSE None :
        e \in UNION { Range(item.evidence) : item \in Items(d) } }

(* and each speaker who was given a task.                                  *)
TaskNames(d) ==
    { NameOf(d, item.assignee) :
        item \in { t \in Range(d.tasks) : t.assignee # None } }

-----------------------------------------------------------------------------
Next ==
    \/ Adapt
    \/ \E d \in Bundles : Receive(d)
    \/ \E r \in Requests : Review(r)
    \/ Approve

Spec == Init /\ [][Next]_vars

-----------------------------------------------------------------------------
(* Properties *)

(* The adapter never builds a bundle that the validators refuse, and it    *)
(* mixes up nothing: two segments share a voice exactly when the pipeline  *)
(* gave them the same label, voices are numbered as they are first heard,  *)
(* and every task rests on the interval of each utterance it was drawn     *)
(* from.                                                                   *)
AdapterIsFaithful ==
    /\ status # "broken"
    /\ payload # None /\ original # None =>
          LET us == payload.utterances
              segments == original.segments
          IN /\ \A i, j \in DOMAIN us :
                   segments[i].speaker = segments[j].speaker
                      <=> us[i].label = us[j].label
             /\ \A j \in DOMAIN us : \A n \in 1..segments[j].speaker - 1 :
                   \E i \in 1..j - 1 : segments[i].speaker = n
             /\ \A t \in DOMAIN payload.tasks, i \in DOMAIN us :
                   (\E k \in DOMAIN payload.tasks[t] : payload.tasks[t][k] = us[i].id)
                     <=> \E e \in Range(original.tasks[t].evidence) :
                            e = [segment |-> segments[i].id,
                                 start |-> us[i].start, end |-> us[i].end]

(* Whatever sequence of reviews was made, the minutes show the segments    *)
(* that the machine cut, and what is not marked as edited is exactly what  *)
(* it heard, from the voice it heard.                                      *)
MachineShows ==
    Published =>
       /\ DOMAIN Current.segments = DOMAIN original.segments
       /\ \A i \in DOMAIN original.segments :
             LET now == Current.segments[i]
                 then == original.segments[i]
             IN /\ <<now.id, now.start, now.end>> = <<then.id, then.start, then.end>>
                /\ ~now.edited => now = then

(* The PDF of an approved meeting looks up segments and speakers without a *)
(* guard: each of them is there, and each name that it prints was given or *)
(* declared unknown by a reviewer.                                         *)
MinutesCanBePrinted ==
    status = "approved" =>
       SegmentNames(Current) \union EvidenceNames(Current) \union TaskNames(Current)
          \subseteq {"named", "unknown"}
=============================================================================
