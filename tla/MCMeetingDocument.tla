-------------------------- MODULE MCMeetingDocument --------------------------
(* Model checking of MeetingDocument: valid and invalid inputs.            *)
EXTENDS MeetingDocument, SequencesExt

Times == {<<0, 1>>, <<0, 2>>, <<1, 2>>, <<1, 1>>}

Utterance(id, t, l) == [id |-> id, start |-> t[1], end |-> t[2], label |-> l]

Pairs ==
    { <<Utterance(a, t, k), Utterance(b, u, l)>> :
        a \in {"u1"}, b \in {"u1", "u2"}, t \in Times, u \in Times,
        k \in {None, "a"}, l \in {None, "a"} }

Triples ==
    { <<Utterance("u1", <<0, 1>>, k), Utterance("u2", <<0, 2>>, l),
        Utterance("u3", <<1, 2>>, m)>> :
        k \in {None, "a", "b"}, l \in {None, "a", "b"}, m \in {None, "a", "b"} }

MCPayloads ==
    { [utterances |-> us, facts |-> <<<<"u1">>>>, decisions |-> ds, tasks |-> ts,
       models |-> {"asr", "diarization", "analysis"}, provenance |-> known] :
        us \in Pairs \union Triples \union {<<>>},
        ds \in {<<>>, <<<<"u2">>>>},
        ts \in {<<<<"u2", "u1">>, <<"u1">>>>, <<<<"u1", "u1">>>>, <<<<>>>>},
        known \in {{"asr", "diarization", "analysis"}, {"asr"}} }

(* A voice without segments, and a bundle that an edit has touched.        *)
MCBundles ==
    { [speakers |-> <<[id |-> 1, identity |-> "unreviewed"],
                      [id |-> 2, identity |-> "unreviewed"]>>,
       segments |-> <<[id |-> "u1", start |-> 0, end |-> 2, speaker |-> 1,
                       text |-> "machine", edited |-> touched]>>,
       summary |-> <<>>,
       tasks |-> <<>>] : touched \in BOOLEAN }

Voices == SeqOf({ [id |-> i, identity |-> v] :
                     i \in 1..2, v \in {"unreviewed", "named"} }, 2)

Edits ==
    LET both == [segment |-> "u1", text |-> "typed", speaker |-> 2]
        voice == [segment |-> "u1", text |-> None, speaker |-> 2]
        text == [segment |-> "u2", text |-> "typed", speaker |-> None]
        nothing == [segment |-> "u2", text |-> None, speaker |-> None]
    IN {<<>>, <<both>>, <<voice>>, <<text>>, <<voice, text>>, <<both, voice>>,
        <<both, nothing>>}

Evidence == { <<>>, <<[segment |-> "u1", start |-> 0, end |-> 1]>>,
              <<[segment |-> "u1", start |-> 0, end |-> 3]>> }

MCRequests ==
    { [speakers |-> vs, edits |-> es, summary |-> <<>>,
       tasks |-> <<[id |-> "t", evidence |-> ev, assignee |-> a]>>] :
        vs \in Voices, es \in Edits, ev \in Evidence, a \in {None, 2, 3} }
=============================================================================
