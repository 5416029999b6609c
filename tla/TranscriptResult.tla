-------------------------- MODULE TranscriptResult --------------------------
(***************************************************************************)
(* The result of a job on its way to a client: the raw segments of a       *)
(* provider are normalised and validated (transcription/types.py), the     *)
(* fields a client excluded are left out (transcription/schemas.py), the   *)
(* rest goes into nullable columns and numbered segment rows, and get_job  *)
(* puts a response together from those rows (jobs/repository.py).          *)
(*                                                                         *)
(* A text is the sequence of its words, in which a raw text may also have  *)
(* Blank entries; collapsed text joined by single spaces is then the       *)
(* concatenation of its words.  Times are whole seconds.                   *)
(***************************************************************************)
EXTENDS Integers, FiniteSets, Selection, SequencesExt

CONSTANT Null        \* SQL NULL

Blank == " "
SourceFields ==
    {"platform", "video_id", "url", "title", "description", "channel", "duration_seconds"}
TranscriptColumns == {"method", "language", "text"}
TranscriptFields == TranscriptColumns \cup {"segments"}
Columns == SourceFields \cup TranscriptColumns

\* validate_excluded_fields keeps something of each half of a response.
ExclusionsAllowed(excluded) ==
    ~(SourceFields \subseteq excluded) /\ ~(TranscriptFields \subseteq excluded)

-----------------------------------------------------------------------------
(* normalize_transcript *)

\* Of the shape that is accepted: numbers, here whole, and a text.
RawSegment == [start : Int, end : Int, text : Seq(STRING)]

CollapseWhitespace(text) == Selected(text, LAMBDA word : word # Blank)

\* _validated_time and the order of the two times.
TimesOK(s) == 0 <= s.start /\ s.start <= s.end
SegmentsOK(raw) == \A i \in 1 .. Len(raw) : TimesOK(raw[i])

\* The records with words, their whitespace collapsed.
Records(raw) ==
    Selected([i \in 1 .. Len(raw) |-> [raw[i] EXCEPT !.text = CollapseWhitespace(@)]],
              LAMBDA s : s.text # <<>>)

\* A stable sort by start: records that start together stay in order.
SortedByStart(records) ==
    LET starts == {records[i].start : i \in 1 .. Len(records)}
        StartingAt(t) == Selected(records, LAMBDA s : s.start = t)
        inOrder == InOrder(starts)
    IN  FlattenSeq([k \in 1 .. Len(inOrder) |-> StartingAt(inOrder[k])])

JoinedText(segments) == FlattenSeq([i \in 1 .. Len(segments) |-> segments[i].text])

\* A Transcript, or a TimedTranscript when segments are retained.
NormalizeTranscript(method, language, raw, includeSegments) ==
    LET segments == SortedByStart(Records(raw))
    IN  [method |-> method,
         language |-> IF segments = <<>> THEN "und" ELSE language,
         text |-> JoinedText(segments),
         timed |-> includeSegments,
         segments |-> IF includeSegments THEN segments ELSE <<>>]

\* What Segment, Transcript and TimedTranscript refuse to be constructed with.
IsTranscript(t) ==
    /\ t.text = CollapseWhitespace(t.text)
    /\ t.text = <<>> => t.language = "und"
    /\ t.timed =>
         /\ t.text = JoinedText(t.segments)
         /\ \A i \in 1 .. Len(t.segments) :
              /\ TimesOK(t.segments[i])
              /\ t.segments[i].text # <<>>
              /\ t.segments[i].text = CollapseWhitespace(t.segments[i].text)
         /\ \A i \in 2 .. Len(t.segments) : t.segments[i - 1].start <= t.segments[i].start

-----------------------------------------------------------------------------
(* build_transcription_response *)

\* Retained segments need a TimedTranscript.
CanProject(transcript, excluded) == "segments" \notin excluded => transcript.timed

Project(source, transcript, excluded) ==
    [f \in (Columns \cup {"segments"}) \ excluded |->
       IF f \in SourceFields THEN source[f] ELSE transcript[f]]

-----------------------------------------------------------------------------
(* Result and segment rows. *)

\* Mutation: an empty value is stored as NULL.
MutEmptyAsNull(response) ==
    [c \in Columns |->
       IF c \notin DOMAIN response \/ (c = "text" /\ response[c] = <<>>) THEN Null
       ELSE response[c]]

\* _result_values
ResultValues(response) ==
    [c \in Columns |-> IF c \in DOMAIN response THEN response[c] ELSE Null]

\* _segment_values
SegmentValues(response) ==
    IF "segments" \notin DOMAIN response THEN {}
    ELSE {[ordinal |-> i - 1, segment |-> response.segments[i]] : i \in 1 .. Len(response.segments)}

\* The lengths and values that the columns and their CHECK constraints take.
\* Nothing before the INSERT looks at the length of an identifier that a
\* provider chose, or of a language tag.
ColumnsAccept(row, segments) ==
    /\ row.video_id # "256 characters" /\ row.language # "36 characters"
    /\ row.duration_seconds = Null \/ row.duration_seconds > 0
    /\ \A r \in segments : r.ordinal >= 0 /\ TimesOK(r.segment) /\ r.segment.text # <<>>

\* _response_section and _segment_response_values: a row that disagrees with
\* the exclusions, or a gap in the numbering, makes the store unavailable.
RowsReadable(row, segments, excluded) ==
    /\ \A c \in Columns : c \in excluded <=> row[c] = Null
    /\ "segments" \in excluded => segments = {}
    /\ {r.ordinal : r \in segments} = 0 .. Cardinality(segments) - 1

\* _response_from_result_rows
ReadResponse(row, segments, excluded) ==
    LET SegmentAt(n) == (CHOOSE r \in segments : r.ordinal = n).segment
        list == [i \in 1 .. Cardinality(segments) |-> SegmentAt(i - 1)]
    IN  [f \in (Columns \cup {"segments"}) \ excluded |->
           IF f = "segments" THEN list ELSE row[f]]
=============================================================================
