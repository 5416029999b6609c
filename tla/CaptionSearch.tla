--------------------------- MODULE CaptionSearch ----------------------------
(***************************************************************************)
(* acquire_transcript of transcription/acquisition.py, as the provider     *)
(* thread runs it: the tracks of a video are listed, ranked against the    *)
(* declared language and fetched in that order until one has text, while   *)
(* another thread may set the cancellation event between any two steps.    *)
(***************************************************************************)
EXTENDS Naturals, Sequences, Selection

CONSTANT MaxTracks   \* bound on the tracks a provider lists

VARIABLES
    tracks,      \* what the provider lists
    ranked,      \* the candidates, in the order they are fetched
    search,      \* where the search is: idle, begin, list, check, fetch, over
    candidate,   \* index of the candidate at hand
    tried,       \* history: candidates fetched without a usable transcript
    cancelled,   \* cancellation_event
    late,        \* history: provider calls begun after it was set
    found        \* what the search returned or raised

\* A track's normalised language, compared with the declaration, and whether
\* its captions are generated.
Track == [language : {"declared", "primary", "other", "und"}, generated : BOOLEAN]

\* YouTubeCaptionProvider leaves out tracks with unusable metadata and keeps
\* the provider's order.
TrackLists == UNION {[1 .. n -> Track] : n \in 0 .. MaxTracks}

Fresh(where) ==
    /\ search' = where /\ tracks' = <<>> /\ ranked' = <<>>
    /\ candidate' = 1 /\ tried' = {} /\ found' = "none"

Begin == Fresh("begin")
Reset == Fresh("idle")

Return(r) == search' = "over" /\ found' = r
GoOn(where) == search' = where /\ UNCHANGED found
LateCall == late' = late + IF cancelled THEN 1 ELSE 0

-----------------------------------------------------------------------------

\* The four preference buckets; provider order is kept inside each.
Bucket(list, language, generated) ==
    InOrder({i \in 1 .. Len(list) : list[i].language = language /\ list[i].generated = generated})

\* Mutation: all generated captions come last.
MutRankGeneratedLast(list) ==
    Bucket(list, "declared", FALSE) \o Bucket(list, "primary", FALSE)
        \o Bucket(list, "declared", TRUE) \o Bucket(list, "primary", TRUE)

\* _rank_caption_tracks; other languages are no candidates.
RankCaptionTracks(list) ==
    Bucket(list, "declared", FALSE) \o Bucket(list, "declared", TRUE)
        \o Bucket(list, "primary", FALSE) \o Bucket(list, "primary", TRUE)

\* Without a usable declaration there are no captions; then the event is
\* tested.
CheckDeclaration ==
    /\ search = "begin"
    /\ \/ Return("nothing")
       \/ IF cancelled THEN Return("cancelled") ELSE GoOn("list")
    /\ UNCHANGED <<tracks, ranked, candidate, tried, cancelled, late>>

\* list_tracks answers, fails or times out; a cancellation seen after an
\* answer wins.
ListTracks ==
    /\ search = "list" /\ LateCall
    /\ \/ /\ ~cancelled
          /\ tracks' \in TrackLists /\ ranked' = RankCaptionTracks(tracks')
          /\ GoOn("check")
       \/ /\ cancelled
          /\ Return("cancelled") /\ UNCHANGED <<tracks, ranked>>
       \/ /\ \E r \in {"timeout", "failure"} : Return(r)
          /\ UNCHANGED <<tracks, ranked>>
    /\ UNCHANGED <<candidate, tried, cancelled>>

\* The event is tested before each candidate.
CheckCandidate ==
    /\ search = "check"
    /\ IF candidate > Len(ranked) THEN Return("nothing")
       ELSE IF cancelled THEN Return("cancelled")
       ELSE GoOn("fetch")
    /\ UNCHANGED <<tracks, ranked, candidate, tried, cancelled, late>>

NextCandidate ==
    /\ GoOn("check")
    /\ candidate' = candidate + 1 /\ tried' = tried \cup {ranked[candidate]}

\* The captions arrive and are normalised; the event is tested, and an empty
\* transcript is passed over.
CandidateFetched ==
    /\ search = "fetch" /\ LateCall
    /\ \/ cancelled /\ Return("cancelled") /\ UNCHANGED <<candidate, tried>>
       \/ ~cancelled /\ Return("transcript") /\ UNCHANGED <<candidate, tried>>
       \/ ~cancelled /\ NextCandidate
    /\ UNCHANGED <<tracks, ranked, cancelled>>

\* A failed fetch, or captions that cannot be normalised, are passed over.
CandidateFailed ==
    /\ search = "fetch" /\ LateCall
    /\ NextCandidate
    /\ UNCHANGED <<tracks, ranked, cancelled>>

\* A timeout ends the search.
CandidateTimesOut ==
    /\ search = "fetch" /\ LateCall
    /\ Return("timeout")
    /\ UNCHANGED <<tracks, ranked, candidate, tried, cancelled>>

SearchStep ==
    \/ CheckDeclaration \/ ListTracks \/ CheckCandidate
    \/ CandidateFetched \/ CandidateFailed \/ CandidateTimesOut

-----------------------------------------------------------------------------
(* Properties. *)

\* What the ranking is for, without naming an order of visits: the declared
\* language before its primary language, creators' captions before generated
\* ones, the provider's order between equals.
Usable(i) == tracks[i].language \in {"declared", "primary"}
Preferred(i, j) ==
    \/ tracks[i].language = "declared" /\ tracks[j].language = "primary"
    \/ /\ tracks[i].language = tracks[j].language
       /\ ~tracks[i].generated /\ tracks[j].generated
    \/ tracks[i] = tracks[j] /\ i < j

\* A transcript comes from a usable track, and every track that would have
\* been preferred was fetched and found wanting; native transcription is
\* fallen back to only when every usable track was.
BestUsableTrack ==
    /\ found = "transcript" =>
         /\ Usable(ranked[candidate])
         /\ \A i \in 1 .. Len(tracks) :
              Usable(i) /\ Preferred(i, ranked[candidate]) => i \in tried
    /\ found = "nothing" =>
         \A i \in 1 .. Len(tracks) : Usable(i) => i \in tried
=============================================================================
