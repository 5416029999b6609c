----------------------------- MODULE SourceWork -----------------------------
(***************************************************************************)
(* What one claimed job does with its URL, from classify_submitted_url to  *)
(* the stored result: JobProcessor.process (jobs/processor.py) and         *)
(* TranscriptionExecutor.execute (transcription/service.py) on the event   *)
(* loop, and on provider threads the metadata extraction with its duration *)
(* download (transcription/inspection.py), the caption search and the      *)
(* audio download (transcription/acquisition.py).                          *)
(*                                                                         *)
(* A provider thread is a retrieval of ProviderRetry or a search of        *)
(* CaptionSearch followed by the checks of the thread's own function.      *)
(* Cancellation and deadlines come between any two steps.  How executions  *)
(* compete for permits, and inference that outlives its timeout, are the   *)
(* subject of NativeWork.                                                  *)
(***************************************************************************)
EXTENDS SourceUrl, TranscriptResult

CONSTANTS
    Submissions,     \* URLs of jobs
    Pages,           \* webpage URLs of a provider's metadata
    RawTranscripts,  \* sequences of raw segments
    Exclusions,      \* excluded fields of jobs
    MaxMediaBytes,   \* inclusive limit of media
    MaxDuration,     \* limit in seconds
    MaxAttempts,     \* _MAX_YTDLP_ATTEMPTS
    MaxTracks        \* bound on listed caption tracks

ASSUME LimitsAssumption ==
    /\ MaxMediaBytes \in Nat \ {0} /\ MaxDuration \in Nat \ {0}
    /\ MaxAttempts \in Nat \ {0} /\ MaxTracks \in Nat

ASSUME InputsAssumption ==
    /\ Submissions \subseteq Url /\ Pages \subseteq Url
    /\ \A raw \in RawTranscripts : raw \in Seq(RawSegment)

Methods == {"youtube_captions", "faster_whisper"}
Languages == {"en", "und", "36 characters"}
Identifiers == {"id", "256 characters"}

\* NULL is none of the values that columns hold.
ASSUME NullAssumption ==
    Null \notin Platforms \cup Identifiers \cup Url \cup {""} \cup Nat
                 \cup Methods \cup Languages \cup Seq(STRING)

ASSUME ExclusionsAssumption == \A excluded \in Exclusions : ExclusionsAllowed(excluded)

VARIABLES
    stage,      \* of the coroutine: submitted, metadata, captions, acquire,
                \* validate, audio, native, publish, ended
    url,        \* the submitted URL, later the canonical one
    platform,
    work,       \* of the provider thread: none, extract, prepare, duration,
                \* probe, download, returned, raised
    raised,     \* what it raised
    info,       \* metadata it returned
    file,       \* bytes and half-seconds of the audio on disk
    dirs,       \* private media directories: inspection, request
    stuck,      \* a directory could not be removed
    requested,  \* control.cancellation_requested
    timedOut,   \* asyncio.timeout fired in this stage
    duration,   \* Source.duration_seconds
    result,     \* the stored rows and what they were made from
    outcome,    \* of the job: an error code, cancelled, succeeded,
                \* store unavailable, internal_error
    \* of ProviderRetry
    call, attempt, cancelled, expired, late, answer,
    \* of CaptionSearch
    tracks, ranked, search, candidate, tried, found

Retrieval == INSTANCE ProviderRetry
    WITH download <- work \in {"duration", "download"}, filtered <- work = "duration"

Captions == INSTANCE CaptionSearch

loopVars == <<call, attempt, answer>>
searchVars == <<tracks, ranked, search, candidate, tried, found>>
events == <<cancelled, expired, late>>
job == <<stage, url, platform, requested, timedOut, duration, result, outcome>>
thread == <<work, raised, info, file>>
disk == <<dirs, stuck>>
vars == <<job, thread, disk, events, loopVars, searchVars>>

NoUrl == [host |-> "", path |-> <<>>, query |-> <<>>]
NoInfo == [kind |-> "none", size |-> 0, halves |-> 0]
NoFile == [bytes |-> 0, halves |-> 0]
NoResult == [transcript |-> Null, excluded |-> {}, row |-> Null, segments |-> {}]

\* A declared size of 0 is missing or unusable; durations are half-seconds,
\* and 0 stands for one that no number of seconds can be made of.
Sizes == 0 .. MaxMediaBytes + 1
FileSizes == MaxMediaBytes .. MaxMediaBytes + 1
Halves == {0, 2 * MaxDuration - 1, 2 * MaxDuration, 2 * MaxDuration + 1}

\* What metadata may describe; only a video is accepted.
Kinds == {"video", "collection or live", "malformed", "foreign", "no video format", "malformed text"}

Init ==
    /\ stage = "submitted" /\ url \in Submissions /\ platform = "none"
    /\ work = "none" /\ raised = "none" /\ info = NoInfo /\ file = NoFile
    /\ dirs = {} /\ stuck = FALSE
    /\ requested = FALSE /\ timedOut = FALSE
    /\ duration = 0 /\ result = NoResult /\ outcome = "none"
    /\ call = "idle" /\ attempt = 0 /\ answer = "none"
    /\ cancelled = FALSE /\ expired = FALSE /\ late = 0
    /\ tracks = <<>> /\ ranked = <<>> /\ search = "idle" /\ candidate = 1
    /\ tried = {} /\ found = "none"

-----------------------------------------------------------------------------
(* Cleanup and the ends of stages. *)

\* _cleanup_request_directory: a failing rmtree is logged and left at that.
CleanUp(gone) ==
    \/ dirs' = dirs \ gone /\ UNCHANGED stuck
    \/ dirs \cap gone # {} /\ stuck' = TRUE /\ UNCHANGED dirs

ThreadIdle == work' = "none" /\ raised' = "none" /\ info' = NoInfo /\ Retrieval!Reset

\* The directories the coroutine knows of: the inspection's only once its
\* thread has returned it.
Known == IF work = "raised" THEN {"request"} ELSE {"inspection", "request"}

\* execute() ends: its finally block stops providers and removes media.
\* process() reports any failure of a cancelled job as its cancellation.
Leave(code) ==
    /\ stage' = "ended" /\ outcome' = IF requested THEN "cancelled" ELSE code
    /\ CleanUp(Known)
    /\ cancelled' = TRUE
    /\ file' = NoFile /\ ThreadIdle
    /\ UNCHANGED <<url, platform, requested, timedOut, duration, result, expired, late>>

Raise(error) == work' = "raised" /\ raised' = error /\ Retrieval!Reset

-----------------------------------------------------------------------------
(* The metadata thread: YtDlpMetadataExtractor.extract *)

\* The file size if it is usable, else the approximation.
SelectedSize(filesize, approximate) == IF filesize > 0 THEN filesize ELSE approximate
SelectedTooLarge(size) == size > MaxMediaBytes

\* What follows the first retrieval.  Metadata without a duration leads to
\* the download that measures it.
ExtractReturns ==
    /\ work = "extract" /\ call = "over"
    /\ UNCHANGED <<job, disk, events, searchVars, file>>
    /\ IF answer # "info" THEN Raise(answer) /\ UNCHANGED info
       ELSE \/ Raise("retrieval failed") /\ UNCHANGED info
            \/ Retrieval!Stopped /\ Raise(Retrieval!StopReason) /\ UNCHANGED info
            \/ /\ ~Retrieval!Stopped
               /\ \E filesize \in Sizes, approximate \in Sizes :
                    LET size == SelectedSize(filesize, approximate)
                    IN  IF SelectedTooLarge(size) THEN Raise("too large") /\ UNCHANGED info
                        ELSE /\ Retrieval!Reset /\ UNCHANGED raised
                             /\ \/ work' = "prepare" /\ UNCHANGED info
                                \/ /\ work' = "returned"
                                   /\ \E kind \in Kinds, halves \in Halves :
                                        info' = [kind |-> kind, size |-> size, halves |-> halves]

\* _download_audio_for_duration makes its own directory.
PrepareDirectory ==
    /\ work = "prepare"
    /\ UNCHANGED <<job, events, searchVars, info, file, stuck>>
    /\ \/ Retrieval!Stopped /\ Raise(Retrieval!StopReason) /\ UNCHANGED dirs
       \/ ~Retrieval!Stopped /\ Raise("other error") /\ UNCHANGED dirs
       \/ /\ ~Retrieval!Stopped
          /\ dirs' = dirs \cup {"inspection"}
          /\ work' = "duration" /\ Retrieval!Begin /\ UNCHANGED raised

\* Mutation: the directory is left to the caller.
MutFailKeeping(error) == Raise(error) /\ UNCHANGED <<dirs, stuck>>

\* The finally block: whoever does not complete cleans up.
FailInspection(error) == Raise(error) /\ CleanUp({"inspection"})

\* The download returned: its declared size, its path, its exact size and
\* the events are looked at in this order.
DurationReturns ==
    /\ work = "duration" /\ call = "over"
    /\ UNCHANGED <<job, events, searchVars>>
    /\ \/ answer # "info" /\ FailInspection(answer) /\ UNCHANGED <<info, file>>
       \/ answer = "info" /\ FailInspection("retrieval failed") /\ UNCHANGED <<info, file>>
       \/ /\ answer = "info"
          /\ \E kind \in Kinds, size \in Sizes, bytes \in FileSizes :
               IF SelectedTooLarge(size) \/ bytes > MaxMediaBytes
               THEN FailInspection("too large") /\ UNCHANGED <<info, file>>
               ELSE IF Retrieval!Stopped
               THEN FailInspection(Retrieval!StopReason) /\ UNCHANGED <<info, file>>
               ELSE /\ work' = "probe" /\ Retrieval!Reset
                    /\ info' = [kind |-> kind, size |-> size, halves |-> 0]
                    /\ file' = [bytes |-> bytes, halves |-> 0]
                    /\ UNCHANGED <<raised, disk>>

\* _probe_audio_duration, then the events and the limit.
Probe ==
    /\ work = "probe"
    /\ UNCHANGED <<job, events, searchVars>>
    /\ \/ /\ \E error \in {"retrieval failed", "invalid duration"} : FailInspection(error)
          /\ info' = NoInfo /\ file' = NoFile
       \/ \E halves \in Halves \ {0} :
            IF Retrieval!Stopped
            THEN FailInspection(Retrieval!StopReason) /\ info' = NoInfo /\ file' = NoFile
            ELSE IF halves > 2 * MaxDuration
            THEN FailInspection("too long") /\ info' = NoInfo /\ file' = NoFile
            ELSE /\ work' = "returned" /\ Retrieval!Reset
                 /\ info' = [info EXCEPT !.halves = halves]
                 /\ file' = [file EXCEPT !.halves = halves]
                 /\ UNCHANGED <<raised, disk>>

-----------------------------------------------------------------------------
(* The audio thread: WhisperAcquirer._download_audio *)

\* Mutation: the exact size is not looked at.
MutValidateAnySize(bytes) == TRUE

\* _validate_audio_path, for a file where it should be.
AudioPathValid(bytes) == bytes <= MaxMediaBytes

DownloadReturns ==
    /\ work = "download" /\ call = "over"
    /\ UNCHANGED <<job, disk, events, searchVars, info>>
    /\ \/ answer # "info" /\ Raise(answer) /\ UNCHANGED file
       \/ answer = "info" /\ Raise("other error") /\ UNCHANGED file
       \/ /\ answer = "info"
          /\ \E size \in Sizes, bytes \in FileSizes :
               IF SelectedTooLarge(size) \/ ~AudioPathValid(bytes)
               THEN Raise("too large") /\ UNCHANGED file
               ELSE /\ work' = "returned" /\ Retrieval!Reset
                    /\ file' = [bytes |-> bytes, halves |-> 0]
                    /\ UNCHANGED raised

-----------------------------------------------------------------------------
(* The coroutine. *)

\* classify_submitted_url, then _extract_metadata starts its thread.  A
\* refusal is published with its code, another exception as internal_error.
Classify ==
    LET source == ClassifySubmittedUrl(url)
    IN  /\ stage = "submitted"
        /\ IF source.error # "none" THEN
             /\ Leave(IF source.error = "value error" THEN "internal_error" ELSE source.error)
             /\ UNCHANGED searchVars
           ELSE
             /\ stage' = "metadata" /\ url' = NoUrl /\ platform' = source.platform
             /\ work' = "extract" /\ Retrieval!Begin
             /\ UNCHANGED <<requested, timedOut, duration, result, outcome, raised, info, file>>
             /\ UNCHANGED <<disk, events, searchVars>>

\* asyncio.timeout fires while the thread is awaited.
TimesOut ==
    /\ stage \in {"metadata", "audio"} /\ expired /\ ~timedOut
    /\ timedOut' = TRUE /\ cancelled' = TRUE
    /\ UNCHANGED <<stage, url, platform, requested, duration, result, outcome>>
    /\ UNCHANGED <<thread, disk, expired, late, loopVars, searchVars>>

\* The error _extract_metadata makes of what the thread raised.
MetadataError ==
    CASE raised \in {"timeout", "typed timeout"} -> "metadata_timeout"
      [] raised \in {"too large", "not video"} -> "unsupported_media"
      [] raised = "unavailable" -> "unsupported_content"
      [] raised = "too long" -> "video_too_long"
      [] raised = "invalid duration" -> "invalid_media_duration"
      [] OTHER -> "metadata_retrieval_failed"

\* The thread raised, or a cancellation or the timeout came first; audio that
\* nobody adopted goes too.
MetadataFails ==
    /\ stage = "metadata"
    /\ \/ work = "raised" /\ Leave(IF timedOut THEN "metadata_timeout" ELSE MetadataError)
       \/ work = "returned" /\ timedOut /\ Leave("metadata_timeout")
       \/ work = "returned" /\ ~timedOut /\ requested /\ Leave("cancelled")
    /\ UNCHANGED searchVars

\* normalize_processed_metadata refuses some metadata before it looks at the
\* page, some after it.
KindError ==
    CASE info.kind \in {"collection or live", "foreign"} -> "invalid_url"
      [] info.kind = "malformed" -> "metadata_retrieval_failed"
      [] OTHER -> "none"

FieldError ==
    CASE info.kind = "no video format" /\ platform # "youtube" -> "unsupported_media"
      [] info.kind = "malformed text" -> "metadata_retrieval_failed"
      [] OTHER -> "none"

\* Rounded up to whole seconds.
WholeSeconds(halves) == (halves + 1) \div 2

AdmissionError(canonical) ==
    IF SelectedTooLarge(info.size) THEN "unsupported_media"
    ELSE IF KindError # "none" THEN KindError
    ELSE IF canonical.error # "none" THEN canonical.error
    ELSE IF FieldError # "none" THEN FieldError
    ELSE IF info.halves = 0 THEN "invalid_media_duration"
    ELSE IF WholeSeconds(info.halves) > MaxDuration THEN "video_too_long"
    ELSE "none"

\* Metadata is accepted: captions are tried for a YouTube video, any other
\* source needs its audio.
MetadataReturns ==
    /\ stage = "metadata" /\ work = "returned" /\ ~timedOut /\ ~requested
    /\ \E page \in Pages :
         LET canonical == CanonicalUrl([platform |-> platform], page)
             error == AdmissionError(canonical)
         IN  IF error # "none" THEN Leave(error) /\ UNCHANGED searchVars
             ELSE /\ url' = canonical.url /\ duration' = WholeSeconds(info.halves)
                  /\ IF platform = "youtube" THEN stage' = "captions" /\ Captions!Begin
                     ELSE stage' = "acquire" /\ UNCHANGED searchVars
                  /\ ThreadIdle
                  /\ UNCHANGED <<platform, requested, timedOut, result, outcome, file, disk, events>>

\* The transcript is there: execute() returns it and its finally block runs.
Transcribed(method, raw) ==
    /\ stage' = "publish"
    /\ \E excluded \in Exclusions, language \in Languages :
         result' = [NoResult EXCEPT
           !.transcript = NormalizeTranscript(method, language, raw, "segments" \notin excluded),
           !.excluded = excluded]
    /\ CleanUp({"inspection", "request"}) /\ cancelled' = TRUE
    /\ file' = NoFile
    /\ UNCHANGED <<url, platform, requested, timedOut, duration, outcome>>
    /\ UNCHANGED <<work, raised, info, loopVars, expired, late>>

\* Captions that were found are the transcript; a search that failed counts
\* as one that found none.
CaptionsReturn ==
    /\ stage = "captions" /\ search = "over"
    /\ Captions!Reset
    /\ IF requested THEN Leave("cancelled")
       ELSE IF found = "transcript"
       THEN \E raw \in RawTranscripts :
              /\ SegmentsOK(raw) /\ Records(raw) # <<>>
              /\ Transcribed("youtube_captions", raw)
       ELSE /\ stage' = "acquire"
            /\ UNCHANGED <<url, platform, requested, timedOut, duration, result, outcome>>
            /\ UNCHANGED <<thread, disk, events, loopVars>>

\* acquire(): prepared audio is validated; otherwise the audio is downloaded
\* into a request directory, if one can be made, under a deadline of its own.
AcquireAudio ==
    /\ stage = "acquire"
    /\ \/ /\ "inspection" \in dirs
          /\ stage' = "validate"
          /\ UNCHANGED <<thread, disk, events, loopVars>>
          /\ UNCHANGED <<url, platform, requested, timedOut, duration, result, outcome>>
       \/ /\ "inspection" \notin dirs
          /\ stage' = "audio" /\ work' = "download" /\ Retrieval!Begin
          /\ dirs' = dirs \cup {"request"} /\ expired' = FALSE
          /\ UNCHANGED <<raised, info, file, stuck, cancelled, late>>
          /\ UNCHANGED <<url, platform, requested, timedOut, duration, result, outcome>>
       \/ "inspection" \notin dirs /\ Leave("audio_download_failed")
    /\ UNCHANGED searchVars

\* Prepared audio is looked for and measured again before it is used.
ValidatePrepared ==
    /\ stage = "validate"
    /\ \/ Leave("audio_download_failed")
       \/ IF ~AudioPathValid(file.bytes) THEN Leave("unsupported_media")
          ELSE IF requested THEN Leave("cancelled")
          ELSE /\ stage' = "native"
               /\ UNCHANGED <<url, platform, requested, timedOut, duration, result, outcome>>
               /\ UNCHANGED <<thread, disk, events, loopVars>>
    /\ UNCHANGED searchVars

\* The error acquire() makes of what the thread raised.
DownloadError ==
    CASE raised \in {"timeout", "typed timeout"} -> "audio_download_timeout"
      [] raised = "too large" -> "unsupported_media"
      [] OTHER -> "audio_download_failed"

AudioReturns ==
    /\ stage = "audio" /\ work \in {"returned", "raised"}
    /\ IF timedOut THEN Leave("audio_download_timeout")
       ELSE IF work = "raised" THEN Leave(DownloadError)
       ELSE IF requested THEN Leave("cancelled")
       ELSE /\ stage' = "native" /\ ThreadIdle
            /\ UNCHANGED <<url, platform, requested, timedOut, duration, result, outcome>>
            /\ UNCHANGED <<file, disk, events>>
    /\ UNCHANGED searchVars

\* Inference returns segments, reports a timeout, fails, or returns segments
\* that cannot be normalised.
NativeReturns ==
    /\ stage = "native"
    /\ \/ \E code \in {"transcription_failed", "transcription_timeout"} : Leave(code)
       \/ requested /\ Leave("cancelled")
       \/ ~requested /\ \E raw \in RawTranscripts :
            SegmentsOK(raw) /\ Transcribed("faster_whisper", raw)
    /\ UNCHANGED searchVars

\* What the job's result describes.
SourceOf(id) ==
    [platform |-> platform, video_id |-> id, url |-> url, title |-> "",
     description |-> "", channel |-> "", duration_seconds |-> duration]

Response(id) == Project(SourceOf(id), result.transcript, result.excluded)

\* process() projects the result and publish_success stores it; rows that
\* the columns refuse fail the transaction.
Publish ==
    /\ stage = "publish"
    /\ stage' = "ended"
    /\ IF requested THEN outcome' = "cancelled" /\ UNCHANGED result
       ELSE IF ~CanProject(result.transcript, result.excluded)
       THEN outcome' = "internal_error" /\ UNCHANGED result
       ELSE \E id \in IF platform = "youtube" THEN {"id"} ELSE Identifiers :
              LET row == ResultValues(Response(id))
                  segments == SegmentValues(Response(id))
              IN  IF ColumnsAccept(row, segments)
                  THEN outcome' = "succeeded" /\ result' = [result EXCEPT !.row = row, !.segments = segments]
                  ELSE outcome' = "store unavailable" /\ UNCHANGED result
    /\ UNCHANGED <<url, platform, requested, timedOut, duration>>
    /\ UNCHANGED <<thread, disk, events, loopVars, searchVars>>

\* request_cancellation sets both events, on the event loop: only while the
\* coroutine waits for a thread.
RequestCancellation ==
    /\ ~requested /\ stage \in {"metadata", "captions", "validate", "audio", "native"}
    /\ requested' = TRUE /\ cancelled' = TRUE
    /\ UNCHANGED <<stage, url, platform, timedOut, duration, result, outcome>>
    /\ UNCHANGED <<thread, disk, expired, late, loopVars, searchVars>>

-----------------------------------------------------------------------------

RetrievalStep == Retrieval!RetryStep /\ UNCHANGED <<job, thread, disk, searchVars>>
CaptionStep == Captions!SearchStep /\ UNCHANGED <<job, thread, disk, loopVars, expired>>

\* The monotonic clock reaches the deadline of the stage.
DeadlinePasses ==
    /\ stage \in {"metadata", "audio"} /\ ~expired
    /\ expired' = TRUE
    /\ UNCHANGED <<job, thread, disk, cancelled, late, loopVars, searchVars>>

ThreadStep ==
    \/ RetrievalStep \/ CaptionStep
    \/ ExtractReturns \/ PrepareDirectory \/ DurationReturns \/ Probe \/ DownloadReturns

CoroutineStep ==
    \/ Classify \/ MetadataFails \/ MetadataReturns \/ CaptionsReturn
    \/ AcquireAudio \/ ValidatePrepared \/ AudioReturns \/ NativeReturns \/ Publish

Next == ThreadStep \/ CoroutineStep \/ TimesOut \/ RequestCancellation \/ DeadlinePasses

\* Threads and the event loop run, provider calls and inference return.
Spec == Init /\ [][Next]_vars /\ WF_vars(ThreadStep) /\ WF_vars(CoroutineStep)

-----------------------------------------------------------------------------
(* Properties. *)

\* A URL that is accepted names the same video whoever classifies it again:
\* the provider URL handed to yt-dlp is accepted for the same platform and
\* is its own provider URL, and a canonical URL shown to clients can be
\* submitted again and stays as it is.
CanonicalUrlStable ==
    LET source == ClassifySubmittedUrl(url)
        canonical == CanonicalUrl(source, source.url)
    IN  /\ stage = "submitted" /\ source.error = "none" =>
             /\ ClassifySubmittedUrl(source.url) = source
             /\ url.host \notin ShortHosts(source.platform) =>
                  /\ canonical.error = "none"
                  /\ CanonicalUrl(ClassifySubmittedUrl(canonical.url), canonical.url) = canonical
        /\ url # NoUrl /\ platform # "none" =>
             source = Accepted(platform, url) /\ canonical = source

\* Whatever a provider declared, audio that reaches inference is within the
\* byte limit by its exact size, and no result describes a source over the
\* duration limit.
OverLimitNeverUsed ==
    /\ stage = "native" =>
         file.bytes \in 1 .. MaxMediaBytes /\ WholeSeconds(file.halves) <= MaxDuration
    /\ stage \in {"native", "publish"} => duration \in 1 .. MaxDuration

\* Once a job is decided no private media directory is left, whichever step
\* failed, unless the file system refused to remove it; and a job never has
\* a prepared and a downloaded copy at a time.
NothingLeftBehind ==
    /\ stage = "ended" /\ ~stuck => dirs = {}
    /\ dirs # {"inspection", "request"}

\* Neither a cancellation nor a deadline is outlived by more than the one
\* provider call that was already decided on, and what that call brings is
\* never used.
LateAnswerDropped == late <= 1 /\ (late = 1 => stage \notin {"native", "publish"} /\ outcome # "succeeded")

\* A client reads back the response that was projected, whatever was
\* excluded, empty, silent or out of order, and every transcript made of
\* acceptable segments passes the constructors' own checks: a job whose URL
\* was classified does not end in an internal error.
ResultReadsBack ==
    /\ result.transcript # Null => IsTranscript(result.transcript)
    /\ outcome = "internal_error" => platform = "none"
    /\ outcome = "succeeded" =>
         /\ RowsReadable(result.row, result.segments, result.excluded)
         /\ ReadResponse(result.row, result.segments, result.excluded) = Response("id")

\* The caption transcript that is used comes from the best track that has
\* text: acquire_transcript passes over no better one, and native inference
\* follows a finished search only when no usable track had text.
BestUsableTrack == Captions!BestUsableTrack

\* Every job is decided, however often providers fail.
WorkEnds == <>(stage = "ended")
=============================================================================
