CONSTANTS
    Null = Null
    Submissions <- MCSubmissions
    Pages <- MCPages
    RawTranscripts <- MCRawTranscripts
    Exclusions <- MCExclusions
    MaxMediaBytes = 1
    MaxDuration = 1
    MaxAttempts = 3
    MaxTracks = 2
SPECIFICATION Spec
CHECK_DEADLOCK FALSE
INVARIANTS
    CanonicalUrlStable
    OverLimitNeverUsed
    NothingLeftBehind
    LateAnswerDropped
    BestUsableTrack
    ResultReadsBack
PROPERTIES
    WorkEnds
