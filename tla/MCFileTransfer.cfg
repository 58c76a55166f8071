\* One listener (iroh off), two files, an edit, and a second attempt.
CONSTANTS
    Listeners = {tcp}
    NFiles = 2
    a = a
    b = b
    c = c
    Chunks <- MCChunks
    Contents <- MCContents
    NoFile = NoFile
    Present <- MCPresent
    MaxAttempts = 2
    MaxEdits = 1

SPECIFICATION FairSpec

INVARIANT HealthyTransferSucceeds
PROPERTY ImplementsVerifiedInbox
PROPERTY AdvanceOnlyWhenDelivered
PROPERTY ResumeKeepsProgress
PROPERTY AttemptsEnd

CHECK_DEADLOCK FALSE
