\* Two listeners share the receive directory.
CONSTANTS
    Listeners = {tcp, iroh}
    NFiles = 1
    a = a
    b = b
    c = c
    Chunks <- MCChunks
    Contents <- MCTwoContents
    NoFile = NoFile
    Present <- MCNonePresent
    MaxAttempts = 1
    MaxEdits = 0

SPECIFICATION Spec

PROPERTY ImplementsVerifiedInbox

CHECK_DEADLOCK FALSE
