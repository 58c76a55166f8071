\* Two connections: two sessions on TCP, or one on both transports.
CONSTANTS
    s1 = s1
    s2 = s2
    t1 = t1
    t2 = t2
    i1 = i1
    NoSession = NoSession
    NoThread = NoThread
    NoOffer = NoOffer
    Sessions = {s1, s2}
    Threads = {t1, i1, t2}
    Session <- MCSession
    Iroh = {i1}
    MaxConns = 2
    Instances <- MCInstances

SPECIFICATION FairSpec

INVARIANT ReceivesOnlyAccepted
INVARIANT SlotIsLive
INVARIANT PromptIsLive
INVARIANT OneStartWins

PROPERTY StoppedLoopsEnd

CHECK_DEADLOCK FALSE
