\* Receiving is stopped and started again.
CONSTANTS
    s1 = s1
    s2 = s2
    t1 = t1
    t2 = t2
    i1 = i1
    NoSession = NoSession
    NoThread = NoThread
    NoOffer = NoOffer
    Sessions = {s1, s2}
    Threads = {t1, t2}
    Session <- MCTcpOnly
    Iroh = {}
    MaxConns = 1
    Instances <- MCTcpLoops

SPECIFICATION Spec

INVARIANT NoOrphanListener

CHECK_DEADLOCK FALSE
