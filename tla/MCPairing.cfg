\* One peer that sends two requests.
CONSTANTS
    p1 = p1
    c1 = c1
    c2 = c2
    NoPeer = NoPeer
    NoConn = NoConn
    Free = Free
    Torn = Torn
    Peers = {p1}
    Hosts = {h1}
    Conns = {c1, c2}
    From <- MCFrom

SPECIFICATION Spec

INVARIANT AckedHolds
 
PROPERTY EveryRequestAnswered


CHECK_DEADLOCK FALSE
