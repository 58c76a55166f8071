\* Every interleaving of sealing and (late, repeated) arrival of eight counters.
CONSTANTS
    CounterMax = 8
    Window = 3
    NoCounter = NoCounter

SPECIFICATION TrafficSpec

INVARIANT NonceUnique
INVARIANT OpenedOnce
INVARIANT LateFrameTaken

CHECK_DEADLOCK FALSE
