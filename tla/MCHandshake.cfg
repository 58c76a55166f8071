\* One connection of one caller to three kinds of devices, with every change of trust and key.
CONSTANTS
    a = a
    b = b
    x = x
    c1 = c1
    Devices = {a, b, x}
    Conns = {c1}
    Caller <- CallerOf
    Ciphers <- CiphersOf
    KeyMax = 1
    NoKey = NoKey
    Anyone = Anyone
    NoHandshake = NoHandshake

SPECIFICATION Spec

INVARIANT EndsAgree
INVARIANT OfferAfterAcceptance
INVARIANT OfferReachesTheMeant
PROPERTY AutoAcceptedIsTrusted
PROPERTY HealthyHandshakeSucceeds

CHECK_DEADLOCK FALSE
