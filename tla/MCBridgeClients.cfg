SPECIFICATION ClientsSpec
CONSTANTS
    a = a
    b = b
    bundle = bundle
    transfer = transfer
    Clients <- MCClients
    Bounds <- MCBounds
    Scopes <- MCScopes
    Repeating <- MCRepeating
    Ttl = 1
    EventLimit = 2
    PageLimit = 1
    NoPending = NoPending
    NoCursor = NoCursor
INVARIANT RevokedStaysRevoked
INVARIANT NothingSkipped
PROPERTY NewsIsDelivered
