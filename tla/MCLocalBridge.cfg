\* Two or three posts on two connections, two commands or one, room for one action and two results.
CONSTANTS
    r1 = r1
    r2 = r2
    r3 = r3
    p = p
    q = q
    Requests = {r1, r2, r3}
    Kind <- MCKind
    Id <- MCId
    Payloads = {p, q}
    Comes <- MCComes
    NoPayload = NoPayload
    Detected = Detected
    Handlers = {h1, h2}
    Commands = {c1}
    Worker = Worker
    NoAction = NoAction
    QueueLimit = 1
    ResultLimit = 2
    Budgets <- MCBudgets

SPECIFICATION FairSpec

INVARIANT ExecutedOnce
INVARIANT PendingIsInHand
INVARIANT EventsInOrder
INVARIANT RefusedOnlyForAnother
PROPERTY RequestEnds

CHECK_DEADLOCK FALSE
