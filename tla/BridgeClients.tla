---------------------------- MODULE BridgeClients ----------------------------
(***************************************************************************)
(* The clients of the local bridge: how an application of this computer is *)
(* granted scopes by a code, how they are revoked, pruned, saved and       *)
(* loaded (commands/local_bridge/authorizations.rs), and how it reads the  *)
(* events of the desktop page by page behind a cursor, from a queue that   *)
(* drops the oldest (events.rs, local_bridge_events.rs).  The actions that *)
(* an authorized client requests are LocalBridge's.                        *)
(*                                                                         *)
(* Revoking and pruning save under the lock of the list.  Confirming       *)
(* changes the list, clones it, lets the lock go and then saves the clone, *)
(* and several confirmations may be on their way.                          *)
(* A poll works on copies of the list and of the queue.                    *)
(***************************************************************************)
EXTENDS Integers, Sequences, FiniteSets, SequencesExt, FiniteSetsExt, Subsequences

CONSTANTS
    Clients,     \* client identities; no two share a client_id
    Scopes,      \* what a client may read; an event belongs to one of them
    Ttl,         \* how long a grant lasts
    EventLimit,  \* LOCAL_BRIDGE_EVENT_QUEUE_LIMIT
    PageLimit,   \* the limit of a poll
    Repeating,   \* scopes whose events may come again under the id of an earlier one
    NoPending,   \* no authorization request waits
    NoCursor,    \* after_event_id: None
    Bounds       \* one is chosen: [granted, asks, readers, time, codes, events, restarts,
                 \* lost], the grants found in the file, the requests for authorization,
                 \* the clients that poll, and how often the rest may happen

ASSUME PageAssumption == EventLimit \in Nat \ {0} /\ PageLimit \in Nat \ {0}
ASSUME RepeatingAssumption == Repeating \subseteq Scopes
ASSUME CursorAssumption == NoCursor \notin Nat

VARIABLES
    bound,           \* one of Bounds
    now,
    pending,         \* pending_authorization
    authorizations,  \* the list in memory
    file,            \* the grants in local_bridge_authorizations.json
    form,            \* "list"; "cut" when a save failed halfway, or two saves mixed in the file
    saving,          \* the confirmations between their change, their clone and their save
    events,          \* the queue of events
    cursor,          \* [client] the last event it has read, as it remembers it
    poll,            \* [client] its poll
    log,             \* history: every event
    got,             \* [client] history: the events it read since it last began anew
    steady,          \* [client] history: the scopes it had in all the answers since
    revoked,         \* history: client and scope of a revocation that was reported, not granted since
    overwritten,     \* history: revocations undone in the file by an older list
    codes,           \* history: the request behind each code that was shown
    restarts, lost   \* bounded counters

saved == <<file, form>>
grants == <<pending, authorizations, saved, saving, revoked, overwritten, codes>>
reading == <<cursor, poll, got, steady>>
clientVars == <<bound, now, grants, events, log, reading, restarts, lost>>

Record == [client : Clients, scopes : SUBSET Scopes \ {{}}, until : Nat]
Event == [seq : Nat, id : Nat, scope : Scopes]

ASSUME BoundsAssumption ==
    /\ Ttl \in Nat
    /\ \A b \in Bounds : b.events \in Nat
                        /\ b.granted \subseteq Record
                        /\ b.asks \subseteq Clients \X (SUBSET Scopes \ {{}})

NoPoll == [stage |-> "idle"]

ClientsInit ==
    /\ bound \in Bounds
    /\ now = 0
    /\ pending = NoPending
    /\ authorizations = bound.granted /\ file = bound.granted
    /\ form = "list" /\ saving = {}
    /\ events = <<>> /\ log = <<>>
    /\ cursor = [c \in Clients |-> NoCursor]
    /\ poll = [c \in Clients |-> NoPoll]
    /\ got = [c \in Clients |-> {}]
    /\ steady = [c \in Clients |-> {}]
    /\ revoked = {} /\ overwritten = {}
    /\ codes = <<>> /\ restarts = 0 /\ lost = 0

-----------------------------------------------------------------------------
(* Grants.                                                                  *)

\* local_bridge_authorization_is_active
Active(list) == {r \in list : r.until >= now}

\* local_bridge_client_has_scope, for each scope
HeldScopes(list, c) == UNION {r.scopes : r \in {x \in Active(list) : x.client = c}}

\* local_bridge_authorization_code: drawn at random, here always one that was not shown before.
NewCode == Len(codes) + 1

\* authorization.request: the request replaces the one that waits, and gets a new code.
RequestAuthorization(c, scopes) ==
    /\ Len(codes) < bound.codes
    /\ codes' = Append(codes, [client |-> c, scopes |-> scopes])
    /\ pending' = [client |-> c, scopes |-> scopes, code |-> NewCode, until |-> now + Ttl]
    /\ UNCHANGED <<bound, now, authorizations, saved, saving, revoked, overwritten, events, log, reading,
                   restarts, lost>>

\* confirm_pending_local_bridge_authorization
MayConfirm(code) ==
    /\ pending # NoPending
    /\ now <= pending.until
    /\ code = pending.code

\* The user types a code that some client has shown; other confirmations may not be saved yet.
Confirm(code) ==
    /\ MayConfirm(code)
    /\ LET grant == [client |-> pending.client, scopes |-> pending.scopes, until |-> pending.until]
       IN /\ authorizations' = authorizations \cup {grant}
          /\ revoked' = revoked \ ({grant.client} \X grant.scopes)
          /\ overwritten' = overwritten \ ({grant.client} \X grant.scopes)
    /\ pending' = NoPending
    /\ saving' = saving \cup {[code |-> code, stage |-> "granted"]}
    /\ UNCHANGED <<bound, now, saved, codes, events, log, reading, restarts, lost>>

\* confirm_local_bridge_runtime_authorization_and_persist clones the list under its lock ...
ConfirmClones(x) ==
    /\ x \in saving /\ x.stage = "granted"
    /\ saving' = (saving \ {x}) \cup {[code |-> x.code, stage |-> "cloned", list |-> authorizations]}
    /\ UNCHANGED <<bound, now, pending, authorizations, saved, revoked, overwritten, codes, events, log,
                   reading, restarts, lost>>

\* save_local_bridge_authorizations_at writes what is active (fs::write truncates first) ...
Save(list) == file' = Active(list) /\ form' = "list"

\* ... or fails, before the file is opened or after it was truncated.
SaveFails ==
    \/ UNCHANGED saved
    \/ file' = {} /\ form' = "cut"

\* ... and saves the clone without it, or fails to: the grant stays.  Nothing keeps another save
\* away meanwhile; what the two leave together may be no list either.
ConfirmSaves(x) ==
    /\ x \in saving /\ x.stage = "cloned"
    /\ saving' = saving \ {x}
    /\ \/ /\ Save(x.list)
          /\ overwritten' = overwritten \cup
                {y \in revoked : y[2] \in HeldScopes(x.list, y[1])}
       \/ SaveFails /\ UNCHANGED overwritten
    /\ UNCHANGED <<bound, now, pending, authorizations, revoked, codes, events, log, reading, restarts, lost>>

\* Mutant: only the first record of the client that has the scope is changed.
Without_One(list, c, s) ==
    LET hit == {r \in list : r.client = c /\ s \in r.scopes}
        r1 == CHOOSE r \in hit : TRUE
    IN IF hit = {} THEN list
       ELSE (list \ {r1}) \cup {r \in {[r1 EXCEPT !.scopes = @ \ {s}]} : r.scopes # {}}

\* A list without one scope of a client, and without the records that have none left.
Without(list, c, s) ==
    {r \in {IF x.client = c THEN [x EXCEPT !.scopes = @ \ {s}] ELSE x : x \in list} : r.scopes # {}}

\* revoke_local_bridge_authorization_at: the list is changed, then saved under its lock.  A
\* save that fails is reported, the list stays changed.  (A revocation that finds nothing
\* saves the list as it is.)
Revoke(c, s) ==
    /\ \E r \in authorizations : r.client = c /\ s \in r.scopes
    /\ authorizations' = Without(authorizations, c, s)
    /\ \/ /\ Save(authorizations')
          /\ revoked' = revoked \cup {<<c, s>>}
          /\ overwritten' = overwritten \ {<<c, s>>}
       \/ SaveFails /\ UNCHANGED <<revoked, overwritten>>
    /\ UNCHANGED <<bound, now, pending, saving, codes, events, log, reading, restarts, lost>>

\* prune_local_bridge_authorizations_at, also when the list is shown
Prune ==
    /\ authorizations' = Active(authorizations)
    /\ Save(authorizations) \/ SaveFails
    /\ UNCHANGED <<bound, now, pending, saving, revoked, overwritten, codes, events, log, reading,
                   restarts, lost>>

Tick ==
    /\ now < bound.time
    /\ now' = now + 1
    /\ UNCHANGED <<bound, grants, events, log, reading, restarts, lost>>

\* The desktop stops and starts again: only the file is left, and what the clients remember.  It
\* does not start with a file that is no list.
Restart ==
    /\ form = "list"
    /\ restarts < bound.restarts
    /\ restarts' = restarts + 1
    /\ authorizations' = Active(file)
    /\ pending' = NoPending
    /\ saving' = {}
    /\ events' = <<>>
    /\ poll' = [c \in Clients |-> NoPoll]
    /\ UNCHANGED <<bound, now, saved, revoked, overwritten, codes, log, cursor, got, steady, lost>>

-----------------------------------------------------------------------------
(* Events.                                                                  *)

\* push_local_bridge_runtime_event: the queue keeps the last EventLimit events.  The id of a
\* transfer event is made unique by next_event_seq; that of a bundle event is the transfer and
\* the bundle, and comes again when the transfer is received again.
Push(s) ==
    /\ Len(log) < bound.events
    /\ \E id \in {Len(log) + 1} \cup {e.id : e \in {x \in ToSet(log) : x.scope = s /\ s \in Repeating}} :
          LET e == [seq |-> Len(log) + 1, id |-> id, scope |-> s]
          IN /\ log' = Append(log, e)
             /\ events' = LastOf(Append(events, e), EventLimit)
    /\ UNCHANGED <<bound, now, grants, reading, restarts, lost>>

\* Mutant: a cursor that is not found stands before the first event.
Page_MissingIsBefore(ring, held, after) ==
    LET seen == {i \in DOMAIN ring : ring[i].scope \in held}
        at == {i \in seen : ring[i].id = after}
        rest == IF at = {} THEN seen ELSE {i \in seen : i > Min(at)}
    IN [state |-> IF ring = <<>> THEN "empty" ELSE "ok",
        events |-> {ring[i] : i \in {k \in rest : Rank(rest, k) <= PageLimit}}]

\* local_bridge_events_after: of the events a client may read those after the first one with
\* the id of its cursor, and of those the first ones.  They are given in their order, which
\* their numbers tell.
Page(ring, held, after) ==
    LET seen == {i \in DOMAIN ring : ring[i].scope \in held}
        at == {i \in seen : ring[i].id = after}
        found == after = NoCursor \/ at # {}
        rest == IF at # {} THEN {i \in seen : i > Min(at)} ELSE IF found THEN seen ELSE {}
    IN [state |-> IF ring = <<>> THEN "empty" ELSE IF found THEN "ok" ELSE "missing",
        events |-> {ring[i] : i \in {k \in rest : Rank(rest, k) <= PageLimit}}]

\* A client asks for the events after its cursor.  The grants are copied, then the queue.
PollStarts(c) ==
    /\ c \in bound.readers
    /\ poll[c] = NoPoll
    /\ HeldScopes(authorizations, c) # {}
    /\ poll' = [poll EXCEPT ![c] = [stage |-> "started", held |-> HeldScopes(authorizations, c)]]
    /\ UNCHANGED <<bound, now, grants, events, log, cursor, got, steady, restarts, lost>>

Newest(page) == CHOOSE e \in page : \A x \in page : x.seq <= e.seq

\* What a client does with an answer: it keeps the id of the last event of the page, or starts
\* again without a cursor when its cursor is missing.  An empty page leaves the cursor alone.
Receive(c, page) ==
    LET held == poll[c].held
    IN /\ poll' = [poll EXCEPT ![c] = NoPoll]
       /\ IF page.state = "missing"
          THEN /\ cursor' = [cursor EXCEPT ![c] = NoCursor]
               /\ got' = [got EXCEPT ![c] = {}]
               /\ steady' = [steady EXCEPT ![c] = {}]
          ELSE /\ cursor' = [cursor EXCEPT ![c] =
                                IF page.events = {} THEN @ ELSE Newest(page.events).id]
               /\ got' = [got EXCEPT ![c] = @ \cup {e.seq : e \in page.events}]
               /\ steady' = [steady EXCEPT ![c] = IF cursor[c] = NoCursor THEN held ELSE @ \cap held]

\* An empty page is answered, or waited upon when the poll has a timeout.
PollPages(c) ==
    /\ poll[c].stage = "started"
    /\ LET page == Page(events, poll[c].held, cursor[c])
       IN \/ Receive(c, page)
          \/ /\ poll' = [poll EXCEPT ![c] = [@ EXCEPT !.stage = "between"]]
             /\ page.events = {}
             /\ UNCHANGED <<cursor, got, steady>>
    /\ UNCHANGED <<bound, now, grants, events, log, restarts, lost>>

LastId(ring) == IF ring = <<>> THEN NoCursor ELSE Last(ring).id

\* wait_for_local_bridge_events: what is new is measured from here.
PollWaits(c) ==
    /\ poll[c].stage = "between"
    /\ poll' = [poll EXCEPT ![c] = [stage |-> "waiting", held |-> @.held, last |-> LastId(events)]]
    /\ UNCHANGED <<bound, now, grants, events, log, cursor, got, steady, restarts, lost>>

\* Mutant: the wait ends only with a new event.
PollWakes_OnlyByNews(c) ==
    /\ poll[c].stage = "waiting"
    /\ LastId(events) # poll[c].last
    /\ Receive(c, Page(events, poll[c].held, cursor[c]))
    /\ UNCHANGED <<bound, now, grants, events, log, restarts, lost>>

\* The last event is another one, or the wait has timed out: the queue of now is read with the
\* grants of the start.
PollWakes(c) ==
    /\ poll[c].stage = "waiting"
    /\ Receive(c, Page(events, poll[c].held, cursor[c]))
    /\ UNCHANGED <<bound, now, grants, events, log, restarts, lost>>

\* The client goes away in the middle of a poll, or its answer is lost: it will ask again with
\* the cursor it has.
PollLost(c) ==
    /\ poll[c] # NoPoll
    /\ lost < bound.lost
    /\ lost' = lost + 1
    /\ poll' = [poll EXCEPT ![c] = NoPoll]
    /\ UNCHANGED <<bound, now, grants, events, log, cursor, got, steady, restarts>>

-----------------------------------------------------------------------------
PollEnds(c) == PollPages(c) \/ PollWaits(c) \/ PollWakes(c)

ClientsNext ==
    \/ \E ask \in bound.asks : RequestAuthorization(ask[1], ask[2])
    \/ \E code \in DOMAIN codes : Confirm(code)
    \/ \E x \in saving : ConfirmClones(x) \/ ConfirmSaves(x)
    \/ \E c \in Clients, s \in Scopes : Revoke(c, s)
    \/ Prune \/ Tick \/ Restart
    \/ \E s \in Scopes : Push(s)
    \/ \E c \in Clients : PollStarts(c) \/ PollEnds(c) \/ PollLost(c)

\* The threads of the polls run, and a client polls on.
Fairness == \A c \in Clients : WF_clientVars(PollStarts(c)) /\ WF_clientVars(PollEnds(c))

ClientsSpec == ClientsInit /\ [][ClientsNext]_clientVars /\ Fairness

-----------------------------------------------------------------------------
(* Properties.                                                              *)

\* The lists of grants and the request that waits are well formed.
GrantsTypeOK ==
    /\ bound \in Bounds /\ now \in Nat
    /\ authorizations \subseteq Record /\ file \subseteq Record
    /\ form \in {"list", "cut"}
    /\ saving \subseteq [code : Nat, stage : {"granted"}]
                         \cup [code : Nat, stage : {"cloned"}, list : SUBSET Record]
    /\ revoked \subseteq Clients \X Scopes /\ overwritten \subseteq Clients \X Scopes
    /\ codes \in Seq([client : Clients, scopes : SUBSET Scopes \ {{}}])
    /\ pending # NoPending =>
          pending \in [client : Clients, scopes : SUBSET Scopes \ {{}}, code : Nat, until : Nat]

\* The queue keeps its limit, and a cursor is the id of an event.
ReadingTypeOK ==
    /\ events \in Seq(Event) /\ Len(events) <= EventLimit
    /\ cursor \in [Clients -> 1..bound.events \cup {NoCursor}]
    /\ got \in [Clients -> SUBSET (1..bound.events)]

ClientsTypeOK == GrantsTypeOK /\ ReadingTypeOK

\* A scope whose revocation was reported is not held again, neither now nor after a restart, until
\* the user grants it again; except where the save of a confirmation, made of a list cloned before
\* the revocation, came after it (authorizations.rs 98-106 and 156-192).
RevokedStaysRevoked ==
    \A x \in revoked \ overwritten :
        x[2] \notin HeldScopes(authorizations, x[1]) \cup HeldScopes(file, x[1])

\* The code that the user types grants what was asked by the client that showed it, whichever
\* request is waiting by then (authorizations.rs 77-95, 427-450).
GrantFollowsCode ==
    [][\A code \in DOMAIN codes : Confirm(code) =>
          \A r \in authorizations' \ authorizations :
              r.client = codes[code].client /\ r.scopes = codes[code].scopes]_clientVars

Unrepeated(list) == \A i, j \in DOMAIN list : list[i].id = list[j].id => i = j

\* Between the first and the last event that a client has read since it began anew there is none
\* that it had the scope for and did not read, whatever the queue dropped, answers were lost or
\* grants came and went; as long as no event id has come twice (local_bridge_events.rs 7-80).
NothingSkipped ==
    Unrepeated(log) => \A c \in Clients : \A e \in ToSet(log) :
        (/\ e.scope \in steady[c]
         /\ \E a, b \in got[c] : a < e.seq /\ e.seq < b)
        => e.seq \in got[c]

Readable(c, n) ==
    /\ c \in bound.readers
    /\ \E e \in ToSet(events) : e.seq = n /\ e.scope \in HeldScopes(authorizations, c)
    /\ Unrepeated(log)

\* An event in the queue reaches every client that polls and may read it, also the one that was
\* about to wait when it was pushed; unless it is dropped first, the grant ends, the desktop stops
\* or an event id comes twice (events.rs 97-150).
NewsIsDelivered ==
    \A c \in UNION {b.readers : b \in Bounds}, n \in 1..Max({b.events : b \in Bounds}) :
        Readable(c, n) ~> (n \in got[c] \/ ~Readable(c, n))
=============================================================================
