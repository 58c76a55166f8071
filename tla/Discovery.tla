------------------------------ MODULE Discovery ------------------------------
(***************************************************************************)
(* The two discovery threads of a desktop.  The browser keeps the devices  *)
(* nearby in three tables under three locks: the list, when each device    *)
(* was last seen, and which service name stands for which device.  The     *)
(* advertiser keeps this desktop's own service registered while a receive  *)
(* session is open.                                                        *)
(*                                                                         *)
(* The mDNS daemon is a library: it keeps what is registered and delivers  *)
(* events in order; an event may never come.                               *)
(***************************************************************************)
EXTENDS Naturals, Sequences, SequencesExt, FiniteSets, Subsequences

CONSTANTS
    Infos,      \* resolved services: [name, id, host]
    Ports,      \* ports a receive session may have
    NoPort,     \* no session, nothing registered
    MaxChanges, \* bound on what the network, the user and the sessions do
    MaxEvents   \* bound on undelivered events

ASSUME InfosAssumption == \A i \in Infos : DOMAIN i = {"name", "id", "host"}
ASSUME PortsAssumption == NoPort \notin Ports
ASSUME MaxAssumption == MaxChanges \in Nat /\ MaxEvents \in Nat

Ids   == {i.id : i \in Infos}
Names == {i.name : i \in Infos}
Addresses == {i.host : i \in Infos}

VARIABLES
    announced,  \* services that other devices have on the network
    events,     \* browse events not yet received
    work,       \* the event or purge the browser is busy with, and the table it comes to
    nearby,     \* nearby_devices, in order
    seenAt,     \* nearby_devices_seen_at: devices that were seen, and whether long ago
    fullnames,  \* nearby_device_fullnames: service name to device id
    session,    \* port of the receive session
    lan,        \* a LAN address is found
    lastPort,   \* the advertiser's last_port
    registered, \* what the daemon advertises for this desktop
    forgone,    \* history variable: last_port, when its registration has gone all the same
    status,     \* discovery_status: whether the window says it is advertised, and its port
    changes

browser == <<work, nearby, seenAt, fullnames>>
advertiser == <<lastPort, registered, forgone, status>>
world == <<announced, session, lan, changes>>
discoveryVars == <<announced, events, browser, advertiser, session, lan, changes>>

Idle == [op |-> "idle"]
Device == [id : Ids, host : Addresses, trusted : BOOLEAN]
NearbyIds == {nearby[k].id : k \in DOMAIN nearby}

DiscoveryInit ==
    /\ announced = {}
    /\ events = <<>>
    /\ work = Idle
    /\ nearby = <<>>
    /\ seenAt = <<>>
    /\ fullnames = <<>>
    /\ session = NoPort
    /\ lan = TRUE
    /\ lastPort = NoPort
    /\ registered = NoPort /\ forgone = {}
    /\ status = [advertised |-> FALSE, port |-> NoPort]
    /\ changes = 0

-----------------------------------------------------------------------------
(* Other devices, the user and this desktop's receive session.             *)

Change == changes < MaxChanges /\ changes' = changes + 1

\* A service appears, or announces itself again, perhaps from another address.
Announce(i) ==
    /\ Change
    /\ Len(events) < MaxEvents
    /\ announced' = {j \in announced : j.name # i.name} \cup {i}
    /\ events' = Append(events, [kind |-> "resolved", info |-> i])
    /\ UNCHANGED <<browser, advertiser, session, lan>>

\* A service goes away; its goodbye may be lost.
Depart(i) ==
    /\ Change
    /\ i \in announced
    /\ announced' = announced \ {i}
    /\ \/ UNCHANGED events
       \/ /\ Len(events) < MaxEvents
          /\ events' = Append(events, [kind |-> "removed", info |-> i])
    /\ UNCHANGED <<browser, advertiser, session, lan>>

\* Receiving is started, stopped or started again on another port.
SetSession(port) ==
    /\ Change
    /\ session # port
    /\ session' = port
    /\ UNCHANGED <<announced, events, browser, advertiser, lan>>

SetLan ==
    /\ Change
    /\ lan' = ~lan
    /\ UNCHANGED <<announced, events, browser, advertiser, session>>

\* A device is trusted or forgotten: the first entry with its id is marked.
MarkTrust(id, b) ==
    /\ Change
    /\ id \in NearbyIds
    /\ \E k \in DOMAIN nearby :
          /\ nearby[k].id = id
          /\ \A j \in 1..(k - 1) : nearby[j].id # id
          /\ nearby' = [nearby EXCEPT ![k].trusted = b]
    /\ UNCHANGED <<announced, events, work, seenAt, fullnames, advertiser, session, lan>>

\* Ten minutes pass without a sign of a device.
GrowStale(id) ==
    /\ id \in DOMAIN seenAt /\ ~seenAt[id]
    /\ seenAt' = [seenAt EXCEPT ![id] = TRUE]
    /\ UNCHANGED <<events, work, nearby, fullnames, advertiser, world>>

-----------------------------------------------------------------------------
(* The browser: one table at a time, each under its own lock.              *)

Without(f, gone) == [x \in DOMAIN f \ gone |-> f[x]]
With(f, k, v) == [x \in DOMAIN f \cup {k} |-> IF x = k THEN v ELSE f[x]]
NamesOf(ids) == {n \in DOMAIN fullnames : fullnames[n] \in ids}

Receive ==
    /\ work = Idle /\ events # <<>>
    /\ events' = Tail(events)
    /\ work' = IF Head(events).kind = "resolved"
               THEN [op |-> "add", at |-> "nearby", info |-> Head(events).info]
               ELSE [op |-> "remove", at |-> "fullnames", info |-> Head(events).info]
    /\ UNCHANGED <<nearby, seenAt, fullnames, advertiser, world>>

\* add_or_update_device: the first entry with this id or this host is replaced.
AddNearby ==
    /\ work.op = "add" /\ work.at = "nearby"
    /\ LET i == work.info
           device == [id |-> i.id, host |-> i.host, trusted |-> FALSE]
           same == {k \in DOMAIN nearby : nearby[k].id = i.id \/ nearby[k].host = i.host}
       IN  \/ same = {} /\ nearby' = Append(nearby, device)
           \/ \E k \in same : /\ \A j \in same : k <= j
                              /\ nearby' = [nearby EXCEPT ![k] = device]
    /\ work' = [work EXCEPT !.at = "seen"]
    /\ UNCHANGED <<events, seenAt, fullnames, advertiser, world>>

\* Mutant: only a device that was seen before is noted.
AddSeen_OnlyKnown ==
    /\ work.op = "add" /\ work.at = "seen"
    /\ seenAt' = IF work.info.id \in DOMAIN seenAt
                 THEN With(seenAt, work.info.id, FALSE) ELSE seenAt
    /\ work' = [work EXCEPT !.at = "fullnames"]
    /\ UNCHANGED <<events, nearby, fullnames, advertiser, world>>

AddSeen ==
    /\ work.op = "add" /\ work.at = "seen"
    /\ seenAt' = With(seenAt, work.info.id, FALSE)
    /\ work' = [work EXCEPT !.at = "fullnames"]
    /\ UNCHANGED <<events, nearby, fullnames, advertiser, world>>

\* Older names of the device go.
AddFullname ==
    /\ work.op = "add" /\ work.at = "fullnames"
    /\ LET i == work.info
       IN  fullnames' = With(Without(fullnames, NamesOf({i.id}) \ {i.name}), i.name, i.id)
    /\ work' = Idle
    /\ UNCHANGED <<events, nearby, seenAt, advertiser, world>>

\* remove_device_by_fullname: a name nobody knows removes nothing.
RemoveFullname ==
    /\ work.op = "remove" /\ work.at = "fullnames"
    /\ LET n == work.info.name
       IN  IF n \in DOMAIN fullnames
           THEN /\ fullnames' = Without(fullnames, NamesOf({fullnames[n]}))
                /\ work' = [op |-> "drop", at |-> "nearby", ids |-> {fullnames[n]}]
           ELSE /\ work' = Idle
                /\ UNCHANGED fullnames
    /\ UNCHANGED <<events, nearby, seenAt, advertiser, world>>

\* purge_stale_devices, when no event is left.
StartPurge ==
    /\ work = Idle /\ events = <<>>
    /\ \E id \in DOMAIN seenAt : seenAt[id]
    /\ work' = [op |-> "purge", at |-> "nearby", ids |-> {id \in DOMAIN seenAt : seenAt[id]}]
    /\ UNCHANGED <<events, nearby, seenAt, fullnames, advertiser, world>>

\* Mutant: one entry is removed, as the commands that find a device do.
DropNearby_First ==
    /\ work.op \in {"drop", "purge"} /\ work.at = "nearby"
    /\ LET k == SelectInSeq(nearby, LAMBDA d : d.id \in work.ids)
       IN  nearby' = IF k = 0 THEN nearby ELSE RemoveAt(nearby, k)
    /\ work' = [work EXCEPT !.at = "seen"]
    /\ UNCHANGED <<events, seenAt, fullnames, advertiser, world>>

DropNearby ==
    /\ work.op \in {"drop", "purge"} /\ work.at = "nearby"
    /\ nearby' = Keep(nearby, {k \in DOMAIN nearby : nearby[k].id \notin work.ids})
    /\ work' = [work EXCEPT !.at = "seen"]
    /\ UNCHANGED <<events, seenAt, fullnames, advertiser, world>>

DropSeen ==
    /\ work.op \in {"drop", "purge"} /\ work.at = "seen"
    /\ seenAt' = Without(seenAt, work.ids)
    /\ work' = IF work.op = "purge" THEN [work EXCEPT !.at = "fullnames"] ELSE Idle
    /\ UNCHANGED <<events, nearby, fullnames, advertiser, world>>

PurgeFullnames ==
    /\ work.op = "purge" /\ work.at = "fullnames"
    /\ fullnames' = Without(fullnames, NamesOf(work.ids))
    /\ work' = Idle
    /\ UNCHANGED <<events, nearby, seenAt, advertiser, world>>

Browse == \/ Receive \/ AddNearby \/ AddSeen \/ AddFullname \/ RemoveFullname
          \/ StartPurge \/ DropNearby \/ DropSeen \/ PurgeFullnames

-----------------------------------------------------------------------------
(* The advertiser: every two seconds it looks at the receive session.      *)

Silent == [advertised |-> FALSE, port |-> NoPort]

\* No session: what is registered goes.
Withdraw ==
    /\ session = NoPort /\ lastPort # NoPort
    /\ lastPort' = NoPort
    /\ registered' = NoPort /\ forgone' = {}
    /\ status' = Silent
    /\ UNCHANGED <<events, browser, world>>

\* A new port, but no address to advertise.
NoAddress ==
    /\ session \notin {NoPort, lastPort} /\ ~lan
    /\ registered' = NoPort /\ forgone' = {}
    /\ lastPort' = NoPort
    /\ status' = Silent
    /\ UNCHANGED <<events, browser, world>>

\* A new port: the old registration goes and the new one is made, or fails.
Register ==
    /\ session \notin {NoPort, lastPort} /\ lan
    /\ lastPort' = session
    /\ registered' = session /\ forgone' = {}
    /\ status' = [advertised |-> TRUE, port |-> session]
    /\ UNCHANGED <<events, browser, world>>

\* Mutant: the port is remembered although it is not registered.
RegisterFails_Remembers ==
    /\ session \notin {NoPort, lastPort} /\ lan
    /\ lastPort' = session
    /\ registered' = NoPort /\ forgone' = {}
    /\ status' = Silent
    /\ UNCHANGED <<events, browser, world>>

RegisterFails ==
    /\ session \notin {NoPort, lastPort} /\ lan
    /\ lastPort' = NoPort
    /\ registered' = NoPort /\ forgone' = {}
    /\ status' = Silent
    /\ UNCHANGED <<events, browser, world>>

\* ServiceInfo::new refuses the description: the old registration has gone by then, but the port
\* and the status stay as they were.  (The public key, which is asked for before, is there: the
\* seed it comes from was validated when the identity was loaded and never changes.)
DescriptionRefused ==
    /\ session \notin {NoPort, lastPort} /\ lan
    /\ registered' = NoPort /\ forgone' = {lastPort} \ {NoPort}
    /\ UNCHANGED <<events, browser, world, lastPort, status>>

DiscoveryNext ==
    \/ \E i \in Infos : Announce(i) \/ Depart(i)
    \/ \E port \in Ports \cup {NoPort} : SetSession(port)
    \/ SetLan
    \/ \E id \in Ids, b \in BOOLEAN : MarkTrust(id, b)
    \/ \E id \in Ids : GrowStale(id)
    \/ Receive \/ AddNearby \/ AddSeen \/ AddFullname \/ RemoveFullname
    \/ StartPurge \/ DropNearby \/ DropSeen \/ PurgeFullnames
    \/ Withdraw \/ NoAddress \/ Register \/ RegisterFails \/ DescriptionRefused

\* Both threads loop for ever, time passes, and a registration that is tried
\* again and again succeeds in the end.
DiscoveryFairness ==
    /\ WF_discoveryVars(Browse)
    /\ WF_discoveryVars(Withdraw) /\ WF_discoveryVars(NoAddress) /\ SF_discoveryVars(Register)
    /\ \A id \in Ids : WF_discoveryVars(GrowStale(id))

DiscoverySpec == DiscoveryInit /\ [][DiscoveryNext]_discoveryVars /\ DiscoveryFairness

-----------------------------------------------------------------------------
\* Every variable has its type.
DiscoveryTypeOK ==
    /\ announced \subseteq Infos
    /\ events \in Seq([kind : {"resolved", "removed"}, info : Infos])
    /\ work.op \in {"idle", "add", "remove", "drop", "purge"}
    /\ nearby \in Seq(Device)
    /\ DOMAIN seenAt \subseteq Ids /\ \A id \in DOMAIN seenAt : seenAt[id] \in BOOLEAN
    /\ DOMAIN fullnames \subseteq Names /\ \A n \in DOMAIN fullnames : fullnames[n] \in Ids
    /\ {session, lastPort, registered, status.port} \subseteq Ports \cup {NoPort}
    /\ forgone \subseteq Ports /\ lan \in BOOLEAN /\ status.advertised \in BOOLEAN
    /\ changes \in 0 .. MaxChanges

\* Between two events the three tables agree: every device in the list was
\* seen, so that it expires when it is seen no more, and a name that can
\* still be withdrawn belongs to a device whose last sight is known.
TablesAgree ==
    work = Idle =>
        /\ NearbyIds \subseteq DOMAIN seenAt
        /\ {fullnames[n] : n \in DOMAIN fullnames} \subseteq DOMAIN seenAt

\* Once the network is quiet, the list ends with none but devices that are
\* there, even when their goodbyes were lost.
DepartedLeave == <>[](NearbyIds \subseteq {i.id : i \in announced})

\* A receive session that stays open on a port is advertised on that port in the end, and when
\* none is open any more the desktop is not advertised.  Except when the session comes back to the
\* port that the advertiser remembers after the description was refused for another one: the
\* port looks registered then, and is not.
AdvertisedFollowsSession ==
    \A port \in Ports \cup {NoPort} :
        <>[](session = port /\ (lan \/ port = NoPort)) =>
            <>[](registered = port \/ port \in forgone)
=============================================================================
