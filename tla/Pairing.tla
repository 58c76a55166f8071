------------------------------- MODULE Pairing -------------------------------
(***************************************************************************)
(* The trusted devices of one desktop: the list in memory, the file it is  *)
(* saved to, the commands that change it, the pairing requests that peers  *)
(* send, the one prompt that shows a request to the user, and the          *)
(* discovery thread that refreshes the address of a trusted device.        *)
(*                                                                         *)
(* Commands change the list under its lock: they clone it, change the      *)
(* clone, save it and only then put it in place.  The discovery thread     *)
(* changes the list in place, clones it, lets the lock go and then saves.  *)
(* A save truncates the file and then writes it.                           *)
(***************************************************************************)
EXTENDS Naturals, FiniteSets

CONSTANTS
    Peers,      \* other devices
    Hosts,      \* addresses a peer may have
    Conns,      \* incoming connections that carry a pairing request
    From,       \* the peer that sends the request of a connection
    NoPeer,     \* a peer that is not in the list
    NoConn,     \* no request in the prompt
    Free,       \* nobody holds the list's lock, or no refresh is under way
    Torn        \* a file that is empty or not a list: it cannot be loaded

ASSUME FromAssumption == From \in [Conns -> Peers]

VARIABLES
    up,         \* "up", "down" after a crash, "broken" when the file cannot be loaded
    trusted,    \* trusted_devices: the list in memory
    file,       \* trusted_devices.json
    holder,     \* the command that holds the lock and how far its save is
    refresh,    \* the refresh of the discovery thread
    slot,       \* pending_pairing_request
    phase,      \* how far each connection is
    decision,   \* what the user decided about each request
    reply,      \* what each requester was told
    shown,      \* the request the window shows: the slot when it was last polled
    responding, \* respond_pairing_request between its decision and its clearing of the slot
    acked,      \* history: what the user was last told about each peer
    dirty       \* history: the file was cut, overlapped or overwritten by an older list

lists == <<trusted, file, holder, refresh>>
requests == <<slot, phase, decision, reply, shown, responding>>
vars == <<up, lists, requests, acked, dirty>>

Record == [host : Hosts, alias : BOOLEAN]
List == [Peers -> Record \cup {NoPeer}]

\* A command's save, for itself or for a connection, and the refresh's.
Saving == [op : {"trust", "forget", "update"}, peer : Peers, conn : Conns \cup {NoConn},
           next : List, stage : {"locked", "opened", "written"}]
Refreshing == [next : List, stage : {"cloned", "opened"}]

ASSUME NamesAssumption ==
    /\ NoConn \notin Conns
    /\ NoPeer \notin Record
    /\ Torn \notin List
    /\ Free \notin Saving \cup Refreshing

\* upsert_trusted_device: a new record replaces the old one, its alias too.
Upsert(list, p, h) == [list EXCEPT ![p] = [host |-> h, alias |-> FALSE]]

\* Two lists that trust the same devices under the same aliases.
SameTrust(l, m) ==
    \A p \in Peers : /\ (l[p] = NoPeer) = (m[p] = NoPeer)
                     /\ l[p] # NoPeer => l[p].alias = m[p].alias

Opened(writer) == writer # Free /\ writer.stage = "opened"
InFile(writer) == writer # Free /\ writer.stage \in {"opened", "written"}
Quiet == holder = Free /\ refresh = Free

Init ==
    /\ up = "up"
    /\ trusted = [p \in Peers |-> NoPeer]
    /\ file = trusted
    /\ holder = Free
    /\ refresh = Free
    /\ slot = NoConn
    /\ phase = [c \in Conns |-> "idle"]
    /\ decision = [c \in Conns |-> "none"]
    /\ reply = [c \in Conns |-> "none"]
    /\ shown = NoConn
    /\ responding = NoConn
    /\ acked = [p \in Peers |-> "none"]
    /\ dirty = FALSE

-----------------------------------------------------------------------------
(* Commands on the list.  Each takes the lock and works on a clone.        *)

Lock(op, p, c, next) ==
    /\ up = "up"
    /\ holder = Free
    /\ holder' = [op |-> op, peer |-> p, conn |-> c, next |-> next, stage |-> "locked"]
    /\ UNCHANGED <<up, trusted, file, refresh, slot, decision, reply, shown,
                   responding, acked, dirty>>

\* trust_nearby_device, and request_device_pairing once the peer has accepted.
TrustNearby(p, h) ==
    /\ Lock("trust", p, NoConn, Upsert(trusted, p, h))
    /\ UNCHANGED phase

SetAlias(p, a) ==
    /\ trusted[p] # NoPeer
    /\ Lock("update", p, NoConn, [trusted EXCEPT ![p].alias = a])
    /\ UNCHANGED phase

Forget(p) ==
    /\ Lock("forget", p, NoConn, [trusted EXCEPT ![p] = NoPeer])
    /\ UNCHANGED phase

\* A transfer with a trusted peer refreshes when it was last seen.
RefreshContact(p) ==
    /\ trusted[p] # NoPeer
    /\ Lock("update", p, NoConn, trusted)
    /\ UNCHANGED phase

\* The connection whose request was accepted saves its peer.
TrustRequester(c, h) ==
    /\ phase[c] = "accepted"
    /\ Lock("trust", From[c], c, Upsert(trusted, From[c], h))
    /\ phase' = [phase EXCEPT ![c] = "saving"]

\* Mutant: the requester is told that it is accepted although nothing is saved.
GiveUp_Accepts ==
    /\ holder' = Free
    /\ IF holder.conn = NoConn
       THEN UNCHANGED <<phase, reply>>
       ELSE /\ phase' = [phase EXCEPT ![holder.conn] = "answering"]
            /\ reply' = [reply EXCEPT ![holder.conn] = "accept"]
    /\ UNCHANGED <<up, trusted, refresh, slot, decision, shown, responding, acked>>

\* The connection gets a rejection when the save fails.
GiveUp ==
    /\ holder' = Free
    /\ IF holder.conn = NoConn
       THEN UNCHANGED <<phase, reply>>
       ELSE /\ phase' = [phase EXCEPT ![holder.conn] = "answering"]
            /\ reply' = [reply EXCEPT ![holder.conn] = "reject"]
    /\ UNCHANGED <<up, trusted, refresh, slot, decision, shown, responding, acked>>

\* The file cannot be opened: nothing has changed.
SaveFails ==
    /\ up = "up" /\ holder # Free /\ holder.stage = "locked"
    /\ GiveUp
    /\ UNCHANGED <<file, dirty>>

\* fs::write opens the file, which empties it.
SaveOpens ==
    /\ up = "up" /\ holder # Free /\ holder.stage = "locked"
    /\ holder' = [holder EXCEPT !.stage = "opened"]
    /\ file' = Torn
    /\ UNCHANGED <<up, trusted, refresh, requests, acked, dirty>>

\* Two writers that both opened the file write from its start: the longer of
\* the two texts keeps its end.
Written(next) == IF file = Torn THEN {next} ELSE {next, Torn}

\* Mutant: the list in memory is saved, not the changed clone.
SaveWrites_Old ==
    /\ up = "up" /\ holder # Free /\ holder.stage = "opened"
    /\ holder' = [holder EXCEPT !.stage = "written"]
    /\ file' \in Written(trusted)
    /\ dirty' = (Opened(refresh) \/ file # Torn)
    /\ UNCHANGED <<up, trusted, refresh, requests, acked>>

SaveWrites ==
    /\ up = "up" /\ holder # Free /\ holder.stage = "opened"
    /\ holder' = [holder EXCEPT !.stage = "written"]
    /\ file' \in Written(holder.next)
    /\ dirty' = (Opened(refresh) \/ file # Torn)
    /\ UNCHANGED <<up, trusted, refresh, requests, acked>>

\* The disk is full: the file stays cut and the list in memory as it was.
SaveIsCut ==
    /\ up = "up" /\ holder # Free /\ holder.stage = "opened"
    /\ file' = Torn
    /\ dirty' = TRUE
    /\ GiveUp

\* The saved list is put in place and the lock is let go.
Commit ==
    /\ up = "up" /\ holder # Free /\ holder.stage = "written"
    /\ trusted' = holder.next
    /\ holder' = Free
    /\ acked' = CASE holder.op = "trust" -> [acked EXCEPT ![holder.peer] = "trusted"]
                  [] holder.op = "forget" -> [acked EXCEPT ![holder.peer] = "forgotten"]
                  [] OTHER -> acked
    /\ IF holder.conn = NoConn
       THEN UNCHANGED <<phase, reply>>
       ELSE /\ phase' = [phase EXCEPT ![holder.conn] = "answering"]
            /\ reply' = [reply EXCEPT ![holder.conn] = "accept"]
    /\ UNCHANGED <<up, file, refresh, slot, decision, shown, responding, dirty>>

-----------------------------------------------------------------------------
(* The discovery thread refreshes the address of a trusted device.         *)

RefreshEndpoint(p, h) ==
    /\ up = "up" /\ Quiet
    /\ trusted[p] # NoPeer
    /\ trusted' = [trusted EXCEPT ![p].host = h]
    /\ refresh' = [next |-> trusted', stage |-> "cloned"]
    /\ UNCHANGED <<up, file, holder, requests, acked, dirty>>

\* The save runs without the lock, and its error is dropped.
RefreshOpens ==
    /\ up = "up" /\ refresh # Free /\ refresh.stage = "cloned"
    /\ refresh' = [refresh EXCEPT !.stage = "opened"]
    /\ file' = Torn
    /\ UNCHANGED <<up, trusted, holder, requests, acked, dirty>>

RefreshFails ==
    /\ up = "up" /\ refresh # Free
    /\ refresh' = Free
    /\ dirty' = (dirty \/ Opened(refresh))
    /\ file' = IF Opened(refresh) THEN Torn ELSE file
    /\ UNCHANGED <<up, trusted, holder, requests, acked>>

RefreshWrites ==
    /\ up = "up" /\ refresh # Free /\ refresh.stage = "opened"
    /\ refresh' = Free
    /\ file' \in Written(refresh.next)
    /\ dirty' = (InFile(holder) \/ file # Torn \/ ~SameTrust(refresh.next, trusted))
    /\ UNCHANGED <<up, trusted, holder, requests, acked>>

-----------------------------------------------------------------------------
(* Pairing requests.  A receive loop serves one connection at a time.      *)

\* wait_for_pairing_decision: a request with the right code takes the prompt
\* over, whatever is in it.
RequestArrives(c) ==
    /\ up = "up" /\ phase[c] = "idle"
    /\ slot' = c
    /\ phase' = [phase EXCEPT ![c] = "waiting"]
    /\ UNCHANGED <<up, lists, decision, reply, shown, responding, acked, dirty>>

\* The code was computed from another identity of this desktop.
WrongCode(c) ==
    /\ up = "up" /\ phase[c] = "idle"
    /\ phase' = [phase EXCEPT ![c] = "answering"]
    /\ reply' = [reply EXCEPT ![c] = "reject"]
    /\ UNCHANGED <<up, lists, slot, decision, shown, responding, acked, dirty>>

\* Mutant: a timeout clears the prompt and goes on waiting.
RequestTimesOut_WaitsOn(c) ==
    /\ up = "up" /\ phase[c] = "waiting"
    /\ slot' = NoConn
    /\ UNCHANGED <<up, lists, phase, reply, decision, shown, responding, acked, dirty>>

\* After 300 seconds the prompt is cleared and the request rejected, even when
\* a decision has just come in.
RequestTimesOut(c) ==
    /\ up = "up" /\ phase[c] = "waiting"
    /\ slot' = NoConn
    /\ phase' = [phase EXCEPT ![c] = "answering"]
    /\ reply' = [reply EXCEPT ![c] = "reject"]
    /\ UNCHANGED <<up, lists, decision, shown, responding, acked, dirty>>

\* The waiting connection wakes up and finds the decision.
SeeDecision(c) ==
    /\ up = "up" /\ phase[c] = "waiting" /\ decision[c] # "none"
    /\ IF decision[c] = "accept"
       THEN /\ phase' = [phase EXCEPT ![c] = "accepted"]
            /\ UNCHANGED reply
       ELSE /\ phase' = [phase EXCEPT ![c] = "answering"]
            /\ reply' = [reply EXCEPT ![c] = "reject"]
    /\ UNCHANGED <<up, lists, slot, decision, shown, responding, acked, dirty>>

\* The decision is written, or the connection is lost; then the receive loop
\* clears the prompt, whosever it is.
EndConnection(c) ==
    /\ up = "up" /\ phase[c] = "answering"
    /\ phase' = [phase EXCEPT ![c] = "done"]
    /\ decision' = [decision EXCEPT ![c] = "none"]
    /\ reply' = [reply EXCEPT ![c] = "none"]
    /\ slot' = NoConn
    /\ UNCHANGED <<up, lists, shown, responding, acked, dirty>>

\* The window polls the prompt.
Poll ==
    /\ up = "up" /\ responding = NoConn /\ shown # slot
    /\ shown' = slot
    /\ UNCHANGED <<up, lists, slot, phase, decision, reply, responding, acked, dirty>>

\* respond_pairing_request: the user answers what the window shows, the command
\* decides what is in the prompt now.
Respond(answer) ==
    /\ up = "up" /\ responding = NoConn /\ shown # NoConn /\ slot # NoConn
    /\ decision' = [decision EXCEPT ![slot] = answer]
    /\ responding' = slot
    /\ UNCHANGED <<up, lists, slot, phase, reply, shown, acked, dirty>>

ClearPrompt ==
    /\ up = "up" /\ responding # NoConn
    /\ slot' = NoConn
    /\ responding' = NoConn
    /\ shown' = NoConn
    /\ UNCHANGED <<up, lists, phase, decision, reply, acked, dirty>>

-----------------------------------------------------------------------------
(* The application dies and is started again.                              *)

\* What was being told when it died is in doubt.
Crash ==
    /\ up = "up"
    /\ up' = "down"
    /\ acked' = IF holder # Free /\ holder.stage = "written"
                THEN [acked EXCEPT ![holder.peer] = "none"] ELSE acked
    /\ dirty' = (dirty \/ Opened(holder) \/ Opened(refresh))
    /\ holder' = Free
    /\ refresh' = Free
    /\ slot' = NoConn
    /\ phase' = [c \in Conns |-> IF phase[c] = "idle" THEN "idle" ELSE "done"]
    /\ shown' = NoConn
    /\ responding' = NoConn
    /\ decision' = [c \in Conns |-> "none"]
    /\ reply' = [c \in Conns |-> "none"]
    /\ UNCHANGED <<trusted, file>>

\* AppState::new loads the list, or fails.
Restart ==
    /\ up = "down"
    /\ IF file = Torn
       THEN /\ up' = "broken"
            /\ UNCHANGED trusted
       ELSE /\ up' = "up"
            /\ trusted' = file
    /\ acked' = IF dirty THEN [p \in Peers |-> "none"] ELSE acked
    /\ dirty' = FALSE
    /\ UNCHANGED <<file, holder, refresh, requests>>

Next ==
    \/ \E p \in Peers, h \in Hosts : TrustNearby(p, h) \/ RefreshEndpoint(p, h)
    \/ \E p \in Peers, a \in BOOLEAN : SetAlias(p, a)
    \/ \E p \in Peers : Forget(p) \/ RefreshContact(p)
    \/ \E c \in Conns, h \in Hosts : TrustRequester(c, h)
    \/ SaveFails \/ SaveOpens \/ SaveWrites \/ SaveIsCut \/ Commit
    \/ RefreshOpens \/ RefreshFails \/ RefreshWrites
    \/ \E c \in Conns : \/ RequestArrives(c) \/ WrongCode(c) \/ RequestTimesOut(c)
                        \/ SeeDecision(c) \/ EndConnection(c)
    \/ Poll \/ ClearPrompt
    \/ \E answer \in {"accept", "decline"} : Respond(answer)
    \/ Crash \/ Restart

\* The threads that hold the lock, wait for it, or serve a connection go on,
\* and a wait that is not answered times out.
Fairness ==
    /\ WF_vars(SaveOpens \/ SaveFails \/ SaveWrites \/ SaveIsCut \/ Commit)
    /\ \A c \in Conns :
         /\ WF_vars(RequestTimesOut(c) \/ SeeDecision(c) \/ EndConnection(c))
         /\ SF_vars(\E h \in Hosts : TrustRequester(c, h))

Spec == Init /\ [][Next]_vars /\ Fairness

-----------------------------------------------------------------------------
\* Every variable has its type.
TypeOK ==
    /\ up \in {"up", "down", "broken"}
    /\ trusted \in List
    /\ file \in List \cup {Torn}
    /\ holder \in Saving \cup {Free}
    /\ refresh \in Refreshing \cup {Free}
    /\ slot \in Conns \cup {NoConn}
    /\ phase \in [Conns -> {"idle", "waiting", "accepted", "saving", "answering", "done"}]
    /\ decision \in [Conns -> {"none", "accept", "decline"}]
    /\ reply \in [Conns -> {"none", "accept", "reject"}]
    /\ shown \in Conns \cup {NoConn}
    /\ responding \in Conns \cup {NoConn}
    /\ acked \in [Peers -> {"none", "trusted", "forgotten"}]
    /\ dirty \in BOOLEAN

\* What the user was told about a device is so, in memory and after any number
\* of restarts: a device that was paired is trusted until it is forgotten, and
\* a forgotten one stays forgotten.  It is lost only with the file: a save cut
\* or overlapped, or an older list written over a newer one by the refresh.
AckedHolds ==
    up = "up" => \A p \in Peers :
        /\ acked[p] = "trusted" => trusted[p] # NoPeer
        /\ acked[p] = "forgotten" => trusted[p] = NoPeer

\* When nobody is saving and no save was cut, overlapped or out of date, the
\* file trusts the devices that memory trusts, under the same aliases.
FileFollowsMemory ==
    up = "up" /\ Quiet /\ ~dirty => file # Torn /\ SameTrust(file, trusted)

\* A requester is told that it is accepted only when the user accepted that
\* request, and when its device is in the list at that moment.
AcceptedIsTrusted ==
    [][\A c \in Conns : reply'[c] = "accept" /\ reply[c] # "accept"
          => decision[c] = "accept" /\ trusted'[From[c]] # NoPeer]_vars

\* Every request is answered in the end, by the user or by the timeout,
\* whatever other commands do with the list, unless the application dies.
EveryRequestAnswered ==
    \A c \in Conns : phase[c] = "waiting" ~> phase[c] = "done"

=============================================================================
