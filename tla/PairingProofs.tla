---------------------------- MODULE PairingProofs ----------------------------
(***************************************************************************)
(* Proofs about the trusted devices, for any number of peers, addresses    *)
(* and requests: what the user was told holds in memory and after every    *)
(* restart, the file follows the list, and a requester is told that it is  *)
(* accepted only when it was accepted and saved (PairingInv); and about    *)
(* the devices nearby: the browser's three tables agree (TablesInv).       *)
(***************************************************************************)
EXTENDS Pairing, Discovery, SubsequencesProofs, TLAPS

\* What was told about each device is so in a list.
Tells(list) ==
  \A p \in Peers :
    /\ acked[p] = "trusted" => list[p] # NoPeer
    /\ acked[p] = "forgotten" => list[p] = NoPeer

\* The change that a command works on touches one peer, the way the command says.
ChangesOne ==
  holder # Free =>
    /\ \A p \in Peers \ {holder.peer} :
         /\ (holder.next[p] = NoPeer) = (trusted[p] = NoPeer)
         /\ trusted[p] # NoPeer => holder.next[p].alias = trusted[p].alias
    /\ holder.op = "trust" => holder.next[holder.peer] # NoPeer
    /\ holder.op = "forget" => holder.next[holder.peer] = NoPeer
    /\ holder.op = "update" => (holder.next[holder.peer] = NoPeer) = (trusted[holder.peer] = NoPeer)

\* A connection's save trusts the peer of that connection, whose request was accepted.
SavesRequester ==
  holder # Free /\ holder.conn # NoConn =>
    /\ holder.op = "trust" /\ holder.peer = From[holder.conn]
    /\ phase[holder.conn] = "saving"

\* The list that the file should hold: the one just written, or the one in memory.
Meant == IF holder # Free /\ holder.stage = "written" THEN holder.next ELSE trusted

\* Unless a save is under way, or the file is dirty, it holds that list.
FileIsMeant ==
  up = "up" /\ ~dirty /\ ~Opened(holder) /\ ~Opened(refresh) =>
    file # Torn /\ SameTrust(file, Meant)

\* While the application is down nobody saves, and what is in the file is what was told.
DownKeeps ==
  up # "up" =>
    /\ holder = Free /\ refresh = Free
    /\ up = "down" /\ ~dirty => file # Torn /\ Tells(file)

\* A request has at most one decision, which stays until the connection ends.
OneDecision ==
  /\ slot # NoConn => phase[slot] # "idle"
  /\ \A c \in Conns :
       /\ decision[c] # "none" => slot # c \/ responding = c
       /\ phase[c] = "idle" => decision[c] = "none"
       /\ phase[c] \in {"accepted", "saving"} => decision[c] = "accept"

PairingInv ==
  /\ TypeOK
  /\ ChangesOne /\ SavesRequester
  /\ AckedHolds /\ FileIsMeant /\ DownKeeps
  /\ OneDecision

-----------------------------------------------------------------------------
(* Lists.                                                                   *)

\* Upsert trusts the peer and leaves the others (upsert_trusted_device).
LEMMA UpsertTrusts ==
  ASSUME NEW list \in List, NEW p \in Peers, NEW h \in Hosts
  PROVE  /\ Upsert(list, p, h) \in List
         /\ Upsert(list, p, h)[p] # NoPeer
         /\ \A q \in Peers \ {p} : Upsert(list, p, h)[q] = list[q]
  <1>1. [host |-> h, alias |-> FALSE] \in Record
    BY DEF Record
  <1> QED BY <1>1, NamesAssumption DEF Upsert, List

\* Lists that trust the same devices tell the same.
LEMMA SameTells ==
  ASSUME NEW l, NEW m, SameTrust(l, m), Tells(l)
  PROVE  Tells(m)
  BY DEF SameTrust, Tells

LEMMA SameSymmetric ==
  ASSUME NEW l, NEW m, SameTrust(l, m)
  PROVE  SameTrust(m, l)
  BY DEF SameTrust

-----------------------------------------------------------------------------
(* The invariant.                                                           *)

LEMMA PairingInit == Init => PairingInv
  <1> SUFFICES ASSUME Init PROVE PairingInv
    OBVIOUS
  <1>1. trusted \in List /\ file = trusted
    BY DEF Init, List
  <1>2. TypeOK
    BY <1>1 DEF Init, TypeOK
  <1> QED BY <1>1, <1>2, NamesAssumption DEF Init, PairingInv, ChangesOne, SavesRequester, AckedHolds,
             FileIsMeant, Meant, SameTrust, DownKeeps, OneDecision

\* A command takes the lock with a list that changes one peer.
LEMMA LockKeeps ==
  ASSUME PairingInv, NEW op \in {"trust", "forget", "update"}, NEW p \in Peers,
         NEW c \in Conns \cup {NoConn}, NEW next \in List, Lock(op, p, c, next),
         \A q \in Peers \ {p} : next[q] = trusted[q],
         op = "trust" => next[p] # NoPeer,
         op = "forget" => next[p] = NoPeer,
         op = "update" => (next[p] = NoPeer) = (trusted[p] = NoPeer),
         \/ c = NoConn /\ phase' = phase
         \/ /\ op = "trust" /\ p = From[c] /\ phase[c] = "accepted" /\ c \in Conns
            /\ phase' = [phase EXCEPT ![c] = "saving"]
  PROVE  PairingInv'
  <1> DEFINE new == [op |-> op, peer |-> p, conn |-> c, next |-> next, stage |-> "locked"]
  <1>1. /\ up = "up" /\ holder = Free /\ holder' = new
        /\ UNCHANGED <<up, trusted, file, refresh, slot, decision, reply, shown, responding, acked,
                       dirty>>
    BY DEF Lock
  <1>2. /\ new \in Saving /\ new # Free /\ new.op = op /\ new.peer = p /\ new.conn = c
        /\ new.next = next /\ new.stage = "locked"
    BY NamesAssumption DEF Saving
  <1> HIDE DEF new
  <1>3. TypeOK'
    BY <1>1, <1>2 DEF PairingInv, TypeOK
  <1>4. ChangesOne' /\ SavesRequester'
    BY <1>1, <1>2, NamesAssumption DEF PairingInv, TypeOK, ChangesOne, SavesRequester
  <1>5. AckedHolds' /\ FileIsMeant' /\ DownKeeps'
    BY <1>1, <1>2 DEF PairingInv, AckedHolds, FileIsMeant, Meant, Opened, SameTrust, DownKeeps
  <1>6. OneDecision'
    BY <1>1 DEF PairingInv, TypeOK, OneDecision
  <1> QED BY <1>3, <1>4, <1>5, <1>6 DEF PairingInv

LEMMA CommandBegins ==
  ASSUME PairingInv, NEW p \in Peers,
         \/ \E h \in Hosts : TrustNearby(p, h)
         \/ \E a \in BOOLEAN : SetAlias(p, a)
         \/ Forget(p) \/ RefreshContact(p)
  PROVE  PairingInv'
  <1>1. trusted \in List
    BY DEF PairingInv, TypeOK
  <1>2. ASSUME NEW h \in Hosts, TrustNearby(p, h) PROVE PairingInv'
    BY <1>1, <1>2, UpsertTrusts, LockKeeps DEF TrustNearby
  <1>3. ASSUME NEW a \in BOOLEAN, SetAlias(p, a) PROVE PairingInv'
    <2> DEFINE next == [trusted EXCEPT ![p].alias = a]
    <2>1. trusted[p] \in Record
      BY <1>1, <1>3 DEF SetAlias, List
    <2>2. next = [trusted EXCEPT ![p] = [trusted[p] EXCEPT !.alias = a]]
          /\ [trusted[p] EXCEPT !.alias = a] \in Record
      BY <1>1, <2>1 DEF Record
    <2>3. next \in List /\ next[p] # NoPeer /\ \A q \in Peers \ {p} : next[q] = trusted[q]
      BY <1>1, <2>2, NamesAssumption DEF List
    <2>4. Lock("update", p, NoConn, next) /\ phase' = phase /\ trusted[p] # NoPeer
      BY <1>3 DEF SetAlias
    <2> HIDE DEF next
    <2> QED BY <2>3, <2>4, LockKeeps
  <1>4. CASE Forget(p)
    <2>1. [trusted EXCEPT ![p] = NoPeer] \in List
      BY <1>1 DEF List
    <2> QED BY <1>1, <1>4, <2>1, LockKeeps DEF Forget, List
  <1>5. CASE RefreshContact(p)
    BY <1>1, <1>5, LockKeeps DEF RefreshContact
  <1> QED BY <1>2, <1>3, <1>4, <1>5

LEMMA RequesterSaves ==
  ASSUME PairingInv, NEW c \in Conns, NEW h \in Hosts, TrustRequester(c, h)
  PROVE  PairingInv'
  <1>1. trusted \in List /\ From[c] \in Peers
    BY FromAssumption DEF PairingInv, TypeOK
  <1> DEFINE next == Upsert(trusted, From[c], h)
  <1>2. next \in List /\ next[From[c]] # NoPeer /\ \A q \in Peers \ {From[c]} : next[q] = trusted[q]
    BY <1>1, UpsertTrusts
  <1>3. /\ Lock("trust", From[c], c, next) /\ phase[c] = "accepted"
        /\ phase' = [phase EXCEPT ![c] = "saving"]
    BY DEF TrustRequester
  <1> HIDE DEF next
  <1> QED BY <1>1, <1>2, <1>3, LockKeeps

\* A save that is given up leaves the list; a connection answers "reject".
LEMMA GiveUpKeeps ==
  ASSUME PairingInv, up = "up", holder # Free, GiveUp,
         \/ file' = Torn /\ dirty' = TRUE
         \/ holder.stage = "locked" /\ UNCHANGED <<file, dirty>>
  PROVE  PairingInv'
  <1>1. /\ holder' = Free
        /\ UNCHANGED <<up, trusted, refresh, slot, decision, shown, responding, acked>>
    BY DEF GiveUp
  <1>2. holder \in Saving /\ file' \in List \cup {Torn} /\ dirty' \in BOOLEAN
    BY DEF PairingInv, TypeOK
  <1>3. TypeOK' /\ OneDecision'
    <2>1. CASE holder.conn = NoConn
      BY <1>1, <1>2, <2>1 DEF GiveUp, PairingInv, TypeOK, OneDecision
    <2>2. CASE holder.conn # NoConn
      BY <1>1, <1>2, <2>2 DEF GiveUp, PairingInv, TypeOK, OneDecision, Saving
    <2> QED BY <2>1, <2>2
  <1>4. FileIsMeant'
    BY <1>1 DEF PairingInv, FileIsMeant, Meant, Opened, SameTrust
  <1> QED BY <1>1, <1>3, <1>4 DEF PairingInv, ChangesOne, SavesRequester, AckedHolds, DownKeeps

LEMMA SaveKeeps ==
  ASSUME PairingInv, SaveFails \/ SaveOpens \/ SaveWrites \/ SaveIsCut
  PROVE  PairingInv'
  <1>1. up = "up" /\ holder # Free /\ holder \in Saving /\ file \in List \cup {Torn} /\ dirty \in BOOLEAN
    BY DEF SaveFails, SaveOpens, SaveWrites, SaveIsCut, PairingInv, TypeOK
  <1>2. CASE SaveFails
    BY <1>1, <1>2, GiveUpKeeps DEF SaveFails
  <1>3. CASE SaveIsCut
    <2>1. GiveUp /\ file' = Torn /\ dirty' = TRUE
      BY <1>3 DEF SaveIsCut
    <2> QED BY <1>1, <2>1, GiveUpKeeps
  <1>4. CASE SaveOpens
    <2> DEFINE new == [holder EXCEPT !.stage = "opened"]
    <2>1. /\ new \in Saving /\ new.op = holder.op /\ new.peer = holder.peer /\ new.conn = holder.conn
          /\ new.next = holder.next /\ new.stage = "opened" /\ new # Free
      BY <1>1, NamesAssumption DEF Saving
    <2>2. /\ holder' = new /\ file' = Torn
          /\ UNCHANGED <<up, trusted, refresh, requests, acked, dirty>>
      BY <1>4 DEF SaveOpens
    <2> HIDE DEF new
    <2>3. TypeOK'
      BY <2>1, <2>2 DEF PairingInv, TypeOK, requests
    <2>4. ChangesOne' /\ SavesRequester' /\ OneDecision' /\ AckedHolds'
      BY <1>1, <2>1, <2>2
      DEF PairingInv, ChangesOne, SavesRequester, OneDecision, AckedHolds, requests
    <2>5. FileIsMeant' /\ DownKeeps'
      BY <1>1, <2>1, <2>2 DEF FileIsMeant, DownKeeps, Opened
    <2> QED BY <2>3, <2>4, <2>5 DEF PairingInv
  <1>5. CASE SaveWrites
    <2> DEFINE new == [holder EXCEPT !.stage = "written"]
    <2>1. /\ new \in Saving /\ new.op = holder.op /\ new.peer = holder.peer /\ new.conn = holder.conn
          /\ new.next = holder.next /\ new.stage = "written" /\ new # Free
      BY <1>1, NamesAssumption DEF Saving
    <2>2. /\ holder' = new /\ file' \in Written(holder.next)
          /\ dirty' = (Opened(refresh) \/ file # Torn)
          /\ UNCHANGED <<up, trusted, refresh, requests, acked>>
      BY <1>5 DEF SaveWrites
    <2> HIDE DEF new
    <2>3. holder.next \in List
      BY <1>1 DEF Saving
    <2>4. TypeOK'
      BY <2>1, <2>2, <2>3 DEF PairingInv, TypeOK, requests, Written, Opened
    <2>5. ChangesOne' /\ SavesRequester' /\ OneDecision' /\ AckedHolds'
      BY <1>1, <2>1, <2>2
      DEF PairingInv, ChangesOne, SavesRequester, OneDecision, AckedHolds, requests
    <2>6. ~dirty' => file' = holder.next
      BY <2>2 DEF Written
    <2>7. FileIsMeant'
      BY <2>1, <2>2, <2>3, <2>6, NamesAssumption DEF FileIsMeant, Meant, SameTrust
    <2> QED BY <1>1, <2>2, <2>4, <2>5, <2>7 DEF PairingInv, DownKeeps
  <1> QED BY <1>2, <1>3, <1>4, <1>5

\* The list that was saved becomes the one in memory, and the user is told.
LEMMA CommitKeeps ==
  ASSUME PairingInv, Commit
  PROVE  PairingInv'
  <1>1. /\ up = "up" /\ holder # Free /\ holder.stage = "written" /\ holder \in Saving
        /\ trusted' = holder.next /\ holder' = Free
        /\ UNCHANGED <<up, file, refresh, slot, decision, shown, responding, dirty>>
    BY DEF Commit, PairingInv, TypeOK
  <1>2. /\ holder.next \in List /\ holder.peer \in Peers /\ holder.conn \in Conns \cup {NoConn}
        /\ holder.op \in {"trust", "forget", "update"}
    BY <1>1 DEF Saving
  <1>3. acked' \in [Peers -> {"none", "trusted", "forgotten"}] /\ AckedHolds'
    <2>1. ASSUME holder.op = "trust"
          PROVE  acked' = [acked EXCEPT ![holder.peer] = "trusted"]
      BY <2>1 DEF Commit
    <2>2. ASSUME holder.op = "forget"
          PROVE  acked' = [acked EXCEPT ![holder.peer] = "forgotten"]
      BY <2>2 DEF Commit
    <2>3. ASSUME holder.op = "update" PROVE acked' = acked
      BY <2>3 DEF Commit
    <2> QED BY <1>1, <1>2, <2>1, <2>2, <2>3 DEF PairingInv, TypeOK, AckedHolds, ChangesOne
  <1>4. TypeOK' /\ OneDecision'
    <2>1. CASE holder.conn = NoConn
      BY <1>1, <1>2, <1>3, <2>1 DEF Commit, PairingInv, TypeOK, OneDecision
    <2>2. CASE holder.conn # NoConn
      BY <1>1, <1>2, <1>3, <2>2 DEF Commit, PairingInv, TypeOK, OneDecision
    <2> QED BY <2>1, <2>2
  <1>5. FileIsMeant'
    BY <1>1 DEF PairingInv, FileIsMeant, Meant, Opened, SameTrust
  <1> QED BY <1>1, <1>3, <1>4, <1>5 DEF PairingInv, ChangesOne, SavesRequester, DownKeeps

LEMMA RefreshKeeps ==
  ASSUME PairingInv,
         \/ \E p \in Peers, h \in Hosts : RefreshEndpoint(p, h)
         \/ RefreshOpens \/ RefreshFails \/ RefreshWrites
  PROVE  PairingInv'
  <1>1. ASSUME NEW p \in Peers, NEW h \in Hosts, RefreshEndpoint(p, h) PROVE PairingInv'
    <2> DEFINE next == [trusted EXCEPT ![p].host = h]
    <2>1. trusted \in List /\ trusted[p] \in Record
      BY <1>1 DEF RefreshEndpoint, PairingInv, TypeOK, List
    <2>2. [trusted[p] EXCEPT !.host = h] \in Record
          /\ [trusted[p] EXCEPT !.host = h].alias = trusted[p].alias
      BY <2>1 DEF Record
    <2>3. /\ next \in List /\ next[p] = [trusted[p] EXCEPT !.host = h]
          /\ \A q \in Peers \ {p} : next[q] = trusted[q]
      BY <2>1, <2>2 DEF List
    <2>4. SameTrust(trusted, next)
      BY <2>1, <2>2, <2>3, NamesAssumption DEF SameTrust
    <2>5. /\ trusted' = next /\ refresh' = [next |-> next, stage |-> "cloned"]
          /\ up = "up" /\ holder = Free /\ refresh = Free
          /\ UNCHANGED <<up, file, holder, requests, acked, dirty>>
      BY <1>1 DEF RefreshEndpoint, Quiet
    <2> HIDE DEF next
    <2>6. refresh' \in Refreshing
      BY <2>3, <2>5 DEF Refreshing
    <2>7. TypeOK'
      BY <2>3, <2>5, <2>6 DEF PairingInv, TypeOK, requests
    <2>8. FileIsMeant'
      BY <2>4, <2>5 DEF PairingInv, FileIsMeant, Meant, Opened, SameTrust
    <2>9. AckedHolds'
      BY <2>4, <2>5 DEF PairingInv, AckedHolds, SameTrust
    <2> QED BY <2>5, <2>7, <2>8, <2>9
            DEF PairingInv, ChangesOne, SavesRequester, DownKeeps, OneDecision, requests
  <1>2. CASE RefreshOpens
    <2>1. refresh' \in Refreshing /\ refresh'.stage = "opened" /\ refresh' # Free
      BY <1>2, NamesAssumption DEF RefreshOpens, PairingInv, TypeOK, Refreshing
    <2>2. up = "up" /\ file' = Torn /\ UNCHANGED <<up, trusted, holder, requests, acked, dirty>>
      BY <1>2 DEF RefreshOpens
    <2>3. TypeOK'
      BY <2>1, <2>2 DEF PairingInv, TypeOK, requests
    <2>4. FileIsMeant' /\ DownKeeps'
      BY <2>1, <2>2 DEF FileIsMeant, DownKeeps, Opened
    <2> QED BY <2>2, <2>3, <2>4
            DEF PairingInv, ChangesOne, SavesRequester, AckedHolds, OneDecision, requests
  <1>3. CASE RefreshFails
    <2>1. /\ up = "up" /\ refresh' = Free /\ dirty' = (dirty \/ Opened(refresh))
          /\ file' = IF Opened(refresh) THEN Torn ELSE file
          /\ UNCHANGED <<up, trusted, holder, requests, acked>>
      BY <1>3 DEF RefreshFails
    <2>2. TypeOK'
      BY <2>1 DEF PairingInv, TypeOK, requests, Opened
    <2>3. FileIsMeant'
      BY <2>1 DEF PairingInv, FileIsMeant, Meant, Opened, SameTrust
    <2> QED BY <2>1, <2>2, <2>3
            DEF PairingInv, ChangesOne, SavesRequester, AckedHolds, OneDecision, DownKeeps, requests
  <1>4. CASE RefreshWrites
    <2>1. /\ up = "up" /\ refresh' = Free /\ file' \in Written(refresh.next)
          /\ dirty' = (InFile(holder) \/ file # Torn \/ ~SameTrust(refresh.next, trusted))
          /\ UNCHANGED <<up, trusted, holder, requests, acked>>
      BY <1>4 DEF RefreshWrites
    <2>2. refresh.next \in List
      BY <1>4 DEF RefreshWrites, PairingInv, TypeOK, Refreshing
    <2>3. TypeOK'
      BY <2>1, <2>2 DEF PairingInv, TypeOK, requests, Written, InFile, SameTrust
    <2>4. ~dirty' => /\ file' = refresh.next /\ SameTrust(refresh.next, trusted)
                     /\ ~(holder # Free /\ holder.stage = "written")
      BY <2>1 DEF Written, InFile
    <2>5. FileIsMeant'
      BY <2>1, <2>2, <2>4, NamesAssumption DEF FileIsMeant, Meant, SameTrust
    <2> QED BY <2>1, <2>3, <2>5
            DEF PairingInv, ChangesOne, SavesRequester, AckedHolds, OneDecision, DownKeeps, requests
  <1> QED BY <1>1, <1>2, <1>3, <1>4

\* Requests and the prompt leave the list, its file and who saves it alone.
LEMMA RequestsKeep ==
  ASSUME PairingInv, UNCHANGED <<up, lists, acked, dirty>>, TypeOK', OneDecision',
         \A c \in Conns : phase[c] = "saving" => phase'[c] = "saving"
  PROVE  PairingInv'
  <1>1. ChangesOne' /\ AckedHolds' /\ FileIsMeant'
    BY DEF PairingInv, lists, ChangesOne, AckedHolds, FileIsMeant, Meant, Opened, SameTrust
  <1>2. DownKeeps'
    BY DEF PairingInv, lists, DownKeeps, Tells
  <1>3. SavesRequester'
    BY DEF PairingInv, lists, SavesRequester, TypeOK, Saving
  <1> QED BY <1>1, <1>2, <1>3 DEF PairingInv

LEMMA ConnectionKeeps ==
  ASSUME PairingInv, NEW c \in Conns,
         \/ RequestArrives(c) \/ WrongCode(c) \/ RequestTimesOut(c)
         \/ SeeDecision(c) \/ EndConnection(c)
  PROVE  PairingInv'
  <1> USE NamesAssumption DEF PairingInv, TypeOK, OneDecision
  <1>1. CASE RequestArrives(c)
    BY <1>1, RequestsKeep DEF RequestArrives, lists
  <1>2. CASE WrongCode(c)
    BY <1>2, RequestsKeep DEF WrongCode, lists
  <1>3. CASE RequestTimesOut(c)
    BY <1>3, RequestsKeep DEF RequestTimesOut, lists
  <1>4. CASE SeeDecision(c)
    BY <1>4, RequestsKeep DEF SeeDecision, lists
  <1>5. CASE EndConnection(c)
    BY <1>5, RequestsKeep DEF EndConnection, lists
  <1> QED BY <1>1, <1>2, <1>3, <1>4, <1>5

LEMMA PromptKeeps ==
  ASSUME PairingInv,
         Poll \/ ClearPrompt \/ \E answer \in {"accept", "decline"} : Respond(answer)
  PROVE  PairingInv'
  <1> USE NamesAssumption DEF PairingInv, TypeOK, OneDecision
  <1>1. CASE Poll
    BY <1>1, RequestsKeep DEF Poll, lists
  <1>2. CASE ClearPrompt
    BY <1>2, RequestsKeep DEF ClearPrompt, lists
  <1>3. ASSUME NEW answer \in {"accept", "decline"}, Respond(answer) PROVE PairingInv'
    BY <1>3, RequestsKeep DEF Respond, lists
  <1> QED BY <1>1, <1>2, <1>3

LEMMA CrashKeeps ==
  ASSUME PairingInv, Crash
  PROVE  PairingInv'
  <1>1. /\ up = "up" /\ up' = "down" /\ holder' = Free /\ refresh' = Free
        /\ dirty' = (dirty \/ Opened(holder) \/ Opened(refresh))
        /\ slot' = NoConn /\ responding' = NoConn /\ shown' = NoConn
        /\ phase' = [c \in Conns |-> IF phase[c] = "idle" THEN "idle" ELSE "done"]
        /\ decision' = [c \in Conns |-> "none"] /\ reply' = [c \in Conns |-> "none"]
        /\ UNCHANGED <<trusted, file>>
    BY DEF Crash
  <1>2. TypeOK' /\ OneDecision'
    <2>1. acked' \in [Peers -> {"none", "trusted", "forgotten"}]
      BY DEF Crash, PairingInv, TypeOK
    <2>2. dirty' \in BOOLEAN
      BY <1>1 DEF PairingInv, TypeOK, Opened
    <2>3. OneDecision'
      BY <1>1 DEF OneDecision
    <2> QED BY <1>1, <2>1, <2>2, <2>3 DEF PairingInv, TypeOK
  <1>3. ASSUME ~dirty' PROVE file' # Torn /\ Tells(file)'
    <2>1. file # Torn /\ SameTrust(file, Meant)
      BY <1>1, <1>3 DEF PairingInv, FileIsMeant
    <2>2. CASE holder # Free /\ holder.stage = "written"
      <3>1. acked' = [acked EXCEPT ![holder.peer] = "none"] /\ holder \in Saving
        BY <2>2 DEF Crash, PairingInv, TypeOK
      <3>2. SameTrust(file, holder.next)
        BY <2>1, <2>2 DEF Meant
      <3> QED BY <1>1, <2>1, <2>2, <3>1, <3>2
              DEF PairingInv, TypeOK, ChangesOne, AckedHolds, SameTrust, Tells
    <2>3. CASE ~(holder # Free /\ holder.stage = "written")
      <3>1. acked' = acked
        BY <2>3 DEF Crash
      <3> QED BY <1>1, <2>1, <2>3, <3>1 DEF PairingInv, Meant, AckedHolds, SameTrust, Tells
    <2> QED BY <2>2, <2>3
  <1> QED BY <1>1, <1>2, <1>3
          DEF PairingInv, ChangesOne, SavesRequester, AckedHolds, FileIsMeant, DownKeeps

LEMMA RestartKeeps ==
  ASSUME PairingInv, Restart
  PROVE  PairingInv'
  <1>1. /\ up = "down" /\ holder = Free /\ refresh = Free /\ dirty' = FALSE
        /\ UNCHANGED <<file, holder, refresh, requests>>
    BY DEF Restart, PairingInv, DownKeeps
  <1>2. CASE file = Torn
    <2>1. up' = "broken" /\ trusted' = trusted
      BY <1>2 DEF Restart
    <2>2. TypeOK'
      BY <1>1, <2>1 DEF Restart, PairingInv, TypeOK, requests
    <2> QED BY <1>1, <2>1, <2>2
            DEF PairingInv, ChangesOne, SavesRequester, AckedHolds, FileIsMeant, DownKeeps, OneDecision,
                requests
  <1>3. CASE file # Torn
    <2>1. up' = "up" /\ trusted' = file /\ file \in List
      BY <1>3 DEF Restart, PairingInv, TypeOK
    <2>2. TypeOK'
      BY <1>1, <2>1 DEF Restart, PairingInv, TypeOK, requests
    <2>3. AckedHolds'
      <3>1. CASE dirty
        BY <2>1, <3>1 DEF Restart, AckedHolds
      <3>2. CASE ~dirty
        BY <1>1, <2>1, <3>2 DEF Restart, PairingInv, DownKeeps, AckedHolds, Tells
      <3> QED BY <3>1, <3>2
    <2>4. FileIsMeant'
      BY <1>1, <1>3, <2>1 DEF FileIsMeant, Meant, SameTrust
    <2> QED BY <1>1, <2>1, <2>2, <2>3, <2>4
            DEF PairingInv, ChangesOne, SavesRequester, DownKeeps, OneDecision, requests
  <1> QED BY <1>2, <1>3

LEMMA PairingStep == PairingInv /\ [Next]_vars => PairingInv'
  <1>1. ASSUME PairingInv, UNCHANGED vars PROVE PairingInv'
    <2>1. TypeOK' /\ OneDecision'
      BY <1>1 DEF vars, lists, requests, PairingInv, TypeOK, OneDecision
    <2> QED BY <1>1, <2>1, RequestsKeep DEF vars, lists, requests
  <1> QED BY <1>1, CommandBegins, RequesterSaves, SaveKeeps, CommitKeeps, RefreshKeeps,
             ConnectionKeeps, PromptKeeps, CrashKeeps, RestartKeeps DEF Next

-----------------------------------------------------------------------------

\* Every variable has its type.
THEOREM PairingTypeCorrect == Spec => []TypeOK
  <1>1. PairingInv => TypeOK
    BY DEF PairingInv
  <1> QED BY <1>1, PairingInit, PairingStep, PTL DEF Spec

\* What the user was told about a device is so, in memory and after every restart.
THEOREM ToldHolds == Spec => []AckedHolds
  <1>1. PairingInv => AckedHolds
    BY DEF PairingInv
  <1> QED BY <1>1, PairingInit, PairingStep, PTL DEF Spec

\* When nobody saves and no save was cut, overlapped or out of date, the file trusts what memory
\* trusts.
THEOREM FileIsTheList == Spec => []FileFollowsMemory
  <1>1. PairingInv => FileFollowsMemory
    BY DEF PairingInv, FileIsMeant, Meant, Quiet, Opened, FileFollowsMemory
  <1> QED BY <1>1, PairingInit, PairingStep, PTL DEF Spec

\* A requester is told that it is accepted only when the user accepted that request, and once its
\* device is in the list.
THEOREM AcceptedWasSaved == Spec => AcceptedIsTrusted
  <1> DEFINE Accepted ==
        \A c \in Conns : reply'[c] = "accept" /\ reply[c] # "accept"
          => decision[c] = "accept" /\ trusted'[From[c]] # NoPeer
  <1>1. ASSUME PairingInv, [Next]_vars PROVE Accepted
    <2>1. CASE Commit
      <3>1. CASE holder.conn = NoConn
        BY <2>1, <3>1 DEF Commit
      <3>2. CASE holder.conn # NoConn
        <4>1. /\ holder \in Saving /\ trusted' = holder.next
              /\ reply' = [reply EXCEPT ![holder.conn] = "accept"]
          BY <1>1, <2>1, <3>2 DEF Commit, PairingInv, TypeOK
        <4>2. holder.conn \in Conns
          BY <3>2, <4>1 DEF Saving
        <4>3. /\ trusted'[From[holder.conn]] # NoPeer /\ decision[holder.conn] = "accept"
          BY <1>1, <2>1, <3>2, <4>1, <4>2
          DEF Commit, PairingInv, ChangesOne, SavesRequester, OneDecision
        <4>4. \A c \in Conns \ {holder.conn} : reply'[c] = reply[c]
          BY <1>1, <4>1 DEF PairingInv, TypeOK
        <4> QED BY <4>3, <4>4
      <3> QED BY <3>1, <3>2
    <2>2. ASSUME reply' = reply PROVE Accepted
      BY <2>2
    <2>3. CASE SaveFails \/ SaveIsCut
      BY <1>1, <2>3 DEF SaveFails, SaveIsCut, GiveUp, PairingInv, TypeOK
    <2>4. ASSUME NEW c \in Conns, WrongCode(c) \/ RequestTimesOut(c) \/ SeeDecision(c) \/ EndConnection(c)
          PROVE  Accepted
      BY <1>1, <2>4
      DEF WrongCode, RequestTimesOut, SeeDecision, EndConnection, PairingInv, TypeOK
    <2>5. CASE Crash
      BY <2>5 DEF Crash
    <2>6. ASSUME NEW p \in Peers, NEW h \in Hosts, TrustNearby(p, h) \/ RefreshEndpoint(p, h)
          PROVE  reply' = reply
      BY <2>6 DEF TrustNearby, RefreshEndpoint, Lock, requests
    <2>7. ASSUME NEW p \in Peers, Forget(p) \/ RefreshContact(p) \/ \E a \in BOOLEAN : SetAlias(p, a)
          PROVE  reply' = reply
      BY <2>7 DEF Forget, RefreshContact, SetAlias, Lock
    <2>8. ASSUME NEW c \in Conns, RequestArrives(c) \/ \E h \in Hosts : TrustRequester(c, h)
          PROVE  reply' = reply
      BY <2>8 DEF RequestArrives, TrustRequester, Lock
    <2>9. ASSUME \/ SaveOpens \/ SaveWrites \/ RefreshOpens \/ RefreshFails \/ RefreshWrites
                 \/ Poll \/ ClearPrompt \/ Restart
                 \/ \E answer \in {"accept", "decline"} : Respond(answer)
                 \/ UNCHANGED vars
          PROVE  reply' = reply
      BY <2>9 DEF SaveOpens, SaveWrites, RefreshOpens, RefreshFails, RefreshWrites, Poll, ClearPrompt,
         Restart, Respond, requests, vars
    <2> HIDE DEF Accepted
    <2> QED BY <1>1, <2>1, <2>2, <2>3, <2>4, <2>5, <2>6, <2>7, <2>8, <2>9 DEF Next
  <1> HIDE DEF Accepted
  <1>2. Spec => [][Accepted]_vars
    BY <1>1, PairingInit, PairingStep, PTL DEF Spec
  <1> QED BY <1>2 DEF Accepted, AcceptedIsTrusted


-----------------------------------------------------------------------------
(* The devices nearby.                                                      *)

Listed(id) == \E k \in DOMAIN nearby : nearby[k].id = id
Named(id)  == \E n \in DOMAIN fullnames : fullnames[n] = id

\* What the browser may be busy with, and the tables it comes to.
WorkStates ==
    {Idle} \cup [op : {"add"}, at : {"nearby", "seen", "fullnames"}, info : Infos]
           \cup [op : {"remove"}, at : {"fullnames"}, info : Infos]
           \cup [op : {"drop"}, at : {"nearby", "seen"}, ids : SUBSET Ids]
           \cup [op : {"purge"}, at : {"nearby", "seen", "fullnames"}, ids : SUBSET Ids]

\* A device that is listed or has a name was seen, except for the one that is being added and for
\* those whose sight was purged already; those that go have no name, then no entry.
TableInv(id) ==
    /\ Listed(id) => \/ id \in DOMAIN seenAt
                     \/ work.op = "add" /\ work.at = "seen" /\ work.info.id = id
    /\ Named(id) => \/ id \in DOMAIN seenAt
                    \/ work.op = "purge" /\ work.at = "fullnames" /\ id \in work.ids
    /\ work.op = "add" /\ work.at = "fullnames" => work.info.id \in DOMAIN seenAt
    /\ work.op = "drop" /\ id \in work.ids => ~Named(id)
    /\ work.op \in {"drop", "purge"} /\ work.at # "nearby" /\ id \in work.ids => ~Listed(id)

TablesInv == DiscoveryTypeOK /\ work \in WorkStates /\ \A id \in Ids : TableInv(id)

\* The variables of the tables stay as they are, and so does what is said of them.
LEMMA TablesSame ==
    ASSUME UNCHANGED <<work, nearby, fullnames>>, DOMAIN seenAt' = DOMAIN seenAt
    PROVE  \A id : TableInv(id) => TableInv(id)'
    BY DEF TableInv, Listed, Named

\* The list takes a device, in the place of another one or at its end.
LEMMA ListTakes ==
    ASSUME nearby \in Seq(Device), NEW d \in Device,
           \/ nearby' = Append(nearby, d)
           \/ \E k \in DOMAIN nearby : nearby' = [nearby EXCEPT ![k] = d]
    PROVE  /\ nearby' \in Seq(Device)
           /\ \A id : Listed(id)' => Listed(id) \/ id = d.id
    <1>1. CASE nearby' = Append(nearby, d)
        <2>1. nearby' \in Seq(Device) /\ Len(nearby') = Len(nearby) + 1
            BY <1>1
        <2>2. ASSUME NEW k \in DOMAIN nearby'
              PROVE  nearby'[k] = d \/ (k \in DOMAIN nearby /\ nearby'[k] = nearby[k])
            <3>1. CASE k = Len(nearby) + 1
                BY <1>1, <3>1
            <3>2. CASE k \in DOMAIN nearby
                BY <1>1, <3>2
            <3> QED BY <2>1, <3>1, <3>2
        <2>3. ASSUME NEW id, NEW k \in DOMAIN nearby', nearby'[k].id = id PROVE Listed(id) \/ id = d.id
            BY <2>2, <2>3 DEF Listed
        <2> QED BY <2>1, <2>3 DEF Listed
    <1>2. ASSUME NEW k \in DOMAIN nearby, nearby' = [nearby EXCEPT ![k] = d]
          PROVE  /\ nearby' \in Seq(Device)
                 /\ \A id : Listed(id)' => Listed(id) \/ id = d.id
        <2>1. nearby' \in Seq(Device) /\ DOMAIN nearby' = DOMAIN nearby
            BY <1>2
        <2>2. \A j \in DOMAIN nearby : nearby'[j] = IF j = k THEN d ELSE nearby[j]
            BY <1>2
        <2> QED BY <2>1, <2>2 DEF Listed
    <1> QED BY <1>1, <1>2

\* The list loses the devices with some ids, and no other.
LEMMA ListLoses ==
    ASSUME nearby \in Seq(Device), NEW gone,
           nearby' = Keep(nearby, {k \in DOMAIN nearby : nearby[k].id \notin gone})
    PROVE  /\ nearby' \in Seq(Device)
           /\ \A id : Listed(id)' => Listed(id) /\ id \notin gone
    <1> DEFINE kept == {k \in DOMAIN nearby : nearby[k].id \notin gone}
    <1>1. /\ nearby' \in Seq(Device)
          /\ \A n \in DOMAIN nearby' : \E k \in kept : nearby'[n] = nearby[k]
        <2>1. /\ Keep(nearby, kept) \in Seq(Device)
              /\ \A n \in DOMAIN Keep(nearby, kept) : \E k \in kept : Keep(nearby, kept)[n] = nearby[k]
            BY KeepElements
        <2> QED BY <2>1
    <1>2. ASSUME NEW id, NEW n \in DOMAIN nearby', nearby'[n].id = id PROVE Listed(id) /\ id \notin gone
        BY <1>1, <1>2 DEF Listed
    <1> QED BY <1>1, <1>2 DEF Listed

\* The names of some devices go.
LEMMA NamesGo ==
    ASSUME NEW ids, NEW but, fullnames' = Without(fullnames, NamesOf(ids) \ but)
    PROVE  /\ DOMAIN fullnames' \subseteq DOMAIN fullnames
           /\ \A n \in DOMAIN fullnames' : fullnames'[n] = fullnames[n]
           /\ \A id : Named(id)' => Named(id)
           /\ but = {} => \A id \in ids : ~Named(id)'
    BY DEF Without, NamesOf, Named

-----------------------------------------------------------------------------
(* Every step of the two discovery threads keeps the tables as they should be. *)

\* One device is added: the list, when it was seen, its name.
LEMMA AddKeeps ==
    ASSUME TablesInv, AddNearby \/ AddSeen \/ AddFullname
    PROVE  TablesInv'
    <1>1. PICK i \in Infos : work.op = "add" /\ work.info = i /\ work.at \in {"nearby", "seen", "fullnames"}
                             /\ work \in [op : {"add"}, at : {"nearby", "seen", "fullnames"}, info : Infos]
        <2>1. work.op = "add" /\ work \in WorkStates
            BY DEF AddNearby, AddSeen, AddFullname, TablesInv
        <2>2. work \in [op : {"add"}, at : {"nearby", "seen", "fullnames"}, info : Infos]
            BY <2>1 DEF WorkStates, Idle
        <2> QED BY <2>2
    <1>2. /\ i.id \in Ids /\ i.name \in Names /\ i.host \in Addresses
          /\ [id |-> i.id, host |-> i.host, trusted |-> FALSE] \in Device
        BY DEF Ids, Names, Addresses, Device
    <1>3. CASE AddNearby
        <2>1. PICK d \in Device :
                 /\ d.id = i.id
                 /\ \/ nearby' = Append(nearby, d)
                    \/ \E k \in DOMAIN nearby : nearby' = [nearby EXCEPT ![k] = d]
            BY <1>1, <1>2, <1>3 DEF AddNearby
        <2>2. nearby' \in Seq(Device) /\ \A id : Listed(id)' => Listed(id) \/ id = i.id
            BY <2>1, ListTakes DEF TablesInv, DiscoveryTypeOK
        <2>3. work.at = "nearby" /\ work' = [work EXCEPT !.at = "seen"]
              /\ UNCHANGED <<events, seenAt, fullnames, advertiser, world>>
            BY <1>3 DEF AddNearby
        <2>4. work' \in WorkStates /\ work'.op = "add" /\ work'.at = "seen" /\ work'.info = i
            BY <1>1, <2>3 DEF WorkStates
        <2>5. DiscoveryTypeOK'
            BY <2>2, <2>3, <2>4 DEF TablesInv, DiscoveryTypeOK, advertiser, world
        <2>6. ASSUME NEW id \in Ids PROVE TableInv(id)'
            <3>1. Named(id)' => Named(id)
                BY <2>3 DEF Named
            <3> QED BY <1>1, <2>2, <2>3, <2>4, <3>1 DEF TablesInv, TableInv
        <2> QED BY <2>4, <2>5, <2>6 DEF TablesInv
    <1>4. CASE AddSeen
        <2>1. /\ work.at = "seen" /\ work' = [work EXCEPT !.at = "fullnames"]
              /\ seenAt' = With(seenAt, i.id, FALSE)
              /\ UNCHANGED <<events, nearby, fullnames, advertiser, world>>
            BY <1>1, <1>4 DEF AddSeen
        <2>2. DOMAIN seenAt' = DOMAIN seenAt \cup {i.id} /\ \A x \in DOMAIN seenAt' : seenAt'[x] \in BOOLEAN
            BY <2>1 DEF With, TablesInv, DiscoveryTypeOK
        <2>3. work' \in WorkStates /\ work'.op = "add" /\ work'.at = "fullnames" /\ work'.info = i
            BY <1>1, <2>1 DEF WorkStates
        <2>4. DiscoveryTypeOK'
            BY <1>2, <2>1, <2>2, <2>3 DEF TablesInv, DiscoveryTypeOK, advertiser, world
        <2>5. ASSUME NEW id \in Ids PROVE TableInv(id)'
            <3>1. (Named(id)' => Named(id)) /\ (Listed(id)' => Listed(id))
                BY <2>1 DEF Named, Listed
            <3> QED BY <1>1, <2>1, <2>2, <2>3, <3>1 DEF TablesInv, TableInv
        <2> QED BY <2>3, <2>4, <2>5 DEF TablesInv
    <1>5. CASE AddFullname
        <2>1. /\ work.at = "fullnames" /\ work' = Idle
              /\ fullnames' = With(Without(fullnames, NamesOf({i.id}) \ {i.name}), i.name, i.id)
              /\ UNCHANGED <<events, nearby, seenAt, advertiser, world>>
            BY <1>1, <1>5 DEF AddFullname
        <2>2. /\ DOMAIN fullnames' \subseteq DOMAIN fullnames \cup {i.name}
              /\ \A n \in DOMAIN fullnames' : fullnames'[n] = i.id \/ (n \in DOMAIN fullnames /\ fullnames'[n] = fullnames[n])
            <3> DEFINE f == Without(fullnames, NamesOf({i.id}) \ {i.name})
            <3>1. DOMAIN f \subseteq DOMAIN fullnames /\ \A n \in DOMAIN f : f[n] = fullnames[n]
                BY DEF Without
            <3>2. fullnames' = With(f, i.name, i.id)
                BY <2>1
            <3> HIDE DEF f
            <3>3. /\ DOMAIN fullnames' = DOMAIN f \cup {i.name}
                  /\ \A n \in DOMAIN fullnames' : fullnames'[n] = IF n = i.name THEN i.id ELSE f[n]
                BY <3>2 DEF With
            <3> QED BY <3>1, <3>3
        <2>3. work' \in WorkStates /\ work'.op = "idle"
            BY <2>1 DEF WorkStates, Idle
        <2>4. DiscoveryTypeOK'
            BY <1>2, <2>1, <2>2, <2>3 DEF TablesInv, DiscoveryTypeOK, advertiser, world
        <2>5. ASSUME NEW id \in Ids PROVE TableInv(id)'
            <3>1. Named(id)' => Named(id) \/ id = i.id
                BY <2>2 DEF Named
            <3>2. Listed(id)' => Listed(id)
                BY <2>1 DEF Listed
            <3> QED BY <1>1, <2>1, <2>3, <3>1, <3>2 DEF TablesInv, TableInv
        <2> QED BY <2>3, <2>4, <2>5 DEF TablesInv
    <1> QED BY <1>3, <1>4, <1>5

\* Devices go, because a service does or because they were not seen for long.
LEMMA GoKeeps ==
    ASSUME TablesInv, RemoveFullname \/ StartPurge \/ DropNearby \/ DropSeen \/ PurgeFullnames
    PROVE  TablesInv'
    <1>1. CASE RemoveFullname
        <2>1. PICK n : /\ n = work.info.name
                       /\ IF n \in DOMAIN fullnames
                          THEN /\ fullnames' = Without(fullnames, NamesOf({fullnames[n]}))
                               /\ work' = [op |-> "drop", at |-> "nearby", ids |-> {fullnames[n]}]
                          ELSE work' = Idle /\ UNCHANGED fullnames
            BY <1>1 DEF RemoveFullname
        <2>2. work.op = "remove" /\ UNCHANGED <<events, nearby, seenAt, advertiser, world>>
            BY <1>1 DEF RemoveFullname
        <2>3. CASE n \in DOMAIN fullnames
            <3>1. fullnames[n] \in Ids
                BY <2>3 DEF TablesInv, DiscoveryTypeOK
            <3>2. /\ DOMAIN fullnames' \subseteq DOMAIN fullnames
                  /\ \A x \in DOMAIN fullnames' : fullnames'[x] = fullnames[x]
                  /\ \A id : Named(id)' => Named(id) /\ id # fullnames[n]
                BY <2>1, <2>3, <2>2 DEF Without, NamesOf, Named
            <3>3. /\ work' \in WorkStates /\ work'.op = "drop" /\ work'.at = "nearby"
                  /\ work'.ids = {fullnames[n]}
                BY <2>1, <2>3, <3>1 DEF WorkStates
            <3>4. DiscoveryTypeOK'
                BY <2>2, <3>2, <3>3 DEF TablesInv, DiscoveryTypeOK, advertiser, world
            <3>5. ASSUME NEW id \in Ids PROVE TableInv(id)'
                <4>1. Listed(id)' => Listed(id)
                    BY <2>2 DEF Listed
                <4> QED BY <2>2, <3>2, <3>3, <4>1 DEF TablesInv, TableInv
            <3> QED BY <3>3, <3>4, <3>5 DEF TablesInv
        <2>4. CASE n \notin DOMAIN fullnames
            <3>1. work' \in WorkStates /\ work'.op = "idle" /\ UNCHANGED fullnames
                BY <2>1, <2>4 DEF WorkStates, Idle
            <3>2. DiscoveryTypeOK'
                BY <2>2, <3>1 DEF TablesInv, DiscoveryTypeOK, advertiser, world
            <3>3. ASSUME NEW id \in Ids PROVE TableInv(id)'
                <4>1. (Named(id)' => Named(id)) /\ (Listed(id)' => Listed(id))
                    BY <2>2, <3>1 DEF Named, Listed
                <4> QED BY <2>2, <3>1, <4>1 DEF TablesInv, TableInv
            <3> QED BY <3>1, <3>2, <3>3 DEF TablesInv
        <2> QED BY <2>3, <2>4
    <1>2. CASE StartPurge
        <2>1. /\ work = Idle
              /\ work' = [op |-> "purge", at |-> "nearby", ids |-> {id \in DOMAIN seenAt : seenAt[id]}]
              /\ UNCHANGED <<events, nearby, seenAt, fullnames, advertiser, world>>
            BY <1>2 DEF StartPurge
        <2>2. work' \in WorkStates /\ work'.op = "purge" /\ work'.at = "nearby" /\ work.op = "idle"
            BY <2>1 DEF WorkStates, Idle, TablesInv, DiscoveryTypeOK
        <2>3. DiscoveryTypeOK'
            BY <2>1, <2>2 DEF TablesInv, DiscoveryTypeOK, advertiser, world
        <2>4. ASSUME NEW id \in Ids PROVE TableInv(id)'
            <3>1. (Named(id)' => Named(id)) /\ (Listed(id)' => Listed(id))
                BY <2>1 DEF Named, Listed
            <3> QED BY <2>1, <2>2, <3>1 DEF TablesInv, TableInv
        <2> QED BY <2>2, <2>3, <2>4 DEF TablesInv
    <1>3. CASE DropNearby
        <2>1. /\ work.op \in {"drop", "purge"} /\ work.at = "nearby"
              /\ nearby' = Keep(nearby, {k \in DOMAIN nearby : nearby[k].id \notin work.ids})
              /\ work' = [work EXCEPT !.at = "seen"]
              /\ UNCHANGED <<events, seenAt, fullnames, advertiser, world>>
            BY <1>3 DEF DropNearby
        <2>2. nearby' \in Seq(Device) /\ \A id : Listed(id)' => Listed(id) /\ id \notin work.ids
            BY <2>1, ListLoses DEF TablesInv, DiscoveryTypeOK
        <2>3. work' \in WorkStates /\ work'.op = work.op /\ work'.at = "seen" /\ work'.ids = work.ids
            BY <2>1 DEF TablesInv, WorkStates, Idle
        <2>4. DiscoveryTypeOK'
            BY <2>1, <2>2, <2>3 DEF TablesInv, DiscoveryTypeOK, advertiser, world
        <2>5. ASSUME NEW id \in Ids PROVE TableInv(id)'
            <3>1. Named(id)' => Named(id)
                BY <2>1 DEF Named
            <3> QED BY <2>1, <2>2, <2>3, <3>1 DEF TablesInv, TableInv
        <2> QED BY <2>3, <2>4, <2>5 DEF TablesInv
    <1>4. CASE DropSeen
        <2>1. /\ work.op \in {"drop", "purge"} /\ work.at = "seen"
              /\ seenAt' = Without(seenAt, work.ids)
              /\ work' = IF work.op = "purge" THEN [work EXCEPT !.at = "fullnames"] ELSE Idle
              /\ UNCHANGED <<events, nearby, fullnames, advertiser, world>>
            BY <1>4 DEF DropSeen
        <2>2. /\ DOMAIN seenAt' = DOMAIN seenAt \ work.ids
              /\ \A x \in DOMAIN seenAt' : seenAt'[x] = seenAt[x]
            BY <2>1 DEF Without
        <2>3. /\ work' \in WorkStates
              /\ IF work.op = "purge" THEN work'.op = "purge" /\ work'.at = "fullnames" /\ work'.ids = work.ids
                 ELSE work'.op = "idle"
            BY <2>1 DEF TablesInv, WorkStates, Idle
        <2>4. DiscoveryTypeOK'
            BY <2>1, <2>2, <2>3 DEF TablesInv, DiscoveryTypeOK, advertiser, world
        <2>5. ASSUME NEW id \in Ids PROVE TableInv(id)'
            <3>1. (Named(id)' => Named(id)) /\ (Listed(id)' => Listed(id))
                BY <2>1 DEF Named, Listed
            <3>2. TableInv(id)
                BY DEF TablesInv
            <3>3. CASE work.op = "purge"
                BY <2>1, <2>2, <2>3, <3>1, <3>2, <3>3 DEF TableInv
            <3>4. CASE work.op = "drop"
                BY <2>1, <2>2, <2>3, <3>1, <3>2, <3>4 DEF TableInv
            <3> QED BY <2>1, <3>3, <3>4
        <2> QED BY <2>3, <2>4, <2>5 DEF TablesInv
    <1>5. CASE PurgeFullnames
        <2>1. /\ work.op = "purge" /\ work.at = "fullnames" /\ work' = Idle
              /\ fullnames' = Without(fullnames, NamesOf(work.ids))
              /\ UNCHANGED <<events, nearby, seenAt, advertiser, world>>
            BY <1>5 DEF PurgeFullnames
        <2>2. /\ DOMAIN fullnames' \subseteq DOMAIN fullnames
              /\ \A x \in DOMAIN fullnames' : fullnames'[x] = fullnames[x]
              /\ \A id : Named(id)' => Named(id) /\ id \notin work.ids
            BY <2>1 DEF Without, NamesOf, Named
        <2>3. work' \in WorkStates /\ work'.op = "idle"
            BY <2>1 DEF WorkStates, Idle
        <2>4. DiscoveryTypeOK'
            BY <2>1, <2>2, <2>3 DEF TablesInv, DiscoveryTypeOK, advertiser, world
        <2>5. ASSUME NEW id \in Ids PROVE TableInv(id)'
            <3>1. Listed(id)' => Listed(id)
                BY <2>1 DEF Listed
            <3> QED BY <2>1, <2>2, <2>3, <3>1 DEF TablesInv, TableInv
        <2> QED BY <2>3, <2>4, <2>5 DEF TablesInv
    <1> QED BY <1>1, <1>2, <1>3, <1>4, <1>5

\* What the network, the user and the sessions do to the tables: a device that is listed may be
\* marked, and one that was seen may become stale.
LEMMA WorldKeeps ==
    ASSUME TablesInv,
           \/ \E i \in Infos : Announce(i) \/ Depart(i)
           \/ \E port \in Ports \cup {NoPort} : SetSession(port)
           \/ SetLan
           \/ \E id \in Ids, b \in BOOLEAN : MarkTrust(id, b)
           \/ \E id \in Ids : GrowStale(id)
    PROVE  TablesInv'
    <1>1. ASSUME DiscoveryTypeOK', UNCHANGED browser PROVE TablesInv'
        BY <1>1, TablesSame DEF TablesInv, browser
    <1>2. ASSUME Change PROVE changes' \in 0..MaxChanges
        BY <1>2, MaxAssumption DEF Change, TablesInv, DiscoveryTypeOK
    <1>3. ASSUME NEW i \in Infos, NEW k \in {"resolved", "removed"}, events' = Append(events, [kind |-> k, info |-> i])
          PROVE  events' \in Seq([kind : {"resolved", "removed"}, info : Infos])
        <2>1. [kind |-> k, info |-> i] \in [kind : {"resolved", "removed"}, info : Infos]
            OBVIOUS
        <2> QED BY <1>3, <2>1 DEF TablesInv, DiscoveryTypeOK
    <1>4. ASSUME NEW i \in Infos, Announce(i) PROVE TablesInv'
        BY <1>1, <1>2, <1>3, <1>4 DEF Announce, TablesInv, DiscoveryTypeOK, browser, advertiser
    <1>5. ASSUME NEW i \in Infos, Depart(i) PROVE TablesInv'
        BY <1>1, <1>2, <1>3, <1>5 DEF Depart, TablesInv, DiscoveryTypeOK, browser, advertiser
    <1>6. ASSUME NEW port \in Ports \cup {NoPort}, SetSession(port) PROVE TablesInv'
        BY <1>1, <1>2, <1>6 DEF SetSession, TablesInv, DiscoveryTypeOK, browser, advertiser
    <1>7. ASSUME SetLan PROVE TablesInv'
        BY <1>1, <1>2, <1>7 DEF SetLan, TablesInv, DiscoveryTypeOK, browser, advertiser
    <1>8. ASSUME NEW id \in Ids, NEW b \in BOOLEAN, MarkTrust(id, b) PROVE TablesInv'
        <2>1. PICK k \in DOMAIN nearby : nearby' = [nearby EXCEPT ![k].trusted = b]
            BY <1>8 DEF MarkTrust
        <2>2. /\ nearby' \in Seq(Device) /\ DOMAIN nearby' = DOMAIN nearby
              /\ \A j \in DOMAIN nearby : nearby'[j].id = nearby[j].id
            <3>1. nearby \in Seq(Device) /\ nearby[k] \in Device
                BY DEF TablesInv, DiscoveryTypeOK
            <3>2. ASSUME NEW e \in Device PROVE [e EXCEPT !.trusted = b] \in Device /\ [e EXCEPT !.trusted = b].id = e.id
                BY DEF Device
            <3>3. PICK d \in Device : d = [nearby[k] EXCEPT !.trusted = b] /\ d.id = nearby[k].id
                BY <3>1, <3>2
            <3> QED BY <2>1, <3>1, <3>3
        <2>3. UNCHANGED <<announced, events, work, seenAt, fullnames, advertiser, session, lan>>
            BY <1>8 DEF MarkTrust
        <2>4. DiscoveryTypeOK'
            BY <1>2, <1>8, <2>2, <2>3 DEF MarkTrust, TablesInv, DiscoveryTypeOK, advertiser
        <2>5. ASSUME NEW x \in Ids PROVE TableInv(x)'
            <3>1. (Named(x)' => Named(x)) /\ (Listed(x)' => Listed(x))
                BY <2>2, <2>3 DEF Named, Listed
            <3> QED BY <2>3, <3>1 DEF TablesInv, TableInv
        <2> QED BY <2>3, <2>4, <2>5 DEF TablesInv
    <1>9. ASSUME NEW id \in Ids, GrowStale(id) PROVE TablesInv'
        <2>1. /\ seenAt' = [seenAt EXCEPT ![id] = TRUE] /\ DOMAIN seenAt' = DOMAIN seenAt
              /\ UNCHANGED <<events, work, nearby, fullnames, advertiser, world>>
            BY <1>9 DEF GrowStale
        <2>2. \A x \in DOMAIN seenAt' : seenAt'[x] \in BOOLEAN
            BY <2>1 DEF TablesInv, DiscoveryTypeOK
        <2>3. DiscoveryTypeOK'
            BY <2>1, <2>2 DEF TablesInv, DiscoveryTypeOK, advertiser, world
        <2> QED BY <2>1, <2>3, TablesSame DEF TablesInv
    <1> QED BY <1>4, <1>5, <1>6, <1>7, <1>8, <1>9

\* The advertiser leaves the tables alone.
LEMMA AdvertiserKeeps ==
    ASSUME TablesInv, Withdraw \/ NoAddress \/ Register \/ RegisterFails \/ DescriptionRefused
    PROVE  TablesInv'
    <1>1. UNCHANGED <<events, browser, world>>
        BY DEF Withdraw, NoAddress, Register, RegisterFails, DescriptionRefused
    <1>2. ASSUME Withdraw \/ NoAddress \/ Register \/ RegisterFails PROVE DiscoveryTypeOK'
        <2>1. /\ forgone' = {}
              /\ \E p \in Ports \cup {NoPort}, b \in BOOLEAN :
                    /\ lastPort' \in {p, NoPort} /\ registered' \in {p, NoPort}
                    /\ status' = [advertised |-> b, port |-> p]
            BY <1>2 DEF Withdraw, NoAddress, Register, RegisterFails, Silent, TablesInv, DiscoveryTypeOK
        <2> QED BY <1>1, <2>1 DEF TablesInv, DiscoveryTypeOK, browser, world
    <1>3. ASSUME DescriptionRefused PROVE DiscoveryTypeOK'
        <2>1. registered' = NoPort /\ forgone' \subseteq Ports /\ UNCHANGED <<lastPort, status>>
            BY <1>3 DEF DescriptionRefused, TablesInv, DiscoveryTypeOK
        <2> QED BY <1>1, <2>1 DEF TablesInv, DiscoveryTypeOK, browser, world
    <1>4. DiscoveryTypeOK'
        BY <1>2, <1>3
    <1> QED BY <1>1, <1>4, TablesSame DEF TablesInv, browser

LEMMA TablesInit == DiscoveryInit => TablesInv
    <1> SUFFICES ASSUME DiscoveryInit PROVE TablesInv
        OBVIOUS
    <1>1. DiscoveryTypeOK /\ work \in WorkStates
        BY MaxAssumption DEF DiscoveryInit, DiscoveryTypeOK, WorkStates, Idle
    <1>2. \A id \in Ids : TableInv(id)
        BY DEF DiscoveryInit, TableInv, Listed, Named, Idle
    <1> QED BY <1>1, <1>2 DEF TablesInv

LEMMA TablesStep == TablesInv /\ [DiscoveryNext]_discoveryVars => TablesInv'
    <1> SUFFICES ASSUME TablesInv, [DiscoveryNext]_discoveryVars PROVE TablesInv'
        OBVIOUS
    <1>1. ASSUME Receive PROVE TablesInv'
        <2>1. /\ work = Idle /\ events # <<>> /\ events' = Tail(events)
              /\ UNCHANGED <<nearby, seenAt, fullnames, advertiser, world>>
            BY <1>1 DEF Receive
        <2>2. /\ Head(events) \in [kind : {"resolved", "removed"}, info : Infos]
              /\ events' \in Seq([kind : {"resolved", "removed"}, info : Infos])
            <3> DEFINE E == [kind : {"resolved", "removed"}, info : Infos]
            <3>1. events \in Seq(E)
                BY DEF TablesInv, DiscoveryTypeOK
            <3> HIDE DEF E
            <3>2. Head(events) \in E /\ events' \in Seq(E)
                BY <2>1, <3>1
            <3> QED BY <3>2 DEF E
        <2>3. /\ work' \in WorkStates
              /\ \/ work'.op = "add" /\ work'.at = "nearby"
                 \/ work'.op = "remove"
            BY <1>1, <2>2 DEF Receive, WorkStates
        <2>4. DiscoveryTypeOK'
            BY <2>1, <2>2, <2>3 DEF TablesInv, DiscoveryTypeOK, advertiser, world
        <2>5. ASSUME NEW id \in Ids PROVE TableInv(id)'
            <3>1. (Named(id)' => Named(id)) /\ (Listed(id)' => Listed(id)) /\ work.op = "idle"
                BY <2>1 DEF Named, Listed, Idle
            <3> QED BY <2>1, <2>3, <3>1 DEF TablesInv, TableInv
        <2> QED BY <2>3, <2>4, <2>5 DEF TablesInv
    <1>2. CASE UNCHANGED discoveryVars
        <2>1. DiscoveryTypeOK'
            BY <1>2 DEF discoveryVars, browser, advertiser, TablesInv, DiscoveryTypeOK
        <2> QED BY <1>2, <2>1, TablesSame DEF discoveryVars, browser, TablesInv
    <1> QED BY <1>1, <1>2, AddKeeps, GoKeeps, WorldKeeps, AdvertiserKeeps DEF DiscoveryNext

\* The tables, the browser's work, the events and the registration are well formed.
THEOREM DiscoveryTypeCorrect == DiscoverySpec => []DiscoveryTypeOK
    <1>1. TablesInv => DiscoveryTypeOK
        BY DEF TablesInv
    <1> QED BY <1>1, TablesInit, TablesStep, PTL DEF DiscoverySpec

\* Between two events every device that is listed, or has a name, has a time when it was seen: it
\* will expire.
THEOREM TablesStayInStep == DiscoverySpec => []TablesAgree
    <1>1. TablesInv => TablesAgree
        <2> SUFFICES ASSUME TablesInv, work = Idle
                     PROVE  /\ NearbyIds \subseteq DOMAIN seenAt
                            /\ {fullnames[n] : n \in DOMAIN fullnames} \subseteq DOMAIN seenAt
            BY DEF TablesAgree
        <2>1. work.op = "idle"
            BY DEF Idle
        <2>2. \A id \in Ids : Listed(id) \/ Named(id) => id \in DOMAIN seenAt
            BY <2>1 DEF TablesInv, TableInv
        <2>3. NearbyIds \subseteq Ids /\ \A id \in NearbyIds : Listed(id)
            <3>1. \A k \in DOMAIN nearby : nearby[k] \in Device
                BY DEF TablesInv, DiscoveryTypeOK
            <3> QED BY <3>1 DEF NearbyIds, Listed, Device
        <2>4. \A n \in DOMAIN fullnames : fullnames[n] \in Ids /\ Named(fullnames[n])
            BY DEF Named, TablesInv, DiscoveryTypeOK
        <2> QED BY <2>2, <2>3, <2>4
    <1> QED BY <1>1, TablesInit, TablesStep, PTL DEF DiscoverySpec
=============================================================================
