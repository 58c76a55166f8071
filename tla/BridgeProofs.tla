----------------------------- MODULE BridgeProofs -----------------------------
(***************************************************************************)
(* Proofs about the local bridge.                                          *)
(*                                                                         *)
(* Its clients: a revocation that was reported is not undone, and a code   *)
(* grants what was asked behind it (GrantsInv).                            *)
(*                                                                         *)
(* Its requests: what is executed, recorded and told of each, for any      *)
(* number of requests, connections and commands (BridgeInv).               *)
(***************************************************************************)
EXTENDS LocalBridge, BridgeClients, SubsequencesProofs

-----------------------------------------------------------------------------
(* The grants of the clients.                                               *)


\* The request that waits is the one its code was drawn for.
CodeIsPendings ==
    pending # NoPending =>
        /\ pending.code \in DOMAIN codes
        /\ codes[pending.code].client = pending.client
        /\ codes[pending.code].scopes = pending.scopes

GrantsInv == GrantsTypeOK /\ RevokedStaysRevoked /\ CodeIsPendings

-----------------------------------------------------------------------------
(* Who holds what.                                                          *)

\* A scope is held by an active record that has it (local_bridge_client_has_scope).
LEMMA HeldByRecord ==
    ASSUME NEW list, NEW c, NEW s
    PROVE  s \in HeldScopes(list, c) <=>
             \E r \in list : r.until >= now /\ r.client = c /\ s \in r.scopes
    BY DEF HeldScopes, Active

\* What is held under a list is held under every list that has its records.
LEMMA HeldGrows ==
    ASSUME NEW list, NEW more, NEW c, NEW s, list \subseteq more, s \in HeldScopes(list, c)
    PROVE  s \in HeldScopes(more, c)
    BY HeldByRecord

\* Without a scope of a client, the list is well formed, holds nothing new, and does not hold
\* that scope (revoke_local_bridge_authorization_at).
LEMMA WithoutHolds ==
    ASSUME NEW list \in SUBSET Record, NEW c, NEW s
    PROVE  /\ Without(list, c, s) \subseteq Record
           /\ \A d, t : t \in HeldScopes(Without(list, c, s), d) => t \in HeldScopes(list, d)
           /\ s \notin HeldScopes(Without(list, c, s), c)
    <1>1. ASSUME NEW r \in Without(list, c, s)
          PROVE  \E x \in list : /\ r.client = x.client /\ r.until = x.until
                                 /\ r.scopes \subseteq x.scopes
                                 /\ r.client = c => s \notin r.scopes
                                 /\ r \in Record
        <2>1. PICK x \in list :
                 r = IF x.client = c THEN [x EXCEPT !.scopes = @ \ {s}] ELSE x
            BY DEF Without
        <2>2. r.scopes # {}
            BY DEF Without
        <2>3. x \in Record
            OBVIOUS
        <2>4. CASE x.client = c
            BY <2>1, <2>2, <2>3, <2>4 DEF Record
        <2>5. CASE x.client # c
            BY <2>1, <2>3, <2>5
        <2> QED BY <2>4, <2>5
    <1>2. Without(list, c, s) \subseteq Record
        BY <1>1
    <1>3. ASSUME NEW d, NEW t, t \in HeldScopes(Without(list, c, s), d) PROVE t \in HeldScopes(list, d)
        <2>1. PICK r \in Without(list, c, s) : r.until >= now /\ r.client = d /\ t \in r.scopes
            BY <1>3, HeldByRecord
        <2> QED BY <2>1, <1>1, HeldByRecord
    <1>4. s \notin HeldScopes(Without(list, c, s), c)
        BY <1>1, HeldByRecord
    <1> QED BY <1>2, <1>3, <1>4

-----------------------------------------------------------------------------
(* The invariant.                                                           *)

LEMMA GrantsInit == ClientsInit => GrantsInv
    <1> SUFFICES ASSUME ClientsInit PROVE GrantsInv
        OBVIOUS
    <1>1. bound.granted \subseteq Record
        BY BoundsAssumption DEF ClientsInit
    <1>2. GrantsTypeOK
        BY <1>1 DEF ClientsInit, GrantsTypeOK
    <1> QED BY <1>2 DEF ClientsInit, GrantsInv, RevokedStaysRevoked, CodeIsPendings

\* A revocation stays as long as what is held, in memory and in the file, is held already.
LEMMA HeldShrinks ==
    ASSUME RevokedStaysRevoked, revoked' \ overwritten' \subseteq revoked \ overwritten,
           \A c, s : s \in HeldScopes(authorizations, c)' \cup HeldScopes(file, c)'
                       => s \in HeldScopes(authorizations, c) \cup HeldScopes(file, c)
    PROVE  RevokedStaysRevoked'
    BY DEF RevokedStaysRevoked

LEMMA GrantsStep == GrantsInv /\ [ClientsNext]_clientVars => GrantsInv'
    <1> SUFFICES ASSUME GrantsInv, [ClientsNext]_clientVars PROVE GrantsInv'
        OBVIOUS
    <1> USE DEF GrantsInv
    <1>1. ASSUME NEW ask \in bound.asks, RequestAuthorization(ask[1], ask[2]) PROVE GrantsInv'
        <2>1. ask \in Clients \X (SUBSET Scopes \ {{}})
            BY <1>1, BoundsAssumption DEF GrantsTypeOK
        <2> DEFINE new == [client |-> ask[1], scopes |-> ask[2]]
        <2>2. codes' = Append(codes, new) /\ pending'.code = Len(codes) + 1
              /\ pending'.client = ask[1] /\ pending'.scopes = ask[2]
            BY <1>1 DEF RequestAuthorization, NewCode
        <2>3. GrantsTypeOK'
            BY <1>1, <2>1, BoundsAssumption DEF RequestAuthorization, NewCode, saved, GrantsTypeOK
        <2>4. CodeIsPendings'
            BY <2>1, <2>2 DEF CodeIsPendings, GrantsTypeOK
        <2>5. RevokedStaysRevoked'
            BY <1>1 DEF RequestAuthorization, saved, RevokedStaysRevoked, HeldScopes, Active
        <2> QED BY <2>3, <2>4, <2>5
    <1>2. ASSUME NEW code \in DOMAIN codes, Confirm(code) PROVE GrantsInv'
        <2> DEFINE grant == [client |-> pending.client, scopes |-> pending.scopes,
                             until |-> pending.until]
        <2>1. /\ authorizations' = authorizations \cup {grant}
              /\ revoked' = revoked \ ({grant.client} \X grant.scopes)
              /\ overwritten' = overwritten \ ({grant.client} \X grant.scopes)
              /\ file' = file /\ form' = form /\ bound' = bound /\ now' = now /\ pending' = NoPending
              /\ saving' = saving \cup {[code |-> code, stage |-> "granted"]} /\ codes' = codes
            BY <1>2 DEF Confirm, saved
        <2>2. grant \in Record
            BY <1>2 DEF Confirm, MayConfirm, GrantsTypeOK, Record
        <2>3. GrantsTypeOK'
            BY <2>1, <2>2 DEF GrantsTypeOK
        <2>4. ASSUME NEW x \in revoked' \ overwritten'
              PROVE  x[2] \notin HeldScopes(authorizations, x[1])' \cup HeldScopes(file, x[1])'
            <3>1. x \in revoked \ overwritten /\ x \notin {grant.client} \X grant.scopes
                BY <2>1
            <3>2. x = <<x[1], x[2]>>
                BY <3>1 DEF GrantsTypeOK
            <3>3. ~(x[1] = grant.client /\ x[2] \in grant.scopes)
                BY <3>1, <3>2
            <3>4. x[2] \notin HeldScopes(authorizations, x[1]) \cup HeldScopes(file, x[1])
                BY <3>1 DEF RevokedStaysRevoked
            <3>5. HeldScopes(authorizations, x[1])' = HeldScopes(authorizations', x[1])
                BY <2>1 DEF HeldScopes, Active
            <3>6. x[2] \notin HeldScopes(authorizations', x[1])
                BY <2>1, <3>3, <3>4, HeldByRecord
            <3>7. HeldScopes(file, x[1])' = HeldScopes(file, x[1])
                BY <2>1 DEF HeldScopes, Active
            <3> QED BY <3>4, <3>5, <3>6, <3>7
        <2> QED BY <2>1, <2>3, <2>4 DEF RevokedStaysRevoked, CodeIsPendings
    <1>3. ASSUME NEW x \in saving, ConfirmClones(x) PROVE GrantsInv'
        <2>1. x.code \in Nat
            BY DEF GrantsTypeOK
        <2>2. saving' \subseteq saving \cup {[code |-> x.code, stage |-> "cloned", list |-> authorizations]}
            BY <1>3 DEF ConfirmClones
        <2>3. GrantsTypeOK'
            BY <1>3, <2>1, <2>2 DEF ConfirmClones, saved, GrantsTypeOK
        <2> QED BY <1>3, <2>3
                DEF ConfirmClones, saved, RevokedStaysRevoked, CodeIsPendings, HeldScopes, Active
    <1>4. ASSUME NEW x \in saving, ConfirmSaves(x) PROVE GrantsInv'
        <2>1. x.list \subseteq Record
            BY <1>4 DEF ConfirmSaves, GrantsTypeOK
        <2>2. file' \subseteq Record /\ form' \in {"list", "cut"}
            BY <1>4, <2>1 DEF ConfirmSaves, Save, SaveFails, saved, GrantsTypeOK, Active
        <2>3. saving' \subseteq saving /\ UNCHANGED <<bound, now, pending, authorizations, revoked, codes>>
            BY <1>4 DEF ConfirmSaves
        <2>4. overwritten' \subseteq Clients \X Scopes
            BY <1>4 DEF ConfirmSaves, GrantsTypeOK
        <2>5. GrantsTypeOK'
            BY <2>2, <2>3, <2>4 DEF GrantsTypeOK
        <2>6. CodeIsPendings'
            BY <2>3 DEF CodeIsPendings
        <2>7. CASE SaveFails /\ UNCHANGED overwritten
            <3>1. \A c : HeldScopes(file, c)' \subseteq HeldScopes(file, c)
                BY <2>3, <2>7 DEF SaveFails, saved, HeldScopes, Active
            <3>2. \A c : HeldScopes(authorizations, c)' = HeldScopes(authorizations, c)
                BY <2>3 DEF HeldScopes, Active
            <3> QED BY <2>3, <2>5, <2>6, <2>7, <3>1, <3>2 DEF RevokedStaysRevoked
        <2>8. CASE /\ Save(x.list)
                   /\ overwritten' = overwritten \cup
                         {y \in revoked : y[2] \in HeldScopes(x.list, y[1])}
            <3>1. ASSUME NEW y \in revoked' \ overwritten'
                  PROVE  y[2] \notin HeldScopes(authorizations, y[1])' \cup HeldScopes(file, y[1])'
                <4>1. y \in revoked \ overwritten /\ y[2] \notin HeldScopes(x.list, y[1])
                    BY <2>3, <2>8
                <4>2. HeldScopes(file, y[1])' \subseteq HeldScopes(x.list, y[1])
                    BY <2>3, <2>8 DEF Save, HeldScopes, Active
                <4>3. HeldScopes(authorizations, y[1])' = HeldScopes(authorizations, y[1])
                    BY <2>3 DEF HeldScopes, Active
                <4> QED BY <4>1, <4>2, <4>3 DEF RevokedStaysRevoked
            <3> QED BY <2>5, <2>6, <3>1 DEF RevokedStaysRevoked
        <2> QED BY <1>4, <2>7, <2>8 DEF ConfirmSaves
    <1>5. ASSUME NEW c \in Clients, NEW s \in Scopes, Revoke(c, s) PROVE GrantsInv'
        <2>1. /\ authorizations' = Without(authorizations, c, s)
              /\ bound' = bound /\ now' = now /\ pending' = pending /\ saving' = saving /\ codes' = codes
            BY <1>5 DEF Revoke
        <2>2. authorizations' \subseteq Record
            BY <2>1, WithoutHolds DEF GrantsTypeOK
        <2>3. ASSUME NEW d, NEW t, t \in HeldScopes(authorizations, d)' PROVE t \in HeldScopes(authorizations, d)
            <3>1. t \in HeldScopes(Without(authorizations, c, s), d)
                BY <2>1, <2>3 DEF HeldScopes, Active
            <3> QED BY <3>1, WithoutHolds DEF GrantsTypeOK
        <2>4. CodeIsPendings'
            BY <2>1 DEF CodeIsPendings
        <2>5. CASE SaveFails /\ UNCHANGED <<revoked, overwritten>>
            <3>1. GrantsTypeOK'
                BY <2>1, <2>2, <2>5 DEF SaveFails, saved, GrantsTypeOK
            <3>2. \A d : HeldScopes(file, d)' \subseteq HeldScopes(file, d)
                BY <2>1, <2>5 DEF SaveFails, saved, HeldScopes, Active
            <3> QED BY <2>3, <2>4, <2>5, <3>1, <3>2 DEF RevokedStaysRevoked
        <2>6. CASE /\ Save(authorizations')
                   /\ revoked' = revoked \cup {<<c, s>>}
                   /\ overwritten' = overwritten \ {<<c, s>>}
            <3>1. GrantsTypeOK'
                BY <2>1, <2>2, <2>6 DEF Save, GrantsTypeOK, Active
            <3>2. \A d : HeldScopes(file, d)' \subseteq HeldScopes(authorizations, d)'
                BY <2>1, <2>6 DEF Save, HeldScopes, Active
            <3>3. s \notin HeldScopes(authorizations, c)'
                <4>1. ASSUME s \in HeldScopes(authorizations, c)'
                      PROVE  s \in HeldScopes(Without(authorizations, c, s), c)
                    BY <2>1, <4>1 DEF HeldScopes, Active
                <4> QED BY <4>1, WithoutHolds DEF GrantsTypeOK
            <3>4. ASSUME NEW x \in revoked' \ overwritten'
                  PROVE  x[2] \notin HeldScopes(authorizations, x[1])' \cup HeldScopes(file, x[1])'
                <4>1. CASE x = <<c, s>>
                    BY <3>2, <3>3, <4>1
                <4>2. CASE x \in revoked \ overwritten
                    BY <2>3, <3>2, <4>2 DEF RevokedStaysRevoked
                <4> QED BY <2>6, <4>1, <4>2
            <3> QED BY <2>4, <3>1, <3>4 DEF RevokedStaysRevoked
        <2> QED BY <1>5, <2>5, <2>6 DEF Revoke
    <1>6. ASSUME Prune PROVE GrantsInv'
        <2>1. GrantsTypeOK' /\ CodeIsPendings'
            BY <1>6 DEF Prune, Save, SaveFails, saved, GrantsTypeOK, CodeIsPendings, Active
        <2>2. \A c : HeldScopes(authorizations, c)' \subseteq HeldScopes(authorizations, c)
            BY <1>6 DEF Prune, HeldScopes, Active
        <2>3. \A c : HeldScopes(file, c)' \subseteq HeldScopes(authorizations, c) \cup HeldScopes(file, c)
            BY <1>6 DEF Prune, Save, SaveFails, saved, HeldScopes, Active
        <2>4. revoked' = revoked /\ overwritten' = overwritten
            BY <1>6 DEF Prune
        <2> QED BY <2>1, <2>2, <2>3, <2>4 DEF RevokedStaysRevoked
    <1>7. ASSUME Tick PROVE GrantsInv'
        <2>1. GrantsTypeOK' /\ CodeIsPendings'
            BY <1>7 DEF Tick, GrantsTypeOK, CodeIsPendings, grants, saved
        <2>2. ASSUME NEW list \in SUBSET Record, NEW c, NEW s, list' = list, s \in HeldScopes(list, c)'
              PROVE  s \in HeldScopes(list, c)
            <3>1. PICK r \in list : r.until >= now' /\ r.client = c /\ s \in r.scopes
                BY <2>2 DEF HeldScopes, Active
            <3>2. now' = now + 1 /\ now \in Nat /\ r.until \in Nat
                BY <1>7 DEF Tick, GrantsTypeOK, Record
            <3>3. r.until >= now
                BY <3>1, <3>2
            <3> QED BY <3>1, <3>3, HeldByRecord
        <2>3. /\ authorizations' = authorizations /\ file' = file
              /\ revoked' = revoked /\ overwritten' = overwritten
            BY <1>7 DEF Tick, grants, saved
        <2>4. \A c, s : s \in HeldScopes(authorizations, c)' => s \in HeldScopes(authorizations, c)
            BY <2>2, <2>3 DEF GrantsTypeOK
        <2>5. \A c, s : s \in HeldScopes(file, c)' => s \in HeldScopes(file, c)
            BY <2>2, <2>3 DEF GrantsTypeOK
        <2> QED BY <2>1, <2>3, <2>4, <2>5 DEF RevokedStaysRevoked
    <1>8. ASSUME Restart PROVE GrantsInv'
        <2>1. GrantsTypeOK' /\ CodeIsPendings'
            BY <1>8 DEF Restart, saved, GrantsTypeOK, CodeIsPendings, Active
        <2>2. \A c : HeldScopes(authorizations, c)' \subseteq HeldScopes(file, c)
            BY <1>8 DEF Restart, HeldScopes, Active
        <2>3. /\ file' = file /\ revoked' = revoked /\ overwritten' = overwritten
              /\ \A c : HeldScopes(file, c)' = HeldScopes(file, c)
            BY <1>8 DEF Restart, saved, HeldScopes, Active
        <2> QED BY <2>1, <2>2, <2>3 DEF RevokedStaysRevoked
    <1>9. ASSUME UNCHANGED <<bound, now, grants>> PROVE GrantsInv'
        BY <1>9 DEF grants, saved, GrantsTypeOK, RevokedStaysRevoked, CodeIsPendings, HeldScopes, Active
    <1>10. ASSUME NEW s \in Scopes, Push(s) PROVE UNCHANGED <<bound, now, grants>>
        BY <1>10 DEF Push
    <1>11. ASSUME NEW c \in Clients, PollStarts(c) \/ PollEnds(c) \/ PollLost(c)
           PROVE  UNCHANGED <<bound, now, grants>>
        BY <1>11 DEF PollStarts, PollEnds, PollPages, PollWaits, PollWakes, PollLost
    <1>12. CASE UNCHANGED clientVars
        BY <1>9, <1>12 DEF clientVars
    <1> QED
        BY <1>1, <1>2, <1>3, <1>4, <1>5, <1>6, <1>7, <1>8, <1>9, <1>10, <1>11, <1>12 DEF ClientsNext

-----------------------------------------------------------------------------

\* The lists of grants are well formed, in memory, in the file and while a confirmation is saved.
THEOREM GrantsTypeCorrect == ClientsSpec => []GrantsTypeOK
    <1>1. GrantsInv => GrantsTypeOK
        BY DEF GrantsInv
    <1> QED BY <1>1, GrantsInit, GrantsStep, PTL DEF ClientsSpec

\* A scope whose revocation was reported is not held until it is granted again, neither now nor
\* after a restart; for any number of clients, scopes, grants, restarts and saves that fail.
THEOREM RevocationHolds == ClientsSpec => []RevokedStaysRevoked
    <1>1. GrantsInv => RevokedStaysRevoked
        BY DEF GrantsInv
    <1> QED BY <1>1, GrantsInit, GrantsStep, PTL DEF ClientsSpec

\* The code that the user types grants what was asked by the client that showed it.
THEOREM CodeGrantsItsRequest == ClientsSpec => GrantFollowsCode
    <1> DEFINE Follows ==
            \A code \in DOMAIN codes : Confirm(code) =>
                \A r \in authorizations' \ authorizations :
                    r.client = codes[code].client /\ r.scopes = codes[code].scopes
    <1>1. GrantsInv => Follows
        BY DEF GrantsInv, CodeIsPendings, Confirm, MayConfirm
    <1>2. GrantsInv /\ [ClientsNext]_clientVars => [Follows]_clientVars
        BY <1>1
    <1> QED BY <1>2, GrantsInit, GrantsStep, PTL DEF ClientsSpec, GrantFollowsCode

-----------------------------------------------------------------------------
(* The requests of the local bridge: queue and results.                     *)

\* Where a request may be: in the queue, with an executor, in the results.
Unqueued(r) == \A i \in DOMAIN queue : queue[i].req # r

QueuedOnce(r) ==
    /\ \E i \in DOMAIN queue : queue[i].req = r
    /\ \A i, j \in DOMAIN queue : queue[i].req = r /\ queue[j].req = r => i = j

HeldBy(e, r) == Holds(e) /\ Held(e).req = r
Unheld(r)    == \A e \in Executors : ~HeldBy(e, r)
OnlyHeldBy(e, r) == HeldBy(e, r) /\ \A x \in Executors : HeldBy(x, r) => x = e

Recorded(r) == \E i \in DOMAIN results : results[i].req = r

\* The types of the variables.
ExecStates == {Idle} \cup [at : {"taken", "running"}, action : Action, mode : Modes]

HandlerStates ==
    {Free} \cup [at : {"queue"}, req : Requests, payload : Payloads]
           \cup [at : {"results"}, req : Requests, payload : Payloads, results : Seq(Result)]

BridgeTypes ==
    /\ queue \in Seq(Action)
    /\ results \in Seq(Result) /\ Len(results) <= ResultLimit
    /\ handler \in [Handlers -> HandlerStates]
    /\ exec \in [Executors -> ExecStates]
    /\ told \in [Requests -> Seq(Status)]
    /\ executed \in [Requests -> Nat]
    /\ came \in [Requests -> SUBSET Payloads]

\* A result that is pushed is in the results, alone of its request; of the others none comes, and
\* those that go are noted as evicted.
LEMMA PushedRecord ==
    ASSUME results \in Seq(Result), NEW res \in Result, PushRecord(res)
    PROVE  /\ results' \in Seq(Result) /\ Len(results') <= ResultLimit
           /\ \E i \in DOMAIN results' : results'[i] = res
           /\ \A i \in DOMAIN results' :
                 \/ results'[i] = res
                 \/ \E j \in DOMAIN results : results'[i] = results[j] /\ results[j].req # res.req
           /\ evicted \subseteq evicted'
           /\ \A j \in DOMAIN results :
                 results[j].req \in evicted' \/ \E i \in DOMAIN results' : results'[i].req = results[j].req
    <1> DEFINE others == {i \in DOMAIN results : results[i].req # res.req}
               kept == Keep(results, others)
               all == Append(kept, res)
    <1>1. /\ kept \in Seq(Result)
          /\ \A n \in DOMAIN kept : \E i \in others : kept[n] = results[i]
        BY KeepElements
    <1>2. results' = LastOf(all, ResultLimit)
        BY DEF PushRecord
    <1> HIDE DEF kept
    <1>3. /\ all \in Seq(Result) /\ all # <<>> /\ Len(all) = Len(kept) + 1 /\ all[Len(all)] = res
          /\ \A n \in DOMAIN all : n = Len(all) \/ (n \in DOMAIN kept /\ all[n] = kept[n])
        BY <1>1
    <1> HIDE DEF all
    <1>4. ResultLimit \in Nat \ {0}
        BY LimitsAssumption
    <1>5. /\ results' \in Seq(Result) /\ Len(results') <= ResultLimit
          /\ \A i \in DOMAIN results' : \E n \in DOMAIN all : results'[i] = all[n]
          /\ \E i \in DOMAIN results' : results'[i] = res
        <2>1. /\ results' \in Seq(Result) /\ Len(results') <= ResultLimit
              /\ \A i \in DOMAIN results' : \E n \in DOMAIN all : results'[i] = all[n]
              /\ Len(results') \in DOMAIN results' /\ results'[Len(results')] = all[Len(all)]
            <3> DEFINE last == LastOf(all, ResultLimit)
            <3>1. /\ last \in Seq(Result) /\ Len(last) <= ResultLimit
                  /\ \A i \in DOMAIN last : \E n \in DOMAIN all : last[i] = all[n]
                  /\ Len(last) \in DOMAIN last /\ last[Len(last)] = all[Len(all)]
                BY <1>3, <1>4, LastElements
            <3> HIDE DEF last
            <3>2. results' = last
                BY <1>2 DEF last
            <3> QED BY <3>1, <3>2
        <2> QED BY <1>3, <2>1
    <1>6. ASSUME NEW i \in DOMAIN results'
          PROVE  \/ results'[i] = res
                 \/ \E j \in DOMAIN results : results'[i] = results[j] /\ results[j].req # res.req
        BY <1>1, <1>3, <1>5
    <1>7. /\ evicted \subseteq evicted'
          /\ \A j \in DOMAIN results :
                 results[j].req \in evicted' \/ \E i \in DOMAIN results' : results'[i].req = results[j].req
        BY DEF PushRecord
    <1> QED BY <1>5, <1>6, <1>7

\* The same, by request.
LEMMA PushedKeeps ==
    ASSUME results \in Seq(Result), NEW res \in Result, PushRecord(res)
    PROVE  /\ Recorded(res.req)'
           /\ evicted \subseteq evicted'
           /\ \A r : r # res.req => (Recorded(r)' => Recorded(r))
           /\ \A r : Recorded(r) /\ r \notin evicted' => Recorded(r)'
    BY PushedRecord DEF Recorded

\* One element of the queue was taken out, at position n.
TakenOut(n) ==
    /\ n \in DOMAIN queue
    /\ queue' \in Seq(Action) /\ Len(queue') = Len(queue) - 1
    /\ \A i \in DOMAIN queue' : queue'[i] = IF i < n THEN queue[i] ELSE queue[i + 1]

LEMMA TailTakesOut ==
    ASSUME queue \in Seq(Action), queue # <<>>, queue' = Tail(queue)
    PROVE  TakenOut(1) /\ queue[1] = Head(queue)
    BY DEF TakenOut

LEMMA RemoveTakesOut ==
    ASSUME queue \in Seq(Action), NEW n \in DOMAIN queue, queue' = RemoveAt(queue, n)
    PROVE  TakenOut(n)
    <1>1. n \in 1..Len(queue) /\ Len(queue) \in Nat
        OBVIOUS
    <1> DEFINE a == SubSeq(queue, 1, n - 1)
               b == SubSeq(queue, n + 1, Len(queue))
    <1>2. /\ a \in Seq(Action) /\ Len(a) = n - 1
          /\ \A i \in 1..(n - 1) : a[i] = queue[i]
        BY <1>1
    <1>3. /\ b \in Seq(Action) /\ Len(b) = Len(queue) - n
          /\ \A i \in 1..(Len(queue) - n) : b[i] = queue[i + n]
        BY <1>1
    <1>4. queue' = a \o b
        BY DEF RemoveAt
    <1> HIDE DEF a, b
    <1>5. /\ queue' \in Seq(Action) /\ Len(queue') = Len(queue) - 1
          /\ \A i \in 1..(n - 1) : queue'[i] = a[i]
          /\ \A i \in n..(Len(queue) - 1) : queue'[i] = b[i - (n - 1)]
        BY <1>1, <1>2, <1>3, <1>4
    <1>6. \A i \in n..(Len(queue) - 1) : b[i - (n - 1)] = queue[i + 1]
        <2>1. TAKE i \in n..(Len(queue) - 1)
        <2>2. i - (n - 1) \in 1..(Len(queue) - n) /\ (i - (n - 1)) + n = i + 1
            BY <1>1
        <2> QED BY <1>3, <2>2
    <1>7. \A i \in DOMAIN queue' : i \in 1..(n - 1) \/ i \in n..(Len(queue) - 1)
        BY <1>1, <1>5
    <1> QED BY <1>1, <1>2, <1>5, <1>6, <1>7 DEF TakenOut

\* Then its request has one place less, and the others have theirs.
LEMMA TakenOutLeaves ==
    ASSUME queue \in Seq(Action), NEW n, TakenOut(n)
    PROVE  /\ \A r : r # queue[n].req => /\ Unqueued(r)' <=> Unqueued(r)
                                         /\ QueuedOnce(r) => QueuedOnce(r)'
           /\ \A r : r = queue[n].req /\ QueuedOnce(r) => Unqueued(r)'
           /\ \A i \in DOMAIN queue' : \E j \in DOMAIN queue : queue'[i] = queue[j]
    <1> DEFINE from == [i \in DOMAIN queue' |-> IF i < n THEN i ELSE i + 1]
    <1>1. /\ n \in 1..Len(queue) /\ Len(queue) \in Nat /\ Len(queue') = Len(queue) - 1
          /\ DOMAIN queue' = 1..(Len(queue) - 1) /\ DOMAIN queue = 1..Len(queue)
        BY DEF TakenOut
    <1>2. /\ \A i \in DOMAIN queue' : /\ from[i] \in DOMAIN queue /\ from[i] # n
                                      /\ queue'[i] = queue[from[i]]
          /\ \A i, k \in DOMAIN queue' : from[i] = from[k] => i = k
        BY <1>1 DEF TakenOut
    <1>3. ASSUME NEW j \in DOMAIN queue, j # n
          PROVE  \E i \in DOMAIN queue' : from[i] = j
        <2>1. CASE j < n
            <3>1. j \in DOMAIN queue' /\ from[j] = j
                BY <1>1, <2>1
            <3> QED BY <3>1
        <2>2. CASE j > n
            <3>1. j - 1 \in DOMAIN queue' /\ from[j - 1] = j
                BY <1>1, <2>2
            <3> QED BY <3>1
        <2> QED BY <1>1, <1>3, <2>1, <2>2
    <1>4. n \in DOMAIN queue
        BY <1>1
    <1> HIDE DEF from
    <1>5. \A r : r # queue[n].req => (Unqueued(r)' <=> Unqueued(r))
        BY <1>2, <1>3, <1>4 DEF Unqueued
    <1>6. \A r : r # queue[n].req => (QueuedOnce(r) => QueuedOnce(r)')
        BY <1>2, <1>3, <1>4 DEF QueuedOnce
    <1>7. \A r : r = queue[n].req /\ QueuedOnce(r) => Unqueued(r)'
        BY <1>2, <1>4 DEF QueuedOnce, Unqueued
    <1> QED BY <1>2, <1>5, <1>6, <1>7

\* An action that goes back to the front has one place more.
LEMMA PutInFront ==
    ASSUME queue \in Seq(Action), NEW a \in Action, queue' = Cons(a, queue)
    PROVE  /\ queue' \in Seq(Action) /\ Len(queue') = Len(queue) + 1
           /\ \A r : r # a.req => /\ Unqueued(r)' <=> Unqueued(r)
                                  /\ QueuedOnce(r) => QueuedOnce(r)'
           /\ Unqueued(a.req) => QueuedOnce(a.req)'
           /\ \E i \in DOMAIN queue' : queue'[i] = a
           /\ \A i \in DOMAIN queue' : queue'[i] = a \/ \E j \in DOMAIN queue : queue'[i] = queue[j]
    <1>1. /\ queue' \in Seq(Action) /\ Len(queue') = Len(queue) + 1
          /\ DOMAIN queue = 1..Len(queue) /\ Len(queue) \in Nat /\ DOMAIN queue' = 1..(Len(queue) + 1)
          /\ queue'[1] = a /\ 1 \in DOMAIN queue'
          /\ \A i \in DOMAIN queue : i + 1 \in DOMAIN queue' /\ queue'[i + 1] = queue[i]
        BY DEF Cons
    <1>2. \A i \in DOMAIN queue' : i = 1 \/ (i - 1 \in DOMAIN queue /\ queue'[i] = queue[i - 1])
        BY <1>1
    <1>3. \A r : r # a.req => (Unqueued(r)' <=> Unqueued(r))
        BY <1>1, <1>2 DEF Unqueued
    <1>4. \A r : r # a.req => (QueuedOnce(r) => QueuedOnce(r)')
        <2> SUFFICES ASSUME NEW r, r # a.req, QueuedOnce(r) PROVE QueuedOnce(r)'
            OBVIOUS
        <2>1. \E i \in DOMAIN queue' : queue'[i].req = r
            BY <1>1 DEF QueuedOnce
        <2>2. ASSUME NEW i \in DOMAIN queue', NEW j \in DOMAIN queue',
                     queue'[i].req = r, queue'[j].req = r
              PROVE  i = j
            <3>1. i # 1 /\ j # 1
                BY <1>1, <2>2
            <3>2. i - 1 = j - 1
                BY <1>2, <2>2, <3>1 DEF QueuedOnce
            <3> QED BY <1>1, <3>2
        <2> QED BY <2>1, <2>2 DEF QueuedOnce
    <1>5. Unqueued(a.req) => QueuedOnce(a.req)'
        BY <1>1, <1>2 DEF Unqueued, QueuedOnce
    <1> QED BY <1>1, <1>2, <1>3, <1>4, <1>5

\* A new action is last in the queue; of the others none comes, and what goes is noted.
Enqueued(a) ==
    LET others == {i \in DOMAIN queue : ~SameAction(queue[i], a.req, a.payload)}
        all == Append(Keep(queue, others), a)
    IN /\ queue' = LastOf(all, QueueLimit)
       /\ abandoned' = (abandoned \cup {all[i].req : i \in 1..(Len(all) - Len(queue'))}) \ {a.req}

LEMMA EnqueuedLast ==
    ASSUME queue \in Seq(Action), NEW a \in Action, Enqueued(a)
    PROVE  /\ queue' \in Seq(Action) /\ Len(queue') <= QueueLimit
           /\ \E i \in DOMAIN queue' : queue'[i] = a
           /\ \A i \in DOMAIN queue' : queue'[i] = a \/ \E j \in DOMAIN queue : queue'[i] = queue[j]
           /\ \A r : r # a.req => /\ Unqueued(r) => Unqueued(r)'
                                  /\ QueuedOnce(r) => QueuedOnce(r)' \/ r \in abandoned'
                                  /\ ~Unqueued(r) => ~Unqueued(r)' \/ r \in abandoned'
                                  /\ Unqueued(r) /\ r \in abandoned' => r \in abandoned
                                  /\ r \in abandoned => r \in abandoned'
           /\ Unqueued(a.req) => QueuedOnce(a.req)'
    <1> DEFINE others == {i \in DOMAIN queue : ~SameAction(queue[i], a.req, a.payload)}
               kept == Keep(queue, others)
               all == Append(kept, a)
               d == Len(all) - Len(queue')
    <1>1. /\ kept \in Seq(Action)
          /\ \A n \in DOMAIN kept : \E i \in others : kept[n] = queue[i]
          /\ \A i \in others : \E n \in DOMAIN kept : kept[n] = queue[i]
          /\ \A P : (\A i, j \in others : queue[i] \in P /\ queue[j] \in P => i = j) =>
                    \A n, k \in DOMAIN kept : kept[n] \in P /\ kept[k] \in P => n = k
        BY KeepElements
    <1>2. /\ queue' = LastOf(all, QueueLimit)
          /\ abandoned' = (abandoned \cup {all[i].req : i \in 1..d}) \ {a.req}
        BY DEF Enqueued
    <1>3. \A i \in DOMAIN queue : queue[i].req # a.req => i \in others
        BY DEF SameAction, SameRequest
    <1>4. \A i \in others : i \in DOMAIN queue
        OBVIOUS
    <1> HIDE DEF kept, others
    <1>5. /\ all \in Seq(Action) /\ all # <<>> /\ Len(all) = Len(kept) + 1 /\ all[Len(all)] = a
          /\ Len(all) \in Nat /\ DOMAIN all = 1..Len(all) /\ DOMAIN kept = 1..(Len(all) - 1)
          /\ \A n \in DOMAIN kept : n \in DOMAIN all /\ all[n] = kept[n]
        BY <1>1
    <1>5a. \A n \in DOMAIN all : n = Len(all) \/ n \in DOMAIN kept
        BY <1>5
    <1> HIDE DEF all
    <1>6. QueueLimit \in Nat \ {0}
        BY LimitsAssumption
    <1>7. /\ queue' \in Seq(Action) /\ Len(queue') <= QueueLimit /\ Len(queue') <= Len(all)
          /\ \A i \in DOMAIN queue' : i + d \in DOMAIN all /\ queue'[i] = all[i + d]
          /\ Len(queue') \in DOMAIN queue' /\ queue'[Len(queue')] = a
        BY <1>2, <1>5, <1>6, LastElements
    <1>8. d \in Nat /\ \A n \in DOMAIN all : n > d => n - d \in DOMAIN queue'
        BY <1>5, <1>7
    <1>9. \A n \in DOMAIN all : n <= d => all[n].req \in {all[i].req : i \in 1..d}
        BY <1>5, <1>8
    <1>10. \A n \in DOMAIN all : n > d => queue'[n - d] = all[n]
        <2>1. TAKE n \in DOMAIN all
        <2>2. ASSUME n > d PROVE queue'[n - d] = all[n]
            <3>1. n - d \in DOMAIN queue' /\ (n - d) + d = n
                BY <1>5, <1>8, <2>2
            <3> QED BY <1>7, <3>1
        <2> QED BY <2>2
    <1>11. \A i \in DOMAIN queue' : queue'[i] = a \/ \E j \in DOMAIN queue : queue'[i] = queue[j]
        <2>1. ASSUME NEW n \in DOMAIN all
              PROVE  all[n] = a \/ \E j \in DOMAIN queue : all[n] = queue[j]
            BY <1>1, <1>4, <1>5, <1>5a
        <2> QED BY <1>7, <2>1
    <1>12. ASSUME NEW r, r # a.req, ~Unqueued(r) PROVE ~Unqueued(r)' \/ r \in abandoned'
        <2>1. PICK j \in DOMAIN queue : queue[j].req = r
            BY <1>12 DEF Unqueued
        <2>2. PICK n \in DOMAIN kept : kept[n] = queue[j]
            BY <1>1, <1>3, <1>12, <2>1
        <2>3. n \in DOMAIN all /\ all[n].req = r
            BY <1>5, <2>1, <2>2
        <2>4. CASE n <= d
            BY <1>2, <1>9, <1>12, <2>3, <2>4
        <2>5. CASE n > d
            BY <1>8, <1>10, <2>3, <2>5 DEF Unqueued
        <2> QED BY <1>5, <1>8, <2>3, <2>4, <2>5
    <1>13. ASSUME NEW r, r # a.req, Unqueued(r) PROVE Unqueued(r)' /\ (r \in abandoned' => r \in abandoned)
        <2>1. \A n \in DOMAIN all : all[n].req # r
            BY <1>1, <1>4, <1>5, <1>5a, <1>13 DEF Unqueued
        <2>2. Unqueued(r)'
            BY <1>7, <2>1 DEF Unqueued
        <2>3. \A i \in 1..d : i \in DOMAIN all
            BY <1>5, <1>7
        <2> QED BY <1>2, <2>1, <2>2, <2>3
    <1>14. ASSUME NEW r, r # a.req, QueuedOnce(r) PROVE QueuedOnce(r)' \/ r \in abandoned'
        <2> DEFINE P == {x \in Action : x.req = r}
        <2>1. \A i, j \in others : queue[i] \in P /\ queue[j] \in P => i = j
            BY <1>4, <1>14 DEF QueuedOnce
        <2>2. \A n, k \in DOMAIN kept : kept[n] \in P /\ kept[k] \in P => n = k
            <3> HIDE DEF P
            <3> QED BY <1>1, <2>1
        <2>3. \A n, k \in DOMAIN kept : kept[n].req = r /\ kept[k].req = r => n = k
            BY <1>1, <2>2
        <2>4. ASSUME NEW i \in DOMAIN queue', NEW k \in DOMAIN queue', queue'[i].req = r, queue'[k].req = r
              PROVE  i = k
            <3>1. i + d \in DOMAIN kept /\ k + d \in DOMAIN kept
                BY <1>5, <1>5a, <1>7, <1>14, <2>4
            <3>2. i + d = k + d
                BY <1>5, <1>7, <2>3, <2>4, <3>1
            <3> QED BY <1>7, <1>8, <3>2
        <2>5. ~Unqueued(r)' \/ r \in abandoned'
            BY <1>12, <1>14 DEF QueuedOnce, Unqueued
        <2> QED BY <2>4, <2>5 DEF QueuedOnce, Unqueued
    <1>15. ASSUME Unqueued(a.req) PROVE QueuedOnce(a.req)'
        <2>1. \A n \in DOMAIN kept : kept[n].req # a.req
            BY <1>1, <1>4, <1>15 DEF Unqueued
        <2>2. ASSUME NEW i \in DOMAIN queue', queue'[i].req = a.req PROVE i + d = Len(all)
            BY <1>5, <1>5a, <1>7, <2>1, <2>2
        <2>3. ASSUME NEW i \in DOMAIN queue', NEW k \in DOMAIN queue',
                     queue'[i].req = a.req, queue'[k].req = a.req
              PROVE  i = k
            <3>1. i + d = k + d /\ i \in Nat /\ k \in Nat
                BY <1>7, <2>2, <2>3
            <3> QED BY <1>8, <3>1
        <2> QED BY <1>7, <2>3 DEF QueuedOnce
    <1>16. \A r : r # a.req /\ r \in abandoned => r \in abandoned'
        BY <1>2
    <1>17. \E i \in DOMAIN queue' : queue'[i] = a
        BY <1>7
    <1> QED BY <1>7, <1>11, <1>12, <1>13, <1>14, <1>15, <1>16, <1>17

-----------------------------------------------------------------------------
(* The requests of the local bridge: the life of a request.                 *)

\* Nothing happened to it yet.
Untouched(r) ==
    /\ Unqueued(r) /\ Unheld(r) /\ ~Recorded(r)
    /\ told[r] = <<>> /\ executed[r] = 0 /\ r \notin abandoned

Waiting(r) ==
    /\ QueuedOnce(r) /\ Unheld(r)
    /\ told[r] = <<"queued">> /\ executed[r] = 0

InWork(r) ==
    /\ Unqueued(r) /\ executed[r] = 0
    /\ \E e \in Executors :
          /\ OnlyHeldBy(e, r)
          /\ exec[e].at = "taken"   => told[r] = <<"queued">>
          /\ exec[e].at = "running" => told[r] = <<"queued", "running">> /\ ~Silent(e)

Over(r) ==
    /\ Unqueued(r) /\ Unheld(r) /\ executed[r] \in {0, 1}
    /\ \/ told[r] = <<"queued">>
       \/ \E t \in Terminal : told[r] \in {<<"queued", t>>, <<"queued", "running", t>>}

Life(r) == Untouched(r) \/ Waiting(r) \/ InWork(r) \/ Over(r)

Spoiled == overlapped \cup evicted \cup abandoned

\* A request has a result unless nothing happened to it, or its result was dropped at the limit.
KnownOrUntouched == \A r \in Requests \ evicted : Recorded(r) \/ Untouched(r)

\* Is the request in the results that this connection has copied?
Copied(h, r) == \E i \in DOMAIN handler[h].results : handler[h].results[i].req = r

Handles(h, r) == handler[h] # Free /\ handler[h].req = r

\* A connection that found nothing of a request will find it untouched when it queues it.
HandlersInv ==
    \A h \in Handlers, r \in Requests \ overlapped : Handles(h, r) =>
        /\ \A k \in Handlers : Handles(k, r) => k = h
        /\ r \notin evicted => Untouched(r) \/ (handler[h].at = "results" /\ Copied(h, r))

LifeInv == \A r \in Requests \ Spoiled : Life(r)

CoreInv == KnownOrUntouched /\ HandlersInv /\ LifeInv

\* What a step leaves to the requests that it is not about.
Aside(r) ==
    /\ Unqueued(r) => Unqueued(r)'
    /\ QueuedOnce(r) => QueuedOnce(r)' \/ r \in abandoned'
    /\ \A x \in Executors : /\ HeldBy(x, r)' <=> HeldBy(x, r)
                            /\ HeldBy(x, r) => exec'[x] = exec[x]
    /\ told'[r] = told[r] /\ executed'[r] = executed[r]
    /\ Recorded(r)' => Recorded(r)
    /\ Recorded(r) /\ r \notin evicted' => Recorded(r)'
    /\ Unqueued(r) /\ r \in abandoned' => r \in abandoned
    /\ r \in abandoned => r \in abandoned'

LEMMA AsideKeeps ==
    ASSUME NEW r \in Requests, Aside(r)
    PROVE  /\ Untouched(r) => Untouched(r)'
           /\ Life(r) /\ r \notin abandoned' => Life(r)'
    <1>1. Unheld(r) => Unheld(r)'
        BY DEF Aside, Unheld
    <1>2. Untouched(r) => Untouched(r)'
        BY <1>1 DEF Aside, Untouched
    <1>3. Waiting(r) /\ r \notin abandoned' => Waiting(r)'
        BY <1>1 DEF Aside, Waiting
    <1>4. Over(r) => Over(r)'
        BY <1>1 DEF Aside, Over
    <1>5. ASSUME InWork(r) PROVE InWork(r)'
        <2>1. PICK e \in Executors :
                  /\ OnlyHeldBy(e, r)
                  /\ exec[e].at = "taken"   => told[r] = <<"queued">>
                  /\ exec[e].at = "running" => told[r] = <<"queued", "running">> /\ ~Silent(e)
            BY <1>5 DEF InWork
        <2>2. OnlyHeldBy(e, r)' /\ exec'[e] = exec[e]
            BY <2>1 DEF Aside, OnlyHeldBy
        <2>3. Silent(e)' <=> Silent(e)
            BY <2>2 DEF Silent, Held
        <2> QED BY <1>5, <2>1, <2>2, <2>3 DEF Aside, InWork
    <1> QED BY <1>2, <1>3, <1>4, <1>5 DEF Life

\* A step about a request that something happened to already.
Moves(q) ==
    /\ UNCHANGED <<handler, overlapped>>
    /\ evicted \subseteq evicted' /\ abandoned \subseteq abandoned'
    /\ \A r \in Requests \ {q} : Aside(r)
    /\ ~Untouched(q)
    /\ Recorded(q) /\ q \notin evicted' => Recorded(q)'
    /\ q \notin Spoiled' /\ Life(q) => Life(q)'

LEMMA MovesKeep ==
    ASSUME CoreInv, NEW q \in Requests, Moves(q), BridgeTypes
    PROVE  CoreInv'
    <1> USE DEF CoreInv, Moves
    <1>1. \A r \in Requests : r \notin evicted' => r \notin evicted
        OBVIOUS
    <1>2. \A r \in Requests : Untouched(r) => Untouched(r)'
        BY AsideKeeps
    <1>3. \A r \in Requests : Recorded(r) /\ r \notin evicted' => Recorded(r)'
        BY DEF Aside
    <1>4. KnownOrUntouched'
        BY <1>1, <1>2, <1>3 DEF KnownOrUntouched
    <1>5. HandlersInv'
        <2>1. \A h, r : (Copied(h, r)' <=> Copied(h, r)) /\ (Handles(h, r)' <=> Handles(h, r))
            BY DEF Copied, Handles
        <2> QED BY <1>1, <1>2, <2>1 DEF HandlersInv
    <1>6. LifeInv'
        <2> SUFFICES ASSUME NEW r \in Requests, r \notin Spoiled' PROVE Life(r)'
            BY DEF LifeInv
        <2>1. r \notin Spoiled
            BY DEF Spoiled
        <2>2. Life(r)
            BY <2>1 DEF LifeInv
        <2>3. r \notin abandoned'
            BY DEF Spoiled
        <2> QED BY <2>2, <2>3, AsideKeeps
    <1> QED BY <1>4, <1>5, <1>6

-----------------------------------------------------------------------------
(* The requests of the local bridge: executors.                             *)

\* An idle executor takes an action.
LEMMA TakesHold ==
    ASSUME exec \in [Executors -> ExecStates], NEW e \in Executors, exec[e] = Idle,
           NEW a \in Action, NEW m \in Modes, Hold(e, a, m)
    PROVE  /\ exec' \in [Executors -> ExecStates]
           /\ \A r : r # a.req => \A x \in Executors :
                 /\ HeldBy(x, r)' <=> HeldBy(x, r)
                 /\ HeldBy(x, r) => exec'[x] = exec[x]
           /\ exec'[e].at = "taken" /\ exec'[e].action = a /\ exec'[e].mode = m
           /\ HeldBy(e, a.req)'
           /\ Unheld(a.req) => OnlyHeldBy(e, a.req)'
           /\ \A x \in Executors : Holds(x)' <=> Holds(x) \/ x = e
           /\ \A x \in Executors : Holds(x) => exec'[x] = exec[x]
    <1>1. /\ exec'[e] = [at |-> "taken", action |-> a, mode |-> m]
          /\ exec'[e] \in ExecStates
          /\ \A x \in Executors \ {e} : exec'[x] = exec[x]
          /\ DOMAIN exec' = Executors
        BY DEF Hold, ExecStates
    <1>2. exec' \in [Executors -> ExecStates]
        BY <1>1 DEF Hold
    <1>3. ~Holds(e)
        BY DEF Holds, Idle
    <1> QED BY <1>1, <1>2, <1>3 DEF HeldBy, Holds, Held, Unheld, OnlyHeldBy

\* An executor lets its action go.
LEMMA LetsGo ==
    ASSUME exec \in [Executors -> ExecStates], NEW e \in Executors, Holds(e),
           exec' = [exec EXCEPT ![e] = Idle]
    PROVE  /\ exec' \in [Executors -> ExecStates]
           /\ Held(e) \in Action
           /\ \A r : r # Held(e).req => \A x \in Executors :
                 /\ HeldBy(x, r)' <=> HeldBy(x, r)
                 /\ HeldBy(x, r) => exec'[x] = exec[x]
           /\ \A r : OnlyHeldBy(e, r) => Unheld(r)'
           /\ \A x \in Executors : Holds(x)' <=> Holds(x) /\ x # e
           /\ \A x \in Executors : Holds(x)' => exec'[x] = exec[x]
    <1>1. /\ exec'[e] = Idle /\ Idle \in ExecStates
          /\ \A x \in Executors \ {e} : exec'[x] = exec[x]
        BY DEF ExecStates
    <1>2. exec' \in [Executors -> ExecStates]
        BY <1>1
    <1>3. ~Holds(e)'
        BY <1>1 DEF Holds, Idle
    <1>4. Held(e) \in Action
        BY DEF Holds, Held, ExecStates, Idle
    <1>5. \A x \in Executors \ {e} : (Holds(x)' <=> Holds(x)) /\ Held(x)' = Held(x)
        BY <1>1 DEF Holds, Held
    <1> QED BY <1>1, <1>2, <1>3, <1>4, <1>5 DEF HeldBy, Unheld, OnlyHeldBy

\* An executor says that its action runs.
LEMMA GoesRunning ==
    ASSUME exec \in [Executors -> ExecStates], NEW e \in Executors, exec[e].at = "taken",
           exec' = [exec EXCEPT ![e].at = "running"]
    PROVE  /\ exec' \in [Executors -> ExecStates]
           /\ Holds(e) /\ Held(e) \in Action
           /\ exec'[e].at = "running" /\ exec'[e].action = exec[e].action /\ exec'[e].mode = exec[e].mode
           /\ \A x \in Executors : x # e => exec'[x] = exec[x]
           /\ \A x \in Executors : (Holds(x)' <=> Holds(x)) /\ Held(x)' = Held(x)
    <1>1. exec[e] \in [at : {"taken", "running"}, action : Action, mode : Modes]
        BY DEF ExecStates, Idle
    <1>2. /\ exec'[e] = [exec[e] EXCEPT !.at = "running"]
          /\ \A x \in Executors : x # e => exec'[x] = exec[x]
          /\ DOMAIN exec' = Executors
        OBVIOUS
    <1>3. /\ exec'[e].at = "running" /\ exec'[e].action = exec[e].action /\ exec'[e].mode = exec[e].mode
          /\ exec'[e] \in ExecStates
        BY <1>1, <1>2 DEF ExecStates
    <1>4. exec' \in [Executors -> ExecStates]
        BY <1>2, <1>3
    <1> QED BY <1>1, <1>2, <1>3, <1>4 DEF Holds, Held

-----------------------------------------------------------------------------
(* The requests of the local bridge: the kinds of steps.                    *)

\* An action is taken out of the queue by an executor, or handed out.
TakesOut ==
    /\ \E n \in DOMAIN queue :
          /\ TakenOut(n)
          /\ \/ /\ UNCHANGED abandoned
                /\ \E e \in Executors, m \in Modes : exec[e] = Idle /\ Hold(e, queue[n], m)
             \/ /\ UNCHANGED exec
                /\ abandoned' = abandoned \cup {queue[n].req}
    /\ UNCHANGED <<results, handler, told, executed, overlapped, evicted, answers>>

\* An executor is done with its action: a terminal result and its event, or its result alone when
\* it is silent, or the action was abandoned.
Ends(e) ==
    /\ Holds(e) /\ exec' = [exec EXCEPT ![e] = Idle]
    /\ UNCHANGED <<queue, handler, overlapped, answers>>
    /\ \/ executed' = executed
       \/ executed' = [executed EXCEPT ![Held(e).req] = @ + 1]
    /\ \/ \E s \in Terminal, p \in ({Held(e).payload} \cup Unasked(Held(e).req)) :
             /\ PushRecord([req |-> Held(e).req, status |-> s, payload |-> p])
             /\ UNCHANGED abandoned
             /\ \/ told' = [told EXCEPT ![Held(e).req] = Append(@, s)]
                \/ Silent(e) /\ told' = told
       \/ /\ \/ UNCHANGED <<results, evicted>>
             \/ \E p \in ({Held(e).payload} \cup Unasked(Held(e).req)) :
                   PushRecord([req |-> Held(e).req, status |-> "preflight", payload |-> p])
          /\ abandoned' = abandoned \cup {Held(e).req}
          /\ told' = told

LEMMA TakingSteps ==
    ASSUME BridgeTypes, WorkerTakes \/ \E c \in Commands : UserCommand(c)
    PROVE  TakesOut
    <1> USE DEF BridgeTypes
    <1>1. ASSUME queue # <<>>, queue' = Tail(queue)
          PROVE  1 \in DOMAIN queue /\ TakenOut(1) /\ queue[1] = Head(queue)
        BY <1>1, TailTakesOut
    <1>2. CASE WorkerTakes
        <2>1. Worker \in Executors /\ "worker" \in Modes
            BY DEF Executors, Modes
        <2>2. 1 \in DOMAIN queue /\ TakenOut(1) /\ queue[1] = Head(queue)
            BY <1>1, <1>2 DEF WorkerTakes
        <2>3. exec[Worker] = Idle /\ Hold(Worker, queue[1], "worker")
            BY <1>2, <2>2 DEF WorkerTakes
        <2>4. UNCHANGED <<results, handler, told, executed, overlapped, evicted, abandoned, answers>>
            BY <1>2 DEF WorkerTakes, history
        <2> QED BY <2>1, <2>2, <2>3, <2>4 DEF TakesOut
    <1>3. ASSUME NEW c \in Commands, UserCommand(c) PROVE TakesOut
        <2>0. c \in Executors /\ {"accept", "decline", "next_send", "next_import", "preflight"} \subseteq Modes
            BY DEF Executors, Modes
        <2>1. exec[c] = Idle /\ UNCHANGED <<results, handler, told, executed, overlapped, evicted, answers>>
            BY <1>3 DEF UserCommand, RespondTakes, NextTakes, TakeNext, PreflightTakes, Command
        <2>2. ASSUME NEW i, NEW m \in {"accept", "decline"}, RespondTakes(c, i, m) PROVE TakesOut
            <3>1. PICK n \in DOMAIN queue : Hold(c, queue[n], m) /\ queue' = RemoveAt(queue, n)
                BY <2>2 DEF RespondTakes
            <3>2. TakenOut(n) /\ UNCHANGED abandoned
                BY <2>2, <3>1, RemoveTakesOut DEF RespondTakes
            <3> QED BY <2>0, <2>1, <3>1, <3>2 DEF TakesOut
        <2>3. ASSUME NEW m \in {"next_send", "next_import"}, NextTakes(c, m) PROVE TakesOut
            <3>1. 1 \in DOMAIN queue /\ TakenOut(1) /\ queue[1] = Head(queue)
                BY <1>1, <2>3 DEF NextTakes
            <3>2. Hold(c, queue[1], m) /\ UNCHANGED abandoned
                BY <2>3, <3>1 DEF NextTakes
            <3> QED BY <2>0, <2>1, <3>1, <3>2 DEF TakesOut
        <2>4. CASE TakeNext(c)
            <3>1. 1 \in DOMAIN queue /\ TakenOut(1) /\ queue[1] = Head(queue)
                BY <1>1, <2>4 DEF TakeNext
            <3>2. abandoned' = abandoned \cup {queue[1].req} /\ UNCHANGED exec
                BY <2>4, <3>1 DEF TakeNext
            <3> QED BY <2>1, <3>1, <3>2 DEF TakesOut
        <2>5. CASE PreflightTakes(c)
            <3>1. 1 \in DOMAIN queue /\ TakenOut(1) /\ queue[1] = Head(queue)
                BY <1>1, <2>5 DEF PreflightTakes
            <3>2. Hold(c, queue[1], "preflight") /\ UNCHANGED abandoned
                BY <2>5, <3>1 DEF PreflightTakes
            <3> QED BY <2>0, <2>1, <3>1, <3>2 DEF TakesOut
        <2> QED BY <1>3, <2>2, <2>3, <2>4, <2>5 DEF UserCommand
    <1> QED BY <1>2, <1>3

\* How an action may end (Outcomes), and what its result says it was about.
LEMMA OutcomeTypes ==
    ASSUME NEW a \in Action, NEW o \in Outcomes(a)
    PROVE  o[1] \in Terminal /\ o[2] \in {a.payload} \cup Unasked(a.req)
    <1>1. Kind[a.req] \in {"send", "import", "rollback"}
        BY KindAssumption DEF Action
    <1> QED BY <1>1 DEF Outcomes, SendOutcomes, ImportOutcomes, RollbackOutcomes, Terminal, Unasked

LEMMA EndingSteps ==
    ASSUME BridgeTypes, NEW e \in Executors,
           Finish(e) \/ Breaks(e) \/ Cancel(e) \/ Preflight(e)
    PROVE  Ends(e)
    <1>0. exec[e].at \in {"taken", "running"} => Holds(e) /\ Held(e) \in Action
        BY DEF BridgeTypes, ExecStates, Idle, Holds, Held
    <1>1. CASE Finish(e)
        <2>1. Holds(e) /\ Held(e) \in Action
            BY <1>0, <1>1 DEF Finish, Executes
        <2>2. PICK o \in Outcomes(Held(e)) :
                  IF Silent(e)
                  THEN /\ PushRecord([req |-> Held(e).req, status |-> o[1], payload |-> o[2]])
                       /\ UNCHANGED told
                  ELSE PushResult(Held(e), o[1], o[2])
            BY <1>1 DEF Finish
        <2>3. o[1] \in Terminal /\ o[2] \in ({Held(e).payload} \cup Unasked(Held(e).req))
            BY <2>1, OutcomeTypes
        <2> DEFINE s == o[1]
                   p == o[2]
        <2>4. /\ PushRecord([req |-> Held(e).req, status |-> s, payload |-> p])
              /\ \/ told' = [told EXCEPT ![Held(e).req] = Append(@, s)]
                 \/ Silent(e) /\ told' = told
            BY <2>2 DEF PushResult
        <2>5. s \in Terminal /\ p \in ({Held(e).payload} \cup Unasked(Held(e).req))
            BY <2>3
        <2> HIDE DEF s, p
        <2> QED BY <1>1, <2>1, <2>4, <2>5 DEF Finish, Ends
    <1>2. CASE Breaks(e)
        <2>1. Holds(e) /\ Shape(Held(e)) \in ({Held(e).payload} \cup Unasked(Held(e).req)) /\ "failed" \in Terminal
            BY <1>0, <1>2 DEF Breaks, Executes, Shape, Terminal, Unasked
        <2>2. CASE PushResult(Held(e), "failed", Shape(Held(e))) /\ UNCHANGED abandoned
            BY <1>2, <2>1, <2>2 DEF Breaks, Ends, PushResult
        <2>3. CASE /\ abandoned' = abandoned \cup {Held(e).req}
                   /\ UNCHANGED <<results, evicted, told>>
            BY <1>2, <2>1, <2>3 DEF Breaks, Ends
        <2> QED BY <1>2, <2>2, <2>3 DEF Breaks
    <1>3. CASE Cancel(e)
        <2>1. Holds(e) /\ Shape(Held(e)) \in ({Held(e).payload} \cup Unasked(Held(e).req)) /\ "cancelled" \in Terminal
            BY <1>0, <1>3 DEF Cancel, Shape, Terminal, Unasked
        <2> QED BY <1>3, <2>1 DEF Cancel, Ends, PushResult
    <1>4. CASE Preflight(e)
        <2>1. Holds(e)
            BY <1>0, <1>4 DEF Preflight
        <2> QED BY <1>4, <2>1 DEF Preflight, Ends
    <1> QED BY <1>1, <1>2, <1>3, <1>4

-----------------------------------------------------------------------------
(* The requests of the local bridge: steps on a request that is in hand.    *)

\* Two sequences with the same elements are the same.
LEMMA SameElements ==
    ASSUME NEW S, NEW s \in Seq(S), NEW t \in Seq(S), Len(s) = Len(t),
           \A i \in 1..Len(s) : s[i] = t[i]
    PROVE  s = t
    OBVIOUS

\* One more event after one or two.
LEMMA NextEvent ==
    ASSUME NEW x, NEW y, NEW z
    PROVE  /\ Append(<<x>>, y) = <<x, y>>
           /\ Append(<<x, y>>, z) = <<x, y, z>>
    <1> DEFINE S == {x, y, z}
    <1>0. x \in S /\ y \in S /\ z \in S
        OBVIOUS
    <1> HIDE DEF S
    <1>1. Append(<<x>>, y) = <<x, y>>
        <2>1. /\ Append(<<x>>, y) \in Seq(S) /\ Len(Append(<<x>>, y)) = 2
              /\ Append(<<x>>, y)[1] = x /\ Append(<<x>>, y)[2] = y
            BY <1>0
        <2>2. <<x, y>> \in Seq(S) /\ Len(<<x, y>>) = 2 /\ <<x, y>>[1] = x /\ <<x, y>>[2] = y
            BY <1>0
        <2>3. 1..2 = {1, 2}
            OBVIOUS
        <2> QED BY <2>1, <2>2, <2>3, SameElements
    <1>2. Append(<<x, y>>, z) = <<x, y, z>>
        <2>1. /\ Append(<<x, y>>, z) \in Seq(S) /\ Len(Append(<<x, y>>, z)) = 3
              /\ Append(<<x, y>>, z)[1] = x /\ Append(<<x, y>>, z)[2] = y /\ Append(<<x, y>>, z)[3] = z
            BY <1>0
        <2>2. /\ <<x, y, z>> \in Seq(S) /\ Len(<<x, y, z>>) = 3
              /\ <<x, y, z>>[1] = x /\ <<x, y, z>>[2] = y /\ <<x, y, z>>[3] = z
            BY <1>0
        <2>3. 1..3 = {1, 2, 3}
            OBVIOUS
        <2> QED BY <2>1, <2>2, <2>3, SameElements
    <1> QED BY <1>1, <1>2

\* Whoever holds a request that nothing spoiled is the only one, and it is in no other place.
LEMMA InHandAlone ==
    ASSUME NEW r, Life(r), NEW e \in Executors, HeldBy(e, r)
    PROVE  /\ Unqueued(r) /\ OnlyHeldBy(e, r) /\ executed[r] = 0
           /\ exec[e].at = "taken"   => told[r] = <<"queued">>
           /\ exec[e].at = "running" => told[r] = <<"queued", "running">> /\ ~Silent(e)
    <1>1. ~Unheld(r)
        BY DEF Unheld
    <1>2. InWork(r)
        BY <1>1 DEF Life, Untouched, Waiting, Over
    <1> QED BY <1>2 DEF InWork, OnlyHeldBy

LEMMA TakesOutMoves ==
    ASSUME BridgeTypes, CoreInv, TakesOut
    PROVE  \E q \in Requests : Moves(q)
    <1>1. PICK n \in DOMAIN queue :
              /\ TakenOut(n)
              /\ \/ /\ UNCHANGED abandoned
                    /\ \E e \in Executors, m \in Modes : exec[e] = Idle /\ Hold(e, queue[n], m)
                 \/ /\ UNCHANGED exec
                    /\ abandoned' = abandoned \cup {queue[n].req}
        BY DEF TakesOut
    <1> DEFINE a == queue[n]
    <1>2. a \in Action /\ a.req \in Requests
        <2>1. n \in DOMAIN queue /\ queue \in Seq(Action)
            BY <1>1 DEF BridgeTypes
        <2>2. queue[n] \in Action
            BY <2>1
        <2> QED BY <2>2 DEF Action
    <1>3. PICK q \in Requests : q = a.req
        BY <1>2
    <1>4. /\ \A r : r # q => (Unqueued(r)' <=> Unqueued(r)) /\ (QueuedOnce(r) => QueuedOnce(r)')
          /\ QueuedOnce(q) => Unqueued(q)'
        BY <1>1, <1>3, TakenOutLeaves DEF BridgeTypes
    <1>5. /\ UNCHANGED <<results, handler, told, executed, overlapped, evicted>>
          /\ \A r : Recorded(r)' <=> Recorded(r)
        BY DEF TakesOut, Recorded
    <1>6. ~Unqueued(q)
        BY <1>3 DEF Unqueued
    <1>7. Life(q) => Waiting(q)
        BY <1>6 DEF Life, Untouched, InWork, Over
    <1>8. CASE /\ UNCHANGED abandoned
               /\ \E e \in Executors, m \in Modes : exec[e] = Idle /\ Hold(e, queue[n], m)
        <2>1. PICK e \in Executors, m \in Modes : exec[e] = Idle /\ Hold(e, a, m)
            BY <1>8
        <2>2. /\ \A r : r # q => \A x \in Executors :
                   (HeldBy(x, r)' <=> HeldBy(x, r)) /\ (HeldBy(x, r) => exec'[x] = exec[x])
              /\ exec'[e].at = "taken"
              /\ Unheld(q) => OnlyHeldBy(e, q)'
            BY <1>2, <1>3, <2>1, TakesHold DEF BridgeTypes
        <2>3. \A r \in Requests \ {q} : Aside(r)
            BY <1>4, <1>5, <1>8, <2>2 DEF Aside
        <2>4. Waiting(q) => InWork(q)'
            BY <1>4, <1>5, <2>2 DEF Waiting, InWork
        <2> QED BY <1>5, <1>6, <1>7, <1>8, <2>3, <2>4 DEF Moves, Life, Untouched
    <1>9. CASE UNCHANGED exec /\ abandoned' = abandoned \cup {a.req}
        <2>1. \A x \in Executors, r \in Requests : HeldBy(x, r)' <=> HeldBy(x, r)
            BY <1>9 DEF HeldBy, Holds, Held
        <2>2. \A r \in Requests \ {q} : Aside(r)
            BY <1>3, <1>4, <1>5, <1>9, <2>1 DEF Aside
        <2>3. q \in abandoned'
            BY <1>3, <1>9
        <2> QED BY <1>5, <1>6, <1>9, <2>2, <2>3 DEF Moves, Untouched, Spoiled
    <1> QED BY <1>1, <1>8, <1>9

LEMMA PutBackMoves ==
    ASSUME BridgeTypes, CoreInv, NEW c \in Commands, PutBack(c)
    PROVE  \E q \in Requests : Moves(q)
    <1>0. c \in Executors /\ Holds(c) /\ Held(c) \in Action /\ Held(c).req \in Requests
        BY DEF Executors, PutBack, Holds, Held, BridgeTypes, ExecStates, Idle, Action
    <1>1. PICK q \in Requests : q = Held(c).req
        BY <1>0
    <1>2. PICK a \in Action : a = Held(c)
        BY <1>0
    <1>3. /\ exec' = [exec EXCEPT ![c] = Idle] /\ queue' = Cons(a, queue) /\ exec[c].at = "taken"
          /\ UNCHANGED <<results, handler, told, executed, overlapped, evicted, abandoned>>
        BY <1>2 DEF PutBack, history
    <1>4. \A r : Recorded(r)' <=> Recorded(r)
        BY <1>3 DEF Recorded
    <1>5. /\ \A r : r # q => (Unqueued(r)' <=> Unqueued(r)) /\ (QueuedOnce(r) => QueuedOnce(r)')
          /\ Unqueued(q) => QueuedOnce(q)'
        BY <1>1, <1>2, <1>3, PutInFront DEF BridgeTypes
    <1>6. /\ \A r : r # q => \A x \in Executors :
                (HeldBy(x, r)' <=> HeldBy(x, r)) /\ (HeldBy(x, r) => exec'[x] = exec[x])
          /\ \A r : OnlyHeldBy(c, r) => Unheld(r)'
        BY <1>0, <1>1, <1>3, LetsGo DEF BridgeTypes
    <1>7. HeldBy(c, q) /\ ~Unheld(q)
        BY <1>0, <1>1 DEF HeldBy, Unheld
    <1>8. Life(q) => Waiting(q)'
        BY <1>0, <1>3, <1>5, <1>6, <1>7, InHandAlone DEF Waiting
    <1>9. \A r \in Requests \ {q} : Aside(r)
        BY <1>3, <1>4, <1>5, <1>6 DEF Aside
    <1> QED BY <1>3, <1>4, <1>7, <1>8, <1>9 DEF Moves, Life, Untouched

LEMMA RunMoves ==
    ASSUME BridgeTypes, CoreInv, NEW e \in Executors, Run(e)
    PROVE  \E q \in Requests : Moves(q)
    <1>0. /\ exec' = [exec EXCEPT ![e].at = "running"] /\ exec[e].at = "taken" /\ SaysRunning(e)
          /\ UNCHANGED <<queue, handler, executed, overlapped, abandoned>>
          /\ PushResult(Held(e), "running", Shape(Held(e)))
        BY DEF Run
    <1>1. /\ Holds(e) /\ Held(e) \in Action
          /\ exec'[e].at = "running" /\ exec'[e].action = exec[e].action /\ exec'[e].mode = exec[e].mode
          /\ \A x \in Executors : x # e => exec'[x] = exec[x]
          /\ \A x \in Executors : (Holds(x)' <=> Holds(x)) /\ Held(x)' = Held(x)
        BY <1>0, GoesRunning DEF BridgeTypes
    <1>2. PICK q \in Requests : q = Held(e).req
        BY <1>1 DEF Action
    <1>3. PICK res \in Result : res = [req |-> q, status |-> "running", payload |-> Shape(Held(e))]
        <2>1. Shape(Held(e)) \in Payloads \cup {NoPayload, Detected}
            BY <1>1 DEF Shape, Action
        <2>2. [req |-> q, status |-> "running", payload |-> Shape(Held(e))] \in Result
            BY <2>1 DEF Result, Status
        <2> QED BY <2>2
    <1>4. /\ PushRecord(res) /\ res.req = q
          /\ told' = [told EXCEPT ![q] = Append(@, "running")]
        BY <1>0, <1>2, <1>3 DEF PushResult
    <1>5. /\ evicted \subseteq evicted'
          /\ \A r : r # q => (Recorded(r)' => Recorded(r))
          /\ \A r : Recorded(r) /\ r \notin evicted' => Recorded(r)'
        BY <1>4, PushedKeeps DEF BridgeTypes
    <1>6. \A x \in Executors, r \in Requests : HeldBy(x, r)' <=> HeldBy(x, r)
        BY <1>1 DEF HeldBy
    <1>7. \A r \in Requests \ {q} : HeldBy(e, r) => FALSE
        BY <1>2 DEF HeldBy
    <1>8. /\ \A r \in Requests : (Unqueued(r)' <=> Unqueued(r)) /\ (QueuedOnce(r)' <=> QueuedOnce(r))
          /\ \A r \in Requests \ {q} : told'[r] = told[r]
        BY <1>0, <1>4 DEF Unqueued, QueuedOnce, BridgeTypes
    <1>9. \A r \in Requests \ {q} : Aside(r)
        BY <1>0, <1>1, <1>5, <1>6, <1>7, <1>8 DEF Aside
    <1>10. HeldBy(e, q) /\ ~Unheld(q)
        BY <1>1, <1>2 DEF HeldBy, Unheld
    <1>11. ASSUME Life(q) PROVE InWork(q)'
        <2>1. /\ Unqueued(q) /\ OnlyHeldBy(e, q) /\ executed[q] = 0 /\ told[q] = <<"queued">>
            BY <1>0, <1>10, <1>11, InHandAlone
        <2>2. told'[q] = <<"queued", "running">>
            <3>1. told'[q] = Append(told[q], "running")
                BY <1>4 DEF BridgeTypes
            <3>2. Append(<<"queued">>, "running") = <<"queued", "running">>
                BY NextEvent
            <3> QED BY <2>1, <3>1, <3>2
        <2>3. ~Silent(e)'
            BY <1>0, <1>1 DEF Silent, SaysRunning, Held
        <2>4. OnlyHeldBy(e, q)'
            BY <1>6, <2>1 DEF OnlyHeldBy
        <2> QED BY <1>0, <1>1, <1>8, <2>1, <2>2, <2>3, <2>4 DEF InWork
    <1> QED BY <1>0, <1>5, <1>9, <1>10, <1>11 DEF Moves, Life, Untouched

LEMMA EndsMoves ==
    ASSUME BridgeTypes, CoreInv, NEW e \in Executors, Ends(e)
    PROVE  \E q \in Requests : Moves(q)
    <1>0. /\ Holds(e) /\ exec' = [exec EXCEPT ![e] = Idle]
          /\ UNCHANGED <<queue, handler, overlapped>>
        BY DEF Ends
    <1>1. Held(e) \in Action /\ exec[e].at \in {"taken", "running"}
        BY <1>0 DEF BridgeTypes, ExecStates, Idle, Holds, Held
    <1>2. PICK q \in Requests : q = Held(e).req
        BY <1>1 DEF Action
    <1>3. /\ \A r : r # q => \A x \in Executors :
                (HeldBy(x, r)' <=> HeldBy(x, r)) /\ (HeldBy(x, r) => exec'[x] = exec[x])
          /\ \A r : OnlyHeldBy(e, r) => Unheld(r)'
        BY <1>0, <1>2, LetsGo DEF BridgeTypes
    <1>4. HeldBy(e, q) /\ ~Unheld(q)
        BY <1>0, <1>2 DEF HeldBy, Unheld
    <1>5. /\ \A r \in Requests : (Unqueued(r)' <=> Unqueued(r)) /\ (QueuedOnce(r)' <=> QueuedOnce(r))
        BY <1>0 DEF Unqueued, QueuedOnce
    <1>6. /\ \A r \in Requests \ {q} : executed'[r] = executed[r]
          /\ executed[q] = 0 => executed'[q] \in {0, 1}
        BY <1>2 DEF Ends, BridgeTypes
    <1>7. /\ evicted \subseteq evicted'
          /\ \A r : r # q => (Recorded(r)' => Recorded(r))
          /\ \A r : Recorded(r) /\ r \notin evicted' => Recorded(r)'
        <2>1. CASE UNCHANGED <<results, evicted>>
            BY <2>1 DEF Recorded
        <2>2. ASSUME NEW s \in Terminal \cup {"preflight"}, NEW p \in ({Held(e).payload} \cup Unasked(Held(e).req)),
                     PushRecord([req |-> Held(e).req, status |-> s, payload |-> p])
              PROVE  /\ evicted \subseteq evicted'
                     /\ \A r : r # q => (Recorded(r)' => Recorded(r))
                     /\ \A r : Recorded(r) /\ r \notin evicted' => Recorded(r)'
            <3>1. PICK res \in Result : res = [req |-> q, status |-> s, payload |-> p]
                BY <1>1, <1>2 DEF Result, Action, Status, Unasked
            <3>2. PushRecord(res) /\ res.req = q
                BY <1>2, <2>2, <3>1
            <3> QED BY <3>2, PushedKeeps DEF BridgeTypes
        <2> QED BY <2>1, <2>2 DEF Ends
    <1>8. \A r \in Requests \ {q} : told'[r] = told[r]
        BY <1>2 DEF Ends, BridgeTypes
    <1>9. abandoned' = abandoned \/ abandoned' = abandoned \cup {q}
        BY <1>2 DEF Ends
    <1>10. \A r \in Requests \ {q} : Aside(r)
        BY <1>3, <1>5, <1>6, <1>7, <1>8, <1>9 DEF Aside
    <1>11. ASSUME Life(q), q \notin abandoned' PROVE Over(q)'
        <2>1. /\ Unqueued(q) /\ OnlyHeldBy(e, q) /\ executed[q] = 0
              /\ exec[e].at = "taken"   => told[q] = <<"queued">>
              /\ exec[e].at = "running" => told[q] = <<"queued", "running">> /\ ~Silent(e)
            BY <1>4, <1>11, InHandAlone
        <2>2. \/ \E s \in Terminal : told' = [told EXCEPT ![q] = Append(@, s)]
              \/ Silent(e) /\ told' = told
            BY <1>2, <1>11 DEF Ends
        <2>3. \/ told'[q] = <<"queued">>
              \/ \E t \in Terminal : told'[q] \in {<<"queued", t>>, <<"queued", "running", t>>}
            <3>1. told[q] \in {<<"queued">>, <<"queued", "running">>}
                BY <1>1, <2>1
            <3>2. CASE Silent(e) /\ told' = told
                BY <1>1, <2>1, <3>2
            <3>3. ASSUME NEW s \in Terminal, told' = [told EXCEPT ![q] = Append(@, s)]
                  PROVE  told'[q] \in {<<"queued", s>>, <<"queued", "running", s>>}
                <4>1. told'[q] = Append(told[q], s)
                    BY <3>3 DEF BridgeTypes
                <4>2. /\ Append(<<"queued">>, s) = <<"queued", s>>
                      /\ Append(<<"queued", "running">>, s) = <<"queued", "running", s>>
                    BY NextEvent
                <4> QED BY <3>1, <4>1, <4>2
            <3> QED BY <2>2, <3>2, <3>3
        <2> QED BY <1>3, <1>5, <1>6, <2>1, <2>3 DEF Over
    <1> QED BY <1>0, <1>4, <1>7, <1>9, <1>10, <1>11 DEF Moves, Life, Untouched, Spoiled

-----------------------------------------------------------------------------
(* The requests of the local bridge: connections.                           *)

\* What is not about queue, results and executors leaves every request as it is.
LEMMA SameLives ==
    ASSUME UNCHANGED <<queue, results, exec, told, executed, evicted, abandoned>>
    PROVE  \A r : /\ Untouched(r)' <=> Untouched(r)
                  /\ Life(r)' <=> Life(r)
                  /\ Recorded(r)' <=> Recorded(r)
    <1>1. \A r : (Unqueued(r)' <=> Unqueued(r)) /\ (QueuedOnce(r)' <=> QueuedOnce(r))
        BY DEF Unqueued, QueuedOnce
    <1>2. \A e, r : HeldBy(e, r)' <=> HeldBy(e, r)
        BY DEF HeldBy, Holds, Held
    <1>3. \A r : Recorded(r)' <=> Recorded(r)
        BY DEF Recorded
    <1>4. \A r : Untouched(r)' <=> Untouched(r)
        BY <1>1, <1>2, <1>3 DEF Untouched, Unheld
    <1>5. \A e : Silent(e)' <=> Silent(e)
        BY DEF Silent, Held
    <1>6. \A r : Waiting(r)' <=> Waiting(r)
        BY <1>1, <1>2 DEF Waiting, Unheld
    <1>7. \A r : InWork(r)' <=> InWork(r)
        BY <1>1, <1>2, <1>5 DEF InWork, OnlyHeldBy
    <1>8. \A r : Over(r)' <=> Over(r)
        BY <1>1, <1>2 DEF Over, Unheld
    <1> QED BY <1>3, <1>4, <1>6, <1>7, <1>8 DEF Life

LEMMA PostKeeps ==
    ASSUME BridgeTypes, CoreInv, NEW h \in Handlers, NEW r \in Requests, NEW p \in Comes[r], Post(h, r, p)
    PROVE  CoreInv'
    <1> USE DEF CoreInv
    <1>1. /\ UNCHANGED <<queue, results, exec, told, executed, evicted, abandoned>>
          /\ handler[h] = Free
          /\ handler' = [handler EXCEPT ![h] =
                            [at |-> "results", req |-> r, payload |-> p, results |-> results]]
          /\ overlapped' = IF \E k \in Handlers : handler[k] # Free /\ handler[k].req = r
                           THEN overlapped \cup {r} ELSE overlapped
        BY DEF Post
    <1>2. /\ handler'[h].at = "results" /\ handler'[h].req = r /\ handler'[h].results = results
          /\ \A k \in Handlers : k # h => handler'[k] = handler[k]
        BY <1>1 DEF BridgeTypes
    <1>3. \A s : /\ Untouched(s)' <=> Untouched(s)
                 /\ Life(s)' <=> Life(s)
                 /\ Recorded(s)' <=> Recorded(s)
        BY <1>1, SameLives
    <1>4. KnownOrUntouched'
        BY <1>1, <1>3 DEF KnownOrUntouched
    <1>5. LifeInv'
        BY <1>1, <1>3 DEF LifeInv, Spoiled
    <1>6. /\ \A s : \A k \in Handlers : k # h => (Handles(k, s)' <=> Handles(k, s))
          /\ \A s : Handles(h, s)' <=> s = r
          /\ \A s : ~Handles(h, s)
        BY <1>1, <1>2 DEF Handles, Free
    <1>7. /\ overlapped \subseteq overlapped'
          /\ \A k \in Handlers : Handles(k, r) => r \in overlapped'
        BY <1>1 DEF Handles
    <1>8. /\ Recorded(r) => Copied(h, r)'
          /\ \A s : \A k \in Handlers : k # h => (Copied(k, s)' <=> Copied(k, s))
        BY <1>2 DEF Recorded, Copied
    <1>9. HandlersInv'
        <2> SUFFICES ASSUME NEW k \in Handlers, NEW s \in Requests, s \notin overlapped', Handles(k, s)'
                     PROVE  /\ \A l \in Handlers : Handles(l, s)' => l = k
                            /\ s \notin evicted' =>
                                  Untouched(s)' \/ (handler'[k].at = "results" /\ Copied(k, s)')
            BY DEF HandlersInv
        <2>1. CASE k = h
            BY <1>1, <1>2, <1>3, <1>6, <1>7, <1>8, <2>1 DEF KnownOrUntouched
        <2>2. CASE k # h
            BY <1>1, <1>2, <1>3, <1>6, <1>7, <1>8, <2>2 DEF HandlersInv
        <2> QED BY <2>1, <2>2
    <1> QED BY <1>4, <1>5, <1>9

\* A connection that knows nothing of a request has not copied a result of it, and it is not queued.
LEMMA NothingKnown ==
    ASSUME BridgeTypes, NEW h \in Handlers, NEW r, Handles(h, r), handler[h].at = "results",
           KnownAt(h) = {}
    PROVE  ~Copied(h, r) /\ Unqueued(r)
    <1> DEFINE copy == handler[h].results
               S == Action \cup Result
    <1>1. copy \in Seq(Result)
        <2>1. handler[h] \in HandlerStates
            BY DEF BridgeTypes
        <2>2. handler[h] \in [at : {"results"}, req : Requests, payload : Payloads, results : Seq(Result)]
            BY <2>1 DEF HandlerStates, Free
        <2> QED BY <2>2
    <1>2. queue \in Seq(S) /\ copy \in Seq(S)
        BY <1>1 DEF BridgeTypes
    <1>3. Seen(h) = queue \o copy
        BY DEF Seen
    <1>4. \A i \in DOMAIN Seen(h) : Seen(h)[i].req # r
        BY DEF KnownAt, SameRequest, Handles
    <1> HIDE DEF copy, S
    <1>5. \A i \in DOMAIN queue : i \in DOMAIN Seen(h) /\ Seen(h)[i] = queue[i]
        BY <1>2, <1>3
    <1>6. \A i \in DOMAIN copy : Len(queue) + i \in DOMAIN Seen(h) /\ Seen(h)[Len(queue) + i] = copy[i]
        BY <1>2, <1>3
    <1>7. \A i \in DOMAIN copy : copy[i].req # r
        BY <1>4, <1>6
    <1> QED BY <1>4, <1>5, <1>7 DEF Unqueued, Copied, copy

LEMMA LookupKeeps ==
    ASSUME BridgeTypes, CoreInv, NEW h \in Handlers, AnswerRetry(h) \/ NotSeen(h)
    PROVE  CoreInv'
    <1> USE DEF CoreInv
    <1>1. UNCHANGED <<queue, results, exec, told, executed, evicted, abandoned, overlapped>>
        BY DEF AnswerRetry, NotSeen, history
    <1>2. \A s : /\ Untouched(s)' <=> Untouched(s)
                 /\ Life(s)' <=> Life(s)
                 /\ Recorded(s)' <=> Recorded(s)
        BY <1>1, SameLives
    <1>3. KnownOrUntouched' /\ LifeInv'
        BY <1>1, <1>2 DEF KnownOrUntouched, LifeInv, Spoiled
    <1>4. \A s : \A k \in Handlers :
              /\ Handles(k, s)' => Handles(k, s)
              /\ k # h => (Copied(k, s)' <=> Copied(k, s)) /\ handler'[k] = handler[k]
        BY DEF AnswerRetry, NotSeen, BridgeTypes, Handles, Copied
    <1>5. ASSUME NEW s, Handles(h, s)' PROVE ~Copied(h, s) /\ Handles(h, s)
        <2>1. CASE AnswerRetry(h)
            BY <1>5, <2>1 DEF AnswerRetry, BridgeTypes, Handles
        <2>2. CASE NotSeen(h)
            BY <1>4, <1>5, <2>2, NothingKnown DEF NotSeen
        <2> QED BY <2>1, <2>2
    <1>6. HandlersInv'
        BY <1>1, <1>2, <1>4, <1>5 DEF HandlersInv
    <1> QED BY <1>3, <1>6

LEMMA EnqueueKeeps ==
    ASSUME BridgeTypes, CoreInv, NEW h \in Handlers, Enqueue(h)
    PROVE  CoreInv'
    <1> USE DEF CoreInv
    <1>0. handler[h].at = "queue" /\ handler[h] # Free /\ handler[h].req \in Requests /\ handler[h].payload \in Payloads
        BY DEF Enqueue, BridgeTypes, HandlerStates, Free
    <1>1. PICK q \in Requests : q = handler[h].req
        BY <1>0
    <1>2. PICK a \in Action : a = [req |-> handler[h].req, payload |-> handler[h].payload]
        BY <1>0 DEF Action
    <1>3. PICK res \in Result : res = [req |-> q, status |-> "queued", payload |-> a.payload]
        BY <1>2 DEF Result, Status, Action
    <1>4. /\ Enqueued(a) /\ a.req = q
          /\ PushRecord(res) /\ res.req = q
          /\ told' = [told EXCEPT ![q] = Append(@, "queued")]
          /\ handler' = [handler EXCEPT ![h] = Free]
          /\ UNCHANGED <<exec, executed, overlapped>>
        BY <1>1, <1>2, <1>3 DEF Enqueue, Enqueued, PushResult
    <1>5. /\ \A r : r # q => /\ Unqueued(r) => Unqueued(r)'
                             /\ QueuedOnce(r) => QueuedOnce(r)' \/ r \in abandoned'
                             /\ Unqueued(r) /\ r \in abandoned' => r \in abandoned
                             /\ r \in abandoned => r \in abandoned'
          /\ Unqueued(q) => QueuedOnce(q)'
        BY <1>4, EnqueuedLast DEF BridgeTypes
    <1>6. /\ Recorded(q)' /\ evicted \subseteq evicted'
          /\ \A r : r # q => (Recorded(r)' => Recorded(r))
          /\ \A r : Recorded(r) /\ r \notin evicted' => Recorded(r)'
        BY <1>4, PushedKeeps DEF BridgeTypes
    <1>7. \A x, r : HeldBy(x, r)' <=> HeldBy(x, r)
        BY <1>4 DEF HeldBy, Holds, Held
    <1>8. \A r \in Requests \ {q} : told'[r] = told[r]
        BY <1>4 DEF BridgeTypes
    <1>9. \A r \in Requests \ {q} : Aside(r)
        BY <1>4, <1>5, <1>6, <1>7, <1>8 DEF Aside
    <1>10. \A r \in Requests \ {q} : /\ Untouched(r) => Untouched(r)'
                                     /\ Life(r) /\ r \notin abandoned' => Life(r)'
        BY <1>9, AsideKeeps
    <1>11. KnownOrUntouched'
        BY <1>6, <1>10 DEF KnownOrUntouched
    <1>12. /\ \A k, s : Handles(k, s)' => Handles(k, s) /\ k # h
           /\ \A s : \A k \in Handlers : k # h => (Copied(k, s)' <=> Copied(k, s)) /\ handler'[k] = handler[k]
           /\ Handles(h, q)
        BY <1>0, <1>1, <1>4 DEF Handles, Copied, BridgeTypes
    <1>13. HandlersInv'
        BY <1>4, <1>6, <1>10, <1>12 DEF HandlersInv
    <1>14. ASSUME q \notin overlapped \cup evicted' PROVE Waiting(q)'
        <2>1. Untouched(q)
            BY <1>0, <1>6, <1>12, <1>14 DEF HandlersInv
        <2>2. told'[q] = <<"queued">>
            <3>1. told'[q] = Append(told[q], "queued") /\ told[q] = <<>>
                BY <1>4, <2>1 DEF BridgeTypes, Untouched
            <3> QED BY <3>1
        <2> QED BY <1>4, <1>5, <1>7, <2>1, <2>2 DEF Untouched, Waiting, Unheld
    <1>15. LifeInv'
        <2> SUFFICES ASSUME NEW r \in Requests, r \notin Spoiled' PROVE Life(r)'
            BY DEF LifeInv
        <2>1. CASE r = q
            BY <1>4, <1>14, <2>1 DEF Spoiled, Life
        <2>2. CASE r # q
            <3>1. r \notin Spoiled /\ r \notin abandoned'
                BY <1>4, <1>5, <1>6, <2>2 DEF Spoiled
            <3> QED BY <1>10, <2>2, <3>1 DEF LifeInv
        <2> QED BY <2>1, <2>2
    <1> QED BY <1>11, <1>13, <1>15

LEMMA CoreStep ==
    ASSUME BridgeTypes, CoreInv, [Next]_vars
    PROVE  CoreInv'
    <1>1. ASSUME NEW h \in Handlers, NEW r \in Requests, NEW p \in Comes[r], Post(h, r, p) PROVE CoreInv'
        BY <1>1, PostKeeps
    <1>2. ASSUME NEW h \in Handlers, HandlerStep(h) PROVE CoreInv'
        BY <1>2, LookupKeeps, EnqueueKeeps DEF HandlerStep
    <1>3. ASSUME \E q \in Requests : Moves(q) PROVE CoreInv'
        BY <1>3, MovesKeep
    <1>4. ASSUME NEW e \in Executors, Run(e) \/ Finish(e) \/ Breaks(e) \/ Cancel(e) \/ Preflight(e)
          PROVE  CoreInv'
        BY <1>3, <1>4, RunMoves, EndingSteps, EndsMoves
    <1>5. ASSUME WorkerTakes \/ \E c \in Commands : UserCommand(c) PROVE CoreInv'
        BY <1>3, <1>5, TakingSteps, TakesOutMoves
    <1>6. ASSUME NEW c \in Commands, PutBack(c) PROVE CoreInv'
        BY <1>3, <1>6, PutBackMoves
    <1>7. CASE UNCHANGED vars
        <2>1. UNCHANGED <<queue, results, handler, exec, told, executed, evicted, abandoned, overlapped>>
            BY <1>7 DEF vars, history
        <2>2. \A h, s : (Handles(h, s)' <=> Handles(h, s)) /\ (Copied(h, s)' <=> Copied(h, s))
            BY <2>1 DEF Handles, Copied
        <2>3. KnownOrUntouched' /\ LifeInv'
            BY <2>1, SameLives DEF CoreInv, KnownOrUntouched, LifeInv, Spoiled
        <2>4. HandlersInv'
            BY <2>1, <2>2, SameLives DEF CoreInv, HandlersInv
        <2> QED BY <2>3, <2>4 DEF CoreInv
    <1>8. Worker \in Executors /\ Commands \subseteq Executors
        BY DEF Executors
    <1> QED BY <1>1, <1>2, <1>4, <1>5, <1>6, <1>7, <1>8 DEF Next, Execute, CommandStep
-----------------------------------------------------------------------------
(* The requests of the local bridge: types, and the length of the queue.    *)

Holding == {c \in Commands : Holds(c)}

\* Only what a command holds may come back to a full queue.
NotTooLong == Len(queue) + Cardinality(Holding) <= QueueLimit + Cardinality(Commands)

\* Commands are finitely many, and so are those that hold an action.
LEMMA HoldingFinite ==
    /\ Cardinality(Commands) \in Nat
    /\ \A S \in SUBSET Commands : /\ IsFiniteSet(S) /\ Cardinality(S) \in Nat
                                  /\ Cardinality(S) <= Cardinality(Commands)
    <1>1. IsFiniteSet(Commands)
        BY CommandsAssumption
    <1> QED BY <1>1, FS_CardinalityType, FS_Subset

\* With one more command that holds an action there is one more, with one less there is one less.
LEMMA HoldingGrows ==
    ASSUME NEW S \in SUBSET Commands, NEW c
    PROVE  /\ c \notin S => Cardinality(S \cup {c}) = Cardinality(S) + 1
           /\ c \in S => Cardinality(S \ {c}) = Cardinality(S) - 1
    <1>1. IsFiniteSet(S)
        BY HoldingFinite
    <1> QED BY <1>1, FS_AddElement, FS_RemoveElement

LEMMA TakesOutTypes ==
    ASSUME BridgeTypes, NotTooLong, TakesOut
    PROVE  BridgeTypes' /\ NotTooLong'
    <1>1. PICK n \in DOMAIN queue :
              /\ TakenOut(n)
              /\ \/ /\ UNCHANGED abandoned
                    /\ \E e \in Executors, m \in Modes : exec[e] = Idle /\ Hold(e, queue[n], m)
                 \/ /\ UNCHANGED exec
                    /\ abandoned' = abandoned \cup {queue[n].req}
        BY DEF TakesOut
    <1>2. queue' \in Seq(Action) /\ Len(queue') = Len(queue) - 1 /\ Len(queue) \in Nat
        BY <1>1 DEF TakenOut, BridgeTypes
    <1>3. UNCHANGED <<results, handler, told, executed, came>>
        BY DEF TakesOut, answers
    <1>4. Cardinality(Holding) \in Nat /\ Cardinality(Commands) \in Nat
        BY HoldingFinite DEF Holding
    <1>5. CASE \E e \in Executors, m \in Modes : exec[e] = Idle /\ Hold(e, queue[n], m)
        <2>1. PICK e \in Executors, m \in Modes : exec[e] = Idle /\ Hold(e, queue[n], m)
            BY <1>5
        <2>2. queue[n] \in Action
            BY <1>1 DEF BridgeTypes
        <2>3. /\ exec' \in [Executors -> ExecStates]
              /\ \A x \in Executors : Holds(x)' <=> Holds(x) \/ x = e
            BY <2>1, <2>2, TakesHold DEF BridgeTypes
        <2>4. Holding' = IF e \in Commands THEN Holding \cup {e} ELSE Holding
            BY <2>3 DEF Holding, Executors
        <2>5. Holding \in SUBSET Commands /\ e \notin Holding
            BY <2>1 DEF Holding, Holds, Idle
        <2>6. Cardinality(Holding') <= Cardinality(Holding) + 1 /\ Cardinality(Holding') \in Nat
            BY <1>4, <2>4, <2>5, HoldingGrows
        <2>7. NotTooLong'
            BY <1>2, <1>4, <2>6, LimitsAssumption DEF NotTooLong
        <2> QED BY <1>2, <1>3, <2>3, <2>7 DEF BridgeTypes
    <1>6. CASE UNCHANGED exec
        <2>1. Holding' = Holding
            BY <1>6 DEF Holding, Holds
        <2>2. NotTooLong'
            BY <1>2, <1>4, <2>1, LimitsAssumption DEF NotTooLong
        <2> QED BY <1>2, <1>3, <1>6, <2>2 DEF BridgeTypes
    <1> QED BY <1>1, <1>5, <1>6

LEMMA PutBackTypes ==
    ASSUME BridgeTypes, NotTooLong, NEW c \in Commands, PutBack(c)
    PROVE  BridgeTypes' /\ NotTooLong'
    <1>0. c \in Executors /\ Holds(c) /\ Held(c) \in Action
        BY DEF Executors, PutBack, Holds, Held, BridgeTypes, ExecStates, Idle
    <1>1. PICK a \in Action : a = Held(c)
        BY <1>0
    <1>2. exec' = [exec EXCEPT ![c] = Idle] /\ queue' = Cons(a, queue)
          /\ UNCHANGED <<results, handler, told, executed, came>>
        BY <1>1 DEF PutBack, history, answers
    <1>3. queue' \in Seq(Action) /\ Len(queue') = Len(queue) + 1 /\ Len(queue) \in Nat
        BY <1>2, PutInFront DEF BridgeTypes
    <1>4. /\ exec' \in [Executors -> ExecStates]
          /\ \A x \in Executors : Holds(x)' <=> Holds(x) /\ x # c
        BY <1>0, <1>2, LetsGo DEF BridgeTypes
    <1>5. Holding' = Holding \ {c} /\ c \in Holding /\ Holding \in SUBSET Commands
        BY <1>0, <1>4 DEF Holding, Executors
    <1>6. Cardinality(Holding') = Cardinality(Holding) - 1
        BY <1>5, HoldingGrows
    <1>7. Cardinality(Holding) \in Nat /\ Cardinality(Commands) \in Nat
        BY HoldingFinite DEF Holding
    <1>8. NotTooLong'
        BY <1>3, <1>6, <1>7, LimitsAssumption DEF NotTooLong
    <1> QED BY <1>2, <1>3, <1>4, <1>8 DEF BridgeTypes

LEMMA RunTypes ==
    ASSUME BridgeTypes, NotTooLong, NEW e \in Executors, Run(e)
    PROVE  BridgeTypes' /\ NotTooLong'
    <1>1. /\ exec' = [exec EXCEPT ![e].at = "running"] /\ exec[e].at = "taken"
          /\ UNCHANGED <<queue, handler, executed, came>>
          /\ PushResult(Held(e), "running", Shape(Held(e)))
        BY DEF Run, answers
    <1>2. /\ exec' \in [Executors -> ExecStates] /\ Held(e) \in Action
          /\ \A x \in Executors : Holds(x)' <=> Holds(x)
        BY <1>1, GoesRunning DEF BridgeTypes
    <1>3. PICK res \in Result : res = [req |-> Held(e).req, status |-> "running", payload |-> Shape(Held(e))]
        <2>1. Shape(Held(e)) \in Payloads \cup {NoPayload, Detected} /\ Held(e).req \in Requests
            BY <1>2 DEF Shape, Action
        <2> QED BY <2>1 DEF Result, Status
    <1>4. results' \in Seq(Result) /\ Len(results') <= ResultLimit
        BY <1>1, <1>3, PushedRecord DEF PushResult, BridgeTypes
    <1>5. told' \in [Requests -> Seq(Status)]
        BY <1>1, <1>2 DEF PushResult, BridgeTypes, Status, Action
    <1>6. Holding' = Holding
        BY <1>2 DEF Holding, Executors
    <1> QED BY <1>1, <1>2, <1>4, <1>5, <1>6 DEF BridgeTypes, NotTooLong

LEMMA EndsTypes ==
    ASSUME BridgeTypes, NotTooLong, NEW e \in Executors, Ends(e)
    PROVE  BridgeTypes' /\ NotTooLong'
    <1>1. /\ Holds(e) /\ exec' = [exec EXCEPT ![e] = Idle]
          /\ UNCHANGED <<queue, handler, came>>
        BY DEF Ends, answers
    <1>2. /\ exec' \in [Executors -> ExecStates] /\ Held(e) \in Action
          /\ \A x \in Executors : Holds(x)' <=> Holds(x) /\ x # e
        BY <1>1, LetsGo DEF BridgeTypes
    <1>3. Held(e).req \in Requests /\ Held(e).payload \in Payloads
        BY <1>2 DEF Action
    <1>4. results' \in Seq(Result) /\ Len(results') <= ResultLimit
        <2>1. CASE UNCHANGED <<results, evicted>>
            BY <2>1 DEF BridgeTypes
        <2>2. ASSUME NEW s \in Terminal \cup {"preflight"}, NEW p \in ({Held(e).payload} \cup Unasked(Held(e).req)),
                     PushRecord([req |-> Held(e).req, status |-> s, payload |-> p])
              PROVE  results' \in Seq(Result) /\ Len(results') <= ResultLimit
            <3>1. PICK res \in Result : res = [req |-> Held(e).req, status |-> s, payload |-> p]
                BY <1>3 DEF Result, Status, Unasked
            <3> QED BY <2>2, <3>1, PushedRecord DEF BridgeTypes
        <2> QED BY <2>1, <2>2 DEF Ends
    <1>5. told' \in [Requests -> Seq(Status)]
        <2>1. told' = told \/ \E s \in Terminal : told' = [told EXCEPT ![Held(e).req] = Append(@, s)]
            BY DEF Ends
        <2>2. ASSUME NEW s \in Terminal PROVE Append(told[Held(e).req], s) \in Seq(Status)
            <3>1. s \in Status /\ told[Held(e).req] \in Seq(Status)
                BY <1>3 DEF BridgeTypes, Status
            <3> QED BY <3>1
        <2>3. ASSUME NEW s \in Terminal, told' = [told EXCEPT ![Held(e).req] = Append(@, s)]
              PROVE  told' \in [Requests -> Seq(Status)]
            BY <2>2, <2>3 DEF BridgeTypes
        <2> QED BY <2>1, <2>3 DEF BridgeTypes
    <1>6. executed' \in [Requests -> Nat]
        <2>1. executed' = executed \/ executed' = [executed EXCEPT ![Held(e).req] = @ + 1]
            BY DEF Ends
        <2>2. executed[Held(e).req] + 1 \in Nat
            BY <1>3 DEF BridgeTypes
        <2> QED BY <2>1, <2>2 DEF BridgeTypes
    <1>7. Holding' \subseteq Holding /\ Holding \in SUBSET Commands
        BY <1>2 DEF Holding, Executors
    <1>8. /\ IsFiniteSet(Holding) /\ Cardinality(Holding) \in Nat /\ Cardinality(Commands) \in Nat
          /\ Cardinality(Holding') \in Nat
        BY <1>7, HoldingFinite
    <1>9. Cardinality(Holding') <= Cardinality(Holding)
        BY <1>7, <1>8, FS_Subset
    <1>10. NotTooLong'
        <2>1. Len(queue) \in Nat /\ queue' = queue
            BY <1>1 DEF BridgeTypes
        <2> QED BY <1>8, <1>9, <2>1, LimitsAssumption DEF NotTooLong
    <1> QED BY <1>1, <1>2, <1>4, <1>5, <1>6, <1>10 DEF BridgeTypes

LEMMA EnqueueTypes ==
    ASSUME BridgeTypes, NotTooLong, NEW h \in Handlers, Enqueue(h)
    PROVE  BridgeTypes' /\ NotTooLong'
    <1>0. handler[h].req \in Requests /\ handler[h].payload \in Payloads
        BY DEF Enqueue, BridgeTypes, HandlerStates, Free
    <1>1. PICK a \in Action : a = [req |-> handler[h].req, payload |-> handler[h].payload]
        BY <1>0 DEF Action
    <1>2. PICK res \in Result : res = [req |-> a.req, status |-> "queued", payload |-> a.payload]
        BY <1>1 DEF Result, Status, Action
    <1>3. /\ Enqueued(a) /\ PushRecord(res)
          /\ told' = [told EXCEPT ![a.req] = Append(@, "queued")]
          /\ handler' = [handler EXCEPT ![h] = Free]
          /\ UNCHANGED <<exec, executed, came>>
        BY <1>1, <1>2 DEF Enqueue, Enqueued, PushResult, answers
    <1>4. queue' \in Seq(Action) /\ Len(queue') <= QueueLimit
        BY <1>3, EnqueuedLast DEF BridgeTypes
    <1>5. results' \in Seq(Result) /\ Len(results') <= ResultLimit
        BY <1>3, PushedRecord DEF BridgeTypes
    <1>6. told' \in [Requests -> Seq(Status)] /\ handler' \in [Handlers -> HandlerStates]
        BY <1>3 DEF BridgeTypes, Status, HandlerStates, Action
    <1>7. Cardinality(Holding') <= Cardinality(Commands) /\ Cardinality(Holding') \in Nat
          /\ Cardinality(Commands) \in Nat
        BY HoldingFinite DEF Holding
    <1>8. NotTooLong'
        BY <1>4, <1>7, LimitsAssumption DEF NotTooLong
    <1> QED BY <1>3, <1>4, <1>5, <1>6, <1>8 DEF BridgeTypes

LEMMA TypesStep ==
    ASSUME BridgeTypes, NotTooLong, [Next]_vars
    PROVE  BridgeTypes' /\ NotTooLong'
    <1>1. ASSUME UNCHANGED <<queue, exec>> PROVE NotTooLong'
        BY <1>1 DEF NotTooLong, Holding, Holds
    <1>2. ASSUME NEW h \in Handlers, NEW r \in Requests, NEW p \in Comes[r], Post(h, r, p)
          PROVE  BridgeTypes' /\ NotTooLong'
        <2>1. UNCHANGED <<queue, exec, results, told, executed>>
            BY <1>2 DEF Post
        <2>2. p \in Payloads
            BY ComesAssumption
        <2>3. handler' \in [Handlers -> HandlerStates]
            <3>1. [at |-> "results", req |-> r, payload |-> p, results |-> results] \in HandlerStates
                BY <2>2 DEF BridgeTypes, HandlerStates
            <3> QED BY <1>2, <3>1 DEF Post, BridgeTypes
        <2>4. came' \in [Requests -> SUBSET Payloads]
            BY <1>2, <2>2 DEF Post, BridgeTypes
        <2> QED BY <1>1, <2>1, <2>3, <2>4 DEF BridgeTypes
    <1>3. ASSUME NEW h \in Handlers, AnswerRetry(h) \/ NotSeen(h) PROVE BridgeTypes' /\ NotTooLong'
        <2>1. UNCHANGED <<queue, exec, results, told, executed, came>>
            BY <1>3 DEF AnswerRetry, NotSeen, history, answers
        <2>2. handler[h].req \in Requests /\ handler[h].payload \in Payloads
            BY <1>3 DEF AnswerRetry, NotSeen, BridgeTypes, HandlerStates, Free
        <2>3. handler' \in [Handlers -> HandlerStates]
            <3>1. \/ handler' = [handler EXCEPT ![h] = Free]
                  \/ handler' = [handler EXCEPT ![h] =
                                    [at |-> "queue", req |-> handler[h].req, payload |-> handler[h].payload]]
                BY <1>3 DEF AnswerRetry, NotSeen
            <3>2. /\ Free \in HandlerStates
                  /\ [at |-> "queue", req |-> handler[h].req, payload |-> handler[h].payload] \in HandlerStates
                BY <2>2 DEF HandlerStates
            <3> QED BY <3>1, <3>2 DEF BridgeTypes
        <2> QED BY <1>1, <2>1, <2>3 DEF BridgeTypes
    <1>4. ASSUME NEW e \in Executors, Run(e) \/ Finish(e) \/ Breaks(e) \/ Cancel(e) \/ Preflight(e)
          PROVE  BridgeTypes' /\ NotTooLong'
        BY <1>4, RunTypes, EndingSteps, EndsTypes
    <1>5. ASSUME WorkerTakes \/ \E c \in Commands : UserCommand(c) PROVE BridgeTypes' /\ NotTooLong'
        BY <1>5, TakingSteps, TakesOutTypes
    <1>6. CASE UNCHANGED vars
        BY <1>1, <1>6 DEF vars, answers, history, BridgeTypes
    <1>7. Worker \in Executors /\ Commands \subseteq Executors
        BY DEF Executors
    <1> QED BY <1>2, <1>3, <1>4, <1>5, <1>6, <1>7, EnqueueTypes, PutBackTypes
        DEF Next, HandlerStep, Execute, CommandStep
-----------------------------------------------------------------------------
(* The requests of the local bridge: what is reported as pending.           *)

Present(r) == ~Unqueued(r) \/ \E e \in Executors : HeldBy(e, r)

\* PendingIsInHand, by the positions of the results.
PendingHere ==
    \A r \in Requests, i \in DOMAIN results :
        results[i].req = r /\ results[i].status \in {"queued", "running"} =>
            Present(r) \/ r \in abandoned

LEMMA PendingSame ==
    ASSUME BridgeTypes
    PROVE  PendingHere => PendingIsInHand
    <1>1. \A r : Present(r) => InHand(r)
        BY DEF Present, InHand, Unqueued, HeldBy
    <1> QED BY <1>1 DEF PendingHere, PendingIsInHand, Latest

\* A request is in hand as long as nothing is taken from it.
LEMMA PendingKept ==
    ASSUME PendingHere, \A r \in Requests : Present(r) \/ r \in abandoned => Present(r)' \/ r \in abandoned',
           UNCHANGED results, BridgeTypes
    PROVE  PendingHere'
    <1> SUFFICES ASSUME NEW i \in DOMAIN results', results'[i].status \in {"queued", "running"},
                        NEW r \in Requests, results'[i].req = r
                 PROVE  Present(r)' \/ r \in abandoned'
        BY DEF PendingHere
    <1>1. Present(r) \/ r \in abandoned
        BY DEF PendingHere
    <1> QED BY <1>1

\* Every result is of a request that is in hand, gone, or the one just recorded.
LEMMA PendingRecorded ==
    ASSUME PendingHere, BridgeTypes, NEW res \in Result, PushRecord(res),
           \A r \in Requests \ {res.req} : Present(r) \/ r \in abandoned => Present(r)' \/ r \in abandoned',
           res.status \in {"queued", "running"} => Present(res.req)'
    PROVE  PendingHere'
    <1> SUFFICES ASSUME NEW i \in DOMAIN results', results'[i].status \in {"queued", "running"},
                        NEW r \in Requests, results'[i].req = r
                 PROVE  Present(r)' \/ r \in abandoned'
        BY DEF PendingHere
    <1>1. CASE results'[i] = res
        BY <1>1
    <1>2. ASSUME NEW j \in DOMAIN results, results'[i] = results[j], results[j].req # res.req
          PROVE  Present(r)' \/ r \in abandoned'
        <2>1. r \in Requests \ {res.req} /\ (Present(r) \/ r \in abandoned)
            BY <1>2 DEF PendingHere
        <2> QED BY <2>1
    <1> QED BY <1>1, <1>2, PushedRecord DEF BridgeTypes

LEMMA PendingStep ==
    ASSUME BridgeTypes, PendingHere, [Next]_vars
    PROVE  PendingHere'
    <1>1. ASSUME UNCHANGED <<queue, exec, results, abandoned>> PROVE PendingHere'
        BY <1>1 DEF PendingHere, Present, Unqueued, HeldBy, Holds, Held
    <1>2. ASSUME TakesOut PROVE PendingHere'
        <2>1. PICK n \in DOMAIN queue :
                  /\ TakenOut(n)
                  /\ \/ /\ UNCHANGED abandoned
                        /\ \E e \in Executors, m \in Modes : exec[e] = Idle /\ Hold(e, queue[n], m)
                     \/ /\ UNCHANGED exec
                        /\ abandoned' = abandoned \cup {queue[n].req}
            BY <1>2 DEF TakesOut
        <2>2. PICK a \in Action : a = queue[n]
            BY <2>1 DEF BridgeTypes
        <2>3. \A r : r # a.req => (Unqueued(r)' <=> Unqueued(r))
            BY <2>1, <2>2, TakenOutLeaves DEF BridgeTypes
        <2>4. ASSUME NEW r \in Requests, Present(r) \/ r \in abandoned PROVE Present(r)' \/ r \in abandoned'
            <3>1. CASE \E e \in Executors, m \in Modes : exec[e] = Idle /\ Hold(e, queue[n], m)
                <4>1. PICK e \in Executors, m \in Modes : exec[e] = Idle /\ Hold(e, a, m)
                    BY <2>2, <3>1
                <4>2. /\ HeldBy(e, a.req)'
                      /\ \A s : s # a.req => \A x \in Executors : HeldBy(x, s)' <=> HeldBy(x, s)
                    BY <4>1, TakesHold DEF BridgeTypes
                <4>3. abandoned \subseteq abandoned'
                    BY <2>1
                <4> QED BY <2>3, <2>4, <4>2, <4>3 DEF Present
            <3>2. CASE UNCHANGED exec /\ abandoned' = abandoned \cup {queue[n].req}
                <4>1. \A x \in Executors : HeldBy(x, r)' <=> HeldBy(x, r)
                    BY <3>2 DEF HeldBy, Holds, Held
                <4> QED BY <2>2, <2>3, <2>4, <3>2, <4>1 DEF Present
            <3> QED BY <2>1, <3>1, <3>2
        <2>5. UNCHANGED results
            BY <1>2 DEF TakesOut
        <2> QED BY <2>4, <2>5, PendingKept
    <1>3. ASSUME NEW c \in Commands, PutBack(c) PROVE PendingHere'
        <2>0. c \in Executors /\ Holds(c) /\ Held(c) \in Action
            BY <1>3 DEF Executors, PutBack, Holds, Held, BridgeTypes, ExecStates, Idle
        <2>1. PICK a \in Action : a = Held(c)
            BY <2>0
        <2>2. /\ exec' = [exec EXCEPT ![c] = Idle] /\ queue' = Cons(a, queue)
              /\ UNCHANGED <<results, abandoned>>
            BY <1>3, <2>1 DEF PutBack, history
        <2>3. /\ \A r : r # a.req => (Unqueued(r)' <=> Unqueued(r))
              /\ \E i \in DOMAIN queue' : queue'[i] = a
            BY <2>2, PutInFront DEF BridgeTypes
        <2>4. \A r : r # a.req => \A x \in Executors : HeldBy(x, r)' <=> HeldBy(x, r)
            BY <2>0, <2>1, <2>2, LetsGo DEF BridgeTypes
        <2>5. ~Unqueued(a.req)'
            BY <2>3 DEF Unqueued
        <2>6. \A r \in Requests : Present(r) \/ r \in abandoned => Present(r)' \/ r \in abandoned'
            BY <2>2, <2>3, <2>4, <2>5 DEF Present
        <2> QED BY <2>2, <2>6, PendingKept
    <1>4. ASSUME NEW e \in Executors, Run(e) PROVE PendingHere'
        <2>1. /\ exec' = [exec EXCEPT ![e].at = "running"] /\ exec[e].at = "taken"
              /\ UNCHANGED <<queue, abandoned>>
              /\ PushResult(Held(e), "running", Shape(Held(e)))
            BY <1>4 DEF Run
        <2>2. /\ Holds(e) /\ Held(e) \in Action
              /\ \A x \in Executors : (Holds(x)' <=> Holds(x)) /\ Held(x)' = Held(x)
            BY <2>1, GoesRunning DEF BridgeTypes
        <2>3. PICK res \in Result : res = [req |-> Held(e).req, status |-> "running", payload |-> Shape(Held(e))]
            <3>1. Shape(Held(e)) \in Payloads \cup {NoPayload, Detected} /\ Held(e).req \in Requests
                BY <2>2 DEF Shape, Action
            <3> QED BY <3>1 DEF Result, Status
        <2>4. \A r : Present(r)' <=> Present(r)
            BY <2>1, <2>2 DEF Present, Unqueued, HeldBy
        <2>5. Present(res.req)
            BY <2>2, <2>3 DEF Present, HeldBy
        <2> QED BY <2>1, <2>3, <2>4, <2>5, PendingRecorded DEF PushResult
    <1>5. ASSUME NEW e \in Executors, Ends(e) PROVE PendingHere'
        <2>1. /\ Holds(e) /\ exec' = [exec EXCEPT ![e] = Idle] /\ UNCHANGED queue
            BY <1>5 DEF Ends
        <2>2. PICK a \in Action : a = Held(e)
            BY <2>1, LetsGo DEF BridgeTypes
        <2>3. \A r : r # a.req => \A x \in Executors : HeldBy(x, r)' <=> HeldBy(x, r)
            BY <2>1, <2>2, LetsGo DEF BridgeTypes
        <2>4. \A r : r # a.req => (Present(r)' <=> Present(r))
            BY <2>1, <2>3 DEF Present, Unqueued
        <2>5. abandoned \subseteq abandoned'
            BY <1>5 DEF Ends
        <2>6. CASE UNCHANGED <<results, evicted>> /\ abandoned' = abandoned \cup {Held(e).req}
            <3>1. \A r \in Requests : Present(r) \/ r \in abandoned => Present(r)' \/ r \in abandoned'
                BY <2>2, <2>4, <2>6
            <3> QED BY <2>6, <3>1, PendingKept
        <2>7. ASSUME NEW s \in Terminal \cup {"preflight"}, NEW p \in ({Held(e).payload} \cup Unasked(Held(e).req)),
                     PushRecord([req |-> Held(e).req, status |-> s, payload |-> p])
              PROVE  PendingHere'
            <3>1. PICK res \in Result : res = [req |-> Held(e).req, status |-> s, payload |-> p]
                BY <2>2 DEF Result, Status, Action, Unasked
            <3>2. res.req = a.req /\ res.status \notin {"queued", "running"} /\ PushRecord(res)
                BY <2>2, <2>7, <3>1 DEF Terminal
            <3> QED BY <2>4, <2>5, <3>2, PendingRecorded
        <2> QED BY <1>5, <2>6, <2>7 DEF Ends
    <1>6. ASSUME NEW h \in Handlers, Enqueue(h) PROVE PendingHere'
        <2>1. handler[h].req \in Requests /\ handler[h].payload \in Payloads
            BY <1>6 DEF Enqueue, BridgeTypes, HandlerStates, Free
        <2>2. PICK a \in Action : a = [req |-> handler[h].req, payload |-> handler[h].payload]
            BY <2>1 DEF Action
        <2>3. PICK res \in Result : res = [req |-> a.req, status |-> "queued", payload |-> a.payload]
            BY <2>2 DEF Result, Status, Action
        <2>4. Enqueued(a) /\ PushRecord(res) /\ UNCHANGED exec /\ res.req = a.req
            BY <1>6, <2>2, <2>3 DEF Enqueue, Enqueued, PushResult
        <2>5. /\ \E i \in DOMAIN queue' : queue'[i] = a
              /\ \A r : r # a.req => /\ ~Unqueued(r) => ~Unqueued(r)' \/ r \in abandoned'
                                     /\ r \in abandoned => r \in abandoned'
            BY <2>4, EnqueuedLast DEF BridgeTypes
        <2>6. \A x, r : HeldBy(x, r)' <=> HeldBy(x, r)
            BY <2>4 DEF HeldBy, Holds, Held
        <2>7. Present(a.req)'
            BY <2>5 DEF Present, Unqueued
        <2>8. \A r \in Requests \ {a.req} :
                  Present(r) \/ r \in abandoned => Present(r)' \/ r \in abandoned'
            BY <2>5, <2>6 DEF Present
        <2> QED BY <2>4, <2>7, <2>8, PendingRecorded
    <1>7. ASSUME NEW h \in Handlers, AnswerRetry(h) \/ NotSeen(h) PROVE PendingHere'
        BY <1>1, <1>7 DEF AnswerRetry, NotSeen, history
    <1>8. ASSUME NEW h \in Handlers, NEW r \in Requests, NEW p \in Comes[r], Post(h, r, p) PROVE PendingHere'
        BY <1>1, <1>8 DEF Post
    <1>9. CASE UNCHANGED vars
        BY <1>1, <1>9 DEF vars, history
    <1>10. ASSUME WorkerTakes \/ \E c \in Commands : UserCommand(c) PROVE PendingHere'
        BY <1>2, <1>10, TakingSteps
    <1>11. ASSUME NEW e \in Executors, Run(e) \/ Finish(e) \/ Breaks(e) \/ Cancel(e) \/ Preflight(e)
           PROVE  PendingHere'
        BY <1>4, <1>5, <1>11, EndingSteps
    <1>12. Worker \in Executors /\ Commands \subseteq Executors
        BY DEF Executors
    <1> QED BY <1>3, <1>6, <1>7, <1>8, <1>9, <1>10, <1>11, <1>12
        DEF Next, HandlerStep, Execute, CommandStep
-----------------------------------------------------------------------------
(* The requests of the local bridge: what they are about.                   *)

\* Everything that is kept of a request says what one of its posts said, or leaves it out.
PayloadsInv ==
    /\ \A i \in DOMAIN queue : queue[i].payload \in came[queue[i].req]
    /\ \A i \in DOMAIN results : results[i].payload \in came[results[i].req] \cup Unasked(results[i].req)
    /\ \A e \in Executors : Holds(e) => Held(e).payload \in came[Held(e).req]
    /\ \A h \in Handlers : handler[h] # Free =>
          /\ handler[h].payload \in came[handler[h].req]
          /\ handler[h].at = "results" =>
                \A i \in DOMAIN handler[h].results :
                    handler[h].results[i].payload \in came[handler[h].results[i].req] \cup Unasked(handler[h].results[i].req)

RefusedInv == RefusedOnlyForAnother /\ \A x \in refused : x.req \in Requests

\* A result that says what its request was posted with, or nothing.
LEMMA RecordedPayload ==
    ASSUME BridgeTypes, PayloadsInv, NEW res \in Result, PushRecord(res), UNCHANGED came,
           res.payload \in came[res.req] \cup Unasked(res.req)
    PROVE  \A i \in DOMAIN results' : results'[i].payload \in came'[results'[i].req] \cup Unasked(results'[i].req)
    <1> SUFFICES ASSUME NEW i \in DOMAIN results'
                 PROVE  results'[i].payload \in came'[results'[i].req] \cup Unasked(results'[i].req)
        OBVIOUS
    <1>1. results'[i] = res \/ \E j \in DOMAIN results : results'[i] = results[j]
        BY PushedRecord DEF BridgeTypes
    <1> QED BY <1>1 DEF PayloadsInv

LEMMA TakesOutPayloads ==
    ASSUME BridgeTypes, PayloadsInv, TakesOut
    PROVE  PayloadsInv'
    <1>1. PICK n \in DOMAIN queue :
              /\ TakenOut(n)
              /\ \/ UNCHANGED exec
                 \/ \E e \in Executors, m \in Modes : exec[e] = Idle /\ Hold(e, queue[n], m)
        BY DEF TakesOut
    <1>2. UNCHANGED <<results, handler, came>>
        BY DEF TakesOut, answers
    <1>3. \A i \in DOMAIN queue' : queue'[i].payload \in came'[queue'[i].req]
        BY <1>1, <1>2, TakenOutLeaves DEF BridgeTypes, PayloadsInv
    <1>4. ASSUME NEW x \in Executors, Holds(x)' PROVE Held(x)'.payload \in came'[Held(x)'.req]
        <2>1. CASE UNCHANGED exec
            BY <1>2, <1>4, <2>1 DEF PayloadsInv, Holds, Held
        <2>2. ASSUME NEW e \in Executors, NEW m \in Modes, exec[e] = Idle, Hold(e, queue[n], m)
              PROVE  Held(x)'.payload \in came'[Held(x)'.req]
            <3>1. PICK a \in Action : a = queue[n]
                BY DEF BridgeTypes
            <3>2. /\ exec'[e].action = a
                  /\ Holds(x)' <=> Holds(x) \/ x = e
                  /\ Holds(x) => exec'[x] = exec[x]
                BY <2>2, <3>1, TakesHold DEF BridgeTypes
            <3>3. CASE x = e
                BY <1>2, <3>1, <3>2, <3>3 DEF PayloadsInv, Held
            <3>4. CASE x # e
                BY <1>2, <1>4, <3>2, <3>4 DEF PayloadsInv, Held
            <3> QED BY <3>3, <3>4
        <2> QED BY <1>1, <2>1, <2>2
    <1> QED BY <1>2, <1>3, <1>4 DEF PayloadsInv

\* An executor lets go of its action, and a result may be recorded of it.
LEMMA EndingPayloads ==
    ASSUME BridgeTypes, PayloadsInv, NEW e \in Executors, Holds(e), exec' = [exec EXCEPT ![e] = Idle],
           UNCHANGED <<queue, handler, came>>,
           \/ UNCHANGED results
           \/ \E s \in Status, p \in ({Held(e).payload} \cup Unasked(Held(e).req)) :
                 PushRecord([req |-> Held(e).req, status |-> s, payload |-> p])
    PROVE  PayloadsInv'
    <1>1. Held(e) \in Action /\ Held(e).payload \in came[Held(e).req]
        BY LetsGo DEF BridgeTypes, PayloadsInv
    <1>2. \A x \in Executors : Holds(x)' => Holds(x) /\ Held(x)' = Held(x)
        BY LetsGo DEF BridgeTypes, Held
    <1>3. \A i \in DOMAIN results' : results'[i].payload \in came'[results'[i].req] \cup Unasked(results'[i].req)
        <2>1. CASE UNCHANGED results
            BY <2>1 DEF PayloadsInv
        <2>2. ASSUME NEW s \in Status, NEW p \in ({Held(e).payload} \cup Unasked(Held(e).req)),
                     PushRecord([req |-> Held(e).req, status |-> s, payload |-> p])
              PROVE  \A i \in DOMAIN results' :
                         results'[i].payload \in came'[results'[i].req] \cup Unasked(results'[i].req)
            <3>1. PICK res \in Result : res = [req |-> Held(e).req, status |-> s, payload |-> p]
                BY <1>1 DEF Result, Action, Unasked
            <3>2. PushRecord(res) /\ res.payload \in came[res.req] \cup Unasked(res.req)
                BY <1>1, <2>2, <3>1
            <3> QED BY <3>2, RecordedPayload
        <2> QED BY <2>1, <2>2
    <1>4. \A x \in Executors : Holds(x)' => Held(x)'.payload \in came'[Held(x)'.req]
        BY <1>2 DEF PayloadsInv
    <1>5. \A i \in DOMAIN queue' : queue'[i].payload \in came'[queue'[i].req]
        BY DEF PayloadsInv
    <1> QED BY <1>3, <1>4, <1>5 DEF PayloadsInv

LEMMA PutBackPayloads ==
    ASSUME BridgeTypes, PayloadsInv, NEW c \in Commands, PutBack(c)
    PROVE  PayloadsInv'
    <1>1. c \in Executors /\ Holds(c) /\ Held(c) \in Action
        BY DEF Executors, PutBack, Holds, Held, BridgeTypes, ExecStates, Idle
    <1>2. PICK a \in Action : a = Held(c)
        BY <1>1
    <1>3. /\ exec' = [exec EXCEPT ![c] = Idle] /\ queue' = Cons(a, queue)
          /\ UNCHANGED <<results, handler, came>>
        BY <1>2 DEF PutBack, answers
    <1>4. \A i \in DOMAIN queue' : queue'[i].payload \in came'[queue'[i].req]
        <2>1. a.payload \in came[a.req]
            BY <1>1, <1>2 DEF PayloadsInv
        <2>2. \A i \in DOMAIN queue' : queue'[i] = a \/ \E j \in DOMAIN queue : queue'[i] = queue[j]
            BY <1>3, PutInFront DEF BridgeTypes
        <2> QED BY <1>3, <2>1, <2>2 DEF PayloadsInv
    <1>5. \A x \in Executors : Holds(x)' => Holds(x) /\ Held(x)' = Held(x)
        BY <1>1, <1>3, LetsGo DEF BridgeTypes, Held
    <1> QED BY <1>3, <1>4, <1>5 DEF PayloadsInv

LEMMA RunPayloads ==
    ASSUME BridgeTypes, PayloadsInv, NEW e \in Executors, Run(e)
    PROVE  PayloadsInv'
    <1>1. /\ exec' = [exec EXCEPT ![e].at = "running"] /\ exec[e].at = "taken"
          /\ UNCHANGED <<queue, handler, came>>
          /\ PushRecord([req |-> Held(e).req, status |-> "running", payload |-> Shape(Held(e))])
        BY DEF Run, PushResult, answers
    <1>2. /\ Holds(e) /\ Held(e) \in Action
          /\ \A x \in Executors : (Holds(x)' <=> Holds(x)) /\ Held(x)' = Held(x)
        BY <1>1, GoesRunning DEF BridgeTypes
    <1>3. Shape(Held(e)) \in ({Held(e).payload} \cup Unasked(Held(e).req)) /\ Held(e).payload \in came[Held(e).req]
        BY <1>2 DEF Shape, PayloadsInv, Unasked
    <1>4. PICK res \in Result : res = [req |-> Held(e).req, status |-> "running", payload |-> Shape(Held(e))]
        BY <1>2, <1>3 DEF Result, Status, Action, Unasked
    <1>5. \A i \in DOMAIN results' : results'[i].payload \in came'[results'[i].req] \cup Unasked(results'[i].req)
        <2>1. PushRecord(res) /\ res.payload \in came[res.req] \cup Unasked(res.req)
            BY <1>1, <1>3, <1>4
        <2> QED BY <1>1, <2>1, RecordedPayload
    <1> QED BY <1>1, <1>2, <1>5 DEF PayloadsInv

LEMMA EnqueuePayloads ==
    ASSUME BridgeTypes, PayloadsInv, NEW h \in Handlers, Enqueue(h)
    PROVE  PayloadsInv'
    <1>1. handler[h].req \in Requests /\ handler[h].payload \in Payloads
        BY DEF Enqueue, BridgeTypes, HandlerStates, Free
    <1>2. PICK a \in Action : a = [req |-> handler[h].req, payload |-> handler[h].payload]
        BY <1>1 DEF Action
    <1>3. PICK res \in Result : res = [req |-> a.req, status |-> "queued", payload |-> a.payload]
        BY <1>2 DEF Result, Status, Action
    <1>4. Enqueued(a) /\ PushRecord(res) /\ UNCHANGED <<exec, came>>
        BY <1>2, <1>3 DEF Enqueue, Enqueued, PushResult, answers
    <1>5. a.payload \in came[a.req] /\ res.payload \in came[res.req] \cup Unasked(res.req)
        BY <1>2, <1>3 DEF Enqueue, PayloadsInv
    <1>6. \A i \in DOMAIN queue' : queue'[i].payload \in came'[queue'[i].req]
        <2>1. \A i \in DOMAIN queue' : queue'[i] = a \/ \E j \in DOMAIN queue : queue'[i] = queue[j]
            BY <1>4, EnqueuedLast DEF BridgeTypes
        <2> QED BY <1>4, <1>5, <2>1 DEF PayloadsInv
    <1>7. \A i \in DOMAIN results' : results'[i].payload \in came'[results'[i].req] \cup Unasked(results'[i].req)
        BY <1>4, <1>5, RecordedPayload
    <1>8. \A k \in Handlers : handler'[k] = IF k = h THEN Free ELSE handler[k]
        BY DEF Enqueue, BridgeTypes
    <1> QED BY <1>4, <1>6, <1>7, <1>8 DEF PayloadsInv, Holds, Held

\* What is kept of a request is what it was posted with, after every step.
LEMMA PayloadsStep ==
    ASSUME BridgeTypes, PayloadsInv, [Next]_vars
    PROVE  PayloadsInv'
    <1>1. ASSUME NEW h \in Handlers, NEW r \in Requests, NEW p \in Comes[r], Post(h, r, p)
          PROVE  PayloadsInv'
        <2>1. /\ UNCHANGED <<queue, results, exec>>
              /\ came' = [came EXCEPT ![r] = @ \cup {p}]
              /\ \A q : came[q] \subseteq came'[q]
              /\ p \in came'[r]
            BY <1>1 DEF Post, BridgeTypes
        <2>2. \A k \in Handlers : handler'[k] =
                  IF k = h THEN [at |-> "results", req |-> r, payload |-> p, results |-> results]
                           ELSE handler[k]
            BY <1>1 DEF Post, BridgeTypes
        <2>3. ASSUME NEW k \in Handlers, handler'[k] # Free
              PROVE  /\ handler'[k].payload \in came'[handler'[k].req]
                     /\ handler'[k].at = "results" =>
                           \A i \in DOMAIN handler'[k].results :
                               handler'[k].results[i].payload
                                   \in came'[handler'[k].results[i].req] \cup Unasked(handler'[k].results[i].req)
            <3>1. CASE k = h
                BY <2>1, <2>2, <3>1 DEF PayloadsInv
            <3>2. CASE k # h
                BY <2>1, <2>2, <2>3, <3>2 DEF PayloadsInv
            <3> QED BY <3>1, <3>2
        <2>4. \A i \in DOMAIN queue' : queue'[i].payload \in came'[queue'[i].req]
            BY <2>1 DEF PayloadsInv
        <2>5. \A i \in DOMAIN results' : results'[i].payload \in came'[results'[i].req] \cup Unasked(results'[i].req)
            BY <2>1 DEF PayloadsInv
        <2>6. \A e \in Executors : Holds(e)' => Held(e)'.payload \in came'[Held(e)'.req]
            BY <2>1 DEF PayloadsInv, Holds, Held
        <2> QED BY <2>3, <2>4, <2>5, <2>6 DEF PayloadsInv
    <1>2. ASSUME NEW h \in Handlers, AnswerRetry(h) \/ NotSeen(h) PROVE PayloadsInv'
        <2>1. UNCHANGED <<queue, results, exec, came>>
            BY <1>2 DEF AnswerRetry, NotSeen, answers
        <2>2. \A k \in Handlers :
                 \/ handler'[k] = handler[k]
                 \/ handler'[k] = Free
                 \/ /\ handler[k] # Free
                    /\ handler'[k] = [at |-> "queue", req |-> handler[k].req, payload |-> handler[k].payload]
            BY <1>2 DEF AnswerRetry, NotSeen, BridgeTypes
        <2>3. ASSUME NEW k \in Handlers, handler'[k] # Free
              PROVE  /\ handler'[k].payload \in came[handler'[k].req]
                     /\ handler'[k].at = "results" =>
                           \A i \in DOMAIN handler'[k].results :
                               handler'[k].results[i].payload
                                   \in came[handler'[k].results[i].req] \cup Unasked(handler'[k].results[i].req)
            <3>1. CASE handler'[k] = handler[k]
                BY <2>3, <3>1 DEF PayloadsInv
            <3>2. CASE /\ handler[k] # Free
                       /\ handler'[k] = [at |-> "queue", req |-> handler[k].req, payload |-> handler[k].payload]
                <4>1. handler[k].payload \in came[handler[k].req]
                    BY <3>2 DEF PayloadsInv
                <4> QED BY <3>2, <4>1
            <3> QED BY <2>2, <2>3, <3>1, <3>2
        <2> QED BY <2>1, <2>3 DEF PayloadsInv, Holds, Held
    <1>3. ASSUME NEW e \in Executors, Finish(e) \/ Breaks(e) \/ Cancel(e) \/ Preflight(e)
          PROVE  PayloadsInv'
        <2>1. Ends(e)
            BY <1>3, EndingSteps
        <2>2. /\ Holds(e) /\ exec' = [exec EXCEPT ![e] = Idle]
              /\ UNCHANGED <<queue, handler, came>>
            BY <2>1 DEF Ends, answers
        <2>3. \/ UNCHANGED results
              \/ \E s \in Status, p \in ({Held(e).payload} \cup Unasked(Held(e).req)) :
                    PushRecord([req |-> Held(e).req, status |-> s, payload |-> p])
            BY <2>1 DEF Ends, Status
        <2> QED BY <2>2, <2>3, EndingPayloads
    <1>4. ASSUME WorkerTakes \/ \E c \in Commands : UserCommand(c) PROVE PayloadsInv'
        BY <1>4, TakingSteps, TakesOutPayloads
    <1>5. CASE UNCHANGED vars
        BY <1>5 DEF vars, answers, PayloadsInv, Holds, Held
    <1>6. Worker \in Executors /\ Commands \subseteq Executors
        BY DEF Executors
    <1> QED BY <1>1, <1>2, <1>3, <1>4, <1>5, <1>6, RunPayloads, EnqueuePayloads, PutBackPayloads
        DEF Next, HandlerStep, Execute, CommandStep

\* Only the answer to a retry refuses, and what it compares is of the same request.
LEMMA RefusedStep ==
    ASSUME BridgeTypes, PayloadsInv, RefusedInv, [Next]_vars
    PROVE  RefusedInv'
    <1>1. ASSUME refused' = refused, \A r \in Requests : came[r] \subseteq came'[r] PROVE RefusedInv'
        BY <1>1 DEF RefusedInv, RefusedOnlyForAnother
    <1>2. ASSUME UNCHANGED answers PROVE RefusedInv'
        BY <1>1, <1>2 DEF answers
    <1>3. ASSUME NEW h \in Handlers, AnswerRetry(h) PROVE RefusedInv'
        <2>1. handler[h].req \in Requests /\ handler[h].results \in Seq(Result)
              /\ handler[h] # Free /\ handler[h].at = "results"
            BY <1>3 DEF AnswerRetry, BridgeTypes, HandlerStates, Free
        <2>2. PICK r \in Requests, i \in KnownAt(h) :
                 /\ r = handler[h].req
                 /\ refused' = IF SameAction(Seen(h)[i], r, handler[h].payload) THEN refused
                               ELSE refused \cup {[req |-> r, was |-> Seen(h)[i].payload]}
            BY <1>3, <2>1 DEF AnswerRetry
        <2>3. UNCHANGED came
            BY <1>3 DEF AnswerRetry
        <2>4. PICK known : /\ known = Seen(h)[i] /\ known.req = r
                           /\ known.payload \in came[known.req] \cup Unasked(known.req)
            <3>1. Seen(h)[i].req = r /\ i \in DOMAIN Seen(h)
                BY <2>2 DEF KnownAt, SameRequest
            <3>2. \/ \E j \in DOMAIN queue : Seen(h)[i] = queue[j]
                  \/ \E j \in DOMAIN handler[h].results : Seen(h)[i] = handler[h].results[j]
                <4>1. queue \in Seq(Action) /\ i \in 1..(Len(queue) + Len(handler[h].results))
                    BY <2>1, <3>1 DEF Seen, BridgeTypes
                <4>2. CASE i <= Len(queue)
                    BY <2>1, <4>1, <4>2 DEF Seen
                <4>3. CASE i > Len(queue)
                    <5>1. i - Len(queue) \in DOMAIN handler[h].results
                          /\ Seen(h)[i] = handler[h].results[i - Len(queue)]
                        BY <2>1, <4>1, <4>3 DEF Seen
                    <5> QED BY <5>1
                <4> QED BY <4>1, <4>2, <4>3
            <3> QED BY <2>1, <3>1, <3>2 DEF PayloadsInv
        <2>5. handler[h].payload \in came[r]
            BY <2>1, <2>2 DEF PayloadsInv
        <2>6. CASE refused' = refused
            BY <1>1, <2>3, <2>6
        <2>7. CASE /\ known.payload # handler[h].payload
                   /\ refused' = refused \cup {[req |-> r, was |-> known.payload]}
            <3>1. known.payload \in Unasked(r) \/ \E p, q \in came[r] : p # q
                BY <2>4, <2>5, <2>7
            <3> QED BY <2>3, <2>7, <3>1 DEF RefusedInv, RefusedOnlyForAnother
        <2> QED BY <2>2, <2>4, <2>6, <2>7 DEF SameAction, SameRequest
    <1>4. ASSUME NEW h \in Handlers, NEW r \in Requests, NEW p \in Comes[r], Post(h, r, p) PROVE RefusedInv'
        BY <1>1, <1>4 DEF Post, BridgeTypes
    <1>5. ASSUME NEW h \in Handlers, NotSeen(h) \/ Enqueue(h) PROVE RefusedInv'
        BY <1>2, <1>5 DEF NotSeen, Enqueue
    <1>6. ASSUME NEW e \in Executors, Run(e) \/ Finish(e) \/ Breaks(e) \/ Cancel(e) \/ Preflight(e)
          PROVE  RefusedInv'
        BY <1>2, <1>6, EndingSteps DEF Ends, Run
    <1>7. ASSUME WorkerTakes \/ \E c \in Commands : UserCommand(c) PROVE RefusedInv'
        BY <1>2, <1>7, TakingSteps DEF TakesOut
    <1>8. ASSUME NEW c \in Commands, PutBack(c) PROVE RefusedInv'
        BY <1>2, <1>8 DEF PutBack
    <1>9. CASE UNCHANGED vars
        BY <1>2, <1>9 DEF vars
    <1>10. Worker \in Executors /\ Commands \subseteq Executors
        BY DEF Executors
    <1> QED BY <1>3, <1>4, <1>5, <1>6, <1>7, <1>8, <1>9, <1>10
        DEF Next, HandlerStep, Execute, CommandStep

-----------------------------------------------------------------------------
(* The requests of the local bridge: the theorems.                          *)

BridgeInv ==
    BridgeTypes /\ NotTooLong /\ CoreInv /\ PendingHere /\ PayloadsInv /\ RefusedInv

LEMMA BridgeInit == Init => BridgeInv
    <1> SUFFICES ASSUME Init PROVE BridgeInv
        OBVIOUS
    <1>1. BridgeTypes
        BY LimitsAssumption DEF Init, BridgeTypes, HandlerStates, ExecStates
    <1>2. NotTooLong
        <2>1. /\ Cardinality(Holding) \in Nat /\ Cardinality(Holding) <= Cardinality(Commands)
              /\ Cardinality(Commands) \in Nat /\ Len(queue) = 0
            BY HoldingFinite DEF Init, Holding
        <2> QED BY <2>1, LimitsAssumption DEF NotTooLong
    <1>3. \A r \in Requests : Untouched(r)
        BY DEF Init, Untouched, Unqueued, Unheld, HeldBy, Holds, Idle, Recorded
    <1>4. CoreInv
        BY <1>3 DEF Init, CoreInv, KnownOrUntouched, HandlersInv, Handles, LifeInv, Life
    <1>5. PendingHere /\ PayloadsInv /\ RefusedInv
        BY DEF Init, PendingHere, PayloadsInv, RefusedInv, RefusedOnlyForAnother, Holds, Idle, Free
    <1> QED BY <1>1, <1>2, <1>4, <1>5 DEF BridgeInv

LEMMA BridgeStep == BridgeInv /\ [Next]_vars => BridgeInv'
    BY TypesStep, CoreStep, PendingStep, PayloadsStep, RefusedStep DEF BridgeInv

\* The queue, the results, what the executors hold and the events are well formed; the queue is
\* never longer than its limit and the actions that the commands may put back.
THEOREM BridgeTypeCorrect == Spec => []TypeOK
    <1>1. BridgeInv => TypeOK
        <2> SUFFICES ASSUME BridgeInv PROVE TypeOK
            OBVIOUS
        <2>1. Len(queue) <= QueueLimit + Cardinality(Commands)
            <3>1. /\ Cardinality(Holding) \in Nat /\ Cardinality(Commands) \in Nat
                  /\ Len(queue) \in Nat
                BY HoldingFinite DEF BridgeInv, BridgeTypes, Holding
            <3> QED BY <3>1, LimitsAssumption DEF BridgeInv, NotTooLong
        <2> QED BY <2>1 DEF BridgeInv, BridgeTypes, ExecStates, TypeOK
    <1> QED BY <1>1, BridgeInit, BridgeStep, PTL DEF Spec

\* A request is executed once at most, however often it is retried and whoever executes it, unless
\* its retries overtook each other, its result was dropped or the queue gave it up.
THEOREM ExecutesOnce == Spec => []ExecutedOnce
    <1>1. BridgeInv => ExecutedOnce
        <2> SUFFICES ASSUME BridgeInv, NEW r \in Requests, executed[r] > 1, r \notin Spoiled PROVE FALSE
            BY DEF ExecutedOnce, Spoiled
        <2>1. Life(r)
            BY DEF BridgeInv, CoreInv, LifeInv
        <2> QED BY <2>1 DEF Life, Untouched, Waiting, InWork, Over
    <1> QED BY <1>1, BridgeInit, BridgeStep, PTL DEF Spec

\* A request that is reported as queued or running is in the queue or with an executor, or was
\* given up by the queue.
THEOREM PendingStaysInHand == Spec => []PendingIsInHand
    <1>1. BridgeInv => PendingIsInHand
        BY PendingSame DEF BridgeInv
    <1> QED BY <1>1, BridgeInit, BridgeStep, PTL DEF Spec

\* A retry is refused as another payload only if its request did come with two payloads, or, for
\* sends and imports, the result it was compared with names no bundle or the one that was found
\* on the disk; a rollback that comes again with its payload is never refused.
THEOREM RefusesOnlyForAnother == Spec => []RefusedOnlyForAnother
    <1>1. BridgeInv => RefusedOnlyForAnother
        BY DEF BridgeInv, RefusedInv
    <1> QED BY <1>1, BridgeInit, BridgeStep, PTL DEF Spec

\* The events of a request are queued, then running if at all, then one terminal event if any;
\* but for requests that two connections brought at the same time, whose result a limit dropped,
\* or that were given up without a record.
THEOREM EventsFollowOrder == Spec => []EventsInOrder
    <1>1. BridgeInv => EventsInOrder
        <2> SUFFICES ASSUME BridgeInv, NEW r \in Requests \ Spoiled, NEW i \in DOMAIN told[r]
                     PROVE  /\ i = 1 <=> told[r][i] = "queued"
                            /\ told[r][i] = "running" => i = 2
                            /\ told[r][i] \in Terminal => i = Len(told[r])
            BY DEF EventsInOrder, Spoiled
        <2>1. Life(r)
            BY DEF BridgeInv, CoreInv, LifeInv
        <2>2. \/ told[r] = <<>> \/ told[r] = <<"queued">> \/ told[r] = <<"queued", "running">>
              \/ \E t \in Terminal : told[r] \in {<<"queued", t>>, <<"queued", "running", t>>}
            <3>1. CASE InWork(r)
                <4>1. PICK e \in Executors :
                         /\ Holds(e)
                         /\ exec[e].at = "taken"   => told[r] = <<"queued">>
                         /\ exec[e].at = "running" => told[r] = <<"queued", "running">>
                    BY <3>1 DEF InWork, OnlyHeldBy, HeldBy
                <4>2. exec[e].at \in {"taken", "running"}
                    BY <4>1 DEF BridgeInv, BridgeTypes, ExecStates, Idle, Holds
                <4> QED BY <4>1, <4>2
            <3> QED BY <2>1, <3>1 DEF Life, Untouched, Waiting, Over
        <2>3. CASE told[r] = <<>> \/ told[r] = <<"queued">>
            BY <2>3 DEF Terminal
        <2>4. CASE told[r] = <<"queued", "running">>
            BY <2>4 DEF Terminal
        <2>5. ASSUME NEW t \in Terminal, told[r] = <<"queued", t>>
              PROVE  /\ i = 1 <=> told[r][i] = "queued"
                     /\ told[r][i] = "running" => i = 2
                     /\ told[r][i] \in Terminal => i = Len(told[r])
            BY <2>5 DEF Terminal
        <2>6. ASSUME NEW t \in Terminal, told[r] = <<"queued", "running", t>>
              PROVE  /\ i = 1 <=> told[r][i] = "queued"
                     /\ told[r][i] = "running" => i = 2
                     /\ told[r][i] \in Terminal => i = Len(told[r])
            BY <2>6 DEF Terminal
        <2> QED BY <2>2, <2>3, <2>4, <2>5, <2>6
    <1> QED BY <1>1, BridgeInit, BridgeStep, PTL DEF Spec

-----------------------------------------------------------------------------
(* What the clients read.                                                   *)

\* The queue is the last part of what was pushed, and what a client has is of it.
ReadingTypes ==
    /\ bound \in Bounds
    /\ log \in Seq(Event) /\ Len(log) <= bound.events
    /\ \A n \in DOMAIN log : log[n].seq = n /\ log[n].id \in DOMAIN log
    /\ events \in Seq(Event) /\ Len(events) <= EventLimit /\ Len(events) <= Len(log)
    /\ \A i \in DOMAIN events : events[i] = log[Len(log) - Len(events) + i]
    /\ cursor \in [Clients -> DOMAIN log \cup {NoCursor}]
    /\ got \in [Clients -> SUBSET DOMAIN log]
    /\ steady = [c \in Clients |-> steady[c]]

\* The cursor is the id of the last event that was read.
CursorAt(c, n) ==
    /\ n \in got[c] /\ log[n].id = cursor[c]
    /\ \A g \in got[c] : g <= n

CursorIsLast ==
    \A c \in Clients : IF cursor[c] = NoCursor THEN got[c] = {} ELSE \E n \in DOMAIN log : CursorAt(c, n)

\* No event was left out between two that were read.
NoGap ==
    \A c \in Clients, n \in DOMAIN log :
        (log[n].scope \in steady[c] /\ \E a, b \in got[c] : a < n /\ n < b) => n \in got[c]

ReadingInv == ReadingTypes /\ (Unrepeated(log) => CursorIsLast /\ NoGap)

\* The numbers of the events of a page.
PageSeqs(page) == {e.seq : e \in page.events}

\* A page has events of the log that may be read.  Those after a cursor are later than its event;
\* none that may be read is left out between two of a page, nor between the cursor's and one of it.
LEMMA PageIsNext ==
    ASSUME ReadingTypes, NEW held, NEW after \in DOMAIN log \cup {NoCursor},
           NEW page, page = Page(events, held, after)
    PROVE  /\ \A e \in page.events : e.seq \in DOMAIN log /\ e = log[e.seq]
           /\ after = NoCursor =>
                \A n \in DOMAIN log : \A a, b \in PageSeqs(page) :
                    log[n].scope \in held /\ a < n /\ n < b => n \in PageSeqs(page)
           /\ Unrepeated(log) => \A m \in DOMAIN log : log[m].id = after =>
                /\ \A b \in PageSeqs(page) : m < b
                /\ \A n \in DOMAIN log : \A b \in PageSeqs(page) :
                       log[n].scope \in held /\ m < n /\ n < b => n \in PageSeqs(page)
    <1> DEFINE seen == {i \in DOMAIN events : events[i].scope \in held}
               at == {i \in seen : events[i].id = after}
               found == after = NoCursor \/ at # {}
               rest == IF at # {} THEN {i \in seen : i > Min(at)} ELSE IF found THEN seen ELSE {}
               first == {k \in rest : Rank(rest, k) <= PageLimit}
               off == Len(log) - Len(events)
    <1>1. page.events = {events[i] : i \in first}
        BY DEF Page
    <1>2. /\ Len(events) \in Nat /\ off \in Nat /\ rest \in SUBSET seen
          /\ \A i : i \in seen <=> i \in 1..Len(events) /\ events[i].scope \in held
          /\ \A i : i \in at <=> i \in seen /\ events[i].id = after
          /\ \A k : k \in first <=> k \in rest /\ Rank(rest, k) <= PageLimit
        BY DEF ReadingTypes
    <1>3. /\ at = {} => rest = IF after = NoCursor THEN seen ELSE {}
          /\ at # {} => rest = {i \in seen : i > Min(at)}
        OBVIOUS
    <1>4. /\ \A n \in DOMAIN log : n \in Nat
          /\ \A i \in 1..Len(events) : off + i \in DOMAIN log /\ events[i] = log[off + i]
          /\ \A n \in DOMAIN log : n > off => n - off \in 1..Len(events) /\ events[n - off] = log[n]
        <2>1. /\ Len(log) \in Nat /\ Len(events) \in Nat /\ DOMAIN log = 1..Len(log)
              /\ DOMAIN events = 1..Len(events) /\ Len(events) <= Len(log)
            BY DEF ReadingTypes
        <2>2. \A i \in 1..Len(events) : off + i \in DOMAIN log /\ events[i] = log[off + i]
            BY <2>1 DEF ReadingTypes
        <2>3. \A n \in DOMAIN log : n > off => n - off \in 1..Len(events) /\ off + (n - off) = n
            BY <2>1
        <2> QED BY <2>1, <2>2, <2>3
    <1> HIDE DEF seen, at, found, rest, first, off
    <1>5. \A i \in 1..Len(events) : events[i].seq = off + i
        BY <1>4 DEF ReadingTypes
    <1>6. ASSUME NEW i \in rest, NEW k \in first, i < k PROVE i \in first
        <2>1. rest \in SUBSET (1..Len(events)) /\ k \in rest
            BY <1>2
        <2>2. Cardinality(rest) \in 0..Len(events)
            BY <1>2, <2>1, PositionsFinite
        <2>3. /\ Rank(rest, i) < Rank(rest, k)
              /\ Rank(rest, i) \in 1..Cardinality(rest) /\ Rank(rest, k) \in 1..Cardinality(rest)
            BY <1>2, <1>6, <2>1, RanksGrow
        <2>4. Rank(rest, k) <= PageLimit
            BY <1>2
        <2>5. Rank(rest, i) <= PageLimit
            BY <2>2, <2>3, <2>4, PageAssumption
        <2> QED BY <1>2, <2>5
    <1>7. \A s : s \in PageSeqs(page) <=> \E i \in first : s = off + i
        BY <1>1, <1>2, <1>5 DEF PageSeqs
    <1>8. \A e \in page.events : e.seq \in DOMAIN log /\ e = log[e.seq]
        <2>1. \A i \in first : i \in 1..Len(events)
            BY <1>2
        <2> QED BY <1>1, <1>4, <1>5, <2>1
    <1>9. ASSUME NEW n \in DOMAIN log, log[n].scope \in held, n > off
          PROVE  n - off \in seen /\ n = off + (n - off)
        BY <1>2, <1>4, <1>9
    <1>10. ASSUME after = NoCursor, NEW n \in DOMAIN log, NEW a \in PageSeqs(page), NEW b \in PageSeqs(page),
                  log[n].scope \in held, a < n, n < b
           PROVE  n \in PageSeqs(page)
        <2>1. PICK i \in first, k \in first : a = off + i /\ b = off + k
            BY <1>7
        <2>2. i \in 1..Len(events) /\ k \in 1..Len(events)
            BY <1>2
        <2>3. n > off /\ n - off < k
            BY <1>2, <1>4, <1>10, <2>1, <2>2
        <2>4. at = {}
            <3>1. ASSUME NEW x \in at PROVE FALSE
                <4>1. x \in 1..Len(events) /\ events[x].id = NoCursor
                    BY <1>2, <1>10
                <4>2. events[x] \in Event
                    BY <4>1 DEF ReadingTypes
                <4>3. events[x].id \in Nat
                    BY <4>2 DEF Event
                <4> QED BY <4>1, <4>3, CursorAssumption
            <3> QED BY <3>1
        <2>5. n - off \in rest
            BY <1>3, <1>9, <1>10, <2>3, <2>4
        <2>6. n - off \in first
            BY <1>6, <2>3, <2>5
        <2> QED BY <1>7, <1>9, <1>10, <2>3, <2>6
    <1>11. ASSUME Unrepeated(log), NEW m \in DOMAIN log, log[m].id = after, NEW b \in PageSeqs(page)
           PROVE  /\ m < b
                  /\ \A n \in DOMAIN log : log[n].scope \in held /\ m < n /\ n < b => n \in PageSeqs(page)
        <2>1. PICK k \in first : b = off + k
            BY <1>7
        <2>2. after # NoCursor
            <3>1. log[m].id \in DOMAIN log
                BY DEF ReadingTypes
            <3> QED BY <1>4, <1>11, <3>1, CursorAssumption
        <2>3. at # {} /\ k \in seen /\ k > Min(at) /\ k \in 1..Len(events)
            BY <1>2, <1>3, <2>1, <2>2
        <2>4. ASSUME NEW i \in at PROVE i \in 1..Len(events) /\ m = off + i
            <3>1. i \in 1..Len(events) /\ events[i].id = after
                BY <1>2
            <3>2. off + i \in DOMAIN log /\ log[off + i].id = log[m].id
                BY <1>4, <1>11, <3>1
            <3> QED BY <1>11, <3>1, <3>2 DEF Unrepeated
        <2>5. PICK i \in at : at = {i} /\ m = off + i /\ i \in 1..Len(events)
            <3>1. PICK i \in at : TRUE
                BY <2>3
            <3>2. \A j \in at : j = i
                BY <1>2, <2>4, <3>1
            <3> QED BY <2>4, <3>1, <3>2
        <2>6. Min(at) = i
            BY <2>5 DEF Min
        <2>7. m < b
            BY <1>2, <2>1, <2>3, <2>5, <2>6
        <2>8. ASSUME NEW n \in DOMAIN log, log[n].scope \in held, m < n, n < b PROVE n \in PageSeqs(page)
            <3>1. n > off /\ n - off < k /\ n - off > i
                BY <1>2, <1>4, <2>1, <2>3, <2>5, <2>8
            <3>2. n - off \in rest
                BY <1>3, <1>9, <2>3, <2>6, <2>8, <3>1
            <3>3. n - off \in first
                BY <1>6, <3>1, <3>2
            <3> QED BY <1>7, <1>9, <2>8, <3>1, <3>3
        <2> QED BY <2>7, <2>8
    <1> QED BY <1>8, <1>10, <1>11

\* The newest event of a page is one of it, and later than the others.
LEMMA NewestIsLast ==
    ASSUME ReadingTypes, NEW E, E # {}, \A e \in E : e.seq \in DOMAIN log /\ e = log[e.seq]
    PROVE  Newest(E) \in E /\ \A x \in E : x.seq <= Newest(E).seq
    <1> DEFINE S == {e.seq : e \in E}
    <1>0. Len(log) \in Nat /\ DOMAIN log = 1..Len(log)
        BY DEF ReadingTypes
    <1>1. S \in SUBSET (0..Len(log)) /\ S # {}
        BY <1>0
    <1>2. PICK i \in S : \A j \in S : j <= i
        BY <1>0, <1>1, GreatestMember
    <1>3. \E e \in E : \A x \in E : x.seq <= e.seq
        BY <1>2
    <1> QED BY <1>3 DEF Newest

\* An answer that is received keeps what was read without gaps, up to the cursor.
LEMMA ReceiveKeeps ==
    ASSUME ReadingInv, NEW c \in Clients, Receive(c, Page(events, poll[c].held, cursor[c])),
           UNCHANGED <<bound, events, log>>
    PROVE  ReadingInv'
    <1> DEFINE held == poll[c].held
               after == cursor[c]
    <1>1. PICK page : page = Page(events, held, after)
        OBVIOUS
    <1>2. after \in DOMAIN log \cup {NoCursor} /\ got[c] \in SUBSET DOMAIN log
          /\ DOMAIN cursor = Clients /\ DOMAIN got = Clients /\ DOMAIN steady = Clients
          /\ \A n \in DOMAIN log : n \in Nat
        BY DEF ReadingInv, ReadingTypes
    <1>3. /\ \A e \in page.events : e.seq \in DOMAIN log /\ e = log[e.seq]
          /\ after = NoCursor =>
               \A n \in DOMAIN log : \A a, b \in PageSeqs(page) :
                   log[n].scope \in held /\ a < n /\ n < b => n \in PageSeqs(page)
          /\ Unrepeated(log) => \A m \in DOMAIN log : log[m].id = after =>
               /\ \A b \in PageSeqs(page) : m < b
               /\ \A n \in DOMAIN log : \A b \in PageSeqs(page) :
                      log[n].scope \in held /\ m < n /\ n < b => n \in PageSeqs(page)
        BY <1>1, <1>2, PageIsNext DEF ReadingInv
    <1>4. \A s : s \in PageSeqs(page) => s \in DOMAIN log /\ s \in Nat
        BY <1>3 DEF PageSeqs, ReadingInv, ReadingTypes
    <1>5. \A d \in Clients \ {c} : /\ cursor'[d] = cursor[d] /\ got'[d] = got[d]
                                   /\ steady'[d] = steady[d]
        BY <1>2 DEF Receive
    <1>6. /\ DOMAIN cursor' = Clients /\ cursor' = [d \in Clients |-> cursor'[d]]
          /\ DOMAIN got' = Clients /\ got' = [d \in Clients |-> got'[d]]
          /\ DOMAIN steady' = Clients /\ steady' = [d \in Clients |-> steady'[d]]
        BY DEF Receive, ReadingInv, ReadingTypes
    <1>7. CASE page.state = "missing"
        <2>1. cursor'[c] = NoCursor /\ got'[c] = {} /\ steady'[c] = {}
            BY <1>1, <1>2, <1>7 DEF Receive
        <2>2. ReadingTypes'
            BY <1>5, <1>6, <2>1 DEF ReadingInv, ReadingTypes
        <2>3. Unrepeated(log) => CursorIsLast' /\ NoGap'
            BY <1>5, <2>1 DEF ReadingInv, CursorIsLast, CursorAt, NoGap
        <2> QED BY <2>2, <2>3 DEF ReadingInv
    <1>8. CASE page.state # "missing"
        <2>1. /\ cursor'[c] = IF page.events = {} THEN after ELSE Newest(page.events).id
              /\ got'[c] = got[c] \cup PageSeqs(page)
              /\ steady'[c] = IF after = NoCursor THEN held ELSE steady[c] \cap held
            BY <1>1, <1>2, <1>8 DEF Receive, PageSeqs
        <2>2. page.events # {} =>
                 \E n \in PageSeqs(page) : log[n].id = cursor'[c] /\ \A s \in PageSeqs(page) : s <= n
            <3>1. page.events # {} =>
                     /\ Newest(page.events) \in page.events
                     /\ \A x \in page.events : x.seq <= Newest(page.events).seq
                BY <1>3, NewestIsLast DEF ReadingInv
            <3> QED BY <1>3, <2>1, <3>1 DEF PageSeqs
        <2>3. cursor'[c] \in DOMAIN log \cup {NoCursor} /\ got'[c] \in SUBSET DOMAIN log
            BY <1>2, <1>4, <2>1, <2>2 DEF ReadingInv, ReadingTypes
        <2>4. ReadingTypes'
            BY <1>5, <1>6, <2>3 DEF ReadingInv, ReadingTypes
        <2>5. ASSUME Unrepeated(log) PROVE CursorIsLast' /\ NoGap'
            <3>1. CursorIsLast /\ NoGap
                BY <2>5 DEF ReadingInv
            <3>2. /\ after = NoCursor => got[c] = {}
                  /\ after # NoCursor => \E m \in DOMAIN log : CursorAt(c, m)
                BY <3>1 DEF CursorIsLast
            <3>3. \A m \in DOMAIN log : CursorAt(c, m) => \A b \in PageSeqs(page) : m < b
                BY <1>3, <2>5 DEF CursorAt
            <3>4. IF cursor'[c] = NoCursor THEN got'[c] = {} ELSE \E n \in DOMAIN log' : CursorAt(c, n)'
                <4>1. CASE page.events = {}
                    <5>1. PageSeqs(page) = {} /\ got'[c] = got[c] /\ cursor'[c] = after
                        BY <2>1, <4>1 DEF PageSeqs
                    <5> QED BY <3>2, <5>1 DEF CursorAt
                <4>2. CASE page.events # {}
                    <5>1. PICK n \in PageSeqs(page) :
                             log[n].id = cursor'[c] /\ \A s \in PageSeqs(page) : s <= n
                        BY <2>2, <4>2
                    <5>2. n \in DOMAIN log /\ n \in Nat /\ n \in got'[c]
                        BY <1>4, <2>1
                    <5>3. \A g \in got[c] : g <= n
                        <6>1. CASE after = NoCursor
                            BY <3>2, <6>1
                        <6>2. ASSUME NEW m \in DOMAIN log, CursorAt(c, m) PROVE \A g \in got[c] : g <= n
                            <7>1. m < n /\ m \in Nat /\ \A g \in got[c] : g <= m /\ g \in Nat
                                BY <1>2, <3>3, <5>1, <6>2 DEF CursorAt
                            <7> QED BY <5>2, <7>1
                        <6> QED BY <3>2, <6>1, <6>2
                    <5>4. CursorAt(c, n)'
                        BY <2>1, <5>1, <5>2, <5>3 DEF CursorAt
                    <5>5. cursor'[c] # NoCursor
                        BY <5>1, <5>2, CursorAssumption DEF ReadingInv, ReadingTypes
                    <5> QED BY <5>2, <5>4, <5>5
                <4> QED BY <4>1, <4>2
            <3>5. ASSUME NEW n \in DOMAIN log, log[n].scope \in steady'[c],
                         NEW a \in got'[c], NEW b \in got'[c], a < n, n < b
                  PROVE  n \in got'[c]
                <4>1. CASE after = NoCursor
                    BY <1>3, <2>1, <3>2, <3>5, <4>1
                <4>2. ASSUME NEW m \in DOMAIN log, CursorAt(c, m), after # NoCursor PROVE n \in got'[c]
                    <5>1. /\ log[n].scope \in steady[c] /\ log[n].scope \in held
                          /\ m \in got[c] /\ m \in Nat /\ n \in Nat /\ log[m].id = after
                          /\ \A g \in got[c] : g <= m /\ g \in Nat
                        BY <1>2, <2>1, <3>5, <4>2 DEF CursorAt
                    <5>2. CASE n = m
                        BY <2>1, <5>1, <5>2
                    <5>3. CASE n < m
                        <6>1. a \in got[c]
                            BY <1>4, <2>1, <3>3, <3>5, <4>2, <5>1, <5>3
                        <6>2. n \in got[c]
                            BY <3>1, <3>5, <5>1, <5>3, <6>1 DEF NoGap
                        <6> QED BY <2>1, <6>2
                    <5>4. CASE m < n
                        <6>1. b \in PageSeqs(page)
                            BY <1>4, <2>1, <3>5, <5>1, <5>4
                        <6>2. n \in PageSeqs(page)
                            BY <1>3, <2>5, <3>5, <5>1, <5>4, <6>1
                        <6> QED BY <2>1, <6>2
                    <5> QED BY <5>1, <5>2, <5>3, <5>4
                <4> QED BY <3>2, <4>1, <4>2
            <3>6. NoGap'
                BY <1>5, <3>1, <3>5 DEF NoGap
            <3>7. CursorIsLast'
                BY <1>5, <3>1, <3>4 DEF CursorIsLast, CursorAt
            <3> QED BY <3>6, <3>7
        <2> QED BY <2>4, <2>5 DEF ReadingInv
    <1> QED BY <1>7, <1>8

\* A new event, with the next number.
LEMMA PushKeeps ==
    ASSUME ReadingInv, NEW s \in Scopes, Push(s)
    PROVE  ReadingInv'
    <1>1. PICK e \in Event :
             /\ e.seq = Len(log) + 1 /\ e.id \in 1..(Len(log) + 1)
             /\ log' = Append(log, e)
             /\ events' = LastOf(Append(events, e), EventLimit)
        <2>1. PICK id \in {Len(log) + 1} \cup {x.id : x \in ToSet(log)} :
                 LET e == [seq |-> Len(log) + 1, id |-> id, scope |-> s]
                 IN log' = Append(log, e) /\ events' = LastOf(Append(events, e), EventLimit)
            BY DEF Push
        <2>2. Len(log) \in Nat /\ id \in 1..(Len(log) + 1)
            BY DEF ToSet, ReadingInv, ReadingTypes
        <2>3. [seq |-> Len(log) + 1, id |-> id, scope |-> s] \in Event
            BY <2>2 DEF Event
        <2> QED BY <2>1, <2>2, <2>3
    <1>2. /\ log \in Seq(Event) /\ events \in Seq(Event) /\ Len(log) \in Nat /\ Len(events) \in Nat
          /\ Len(events) <= Len(log) /\ EventLimit \in Nat \ {0} /\ bound.events \in Nat
          /\ Len(log) < bound.events
        BY PageAssumption, BoundsAssumption DEF ReadingInv, ReadingTypes, Push
    <1> DEFINE q == Append(events, e)
    <1>3. /\ log' \in Seq(Event) /\ Len(log') = Len(log) + 1
          /\ log'[Len(log) + 1] = e
          /\ \A n \in DOMAIN log : log'[n] = log[n]
          /\ \A n \in DOMAIN log' : n = Len(log) + 1 \/ n \in DOMAIN log
          /\ DOMAIN log = 1..Len(log)
        BY <1>1, <1>2
    <1>4. /\ q \in Seq(Event) /\ Len(q) = Len(events) + 1
          /\ \A i \in DOMAIN q : q[i] = log'[Len(log') - Len(q) + i]
        <2>1. q \in Seq(Event) /\ Len(q) = Len(events) + 1 /\ q[Len(events) + 1] = e
              /\ \A i \in DOMAIN q : i = Len(events) + 1 \/ (i \in DOMAIN events /\ q[i] = events[i])
            BY <1>2
        <2> HIDE DEF q
        <2>2. ASSUME NEW i \in DOMAIN events PROVE events[i] = log'[Len(log') - Len(q) + i]
            <3>1. /\ events[i] = log[Len(log) - Len(events) + i]
                  /\ Len(log) - Len(events) + i \in DOMAIN log
                BY <1>2 DEF ReadingInv, ReadingTypes
            <3>2. Len(log') - Len(q) + i = Len(log) - Len(events) + i
                BY <1>2, <1>3, <2>1
            <3> QED BY <1>3, <3>1, <3>2
        <2>3. Len(log') - Len(q) + (Len(events) + 1) = Len(log) + 1
            BY <1>2, <1>3, <2>1
        <2> QED BY <1>3, <2>1, <2>2, <2>3
    <1> HIDE DEF q
    <1>5. /\ events' \in Seq(Event) /\ Len(events') <= EventLimit /\ Len(events') <= Len(q)
          /\ \A i \in DOMAIN events' : /\ i + (Len(q) - Len(events')) \in DOMAIN q
                                       /\ events'[i] = q[i + (Len(q) - Len(events'))]
        BY <1>1, <1>2, <1>4, LastElements DEF q
    <1>6. \A i \in DOMAIN events' : events'[i] = log'[Len(log') - Len(events') + i]
        <2>1. ASSUME NEW i \in DOMAIN events' PROVE events'[i] = log'[Len(log') - Len(events') + i]
            <3> DEFINE j == i + (Len(q) - Len(events'))
            <3>1. j \in DOMAIN q /\ events'[i] = q[j] /\ q[j] = log'[Len(log') - Len(q) + j]
                BY <1>4, <1>5
            <3>2. Len(log') - Len(q) + j = Len(log') - Len(events') + i
                BY <1>2, <1>3, <1>4, <1>5
            <3> QED BY <3>1, <3>2
        <2> QED BY <2>1
    <1>7. UNCHANGED <<bound, cursor, got, steady>>
        BY DEF Push, reading
    <1>8. ReadingTypes'
        <2>1. \A n \in DOMAIN log' : log'[n].seq = n /\ log'[n].id \in DOMAIN log'
            BY <1>1, <1>2, <1>3 DEF ReadingInv, ReadingTypes
        <2>2. Len(events') \in Nat /\ Len(events') <= Len(log') /\ Len(log') <= bound.events
            BY <1>2, <1>3, <1>4, <1>5
        <2>3. DOMAIN log \subseteq DOMAIN log'
            BY <1>2, <1>3
        <2>4. cursor \in [Clients -> DOMAIN log' \cup {NoCursor}] /\ got \in [Clients -> SUBSET DOMAIN log']
            BY <2>3 DEF ReadingInv, ReadingTypes
        <2> QED BY <1>3, <1>5, <1>6, <1>7, <2>1, <2>2, <2>4 DEF ReadingInv, ReadingTypes
    <1>9. ASSUME Unrepeated(log)' PROVE CursorIsLast' /\ NoGap'
        <2>1. Unrepeated(log)
            BY <1>2, <1>3, <1>9 DEF Unrepeated
        <2>2. CursorIsLast /\ NoGap
            BY <2>1 DEF ReadingInv
        <2>3. CursorIsLast'
            BY <1>2, <1>3, <1>7, <2>2 DEF CursorIsLast, CursorAt
        <2>4. ASSUME NEW c \in Clients, NEW n \in DOMAIN log', log'[n].scope \in steady[c],
                     NEW a \in got[c], NEW b \in got[c], a < n, n < b
              PROVE  n \in got[c]
            <3>1. b \in 1..Len(log)
                BY <1>3 DEF ReadingInv, ReadingTypes
            <3>2. n \in DOMAIN log /\ log'[n] = log[n]
                BY <1>2, <1>3, <2>4, <3>1
            <3> QED BY <2>2, <2>4, <3>2 DEF NoGap
        <2>5. NoGap'
            BY <1>7, <2>4 DEF NoGap
        <2> QED BY <2>3, <2>5
    <1> QED BY <1>8, <1>9 DEF ReadingInv

LEMMA ReadingInit == ClientsInit => ReadingInv
    <1> SUFFICES ASSUME ClientsInit PROVE ReadingInv
        OBVIOUS
    <1>1. bound \in Bounds /\ bound.events \in Nat
        BY BoundsAssumption DEF ClientsInit
    <1>2. ReadingTypes
        BY <1>1, PageAssumption DEF ClientsInit, ReadingTypes
    <1>3. CursorIsLast /\ NoGap
        BY DEF ClientsInit, CursorIsLast, NoGap
    <1> QED BY <1>2, <1>3 DEF ReadingInv

LEMMA ReadingStep == ReadingInv /\ [ClientsNext]_clientVars => ReadingInv'
    <1> SUFFICES ASSUME ReadingInv, [ClientsNext]_clientVars PROVE ReadingInv'
        OBVIOUS
    <1>1. ASSUME UNCHANGED <<bound, log, cursor, got, steady>>, events' = events \/ events' = <<>>
          PROVE  ReadingInv'
        <2>1. ReadingTypes'
            <3>1. CASE events' = events
                BY <1>1, <3>1 DEF ReadingInv, ReadingTypes
            <3>2. CASE events' = <<>>
                <4>1. /\ events' \in Seq(Event) /\ DOMAIN events' = {} /\ Len(events') = 0
                      /\ Len(log) \in Nat
                    BY <3>2 DEF ReadingInv, ReadingTypes
                <4> QED BY <1>1, <4>1, PageAssumption DEF ReadingInv, ReadingTypes
            <3> QED BY <1>1, <3>1, <3>2
        <2>2. Unrepeated(log) => CursorIsLast' /\ NoGap'
            BY <1>1 DEF ReadingInv, CursorIsLast, CursorAt, NoGap
        <2> QED BY <1>1, <2>1, <2>2 DEF ReadingInv
    <1>2. ASSUME NEW c \in Clients, PollStarts(c) \/ PollLost(c) \/ PollWaits(c) PROVE ReadingInv'
        BY <1>1, <1>2 DEF PollStarts, PollLost, PollWaits
    <1>3. ASSUME NEW c \in Clients, PollPages(c) \/ PollWakes(c) PROVE ReadingInv'
        <2>1. \/ Receive(c, Page(events, poll[c].held, cursor[c]))
              \/ UNCHANGED <<cursor, got, steady>>
            BY <1>3 DEF PollPages, PollWakes
        <2>2. UNCHANGED <<bound, events, log>>
            BY <1>3 DEF PollPages, PollWakes
        <2> QED BY <1>1, <2>1, <2>2, ReceiveKeeps
    <1>4. ASSUME \/ \E ask \in bound.asks : RequestAuthorization(ask[1], ask[2])
                 \/ \E code \in DOMAIN codes : Confirm(code)
                 \/ \E x \in saving : ConfirmClones(x) \/ ConfirmSaves(x)
                 \/ \E c \in Clients, s \in Scopes : Revoke(c, s)
                 \/ Prune \/ Tick \/ Restart
          PROVE  ReadingInv'
        BY <1>1, <1>4 DEF RequestAuthorization, Confirm, ConfirmClones, ConfirmSaves, Revoke, Prune, Tick,
                          Restart, reading
    <1>5. CASE UNCHANGED clientVars
        BY <1>1, <1>5 DEF clientVars, reading
    <1> QED BY <1>2, <1>3, <1>4, <1>5, PushKeeps DEF ClientsNext, PollEnds

\* The queue of events keeps its limit and a cursor is the id of an event, among the other types.
THEOREM ClientsTypeCorrect == ClientsSpec => []ClientsTypeOK
    <1>1. GrantsInv /\ ReadingInv => ClientsTypeOK
        <2> SUFFICES ASSUME GrantsInv, ReadingInv PROVE ClientsTypeOK
            OBVIOUS
        <2>1. bound.events \in Nat /\ DOMAIN log \subseteq 1..bound.events
            BY BoundsAssumption DEF ReadingInv, ReadingTypes
        <2>2. ReadingTypeOK
            BY <2>1 DEF ReadingInv, ReadingTypes, ReadingTypeOK
        <2> QED BY <2>2 DEF ClientsTypeOK, GrantsInv
    <1> QED BY <1>1, GrantsInit, GrantsStep, ReadingInit, ReadingStep, PTL DEF ClientsSpec

\* As long as no event id has come twice, a client read every event that it had the scope for
\* between the first and the last that it has read; of those behind the last, nothing is said.  For any
\* number of clients, scopes and events, any limits of queue and page, and any order of
\* pushes, polls, lost answers, restarts, grants and revocations.
THEOREM NothingIsSkipped == ClientsSpec => []NothingSkipped
    <1>1. ReadingInv => NothingSkipped
        <2> SUFFICES ASSUME ReadingInv, Unrepeated(log), NEW c \in Clients, NEW e \in ToSet(log),
                            e.scope \in steady[c], NEW a \in got[c], NEW b \in got[c], a < e.seq, e.seq < b
                     PROVE  e.seq \in got[c]
            BY DEF NothingSkipped
        <2>1. e.seq \in DOMAIN log /\ log[e.seq] = e
            <3>1. PICK n \in DOMAIN log : log[n] = e
                BY DEF ToSet
            <3>2. log[n].seq = n
                BY DEF ReadingInv, ReadingTypes
            <3> QED BY <3>1, <3>2
        <2> QED BY <2>1 DEF ReadingInv, NoGap
    <1> QED BY <1>1, ReadingInit, ReadingStep, PTL DEF ClientsSpec
=============================================================================
