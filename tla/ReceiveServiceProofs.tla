------------------------ MODULE ReceiveServiceProofs ------------------------
(***************************************************************************)
(* Proofs about the receiving side, for any number of sessions, accept     *)
(* loops and connections: what is received was accepted, the session slot  *)
(* and the prompt are live, and one start wins.                            *)
(***************************************************************************)
EXTENDS ReceiveService, TLAPS

\* An answer in hand is an answer to an offer that was asked about.
RespondOK ==
  \/ respond = NoRespond
  \/ /\ respond.offer \in Offers
     /\ LET t == respond.offer[1] IN
        \/ respond.offer[2] < conns[t]
        \/ respond.offer[2] = conns[t] /\ handler[t] # "hello"

\* A "yes" on its way, written or followed is one to the offer it is for, or a known misdirected one.
AcceptedIsConsented ==
  /\ respond # NoRespond /\ respond.answer = "accept" /\ Waits(respond.offer) =>
       respond.offer \in consent \cup misdirected
  /\ \A t \in Threads :
       /\ handler[t] \in {"prompting", "deciding"} /\ decision[t] = "accept" =>
            Offer(t) \in consent \cup misdirected
       /\ handler[t] = "receiving" => Offer(t) \in consent \cup misdirected

\* Only a session that was in the slot is cancelled.
CancelledWasPublished ==
  \A s \in Sessions : cancelled[s] => call[s] \in {"published", "done"}

\* The prompt belongs to a handler that has no answer yet and has not cleared it.
PromptIsHeld ==
  pending_receive_offer # NoOffer =>
    LET t == pending_receive_offer[1] IN
    /\ pending_receive_offer = Offer(t) /\ t \in Threads
    /\ handler[t] \in {"prompting", "deciding", "returned"}
    /\ decision[t] = "none"

\* Until a session is cancelled, whoever listens or is about to is in the slot.
ListenerIsInSlot ==
  (\A s \in Sessions : ~cancelled[s]) =>
    \A s \in Sessions : call[s] = "published" \/ Listening(s) => receive_session = s

ServiceInv ==
  /\ TypeOK /\ RespondOK
  /\ AcceptedIsConsented
  /\ CancelledWasPublished /\ SlotIsLive
  /\ PromptIsHeld
  /\ ListenerIsInSlot

-----------------------------------------------------------------------------
LEMMA ServiceInit == Init => ServiceInv
  <1> SUFFICES ASSUME Init PROVE ServiceInv
    OBVIOUS
  <1>1. TypeOK
    BY DEF Init, TypeOK, NoRespond, Phases, Results, Handlers
  <1>2. \A s \in Sessions : call[s] # "published" /\ ~Listening(s)
    BY DEF Init, Listening
  <1> QED BY <1>1, <1>2 DEF Init, ServiceInv, RespondOK, AcceptedIsConsented, CancelledWasPublished,
             SlotIsLive, PromptIsHeld, ListenerIsInSlot

\* Sessions and loops: what the start call, the loops and the stop change.
LEMMA StartKeeps ==
  ASSUME ServiceInv, NEW s \in Sessions, Start(s)
  PROVE  ServiceInv'
  <1> USE DEF ServiceInv
  <1>1. CASE StartCheck(s)
    BY <1>1 DEF StartCheck, TypeOK, RespondOK, AcceptedIsConsented, CancelledWasPublished, SlotIsLive,
       PromptIsHeld, ListenerIsInSlot, Listening, loopVars, askVars, cancelVars, Offer, Waits, yesVars
  <1>2. CASE StartPublish(s)
    BY <1>2, NoneAssumption DEF StartPublish, TypeOK, RespondOK, AcceptedIsConsented,
       CancelledWasPublished, SlotIsLive, PromptIsHeld, ListenerIsInSlot, Listening, loopVars, askVars,
       cancelVars, Offer, Waits, yesVars, Waits, yesVars
  <1>3. CASE StartListen(s)
    BY <1>3, ThreadsAssumption DEF StartListen, TypeOK, RespondOK, AcceptedIsConsented,
       CancelledWasPublished, SlotIsLive, PromptIsHeld, ListenerIsInSlot, Listening, askVars, cancelVars,
       Offer, Waits, yesVars, Phases
  <1> QED BY <1>1, <1>2, <1>3 DEF Start

LEMMA LoopKeeps ==
  ASSUME ServiceInv, NEW t \in Threads, LoopStep(t) \/ IrohLoopFails(t)
  PROVE  ServiceInv'
  <1> USE ThreadsAssumption DEF ServiceInv, TypeOK, RespondOK, AcceptedIsConsented,
          CancelledWasPublished, SlotIsLive, PromptIsHeld, ListenerIsInSlot, Listening, Offer, Waits, yesVars, askVars,
          cancelVars, startVars
  <1>1. CASE LoopTop(t)
    BY <1>1 DEF LoopTop
  <1>2. CASE LoopExit(t)
    BY <1>2 DEF LoopExit
  <1>3. CASE LoopClosed(t)
    BY <1>3 DEF LoopClosed, Phases
  <1>4. CASE IrohLoopFails(t)
    BY <1>4 DEF IrohLoopFails
  <1> QED BY <1>1, <1>2, <1>3, <1>4 DEF LoopStep

\* A connection: the sessions stay, a loop that handles it still listens.
LEMMA ConnectionKeeps ==
  ASSUME ServiceInv, NEW t \in Threads, Connection(t)
  PROVE  ServiceInv'
  <1> USE DEF ServiceInv
  <1>1. TypeOK' /\ RespondOK'
    <2>1. /\ loop' = [loop EXCEPT ![t] = "handling"] /\ handler' = [handler EXCEPT ![t] = "hello"]
          /\ conns' = [conns EXCEPT ![t] = @ + 1] /\ active_receive_cancel' = t
          /\ UNCHANGED <<startVars, result, askVars, conn_cancel, stop, phase, shown, yesVars>>
      BY DEF Connection
    <2>2. conns' \in [Threads -> Nat]
      BY <2>1 DEF TypeOK
    <2> QED BY <2>1, <2>2 DEF TypeOK, RespondOK, askVars, startVars, Handlers, Offers, yesVars
  <1>2. AcceptedIsConsented'
    BY DEF Connection, TypeOK, AcceptedIsConsented, RespondOK, Offers, Offer, Waits, yesVars, askVars
  <1>3. PromptIsHeld'
    BY DEF Connection, TypeOK, PromptIsHeld, Offer, askVars
  <1>4. CancelledWasPublished' /\ SlotIsLive' /\ ListenerIsInSlot'
    BY DEF Connection, TypeOK, CancelledWasPublished, SlotIsLive, ListenerIsInSlot, Listening, startVars
  <1> QED BY <1>1, <1>2, <1>3, <1>4

\* What leaves sessions and loops alone keeps what is said of them.
LEMMA SessionsKeep ==
  ASSUME ServiceInv, UNCHANGED <<startVars, loop>>
  PROVE  CancelledWasPublished' /\ SlotIsLive' /\ ListenerIsInSlot'
  BY DEF ServiceInv, CancelledWasPublished, SlotIsLive, ListenerIsInSlot, Listening, startVars

LEMMA HandlerKeeps ==
  ASSUME ServiceInv, NEW t \in Threads, HandlerStep(t) \/ Progress(t)
  PROVE  ServiceInv'
  <1> USE DEF TypeOK, RespondOK, AcceptedIsConsented, PromptIsHeld, Offer, Offers, Waits, yesVars, startVars, askVars,
              cancelVars, Phases, Results, Handlers
  <1> DEFINE Kept == TypeOK' /\ RespondOK' /\ AcceptedIsConsented' /\ PromptIsHeld'
  <1>1. ASSUME NEW policy \in Policies, NEW peer \in Peers, OfferStep(t, policy, peer)
        PROVE  Kept /\ UNCHANGED <<startVars, loop>>
    <2>1. CASE BlockOffer(t, policy, peer)
      BY <2>1 DEF BlockOffer, Return, ServiceInv
    <2>2. CASE AutoAcceptOffer(t, policy, peer)
      BY <2>2 DEF AutoAcceptOffer, ServiceInv
    <2>3. CASE PromptUser(t, policy, peer)
      BY <2>3 DEF PromptUser, ServiceInv
    <2> QED BY <1>1, <2>1, <2>2, <2>3 DEF OfferStep
  <1>2. CASE HelloEnds(t)
    BY <1>2, SessionsKeep DEF HelloEnds, Return, ServiceInv
  <1>3. CASE ShowPrompt(t)
    BY <1>3, SessionsKeep DEF ShowPrompt, ServiceInv
  <1>4. CASE Accepted(t)
    BY <1>4, SessionsKeep DEF Accepted, ServiceInv
  <1>5. CASE Declined(t)
    BY <1>5, SessionsKeep DEF Declined, Return, ServiceInv
  <1>6. CASE TimesOut(t)
    BY <1>6, SessionsKeep DEF TimesOut, Return, ServiceInv
  <1>7. CASE ReceiveEnds(t)
    BY <1>7, SessionsKeep DEF ReceiveEnds, Return, ServiceInv
  <1>8. CASE ReceiveCancelled(t)
    BY <1>8, SessionsKeep DEF ReceiveCancelled, Return, ServiceInv
  <1>9. CASE ClearPrompt(t)
    BY <1>9, SessionsKeep DEF ClearPrompt, ServiceInv
  <1>10. CASE Record(t)
    <2>1. Kept
      BY <1>10 DEF Record, ServiceInv
    <2>2. CancelledWasPublished' /\ SlotIsLive' /\ ListenerIsInSlot'
      BY <1>10 DEF Record, ServiceInv, CancelledWasPublished, SlotIsLive, ListenerIsInSlot, Listening
    <2> QED BY <2>1, <2>2 DEF ServiceInv
  <1>11. CASE Progress(t)
    BY <1>11, SessionsKeep DEF Progress, loopVars, ServiceInv
  <1> QED
    BY <1>1, <1>2, <1>3, <1>4, <1>5, <1>6, <1>7, <1>8, <1>9, <1>10, <1>11, SessionsKeep
    DEF HandlerStep, ServiceInv

\* The user's commands.
LEMMA CommandKeeps ==
  ASSUME ServiceInv, LookAtPrompt \/ Respond \/ StopConnection \/ Stop \/ SendStatus
  PROVE  ServiceInv'
  <1> USE DEF TypeOK, RespondOK, AcceptedIsConsented, PromptIsHeld, Offer, Offers, Waits, yesVars, startVars, loopVars,
              askVars, cancelVars, Phases
  <1>0. CASE LookAtPrompt
    BY <1>0, SessionsKeep DEF LookAtPrompt, ServiceInv
  <1>1. CASE RespondTake
    BY <1>1, SessionsKeep DEF RespondTake, NoRespond, ServiceInv
  <1>2. CASE RespondApply
    <2>1. TypeOK' /\ RespondOK' /\ PromptIsHeld' /\ UNCHANGED <<startVars, loop>>
      BY <1>2 DEF RespondApply, HidePrompt, NoRespond, ServiceInv
    <2>2. AcceptedIsConsented'
      BY <1>2 DEF RespondApply, Waits, NoRespond, ServiceInv
    <2> QED BY <2>1, <2>2, SessionsKeep DEF ServiceInv
  <1>3. CASE StopConnection
    BY <1>3, SessionsKeep DEF StopConnection, ServiceInv
  <1>4. CASE StopSession
    <2>1. TypeOK' /\ RespondOK' /\ AcceptedIsConsented' /\ PromptIsHeld'
      BY <1>4 DEF StopSession, ServiceInv
    <2>2. /\ receive_session' = NoSession /\ call' = call /\ loop' = loop
          /\ \A s \in Sessions : cancelled'[s] <=> cancelled[s] \/ s = receive_session
      BY <1>4 DEF StopSession
    <2>3. CancelledWasPublished' /\ SlotIsLive'
      BY <2>2, NoneAssumption DEF ServiceInv, CancelledWasPublished, SlotIsLive
    <2>4. ListenerIsInSlot'
      <3>1. CASE receive_session = NoSession
        BY <2>2, <3>1 DEF ServiceInv, ListenerIsInSlot, Listening
      <3>2. CASE receive_session \in Sessions
        BY <2>2, <3>2 DEF ListenerIsInSlot
      <3> QED BY <3>1, <3>2 DEF ServiceInv
    <2> QED BY <2>1, <2>3, <2>4 DEF ServiceInv
  <1>5. CASE StopPrompt
    BY <1>5, SessionsKeep DEF StopPrompt, ServiceInv
  <1>6. CASE StopShow
    BY <1>6, SessionsKeep DEF StopShow, HidePrompt, ServiceInv
  <1>7. CASE SendStatus
    BY <1>7, SessionsKeep DEF SendStatus, ServiceInv
  <1> QED BY <1>0, <1>1, <1>2, <1>3, <1>4, <1>5, <1>6, <1>7 DEF Respond, Stop

LEMMA ServiceStep == ServiceInv /\ [Next]_vars => ServiceInv'
  <1>1. ASSUME ServiceInv, UNCHANGED vars PROVE ServiceInv'
    BY <1>1 DEF vars, yesVars, Waits, startVars, loopVars, askVars, cancelVars, ServiceInv, TypeOK, RespondOK,
       AcceptedIsConsented, CancelledWasPublished, SlotIsLive, PromptIsHeld, ListenerIsInSlot,
       Listening, Offer, Waits, yesVars
  <1> QED BY <1>1, StartKeeps, LoopKeeps, ConnectionKeeps, HandlerKeeps, CommandKeeps DEF Next

-----------------------------------------------------------------------------

\* Every slot and every loop has its type.
THEOREM ServiceTypeCorrect == Spec => []TypeOK
  <1>1. ServiceInv => TypeOK
    BY DEF ServiceInv
  <1> QED BY <1>1, ServiceInit, ServiceStep, PTL DEF Spec

\* Files are received only for an offer that was accepted itself, or that got the yes to
\* another one because it had taken its place in the slot.
THEOREM OnlyAcceptedIsReceived == Spec => []ReceivesOnlyAccepted
  <1>1. ServiceInv => ReceivesOnlyAccepted
    BY DEF ServiceInv, AcceptedIsConsented, ReceivesOnlyAccepted
  <1> QED BY <1>1, ServiceInit, ServiceStep, PTL DEF Spec

\* The session in the slot was not stopped.
THEOREM SessionInSlotIsLive == Spec => []SlotIsLive
  <1>1. ServiceInv => SlotIsLive
    BY DEF ServiceInv
  <1> QED BY <1>1, ServiceInit, ServiceStep, PTL DEF Spec

\* A prompt in the slot waits for its first answer, in the connection its loop handles now.
THEOREM PromptHasItsConnection == Spec => []PromptIsLive
  <1>1. ServiceInv => PromptIsLive
    BY DEF ServiceInv, PromptIsHeld, PromptIsLive, Offer
  <1> QED BY <1>1, ServiceInit, ServiceStep, PTL DEF Spec

\* Of start calls that race, one listens.
THEOREM RaceHasOneWinner == Spec => []OneStartWins
  <1>1. ServiceInv => OneStartWins
    BY DEF ServiceInv, ListenerIsInSlot, OneStartWins
  <1> QED BY <1>1, ServiceInit, ServiceStep, PTL DEF Spec

=============================================================================
