--------------------------- MODULE ReceiveService ----------------------------
(***************************************************************************)
(* The desktop's receiving side: start_receive_once and stop_receive_once, *)
(* the accept loops they start and stop, the handler each loop runs for a  *)
(* connection, the prompt that asks the user, and the one status, session  *)
(* and cancel slot all of them share.  What a handler does with the files  *)
(* of an accepted offer is FileTransfer.                                   *)
(*                                                                         *)
(* Each slot is behind a mutex of its own and every command and loop is a  *)
(* thread of its own: a step is what happens under one lock.               *)
(***************************************************************************)
EXTENDS Naturals, Functions

CONSTANTS
    Sessions,   \* calls of start_receive_once, each with the cancel flag it creates
    Threads,    \* the accept loops they spawn
    Session,    \* [t]: the session of a loop
    Iroh,       \* the loops that accept on iroh; the others accept on TCP
    NoSession,  \* receive_session is None
    NoThread,   \* active_receive_cancel is None
    NoOffer,    \* pending_receive_offer is None
    MaxConns,   \* bound: connections all accept loops take together
    Instances   \* bound: the accept loops of a behaviour are one of these sets

ASSUME ThreadsAssumption ==
    /\ Session \in [Threads -> Sessions]
    /\ Iroh \subseteq Threads
ASSUME NoneAssumption == NoSession \notin Sessions /\ NoThread \notin Threads
ASSUME BoundsAssumption == MaxConns \in Nat /\ Instances \subseteq SUBSET Threads

VARIABLES
    receive_session,        \* the session stop_receive_once would stop
    call,                   \* [s]: where the start call is
    cancelled,              \* [s]: the session's cancel flag
    loop,                   \* [t]: where the accept loop is
    handler,                \* [t]: where its connection handler is
    conns,                  \* [t]: connections taken; numbers the offers
    decision,               \* [t]: the answer to the offer the handler waits for
    result,                 \* [t]: how the connection ended
    active_receive_cancel,  \* the thread whose connection a stop cancels
    conn_cancel,            \* [t]: that connection's cancel flag
    pending_receive_offer,  \* the offer the user is asked about
    shown,                  \* the offer the window shows
    respond,                \* respond_receive_offer: the offer it took, and the answer
    stop,                   \* where stop_receive_once is
    phase,                  \* transfer_status: the phase shown
    consent,                \* (history): offers being handled that the user or the policy accepted
    misdirected             \* (history): offers that got the yes to another one

startVars   == <<receive_session, call, cancelled>>
loopVars    == <<loop, handler, conns, result>>
askVars     == <<pending_receive_offer, decision, respond>>
cancelVars  == <<active_receive_cancel, conn_cancel>>
yesVars     == <<consent, misdirected>>

vars == <<startVars, loopVars, askVars, cancelVars, shown, stop, phase, yesVars>>

Policies == {"always_ask", "auto_accept_trusted", "block_all"}
Peers    == {"trusted", "untrusted", "plain_as_trusted"}

\* What the handlers tell apart in the phase shown: "terminal" is declined, expired, blocked,
\* cancelled or closed, "open" is every other one.
Phases == {"open", "terminal"}

\* How a connection ended: "done" is received or paired, "unpaired" a pairing declined, "failed"
\* every error (broken, declined, expired, blocked or cancelled: the code tells none apart).
Results  == {"none", "done", "unpaired", "failed"}
Handlers == {"none", "hello", "prompting", "deciding", "receiving", "returned", "recording"}

Offers == Threads \X Nat

\* The offer of the connection t handles.
Offer(t) == <<t, conns[t]>>

TypeOK ==
    /\ receive_session \in Sessions \cup {NoSession}
    /\ call \in [Sessions -> {"none", "checked", "published", "done"}]
    /\ cancelled \in [Sessions -> BOOLEAN]
    /\ loop \in [Threads -> {"off", "top", "accepting", "handling", "closing", "over"}]
    /\ handler \in [Threads -> Handlers]
    /\ conns \in [Threads -> Nat]
    /\ decision \in [Threads -> {"none", "accept", "decline"}]
    /\ result \in [Threads -> Results]
    /\ active_receive_cancel \in Threads \cup {NoThread}
    /\ conn_cancel \in [Threads -> BOOLEAN]
    /\ pending_receive_offer \in Offers \cup {NoOffer}
    /\ shown \in Offers \cup {NoOffer}
    /\ respond \in [offer : Offers \cup {NoOffer}, answer : {"accept", "decline"}]
    /\ stop \in {"none", "session", "prompt", "show"}
    /\ phase \in Phases
    /\ \A t \in Threads : loop[t] = "handling" <=> handler[t] # "none"
    /\ consent \subseteq Offers
    /\ misdirected \subseteq Offers

NoRespond == [offer |-> NoOffer, answer |-> "decline"]

Init ==
    /\ receive_session = NoSession
    /\ \E on \in Instances :
           /\ call = [s \in Sessions |-> IF \E t \in on : Session[t] = s THEN "none" ELSE "done"]
           /\ loop = [t \in Threads |-> IF t \in on THEN "off" ELSE "over"]
    /\ cancelled = [s \in Sessions |-> FALSE]
    /\ handler = [t \in Threads |-> "none"]
    /\ conns = [t \in Threads |-> 0]
    /\ decision = [t \in Threads |-> "none"]
    /\ result = [t \in Threads |-> "none"]
    /\ active_receive_cancel = NoThread
    /\ conn_cancel = [t \in Threads |-> FALSE]
    /\ pending_receive_offer = NoOffer
    /\ shown = NoOffer
    /\ respond = NoRespond
    /\ stop = "none"
    /\ phase = "open"
    /\ consent = {}
    /\ misdirected = {}

-----------------------------------------------------------------------------
(* start_receive_once.                                                      *)

\* A session that is there is returned; otherwise directory, listener and tickets are made.
StartCheck(s) ==
    /\ call[s] = "none"
    /\ call' = [call EXCEPT ![s] = IF receive_session = NoSession THEN "checked" ELSE "done"]
    /\ UNCHANGED <<receive_session, cancelled, loopVars, askVars, cancelVars, stop, phase,
                   shown, yesVars>>

\* Mutant: the slot is not looked at again.
StartPublish_NoRecheck(s) ==
    /\ call[s] = "checked"
    /\ receive_session' = s
    /\ call' = [call EXCEPT ![s] = "published"]
    /\ UNCHANGED <<cancelled, loopVars, askVars, cancelVars, stop, phase, shown, yesVars>>

\* The session is published, unless another start was faster: then the listener is dropped.
StartPublish(s) ==
    /\ call[s] = "checked"
    /\ IF receive_session = NoSession
       THEN /\ receive_session' = s
            /\ call' = [call EXCEPT ![s] = "published"]
       ELSE /\ call' = [call EXCEPT ![s] = "done"]
            /\ UNCHANGED receive_session
    /\ UNCHANGED <<cancelled, loopVars, askVars, cancelVars, stop, phase, shown, yesVars>>

\* The status says "listening", and the accept loops are spawned.
StartListen(s) ==
    /\ call[s] = "published"
    /\ call' = [call EXCEPT ![s] = "done"]
    /\ phase' = "open"
    /\ loop' = [t \in Threads |-> IF Session[t] = s /\ loop[t] = "off" THEN "top" ELSE loop[t]]
    /\ UNCHANGED <<receive_session, cancelled, handler, conns, result, askVars, cancelVars,
                   stop, shown, yesVars>>

-----------------------------------------------------------------------------
(* The accept loops.                                                        *)

\* The session's cancel flag is looked at once per turn of the loop.
LoopTop(t) ==
    /\ loop[t] = "top"
    /\ ~cancelled[Session[t]]
    /\ loop' = [loop EXCEPT ![t] = "accepting"]
    /\ UNCHANGED <<startVars, handler, conns, result, askVars, cancelVars, stop, phase,
                   shown, yesVars>>

\* Mutant: only the TCP loop looks at the flag.
LoopExit_TcpOnly(t) ==
    /\ loop[t] \in {"top", "accepting"}
    /\ cancelled[Session[t]]
    /\ t \notin Iroh
    /\ receive_session' = NoSession
    /\ loop' = [loop EXCEPT ![t] = "closing"]
    /\ UNCHANGED <<call, cancelled, handler, conns, result, askVars, cancelVars, stop,
                   phase, shown, yesVars>>

\* The flag is looked at again when nobody connects within 120 ms (500 ms on iroh).  A
\* stopped TCP loop empties the session slot, whosever session is in it.
LoopExit(t) ==
    /\ loop[t] \in {"top", "accepting"}
    /\ cancelled[Session[t]]
    /\ IF t \notin Iroh
       THEN /\ receive_session' = NoSession
            /\ loop' = [loop EXCEPT ![t] = "closing"]
       ELSE /\ loop' = [loop EXCEPT ![t] = "over"]
            /\ UNCHANGED receive_session
    /\ UNCHANGED <<call, cancelled, handler, conns, result, askVars, cancelVars, stop,
                   phase, shown, yesVars>>

LoopClosed(t) ==
    /\ loop[t] = "closing"
    /\ loop' = [loop EXCEPT ![t] = "over"]
    /\ phase' = "terminal"
    /\ UNCHANGED <<startVars, handler, conns, result, askVars, cancelVars, stop, shown,
                   yesVars>>

\* The iroh endpoint fails: its loop ends, nothing tells the session.
IrohLoopFails(t) ==
    /\ loop[t] = "accepting"
    /\ t \in Iroh
    /\ loop' = [loop EXCEPT ![t] = "over"]
    /\ UNCHANGED <<startVars, handler, conns, result, askVars, cancelVars, stop, phase,
                   shown, yesVars>>

\* A peer connects; the connection's own cancel flag goes into the one slot there is.
Connection(t) ==
    /\ loop[t] = "accepting"
    /\ FoldFunction(+, 0, conns) < MaxConns
    /\ loop' = [loop EXCEPT ![t] = "handling"]
    /\ handler' = [handler EXCEPT ![t] = "hello"]
    /\ conns' = [conns EXCEPT ![t] = @ + 1]
    /\ active_receive_cancel' = t
    /\ UNCHANGED <<startVars, result, askVars, conn_cancel, stop, phase, shown, yesVars>>

-----------------------------------------------------------------------------
(* handle_receive_connection and wait_for_receive_decision.                 *)

\* accept_incoming_stream_... returns, and its cancel flag is taken out of the slot, if it is
\* the one in it (clear_active_receive_cancel).
Return(t, r) ==
    /\ handler' = [handler EXCEPT ![t] = "returned"]
    /\ result' = [result EXCEPT ![t] = r]
    /\ decision' = [decision EXCEPT ![t] = "none"]
    /\ active_receive_cancel' =
          IF active_receive_cancel = t THEN NoThread ELSE active_receive_cancel
    /\ consent' = consent \ {Offer(t)}
    /\ misdirected' = misdirected \ {Offer(t)}

\* The handshake fails, or a pairing request is answered (module Pairing).
HelloEnds(t) ==
    /\ handler[t] = "hello"
    /\ \E r \in {"failed", "done", "unpaired"} : Return(t, r)
    /\ UNCHANGED <<startVars, loop, conns, pending_receive_offer, respond, conn_cancel,
                   stop, phase, shown>>

\* The policy, as it was when the connection began, blocks every offer; a trusted device may
\* not send in plain.
BlockOffer(t, policy, peer) ==
    /\ handler[t] = "hello"
    /\ policy = "block_all" \/ peer = "plain_as_trusted"
    /\ phase' = "terminal"
    /\ Return(t, "failed")
    /\ UNCHANGED <<startVars, loop, conns, pending_receive_offer, respond, conn_cancel,
                   stop, shown>>

AutoAcceptOffer(t, policy, peer) ==
    /\ handler[t] = "hello"
    /\ policy = "auto_accept_trusted"
    /\ peer = "trusted"
    /\ phase' = "open"
    /\ handler' = [handler EXCEPT ![t] = "receiving"]
    /\ consent' = consent \cup {Offer(t)}
    /\ UNCHANGED <<startVars, loop, conns, result, askVars, cancelVars, stop, shown,
                   misdirected>>

\* The user is asked: a prompt that was in the slot is overwritten.
PromptUser(t, policy, peer) ==
    /\ handler[t] = "hello"
    /\ policy # "block_all"
    /\ peer # "plain_as_trusted"
    /\ ~(policy = "auto_accept_trusted" /\ peer = "trusted")
    /\ pending_receive_offer' = Offer(t)
    /\ decision' = [decision EXCEPT ![t] = "none"]
    /\ handler' = [handler EXCEPT ![t] = "prompting"]
    /\ UNCHANGED <<startVars, loop, conns, result, respond, cancelVars, stop, phase,
                   shown, yesVars>>

ShowPrompt(t) ==
    /\ handler[t] = "prompting"
    /\ handler' = [handler EXCEPT ![t] = "deciding"]
    /\ phase' = "open"
    /\ UNCHANGED <<startVars, loop, conns, result, askVars, cancelVars, stop, shown,
                   yesVars>>

\* The condition variable wakes the handler with a yes: the files are received.
Accepted(t) ==
    /\ handler[t] = "deciding"
    /\ decision[t] = "accept"
    /\ handler' = [handler EXCEPT ![t] = "receiving"]
    /\ UNCHANGED <<startVars, loop, conns, result, askVars, cancelVars, stop, phase,
                   shown, yesVars>>

Declined(t) ==
    /\ handler[t] = "deciding"
    /\ decision[t] = "decline"
    /\ Return(t, "failed")
    /\ UNCHANGED <<startVars, loop, conns, pending_receive_offer, respond, conn_cancel,
                   stop, phase, shown>>

\* 300 s are over: the answer is not looked at any more, even if there is one.
TimesOut(t) ==
    /\ handler[t] = "deciding"
    /\ phase' = "terminal"
    /\ Return(t, "failed")
    /\ UNCHANGED <<startVars, loop, conns, pending_receive_offer, respond, conn_cancel,
                   stop, shown>>

Progress(t) ==
    /\ handler[t] = "receiving"
    /\ phase' = "open"
    /\ UNCHANGED <<startVars, loopVars, askVars, cancelVars, stop, shown, yesVars>>

\* The files are received, or receiving them fails (module FileTransfer).
ReceiveEnds(t) ==
    /\ handler[t] = "receiving"
    /\ \E r \in {"done", "failed"} : Return(t, r)
    /\ UNCHANGED <<startVars, loop, conns, pending_receive_offer, respond, conn_cancel,
                   stop, phase, shown>>

\* should_cancel looks at the session's flag and at the connection's.
ReceiveCancelled(t) ==
    /\ handler[t] = "receiving"
    /\ cancelled[Session[t]] \/ conn_cancel[t]
    /\ Return(t, "failed")
    /\ UNCHANGED <<startVars, loop, conns, pending_receive_offer, respond, conn_cancel,
                   stop, phase, shown>>

\* Mutant: the prompt of a connection that failed, or whose time was over, stays.
ClearPrompt_OnlyAnswered(t) ==
    /\ handler[t] = "returned"
    /\ handler' = [handler EXCEPT ![t] = "recording"]
    /\ pending_receive_offer' = IF result[t] = "done"
                                THEN NoOffer ELSE pending_receive_offer
    /\ UNCHANGED <<startVars, loop, conns, result, decision, respond, cancelVars, stop,
                   phase, shown, yesVars>>

\* The prompt slot is emptied, whosever prompt is in it.
ClearPrompt(t) ==
    /\ handler[t] = "returned"
    /\ handler' = [handler EXCEPT ![t] = "recording"]
    /\ pending_receive_offer' = NoOffer
    /\ UNCHANGED <<startVars, loop, conns, result, decision, respond, cancelVars, stop,
                   phase, shown, yesVars>>

\* Status and history get the result: a failure does, unless the phase shown is a terminal
\* one, whichever connection or stop it is from.
Record(t) ==
    /\ handler[t] = "recording"
    /\ handler' = [handler EXCEPT ![t] = "none"]
    /\ loop' = [loop EXCEPT ![t] = "top"]
    /\ result' = [result EXCEPT ![t] = "none"]
    /\ conn_cancel' = [conn_cancel EXCEPT ![t] = FALSE]
    /\ \/ /\ result[t] = "done"
          /\ phase' = "open"
       \/ /\ result[t] = "unpaired"
          /\ phase' = "terminal"
       \/ /\ result[t] = "failed"
          /\ phase # "terminal"
          /\ phase' = "open"
       \/ /\ result[t] = "failed"
          /\ phase = "terminal"
          /\ UNCHANGED phase
    /\ UNCHANGED <<startVars, conns, askVars, active_receive_cancel, stop, shown,
                   yesVars>>

\* The send task shows its own phases in the same status (here: when a handler is about to
\* read it, as nothing else does).
SendStatus ==
    /\ \E t \in Threads : handler[t] = "recording"
    /\ \E p \in Phases \ {phase} : phase' = p
    /\ UNCHANGED <<startVars, loopVars, askVars, cancelVars, stop, shown, yesVars>>

-----------------------------------------------------------------------------
(* respond_receive_offer and stop_receive_once.                             *)

\* The window polls the slots and shows what it finds.  What is shown does not follow the slot:
\* when the user answers it, it may be expired or replaced by another prompt.
LookAtPrompt ==
    /\ shown # pending_receive_offer
    /\ shown' = pending_receive_offer
    /\ UNCHANGED <<startVars, loopVars, askVars, cancelVars, stop, phase, yesVars>>

\* A command returns and the window takes the prompt away, unless the answer to a poll is still
\* under way and brings it back.
HidePrompt == shown' \in {NoOffer, shown, pending_receive_offer}

\* The handler of offer o waits for the answer.
Waits(o) == handler[o[1]] \in {"prompting", "deciding"} /\ conns[o[1]] = o[2]

\* The user answers what is shown.  The command is told yes or no and no offer: it takes a copy
\* of the prompt that is in the slot, and fails without one.  A yes is consent to the offer
\* that was shown, not to the one it is taken for.
RespondTake ==
    /\ respond = NoRespond
    /\ shown # NoOffer
    /\ pending_receive_offer # NoOffer
    /\ \E a \in {"accept", "decline"} :
          /\ respond' = [offer |-> pending_receive_offer, answer |-> a]
          /\ consent' = IF a = "accept" /\ Waits(shown) THEN consent \cup {shown} ELSE consent
          /\ misdirected' =
                IF a = "accept" /\ pending_receive_offer # shown /\ Waits(pending_receive_offer)
                THEN misdirected \cup {pending_receive_offer} ELSE misdirected
    /\ UNCHANGED <<startVars, loopVars, pending_receive_offer, decision, cancelVars, shown,
                   stop, phase>>

\* Mutant: the answer goes to whatever offer the thread now waits with.
RespondApply_ByThread ==
    /\ respond # NoRespond
    /\ decision' = [decision EXCEPT ![respond.offer[1]] =
                       IF handler[respond.offer[1]] \in {"prompting", "deciding"}
                       THEN respond.answer ELSE @]
    /\ pending_receive_offer' = NoOffer
    /\ HidePrompt
    /\ phase' = IF respond.answer = "accept" THEN "open" ELSE "terminal"
    /\ respond' = NoRespond
    /\ UNCHANGED <<startVars, loopVars, cancelVars, stop, yesVars>>

\* The answer is written, the prompt slot emptied, the status set, all under the lock of the
\* decision: the handler that waits for it sees one step.
RespondApply ==
    /\ respond # NoRespond
    /\ decision' = [decision EXCEPT ![respond.offer[1]] =
                       IF Waits(respond.offer) THEN respond.answer ELSE @]
    /\ pending_receive_offer' = NoOffer
    /\ HidePrompt
    /\ phase' = IF respond.answer = "accept" THEN "open" ELSE "terminal"
    /\ respond' = NoRespond
    /\ UNCHANGED <<startVars, loopVars, cancelVars, stop, yesVars>>

\* The connection in the cancel slot is cancelled.
StopConnection ==
    /\ stop = "none"
    /\ stop' = "session"
    /\ conn_cancel' = [t \in Threads |-> conn_cancel[t] \/ t = active_receive_cancel]
    /\ UNCHANGED <<startVars, loopVars, askVars, active_receive_cancel, shown, phase, yesVars>>

\* Mutant: the session stays in its slot until its loop takes it out.
StopSession_Leaves ==
    /\ stop = "session"
    /\ stop' = "prompt"
    /\ cancelled' = [s \in Sessions |-> cancelled[s] \/ s = receive_session]
    /\ UNCHANGED <<receive_session, call, loopVars, askVars, cancelVars, shown, phase, yesVars>>

\* The session is taken out of its slot and cancelled.
StopSession ==
    /\ stop = "session"
    /\ stop' = "prompt"
    /\ cancelled' = [s \in Sessions |-> cancelled[s] \/ s = receive_session]
    /\ receive_session' = NoSession
    /\ UNCHANGED <<call, loopVars, askVars, cancelVars, shown, phase, yesVars>>

\* The prompt is taken away and declined.
StopPrompt ==
    /\ stop = "prompt"
    /\ stop' = "show"
    /\ pending_receive_offer' = NoOffer
    /\ decision' = [t \in Threads |->
                       IF pending_receive_offer # NoOffer /\ pending_receive_offer[1] = t
                          /\ Waits(pending_receive_offer)
                       THEN "decline" ELSE decision[t]]
    /\ UNCHANGED <<startVars, loopVars, respond, cancelVars, shown, phase, yesVars>>

StopShow ==
    /\ stop = "show"
    /\ stop' = "none"
    /\ phase' = "terminal"
    /\ HidePrompt
    /\ UNCHANGED <<startVars, loopVars, askVars, cancelVars, yesVars>>

-----------------------------------------------------------------------------
Start(s) == StartCheck(s) \/ StartPublish(s) \/ StartListen(s)

LoopStep(t) == LoopTop(t) \/ LoopExit(t) \/ LoopClosed(t)

OfferStep(t, policy, peer) ==
    \/ BlockOffer(t, policy, peer) \/ AutoAcceptOffer(t, policy, peer)
    \/ PromptUser(t, policy, peer)

HandlerStep(t) ==
    \/ HelloEnds(t)
    \/ \E policy \in Policies, peer \in Peers : OfferStep(t, policy, peer)
    \/ ShowPrompt(t)
    \/ Accepted(t) \/ Declined(t) \/ TimesOut(t)
    \/ ReceiveEnds(t) \/ ReceiveCancelled(t)
    \/ ClearPrompt(t) \/ Record(t)

Respond == RespondTake \/ RespondApply

Stop == StopSession \/ StopPrompt \/ StopShow

Next ==
    \/ \E s \in Sessions : Start(s)
    \/ \E t \in Threads : \/ LoopStep(t) \/ HandlerStep(t)
                          \/ IrohLoopFails(t) \/ Connection(t) \/ Progress(t)
    \/ LookAtPrompt \/ Respond
    \/ StopConnection \/ Stop
    \/ SendStatus

Spec == Init /\ [][Next]_vars

\* Every accept loop is a thread; every wait of a handler has a timeout (60 s for the peer,
\* 300 s for the user, and FileTransfer's AttemptsEnd for the files).
FairSpec == Spec /\ \A t \in Threads : WF_vars(LoopStep(t) \/ HandlerStep(t))

-----------------------------------------------------------------------------
(* Properties.                                                              *)

\* Files are received only for an offer that the policy accepted or the user said yes to while
\* it was shown: an answer that comes late, beside a stop, a timeout or the thread's next
\* connection, accepts nothing else (wait_for_receive_decision, respond_receive_offer).  But
\* for one case: the command is told no offer, so a yes to an offer that is not in the slot any
\* more goes to the one that is (receive.rs:882), which misdirected remembers.
ReceivesOnlyAccepted ==
    \A t \in Threads : handler[t] = "receiving" => Offer(t) \in consent \cup misdirected

\* The session in the slot is one that was not stopped: get_receive_session shows a connection
\* code somebody answers, and start_receive_once returns no dead session.
SlotIsLive ==
    receive_session # NoSession =>
        /\ ~cancelled[receive_session]
        /\ call[receive_session] \in {"published", "done"}

\* The prompt in the slot is of the connection its loop handles now and waits for its first
\* answer: an offer that was answered, declined by a stop, that is being received, or that
\* belonged to an earlier connection is not in the slot.  (A sender that went away is noticed
\* only after the answer, so its prompt may stay for the 300 s; and what the window shows is
\* older than the slot.)
PromptIsLive ==
    pending_receive_offer # NoOffer =>
        LET t == pending_receive_offer[1] IN
        /\ conns[t] = pending_receive_offer[2]
        /\ handler[t] \in {"prompting", "deciding", "returned"}
        /\ decision[t] = "none"

Listening(s) == \E t \in Threads : Session[t] = s /\ loop[t] \notin {"off", "over"}

\* Of start calls that race each other, one listens and the others drop their listener: as
\* long as nothing was stopped, the session in the slot is the only one that listens.
OneStartWins ==
    (\A s \in Sessions : ~cancelled[s] /\ stop = "none") =>
        \A s \in Sessions : Listening(s) => receive_session = s

\* A loop whose session is cancelled ends, whatever its handler was waiting for: a session is
\* cancelled once, so again and again there is no stopped session that still listens.
StoppedLoopsEnd ==
    []<>(\A s \in Sessions : cancelled[s] /\ call[s] = "done" => ~Listening(s))

\* A listener that was not told to stop is the one in the slot, which stop_receive_once can
\* stop: the audit's "losers release their port" for every order of starts and stops.
NoOrphanListener ==
    stop = "none" =>
        \A s \in Sessions : Listening(s) /\ ~cancelled[s] => receive_session = s
=============================================================================
