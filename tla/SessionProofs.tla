--------------------------- MODULE SessionProofs -----------------------------
(***************************************************************************)
(* The session between two devices.  For every window size and every       *)
(* number of counters: nonces are unique, a control frame is opened at     *)
(* most once, and the window stays small.  For any number of devices,      *)
(* versions and connections: two ends that hold a session hold the same    *)
(* one, and an authenticated offer reaches the device that was meant, once *)
(* it has accepted its sender.                                             *)
(***************************************************************************)
EXTENDS Handshake, SessionTraffic, SubsequencesProofs

-----------------------------------------------------------------------------
(* The counters of a session, and its replay window.                        *)

\* Every frame that was sealed has a counter below the next one.
SentBelowCounter == \A f \in sent : f.counter < send_counter

\* The inductive invariant of the sender, and of the receiver's window.
SenderInv == TrafficTypeOK /\ NonceUnique /\ SentBelowCounter

WindowInv == TrafficTypeOK /\ OpenedOnce /\ OpenedIsCovered /\ SeenInWindow

\* The window's lower end is a number, not above the highest counter, and at most Window - 1
\* below it.
LEMMA MinimumBounds ==
  ASSUME NEW h \in Nat
  PROVE  /\ minimum_counter(h) \in 0..h
         /\ h - minimum_counter(h) <= Window - 1
  BY WindowAssumption DEF minimum_counter, saturating_sub

\* The window's lower end never moves down.
LEMMA MinimumMonotone ==
  ASSUME NEW g \in Nat, NEW h \in Nat, g <= h
  PROVE  minimum_counter(g) <= minimum_counter(h)
  BY WindowAssumption DEF minimum_counter, saturating_sub

\* Sealing takes the next counter, while there is one.
LEMMA SealStep ==
  ASSUME SenderInv, NEW kind \in {"control", "file"}, Seal(kind)
  PROVE  SenderInv'
  <1>1. send_counter \in Counters /\ send_counter' = send_counter + 1
    BY CounterMaxAssumption DEF SenderInv, TrafficTypeOK, Seal, Counters
  <1>2. sent' = sent \cup {[kind |-> kind, counter |-> send_counter]}
    BY DEF Seal
  <1>3. TrafficTypeOK'
    BY <1>1, <1>2, CounterMaxAssumption
    DEF SenderInv, TrafficTypeOK, Seal, windowVars, Frame, Counters
  <1>4. SentBelowCounter'
    BY <1>1, <1>2 DEF SenderInv, SentBelowCounter, TrafficTypeOK, Frame, Counters
  <1>5. NonceUnique'
    <2>1. \A f \in sent : f.counter # send_counter
      BY <1>1 DEF SenderInv, SentBelowCounter, TrafficTypeOK, Frame, Counters
    <2> QED
      BY <1>2, <2>1 DEF SenderInv, NonceUnique
  <1> QED
    BY <1>3, <1>4, <1>5 DEF SenderInv

\* After a frame is taken, the window is above every counter it was above before.
LEMMA OpenStep ==
  ASSUME WindowInv, NEW f \in sent, Open(f)
  PROVE  WindowInv'
  <1> DEFINE c == f.counter
             h == highest_counter'
  <1>1. c \in Counters /\ c \in Nat
    BY DEF WindowInv, TrafficTypeOK, Frame, Counters
  <1>2. Accepts(c)
    BY DEF Open
  <1>3. /\ h \in Counters /\ h \in Nat /\ h # NoCounter
        /\ c <= h
        /\ highest_counter # NoCounter => highest_counter \in Nat /\ highest_counter <= h
        /\ h = c \/ h = highest_counter
    BY <1>1, NoCounterAssumption DEF WindowInv, TrafficTypeOK, Open, Higher, Counters
  <1>4. seen_counters' = {x \in seen_counters \cup {c} : x >= minimum_counter(h)}
    BY DEF Open, prune
  <1>5. opened' = [opened EXCEPT ![c] = @ + 1]
    BY DEF Open
  <1>6. minimum_counter(h) \in 0..h
    BY <1>3, MinimumBounds
  <1>7. opened[c] = 0
    <2>1. opened[c] \in Nat
      BY <1>1 DEF WindowInv, TrafficTypeOK
    <2>2. ~(opened[c] > 0)
      BY <1>1, <1>2 DEF WindowInv, OpenedIsCovered, Accepts
    <2> QED
      BY <2>1, <2>2
  <1>8. c >= minimum_counter(h)
    <2>1. CASE h = c
      BY <1>6, <2>1, <1>1
    <2>2. CASE h = highest_counter
      BY <1>2, <1>3, <2>2 DEF Accepts, InWindow
    <2> QED
      BY <1>3, <2>1, <2>2
  <1>9. TrafficTypeOK'
    <2>1. seen_counters' \subseteq Counters
      BY <1>1, <1>4 DEF WindowInv, TrafficTypeOK
    <2>2. opened' \in [Counters -> Nat]
      <3>1. opened[c] + 1 \in Nat
        BY <1>7
      <3> QED
        BY <1>5, <3>1 DEF WindowInv, TrafficTypeOK
    <2> QED
      BY <1>3, <2>1, <2>2 DEF WindowInv, TrafficTypeOK, Open, senderVars
  <1>10. OpenedOnce'
    BY <1>1, <1>5, <1>7 DEF WindowInv, TrafficTypeOK, OpenedOnce
  <1>11. OpenedIsCovered'
    <2>1. ASSUME NEW x \in Counters, opened'[x] > 0
          PROVE  x \in seen_counters' \/ ~(x >= minimum_counter(h))
      <3>1. x = c \/ opened[x] > 0
        BY <1>1, <1>5, <2>1 DEF WindowInv, TrafficTypeOK
      <3>2. CASE x = c
        BY <1>4, <1>8, <3>2
      <3>3. CASE x \in seen_counters
        BY <1>4, <3>3
      <3>4. CASE ~InWindow(x)
        <4>1. /\ highest_counter # NoCounter
              /\ ~(x >= minimum_counter(highest_counter))
          BY <3>4 DEF InWindow
        <4>2. /\ minimum_counter(highest_counter) \in Nat
              /\ minimum_counter(highest_counter) <= minimum_counter(h)
          BY <1>3, <4>1, MinimumBounds, MinimumMonotone
        <4>3. x \in Nat
          BY DEF Counters
        <4> QED
          BY <1>6, <4>1, <4>2, <4>3
      <3> QED
        BY <3>1, <3>2, <3>3, <3>4 DEF WindowInv, OpenedIsCovered
    <2>2. \A x \in seen_counters' : opened'[x] > 0
      <3>1. \A x \in seen_counters : x \in Counters /\ opened[x] > 0 /\ opened[x] \in Nat
        BY DEF WindowInv, TrafficTypeOK, OpenedIsCovered
      <3> QED
        BY <1>1, <1>4, <1>5, <1>7, <3>1 DEF WindowInv, TrafficTypeOK
    <2> QED
      BY <1>3, <2>1, <2>2 DEF OpenedIsCovered, InWindow
  <1>12. SeenInWindow'
    <2>1. \A x \in seen_counters : x \in Nat /\ x <= h
      <3>1. \A x \in seen_counters : /\ x \in Nat
                                     /\ highest_counter # NoCounter
                                     /\ x <= highest_counter
        BY DEF WindowInv, TrafficTypeOK, SeenInWindow, Counters
      <3> QED
        BY <1>3, <3>1
    <2>2. \A x \in seen_counters' : minimum_counter(h) <= x /\ x <= h
      BY <1>1, <1>3, <1>4, <1>6, <2>1
    <2> QED
      BY <1>3, <2>2 DEF SeenInWindow
  <1> QED
    BY <1>9, <1>10, <1>11, <1>12 DEF WindowInv

\* Both invariants hold in every state.
THEOREM TrafficInvariant == TrafficSpec => [](SenderInv /\ WindowInv)
  <1>1. TrafficInit => SenderInv /\ WindowInv
    BY CounterMaxAssumption
    DEF TrafficInit, SenderInv, WindowInv, TrafficTypeOK, NonceUnique, SentBelowCounter, OpenedOnce,
        OpenedIsCovered, SeenInWindow, Counters
  <1>2. SenderInv /\ WindowInv /\ [TrafficNext]_trafficVars => (SenderInv /\ WindowInv)'
    <2> SUFFICES ASSUME SenderInv, WindowInv, [TrafficNext]_trafficVars PROVE (SenderInv /\ WindowInv)'
      OBVIOUS
    <2>1. ASSUME NEW kind \in {"control", "file"}, Seal(kind) PROVE (SenderInv /\ WindowInv)'
      <3>1. SenderInv'
        BY <2>1, SealStep
      <3>2. WindowInv'
        BY <2>1, <3>1
        DEF Seal, windowVars, WindowInv, SenderInv, OpenedOnce, OpenedIsCovered, SeenInWindow,
            InWindow
      <3> QED
        BY <3>1, <3>2
    <2>2. ASSUME NEW f \in sent, Open(f) PROVE (SenderInv /\ WindowInv)'
      <3>1. WindowInv'
        BY <2>2, OpenStep
      <3>2. SenderInv'
        BY <2>2, <3>1
        DEF Open, senderVars, WindowInv, SenderInv, NonceUnique, SentBelowCounter
      <3> QED
        BY <3>1, <3>2
    <2>3. CASE UNCHANGED trafficVars
      BY <2>3
      DEF trafficVars, senderVars, windowVars, SenderInv, WindowInv, TrafficTypeOK, NonceUnique,
          SentBelowCounter, OpenedOnce, OpenedIsCovered, SeenInWindow, InWindow
    <2> QED
      BY <2>1, <2>2, <2>3 DEF TrafficNext
  <1> QED
    BY <1>1, <1>2, PTL DEF TrafficSpec

\* The state is well typed in every session.
THEOREM TrafficTypeCorrect == TrafficSpec => []TrafficTypeOK
  BY TrafficInvariant, PTL DEF SenderInv

\* No nonce is used twice (next_session_counter).
THEOREM NoncesAreUnique == TrafficSpec => []NonceUnique
  BY TrafficInvariant, PTL DEF SenderInv

\* No control frame is opened twice, for every window size and any length of session
\* (SessionReplayWindow::accept and prune).
THEOREM NothingOpenedTwice == TrafficSpec => []OpenedOnce
  BY TrafficInvariant, PTL DEF WindowInv

\* The window remembers at most Window counters.
THEOREM WindowStaysSmall == TrafficSpec => []SeenBounded
  <1>1. WindowInv => SeenBounded
    <2> SUFFICES ASSUME WindowInv PROVE SeenBounded
      OBVIOUS
    <2>1. CASE seen_counters = {}
      BY <2>1, FS_EmptySet, WindowAssumption DEF SeenBounded
    <2>2. CASE seen_counters # {}
      <3> DEFINE low == minimum_counter(highest_counter)
      <3>1. highest_counter \in Nat
        <4>1. PICK x \in seen_counters : TRUE
          BY <2>2
        <4>2. highest_counter # NoCounter
          BY <4>1 DEF WindowInv, SeenInWindow
        <4> QED
          BY <4>2 DEF WindowInv, TrafficTypeOK, Counters
      <3>2. low \in 0..highest_counter /\ highest_counter - low <= Window - 1
        BY <3>1, MinimumBounds
      <3>3. seen_counters \subseteq low..highest_counter
        BY <3>1, <3>2 DEF WindowInv, SeenInWindow, TrafficTypeOK, Counters
      <3>4. /\ IsFiniteSet(low..highest_counter)
            /\ Cardinality(low..highest_counter) = highest_counter - low + 1
        BY <3>1, <3>2, FS_Interval
      <3>5. /\ IsFiniteSet(seen_counters)
            /\ Cardinality(seen_counters) <= Cardinality(low..highest_counter)
        BY <3>3, <3>4, FS_Subset
      <3>6. Cardinality(seen_counters) \in Nat
        BY <3>5, FS_CardinalityType
      <3> QED
        BY <3>1, <3>2, <3>4, <3>5, <3>6, WindowAssumption DEF SeenBounded
    <2> QED
      BY <2>1, <2>2
  <1> QED
    BY <1>1, TrafficInvariant, PTL

\* A frame that is late by less than the window is taken.
THEOREM LateFramesAreTaken == TrafficSpec => []LateFrameTaken
  <1>1. WindowInv => LateFrameTaken
    <2> SUFFICES ASSUME WindowInv, NEW f \in sent, opened[f.counter] = 0,
                        highest_counter # NoCounter => f.counter + Window > highest_counter
                 PROVE  Accepts(f.counter)
      BY DEF LateFrameTaken
    <2>1. f.counter \in Nat /\ f.counter \in Counters
      BY DEF WindowInv, TrafficTypeOK, Frame, Counters
    <2>2. f.counter \notin seen_counters
      BY DEF WindowInv, OpenedIsCovered
    <2>3. ASSUME highest_counter # NoCounter
          PROVE  f.counter >= minimum_counter(highest_counter)
      <3>1. highest_counter \in Nat
        BY <2>3 DEF WindowInv, TrafficTypeOK, Counters
      <3> QED
        BY <2>1, <2>3, <3>1, WindowAssumption DEF minimum_counter, saturating_sub
    <2> QED
      BY <2>2, <2>3 DEF Accepts, InWindow
  <1> QED
    BY <1>1, TrafficInvariant, PTL

-----------------------------------------------------------------------------
(* The handshake: the inductive invariant, for each connection.             *)

CipherLists == {Ciphers[d] : d \in Devices}
CipherNames == STRING
Hashes == Conns \X Peer \X CipherLists \X Peer \X CipherNames
Sessions == [peer : Peer, cipher : CipherNames, hash : Hashes]

StageI(c) == initiator[c].stage
StageR(c) == responder[c].stage

\* The hello is on its way, or was left by a caller that is gone.
HelloSent(c) ==
    \E p \in Peer :
        /\ toResponder[c] = <<[kind |-> "hello", from |-> p, ciphers |-> Ciphers[Caller[c]]]>>
        /\ p.id = Caller[c]
        /\ StageI(c) \in {"hello", "failed"}
        /\ StageR(c) \in {"idle", "failed"}
        /\ StageI(c) = "hello" => p = Identity(Caller[c])

\* So is the caller's binding: the other end has said that it is ready.
BindingSent(c) ==
    \E s : /\ toResponder[c] = <<[kind |-> "binding", signed |-> s]>>
           /\ StageI(c) \in {"bound", "failed"}
           /\ StageR(c) \in {"ready", "session", "failed"}

\* So is the offer, sealed in the responder's own session.
OfferSent(c) ==
    LET h == handshakeR[c]
    IN /\ toResponder[c] = <<ControlFrame(c, "offer", h.cipher,
                                          <<h.hash, Caller[c], answerer[c]>>, h.peer)>>
       /\ StageI(c) = "offered"
       /\ StageR(c) # "idle"

\* The ready is on its way back, for the session that the responder holds.
ReadySent(c) ==
    LET h == handshakeR[c]
    IN \E q \in Peer :
        /\ toInitiator[c] = <<[kind |-> "ready", from |-> q, cipher |-> h.cipher, hash |-> h.hash]>>
        /\ q.id = answerer[c]
        /\ StageI(c) \in {"hello", "failed"}
        /\ StageR(c) \in {"ready", "session", "failed"}
        /\ h.hash = <<c, h.peer, Ciphers[Caller[c]], q, h.cipher>>

\* So is the responder's binding: it has accepted the caller.
BindingReturned(c) ==
    \E s : /\ toInitiator[c] = <<[kind |-> "binding", signed |-> s]>>
           /\ StageI(c) \in {"bound", "failed"}
           /\ StageR(c) \in {"session", "failed"}
           /\ responder[c].mode = "authenticated"

\* At most one message of a connection is in flight.
HalfDuplex(c) ==
    \/ toResponder[c] = <<>> /\ toInitiator[c] = <<>>
    \/ toInitiator[c] = <<>> /\ (HelloSent(c) \/ BindingSent(c) \/ OfferSent(c))
    \/ toResponder[c] = <<>> /\ (ReadySent(c) \/ BindingReturned(c))

\* A connection that was not dialled is untouched; one that the other end has not answered
\* has not got far.
Order(c) ==
    /\ StageI(c) = "idle" =>
          /\ StageR(c) = "idle" /\ link[c] = "open" /\ context[c] = "Untrusted"
          /\ toResponder[c] = <<>>
          /\ answerer[c] = Caller[c]
    /\ StageI(c) # "idle" => answerer[c] # Caller[c]
    /\ StageR(c) = "idle" => toInitiator[c] = <<>> /\ StageI(c) \in {"idle", "hello", "failed"}

\* The responder has chosen the session, and an end may depend on it.
Chosen(c) ==
    \/ toInitiator[c] # <<>>
    \/ StageR(c) \in {"ready", "session", "decided"}
    \/ StageI(c) \in {"bound", "offered"}

\* Then its peer is the caller, as it was when it said hello, and both know the cipher.
ChosenWell(c) ==
    Chosen(c) =>
        LET h == handshakeR[c]
        IN /\ h \in Sessions
           /\ h.peer.id = Caller[c]
           /\ \A d \in {Caller[c], answerer[c]} : Contains(Ciphers[d], h.cipher)
           /\ StageI(c) \in {"hello", "bound"} => h.peer = Identity(Caller[c])

\* An initiator that has taken the ready is in the responder's session.
SameSession(c) ==
    StageI(c) \in {"bound", "offered"} =>
        /\ handshakeI[c] \in Sessions
        /\ handshakeI[c].cipher = handshakeR[c].cipher
        /\ handshakeI[c].hash = handshakeR[c].hash
        /\ handshakeI[c].peer.id = answerer[c]

\* What only an authenticated end does.
ModesKept(c) ==
    /\ StageR(c) = "ready" => responder[c].mode = "authenticated"
    /\ StageI(c) = "bound" => initiator[c].mode = "authenticated"
    /\ context[c] = "AuthenticatedTrusted" => responder[c].mode = "authenticated"

\* An authenticated caller that has sent its offer was accepted, by whom it meant.
Reached(c) ==
    StageI(c) = "offered" /\ initiator[c].mode = "authenticated" =>
        /\ responder[c].mode = "authenticated"
        /\ StageR(c) \in {"session", "decided", "failed"}
        /\ IsMeant(c, handshakeI[c].peer)

ConnInv(c) ==
    /\ HalfDuplex(c)
    /\ Order(c)
    /\ ChosenWell(c)
    /\ SameSession(c)
    /\ ModesKept(c)
    /\ Reached(c)

HandshakeInv == TypeOK /\ \A c \in Conns : ConnInv(c)

USE CallerAssumption, CiphersAssumption, BoundAssumption, NoneAssumption

\* A message alone in its stream.
LEMMA OneMessage ==
  ASSUME NEW m
  PROVE  /\ Append(<<>>, m) = <<m>>
         /\ <<m>> # <<>>
         /\ Head(<<m>>) = m
         /\ Tail(<<m>>) = <<>>
  OBVIOUS

LEMMA StageChanged ==
  ASSUME NEW S, NEW r \in [mode : Modes, stage : S], NEW s
  PROVE  [r EXCEPT !.stage = s] = [mode |-> r.mode, stage |-> s]
  OBVIOUS

\* An end that goes on to another stage.
LEMMA NewStage ==
  ASSUME NEW S, NEW end \in [Conns -> [mode : Modes, stage : S]], NEW c \in Conns, NEW s \in S
  PROVE  [end EXCEPT ![c].stage = s] \in [Conns -> [mode : Modes, stage : S]]
  <1>1. [end[c] EXCEPT !.stage = s] \in [mode : Modes, stage : S]
    OBVIOUS
  <1>2. [end EXCEPT ![c].stage = s] = [end EXCEPT ![c] = [end[c] EXCEPT !.stage = s]]
    OBVIOUS
  <1> QED
    BY <1>1, <1>2

\* A cipher that is chosen is one that both ends know.
LEMMA SelectedByBoth ==
  ASSUME NEW local \in Seq(STRING), NEW peer \in Seq(STRING),
         select_session_cipher(local, peer) # <<>>
  PROVE  LET x == select_session_cipher(local, peer)[1]
         IN x \in STRING /\ Contains(local, x) /\ Contains(peer, x)
  <1> DEFINE offered == {i \in DOMAIN local : Contains(peer, local[i])}
             least == CHOOSE i \in offered : \A j \in offered : i <= j
  <1>1. offered # {} /\ select_session_cipher(local, peer) = <<local[least]>>
    BY DEF select_session_cipher
  <1>2. offered \subseteq Nat
    OBVIOUS
  <1>3. \E i \in offered : \A j \in offered : i <= j
    BY <1>1, <1>2, LeastMember
  <1>4. least \in offered
    BY <1>3
  <1>5. least \in 1..Len(local) /\ local[least] \in STRING
    BY <1>4
  <1>6. Contains(local, local[least])
    BY <1>5 DEF Contains
  <1> QED
    BY <1>1, <1>4, <1>5, <1>6

\* The state of one connection, and the key of its caller.
State(c) ==
    <<meant[c], answerer[c], initiator[c], responder[c], toResponder[c], toInitiator[c],
      link[c], handshakeI[c], handshakeR[c], context[c], key[Caller[c]]>>

\* What a step does elsewhere does not disturb a connection.
LEMMA Elsewhere ==
  ASSUME NEW c \in Conns, ConnInv(c), UNCHANGED State(c)
  PROVE  ConnInv(c)'
  <1>1. /\ HalfDuplex(c)' = HalfDuplex(c)
        /\ Order(c)' = Order(c)
        /\ ModesKept(c)' = ModesKept(c)
        /\ SameSession(c)' = SameSession(c)
    BY DEF State, HalfDuplex, HelloSent, BindingSent, OfferSent, ReadySent, BindingReturned, Order,
           ModesKept, SameSession, StageI, StageR, Identity
  <1>2. ChosenWell(c)' = ChosenWell(c) /\ Reached(c)' = Reached(c)
    BY DEF State, ChosenWell, Chosen, Reached, IsMeant, StageI, StageR, Identity
  <1> QED
    BY <1>1, <1>2 DEF ConnInv

LEMMA InitStep == Init => HandshakeInv
  <1> SUFFICES ASSUME Init PROVE HandshakeInv
    OBVIOUS
  <1>1. TypeOK
    BY DEF Init, TypeOK, Keys, Modes, StagesI, StagesR
  <1>2. ASSUME NEW c \in Conns PROVE ConnInv(c)
    BY DEF Init, ConnInv, HalfDuplex, Order, ChosenWell, Chosen, SameSession, ModesKept, Reached,
           StageI, StageR
  <1> QED
    BY <1>1, <1>2 DEF HandshakeInv

LEMMA DialStep ==
  ASSUME HandshakeInv, NEW c \in Conns, NEW d \in Devices, NEW peer \in Peer \cup {Anyone},
         NEW mI \in Modes, NEW mR \in Modes, Dial(c, d, peer, mI, mR)
  PROVE  HandshakeInv'
  <1>1. TypeOK'
    BY DEF HandshakeInv, TypeOK, Dial, Put, Modes, StagesI, StagesR, devices, handshakes
  <1>2. ASSUME NEW e \in Conns, e # c PROVE ConnInv(e)'
    BY <1>2, Elsewhere DEF HandshakeInv, TypeOK, Dial, Put, State, devices, handshakes
  <1>3. ConnInv(c)'
    <2> DEFINE hello == HelloFor(c)
    <2>1. /\ initiator'[c] = [mode |-> mI, stage |-> "hello"]
          /\ responder'[c].stage = "idle"
          /\ toResponder'[c] = <<hello>> /\ toInitiator'[c] = <<>>
          /\ answerer'[c] = d /\ d # Caller[c]
          /\ context'[c] = "Untrusted"
          /\ key' = key
      <3>1. ConnInv(c) /\ initiator[c].stage = "idle"
        BY DEF HandshakeInv, Dial
      <3>2. /\ responder[c].stage = "idle" /\ link[c] = "open" /\ context[c] = "Untrusted"
            /\ toResponder[c] = <<>> /\ toInitiator[c] = <<>>
        BY <3>1 DEF ConnInv, Order, StageI, StageR
      <3> QED
        BY <3>2, OneMessage DEF HandshakeInv, TypeOK, Dial, Put, devices, handshakes
    <2>2. Identity(Caller[c]) \in Peer /\ Identity(Caller[c])' = Identity(Caller[c])
      BY <2>1 DEF HandshakeInv, TypeOK, Identity, Peer
    <2>3. HalfDuplex(c)'
      BY <2>1, <2>2 DEF HalfDuplex, HelloSent, HelloFor, StageI, StageR, Identity
    <2> QED
      BY <2>1, <2>3 DEF ConnInv, Order, ChosenWell, Chosen, SameSession, ModesKept, Reached, StageI, StageR
  <1> QED
    BY <1>1, <1>2, <1>3 DEF HandshakeInv

\* What lies in a responder's stream, by how far the responder is.
LEMMA FirstIsHello ==
  ASSUME NEW c \in Conns, ConnInv(c), StageR(c) = "idle", toResponder[c] # <<>>
  PROVE  HelloSent(c) /\ toInitiator[c] = <<>>
  BY DEF ConnInv, HalfDuplex, BindingSent, OfferSent

LEMMA AcceptHelloStep ==
  ASSUME HandshakeInv, NEW c \in Conns, AcceptHello(c)
  PROVE  HandshakeInv'
  <1> DEFINE hello == Head(toResponder[c])
             chosen == select_session_cipher(Ciphers[answerer[c]], hello.ciphers)
             ready == ReadyFor(c, hello, chosen[1])
  <1>1. TypeOK'
    <2>1. /\ DOMAIN toResponder' = Conns /\ DOMAIN toInitiator' = Conns
          /\ DOMAIN handshakeR' = Conns
      BY DEF HandshakeInv, TypeOK, AcceptHello, Put, Take
    <2>2. link' \in [Conns -> {"open", "closed", "lost"}]
      BY DEF HandshakeInv, TypeOK, AcceptHello, Refuse, Hang
    <2>3. responder' \in [Conns -> [mode : Modes, stage : StagesR]]
      <3>1. PICK stage \in StagesR : responder' = [responder EXCEPT ![c].stage = stage]
        BY DEF AcceptHello, To, Refuse, StagesR
      <3>2. responder \in [Conns -> [mode : Modes, stage : StagesR]]
        BY DEF HandshakeInv, TypeOK
      <3> QED
        BY <3>1, <3>2, NewStage
    <2> QED
      BY <2>1, <2>2, <2>3 DEF HandshakeInv, TypeOK, AcceptHello, devices
  <1>2. ASSUME NEW e \in Conns, e # c PROVE ConnInv(e)'
    BY <1>2, Elsewhere
    DEF HandshakeInv, TypeOK, AcceptHello, Put, Take, To, Refuse, Hang, State, devices
  <1>3. ConnInv(c)'
    <2>1. /\ ConnInv(c) /\ StageR(c) = "idle"
          /\ HelloSent(c) /\ toInitiator[c] = <<>>
      BY FirstIsHello DEF HandshakeInv, AcceptHello, StageR
    <2>2. PICK p \in Peer :
            /\ toResponder[c] = <<[kind |-> "hello", from |-> p, ciphers |-> Ciphers[Caller[c]]]>>
            /\ p.id = Caller[c]
            /\ StageI(c) \in {"hello", "failed"}
            /\ StageI(c) = "hello" => p = Identity(Caller[c])
      BY <2>1 DEF HelloSent
    <2>3. hello = [kind |-> "hello", from |-> p, ciphers |-> Ciphers[Caller[c]]]
      BY <2>2, OneMessage
    <2>4. /\ toResponder'[c] = <<>>
          /\ initiator' = initiator /\ answerer' = answerer /\ context' = context
          /\ key' = key /\ meant' = meant /\ handshakeI' = handshakeI
          /\ responder'[c].mode = responder[c].mode
      BY <2>2, OneMessage DEF AcceptHello, Take, To, Refuse, Hang, HandshakeInv, TypeOK, devices
    <2>5. answerer[c] # Caller[c] /\ context[c] = context'[c] /\ StageI(c)' = StageI(c)
      BY <2>1, <2>2, <2>4 DEF ConnInv, Order, StageI
    <2>6. CASE chosen = <<>>
      <3>1. toInitiator'[c] = <<>> /\ responder'[c].stage = "refused"
        BY <2>1, <2>6 DEF AcceptHello, To, Refuse, Hang, HandshakeInv, TypeOK
      <3> QED
        BY <2>1, <2>2, <2>4, <2>5, <3>1
        DEF ConnInv, HalfDuplex, Order, ChosenWell, Chosen, SameSession, ModesKept, Reached,
            StageI, StageR
    <2>7. CASE chosen # <<>>
      <3> DEFINE h == Handshaken(p, ready)
                 stage == IF responder[c].mode = "anonymous" THEN "session" ELSE "ready"
      <3>1. /\ toInitiator'[c] = IF link[c] = "open" THEN <<ready>> ELSE <<>>
            /\ handshakeR'[c] = h
            /\ responder'[c].stage = stage
        BY <2>1, <2>3, <2>7, OneMessage DEF AcceptHello, Put, To, HandshakeInv, TypeOK
      <3>2. LET x == chosen[1]
            IN /\ x \in STRING
               /\ Contains(Ciphers[Caller[c]], x) /\ Contains(Ciphers[answerer[c]], x)
        BY <2>3, <2>7, SelectedByBoth DEF HandshakeInv, TypeOK
      <3>3. Identity(answerer[c]) \in Peer /\ Identity(answerer[c]).id = answerer[c]
        BY DEF HandshakeInv, TypeOK, Identity, Peer
      <3>4. /\ h.peer = p /\ h.cipher = chosen[1] /\ h.hash = ready.hash
            /\ ready.hash = <<c, p, Ciphers[Caller[c]], Identity(answerer[c]), chosen[1]>>
        BY <2>3 DEF Handshaken, ReadyFor, HandshakeHash
      <3>5. Ciphers[Caller[c]] \in CipherLists
        BY DEF CipherLists
      <3>6. h \in Sessions
        <4>1. <<c, p, Ciphers[Caller[c]], Identity(answerer[c]), chosen[1]>> \in Hashes
          BY <3>2, <3>3, <3>5 DEF Hashes, CipherNames
        <4>2. h = [peer |-> p, cipher |-> chosen[1], hash |-> ready.hash]
          BY DEF Handshaken, ReadyFor
        <4> HIDE DEF h, ready
        <4> QED
          BY <3>2, <3>4, <4>1, <4>2 DEF Sessions, CipherNames
      <3>7. ChosenWell(c)'
        BY <2>2, <2>4, <2>5, <3>1, <3>2, <3>4, <3>6 DEF ChosenWell, StageI, Identity
      <3>8. HalfDuplex(c)'
        <4>1. CASE link[c] # "open"
          BY <2>4, <3>1, <4>1 DEF HalfDuplex
        <4>2. CASE link[c] = "open"
          <5>1. ready = [kind |-> "ready", from |-> Identity(answerer[c]), cipher |-> h.cipher,
                         hash |-> h.hash]
            BY <3>4 DEF ReadyFor
          <5>2. ReadySent(c)'
            BY <2>2, <2>4, <2>5, <3>1, <3>3, <3>4, <4>2, <5>1 DEF ReadySent, StageI, StageR
          <5> QED
            BY <2>4, <5>2 DEF HalfDuplex
        <4> QED
          BY <4>1, <4>2
      <3>9. ModesKept(c)'
        <4>1. responder[c].mode \in Modes
          BY DEF HandshakeInv, TypeOK
        <4> QED
          BY <2>1, <2>2, <2>4, <3>1, <4>1 DEF ConnInv, ModesKept, StageI, StageR, Modes
      <3> QED
        BY <2>1, <2>2, <2>4, <2>5, <3>1, <3>7, <3>8, <3>9
        DEF ConnInv, Order, SameSession, Reached, StageI, StageR
    <2> QED
      BY <2>6, <2>7
  <1> QED
    BY <1>1, <1>2, <1>3 DEF HandshakeInv

\* An initiator that waits for a ready finds one, or nothing.
LEMMA FirstIsReady ==
  ASSUME NEW c \in Conns, ConnInv(c), StageI(c) = "hello", toInitiator[c] # <<>>
  PROVE  ReadySent(c) /\ toResponder[c] = <<>>
  BY DEF ConnInv, HalfDuplex, BindingReturned

LEMMA ReceiveReadyStep ==
  ASSUME HandshakeInv, NEW c \in Conns, ReceiveReady(c)
  PROVE  HandshakeInv'
  <1> DEFINE ready == Head(toInitiator[c])
             h == Handshaken(ready.from, ready)
             r == handshakeR[c]
             good == /\ ready.hash = HandshakeHash(c, HelloFor(c), ready.from, ready.cipher)
                     /\ Contains(Ciphers[Caller[c]], ready.cipher)
             binding == BindingFor("initiator", Caller[c], Identity(Caller[c]), h.hash)
  <1>1. TypeOK'
    <2>1. DOMAIN toResponder' = Conns /\ DOMAIN toInitiator' = Conns /\ DOMAIN handshakeI' = Conns
      BY DEF HandshakeInv, TypeOK, ReceiveReady, Put, Take
    <2>2. link' \in [Conns -> {"open", "closed", "lost"}]
      BY DEF HandshakeInv, TypeOK, ReceiveReady, Refuse, Hang
    <2>3. initiator' \in [Conns -> [mode : Modes, stage : StagesI]]
      <3>1. PICK stage \in StagesI : initiator' = [initiator EXCEPT ![c].stage = stage]
        BY DEF ReceiveReady, To, Refuse, StagesI
      <3>2. initiator \in [Conns -> [mode : Modes, stage : StagesI]]
        BY DEF HandshakeInv, TypeOK
      <3> QED
        BY <3>1, <3>2, NewStage
    <2> QED
      BY <2>1, <2>2, <2>3 DEF HandshakeInv, TypeOK, ReceiveReady, devices
  <1>2. ASSUME NEW e \in Conns, e # c PROVE ConnInv(e)'
    BY <1>2, Elsewhere
    DEF HandshakeInv, TypeOK, ReceiveReady, Put, Take, To, Refuse, Hang, State, devices
  <1>3. ConnInv(c)'
    <2>1. /\ ConnInv(c) /\ StageI(c) = "hello"
          /\ ReadySent(c) /\ toResponder[c] = <<>>
      BY FirstIsReady DEF HandshakeInv, ReceiveReady, StageI
    <2>2. PICK q \in Peer :
            /\ toInitiator[c] = <<[kind |-> "ready", from |-> q, cipher |-> r.cipher, hash |-> r.hash]>>
            /\ q.id = answerer[c]
            /\ StageR(c) \in {"ready", "session", "failed"}
            /\ r.hash = <<c, r.peer, Ciphers[Caller[c]], q, r.cipher>>
      BY <2>1 DEF ReadySent
    <2>3. ready = [kind |-> "ready", from |-> q, cipher |-> r.cipher, hash |-> r.hash]
      BY <2>2, OneMessage
    <2>4. /\ toInitiator'[c] = <<>>
          /\ responder' = responder /\ answerer' = answerer /\ context' = context
          /\ key' = key /\ meant' = meant /\ handshakeR' = handshakeR
          /\ initiator'[c].mode = initiator[c].mode
          /\ StageR(c)' = StageR(c)
      BY <2>2, OneMessage
      DEF ReceiveReady, Take, To, Refuse, Hang, HandshakeInv, TypeOK, devices, StageR
    <2>5. /\ r \in Sessions /\ r.peer.id = Caller[c] /\ r.peer = Identity(Caller[c])
          /\ \A d \in {Caller[c], answerer[c]} : Contains(Ciphers[d], r.cipher)
          /\ answerer[c] # Caller[c]
      BY <2>1, <2>2 DEF ConnInv, ChosenWell, Chosen, Order
    <2>6. Identity(Caller[c])' = Identity(Caller[c])
      BY <2>4 DEF Identity
    <2>7. CASE ~good
      <3>1. toResponder'[c] = <<>> /\ initiator'[c].stage = "refused"
        BY <2>1, <2>7 DEF ReceiveReady, To, Refuse, Hang, HandshakeInv, TypeOK
      <3> QED
        BY <2>1, <2>2, <2>4, <2>5, <3>1
        DEF ConnInv, HalfDuplex, Order, ChosenWell, Chosen, SameSession, ModesKept, Reached,
            StageI, StageR
    <2>8. CASE good
      <3>1. h = [peer |-> q, cipher |-> r.cipher, hash |-> r.hash]
        BY <2>3 DEF Handshaken
      <3>2. handshakeI'[c] = h
        BY <2>8 DEF ReceiveReady, HandshakeInv, TypeOK
      <3>3. SameSession(c)'
        <4>1. h.cipher = r.cipher /\ h.hash = r.hash /\ h.peer = q
          BY <3>1
        <4>2. r.cipher \in CipherNames /\ r.hash \in Hashes
          BY <2>5 DEF Sessions
        <4> HIDE DEF h
        <4>3. h \in Sessions
          BY <3>1, <4>2 DEF Sessions
        <4> QED
          BY <2>2, <2>4, <3>2, <4>1, <4>3 DEF SameSession
      <3>4. CASE initiator[c].mode = "anonymous"
        <4> DEFINE offer == OfferFor(c, h)
        <4>1. /\ toResponder'[c] = IF link[c] = "open" THEN <<offer>> ELSE <<>>
              /\ initiator'[c].stage = "offered"
          BY <2>1, <2>8, <3>4, OneMessage DEF ReceiveReady, Put, To, HandshakeInv, TypeOK
        <4>2. offer = ControlFrame(c, "offer", r.cipher, <<r.hash, Caller[c], answerer[c]>>, r.peer)
          <5>1. h.cipher = r.cipher /\ h.hash = r.hash
            BY <3>1
          <5>2. KeysFor(c, Caller[c], h).send = <<h.hash, Caller[c], answerer[c]>>
            BY DEF KeysFor
          <5> QED
            BY <2>5, <5>1, <5>2 DEF OfferFor
        <4>3. HalfDuplex(c)'
          <5>1. CASE link[c] # "open"
            BY <2>4, <4>1, <5>1 DEF HalfDuplex
          <5>2. CASE link[c] = "open"
            <6>1. OfferSent(c)'
              BY <2>2, <2>4, <4>1, <4>2, <5>2
              DEF OfferSent, StageI, StageR, ControlFrame, Sealed, AssociatedData
            <6> QED
              BY <2>4, <6>1 DEF HalfDuplex
          <5> QED
            BY <5>1, <5>2
        <4> QED
          BY <2>1, <2>2, <2>4, <2>5, <3>3, <3>4, <4>1, <4>3
          DEF ConnInv, Order, ChosenWell, Chosen, ModesKept, Reached, StageI, StageR
      <3>5. CASE initiator[c].mode # "anonymous"
        <4>1. /\ toResponder'[c] = IF link[c] = "open" THEN <<binding>> ELSE <<>>
              /\ initiator'[c].stage = "bound"
          BY <2>1, <2>8, <3>5, OneMessage DEF ReceiveReady, Put, To, HandshakeInv, TypeOK
        <4>2. initiator[c].mode = "authenticated"
          BY <3>5 DEF HandshakeInv, TypeOK, Modes
        <4>3. HalfDuplex(c)'
          <5>1. CASE link[c] # "open"
            BY <2>4, <4>1, <5>1 DEF HalfDuplex
          <5>2. CASE link[c] = "open"
            <6>1. BindingSent(c)'
              BY <2>2, <2>4, <4>1, <5>2 DEF BindingSent, BindingFor, StageI
            <6> QED
              BY <2>4, <6>1 DEF HalfDuplex
          <5> QED
            BY <5>1, <5>2
        <4> QED
          BY <2>1, <2>2, <2>4, <2>5, <2>6, <3>3, <4>1, <4>2, <4>3
          DEF ConnInv, Order, ChosenWell, Chosen, ModesKept, Reached, StageI, StageR
      <3> QED
        BY <3>4, <3>5
    <2> QED
      BY <2>7, <2>8
  <1> QED
    BY <1>1, <1>2, <1>3 DEF HandshakeInv

\* What a responder that has said that it is ready may find.
LEMMA NextAtResponder ==
  ASSUME NEW c \in Conns, ConnInv(c), StageR(c) \in {"ready", "session"}, toResponder[c] # <<>>
  PROVE  toInitiator[c] = <<>> /\ (BindingSent(c) \/ OfferSent(c))
  BY DEF ConnInv, HalfDuplex, HelloSent

\* A frame that is not a binding is not taken for one.
LEMMA OfferIsNoBinding ==
  ASSUME NEW c \in Conns, OfferSent(c)
  PROVE  Head(toResponder[c]).kind = "control"
  BY OneMessage DEF OfferSent, ControlFrame

LEMMA ReceiveInitiatorBindingStep ==
  ASSUME HandshakeInv, NEW c \in Conns, ReceiveInitiatorBinding(c)
  PROVE  HandshakeInv'
  <1> DEFINE h == handshakeR[c]
             good == /\ Verifies(Head(toResponder[c]), "initiator", h.peer, h.hash)
                     /\ AcceptsCaller(c, h.peer)
             binding == BindingFor("responder", answerer[c], Identity(answerer[c]), h.hash)
  <1>1. TypeOK'
    <2>1. DOMAIN toResponder' = Conns /\ DOMAIN toInitiator' = Conns
      BY DEF HandshakeInv, TypeOK, ReceiveInitiatorBinding, Put, Take
    <2>2. link' \in [Conns -> {"open", "closed", "lost"}]
      BY DEF HandshakeInv, TypeOK, ReceiveInitiatorBinding, Refuse, Hang
    <2>3. responder' \in [Conns -> [mode : Modes, stage : StagesR]]
      <3>1. PICK stage \in StagesR : responder' = [responder EXCEPT ![c].stage = stage]
        BY DEF ReceiveInitiatorBinding, To, Refuse, StagesR
      <3>2. responder \in [Conns -> [mode : Modes, stage : StagesR]]
        BY DEF HandshakeInv, TypeOK
      <3> QED
        BY <3>1, <3>2, NewStage
    <2>4. context' \in [Conns -> {"Untrusted", "AuthenticatedTrusted"}]
      BY DEF HandshakeInv, TypeOK, ReceiveInitiatorBinding
    <2> QED
      BY <2>1, <2>2, <2>3, <2>4 DEF HandshakeInv, TypeOK, ReceiveInitiatorBinding, devices, handshakes
  <1>2. ASSUME NEW e \in Conns, e # c PROVE ConnInv(e)'
    BY <1>2, Elsewhere
    DEF HandshakeInv, TypeOK, ReceiveInitiatorBinding, Put, Take, To, Refuse, Hang, State, devices,
        handshakes
  <1>3. ConnInv(c)'
    <2>1. /\ ConnInv(c) /\ StageR(c) = "ready"
          /\ toInitiator[c] = <<>> /\ (BindingSent(c) \/ OfferSent(c))
      BY NextAtResponder DEF HandshakeInv, ReceiveInitiatorBinding, StageR
    <2>2. responder[c].mode = "authenticated"
      BY <2>1 DEF ConnInv, ModesKept
    <2>3. /\ toResponder'[c] = <<>>
          /\ initiator' = initiator /\ answerer' = answerer
          /\ key' = key /\ meant' = meant /\ handshakeR' = handshakeR /\ handshakeI' = handshakeI
          /\ responder'[c].mode = "authenticated"
          /\ StageI(c)' = StageI(c)
      <3>1. PICK m : toResponder[c] = <<m>>
        BY <2>1 DEF BindingSent, OfferSent
      <3> QED
        BY <2>2, <3>1, OneMessage
        DEF ReceiveInitiatorBinding, Take, To, Refuse, Hang, HandshakeInv, TypeOK, devices,
            handshakes, StageI
    <2>4. /\ StageI(c) \in {"bound", "failed", "offered"}
          /\ StageI(c) = "offered" => initiator[c].mode # "authenticated"
      BY <2>1 DEF ConnInv, Reached, BindingSent, OfferSent
    <2>5. ChosenWell(c)' /\ SameSession(c)'
      BY <2>1, <2>3, <2>4 DEF ConnInv, ChosenWell, Chosen, SameSession, StageI, Identity
    <2>6. CASE ~good
      <3>1. /\ toInitiator'[c] = <<>> /\ responder'[c].stage = "refused"
            /\ context' = context
        BY <2>1, <2>6 DEF ReceiveInitiatorBinding, To, Refuse, Hang, HandshakeInv, TypeOK
      <3> QED
        BY <2>1, <2>3, <2>4, <2>5, <3>1
        DEF ConnInv, HalfDuplex, Order, ModesKept, Reached, StageI, StageR
    <2>7. CASE good
      <3>1. /\ toInitiator'[c] = IF link[c] = "open" THEN <<binding>> ELSE <<>>
            /\ responder'[c].stage = "session"
        BY <2>1, <2>7, OneMessage DEF ReceiveInitiatorBinding, Put, To, HandshakeInv, TypeOK
      <3>2. BindingSent(c)
        BY <2>1, <2>7, OfferIsNoBinding DEF Verifies
      <3>3. StageI(c) \in {"bound", "failed"}
        BY <3>2 DEF BindingSent
      <3>4. HalfDuplex(c)'
        <4>1. CASE link[c] # "open"
          BY <2>3, <3>1, <4>1 DEF HalfDuplex
        <4>2. CASE link[c] = "open"
          <5>1. BindingReturned(c)'
            BY <2>3, <3>1, <3>3, <4>2 DEF BindingReturned, BindingFor, StageR
          <5> QED
            BY <2>3, <5>1 DEF HalfDuplex
        <4> QED
          BY <4>1, <4>2
      <3> QED
        BY <2>1, <2>3, <2>5, <3>1, <3>3, <3>4
        DEF ConnInv, Order, ModesKept, Reached, StageI, StageR
    <2> QED
      BY <2>6, <2>7
  <1> QED
    BY <1>1, <1>2, <1>3 DEF HandshakeInv

\* An initiator that has bound itself finds the responder's binding, or nothing.
LEMMA NextAtInitiator ==
  ASSUME NEW c \in Conns, ConnInv(c), StageI(c) = "bound", toInitiator[c] # <<>>
  PROVE  toResponder[c] = <<>> /\ BindingReturned(c)
  BY DEF ConnInv, HalfDuplex, ReadySent

LEMMA ReceiveResponderBindingStep ==
  ASSUME HandshakeInv, NEW c \in Conns, ReceiveResponderBinding(c)
  PROVE  HandshakeInv'
  <1> DEFINE h == handshakeI[c]
             r == handshakeR[c]
             good == /\ Verifies(Head(toInitiator[c]), "responder", h.peer, h.hash)
                     /\ IsMeant(c, h.peer)
             offer == OfferFor(c, h)
  <1>1. TypeOK'
    <2>1. DOMAIN toResponder' = Conns /\ DOMAIN toInitiator' = Conns
      BY DEF HandshakeInv, TypeOK, ReceiveResponderBinding, Put, Take
    <2>2. link' \in [Conns -> {"open", "closed", "lost"}]
      BY DEF HandshakeInv, TypeOK, ReceiveResponderBinding, Refuse, Hang
    <2>3. initiator' \in [Conns -> [mode : Modes, stage : StagesI]]
      <3>1. PICK stage \in StagesI : initiator' = [initiator EXCEPT ![c].stage = stage]
        BY DEF ReceiveResponderBinding, To, Refuse, StagesI
      <3>2. initiator \in [Conns -> [mode : Modes, stage : StagesI]]
        BY DEF HandshakeInv, TypeOK
      <3> QED
        BY <3>1, <3>2, NewStage
    <2> QED
      BY <2>1, <2>2, <2>3 DEF HandshakeInv, TypeOK, ReceiveResponderBinding, devices, handshakes
  <1>2. ASSUME NEW e \in Conns, e # c PROVE ConnInv(e)'
    BY <1>2, Elsewhere
    DEF HandshakeInv, TypeOK, ReceiveResponderBinding, Put, Take, To, Refuse, Hang, State, devices,
        handshakes
  <1>3. ConnInv(c)'
    <2>1. /\ ConnInv(c) /\ StageI(c) = "bound"
          /\ toResponder[c] = <<>> /\ BindingReturned(c)
      BY NextAtInitiator DEF HandshakeInv, ReceiveResponderBinding, StageI
    <2>2. /\ StageR(c) \in {"session", "failed"} /\ responder[c].mode = "authenticated"
          /\ initiator[c].mode = "authenticated"
      BY <2>1 DEF ConnInv, ModesKept, BindingReturned
    <2>3. /\ toInitiator'[c] = <<>>
          /\ responder' = responder /\ answerer' = answerer /\ context' = context
          /\ key' = key /\ meant' = meant /\ handshakeR' = handshakeR /\ handshakeI' = handshakeI
          /\ initiator'[c].mode = "authenticated"
          /\ StageR(c)' = StageR(c)
      BY <2>1, <2>2, OneMessage
      DEF ReceiveResponderBinding, Take, To, Refuse, Hang, HandshakeInv, TypeOK, devices, handshakes,
          BindingReturned, StageR
    <2>4. /\ r \in Sessions /\ r.peer.id = Caller[c] /\ r.peer = Identity(Caller[c])
          /\ \A d \in {Caller[c], answerer[c]} : Contains(Ciphers[d], r.cipher)
          /\ h \in Sessions /\ h.cipher = r.cipher /\ h.hash = r.hash /\ h.peer.id = answerer[c]
          /\ answerer[c] # Caller[c]
      BY <2>1 DEF ConnInv, ChosenWell, Chosen, Order, SameSession
    <2>5. CASE ~good
      <3>1. toResponder'[c] = <<>> /\ initiator'[c].stage = "refused"
        BY <2>1, <2>5 DEF ReceiveResponderBinding, To, Refuse, Hang, HandshakeInv, TypeOK
      <3> QED
        BY <2>1, <2>2, <2>3, <2>4, <3>1
        DEF ConnInv, HalfDuplex, Order, ChosenWell, Chosen, SameSession, ModesKept, Reached,
            StageI, StageR
    <2>6. CASE good
      <3>1. /\ toResponder'[c] = IF link[c] = "open" THEN <<offer>> ELSE <<>>
            /\ initiator'[c].stage = "offered"
        BY <2>1, <2>6, OneMessage DEF ReceiveResponderBinding, Put, To, HandshakeInv, TypeOK
      <3>2. offer = ControlFrame(c, "offer", r.cipher, <<r.hash, Caller[c], answerer[c]>>, r.peer)
        <4>1. KeysFor(c, Caller[c], h).send = <<h.hash, Caller[c], answerer[c]>>
          BY DEF KeysFor
        <4> QED
          BY <2>4, <4>1 DEF OfferFor
      <3>3. HalfDuplex(c)'
        <4>1. CASE link[c] # "open"
          BY <2>3, <3>1, <4>1 DEF HalfDuplex
        <4>2. CASE link[c] = "open"
          <5>1. OfferSent(c)'
            BY <2>2, <2>3, <3>1, <3>2, <4>2
            DEF OfferSent, StageI, StageR, ControlFrame, Sealed, AssociatedData
          <5> QED
            BY <2>3, <5>1 DEF HalfDuplex
        <4> QED
          BY <4>1, <4>2
      <3>4. Reached(c)'
        BY <2>2, <2>3, <2>6, <3>1 DEF Reached, StageI, StageR, IsMeant
      <3> QED
        BY <2>1, <2>2, <2>3, <2>4, <3>1, <3>3, <3>4
        DEF ConnInv, Order, ChosenWell, Chosen, SameSession, ModesKept, StageI, StageR
    <2> QED
      BY <2>5, <2>6
  <1> QED
    BY <1>1, <1>2, <1>3 DEF HandshakeInv

\* The offer of an authenticated caller, or of an anonymous one, opens in the responder's session.
LEMMA OfferOpens ==
  ASSUME HandshakeInv, NEW c \in Conns, StageR(c) = "session", OfferSent(c)
  PROVE  LET frame == Head(toResponder[c])
             h == handshakeR[c]
         IN /\ OpensControl(c, frame, "offer", KeysFor(c, answerer[c], h).receive)
            /\ frame.sealed.payload = h.peer
  <1> DEFINE frame == Head(toResponder[c])
             h == handshakeR[c]
             k == <<h.hash, Caller[c], answerer[c]>>
  <1>1. frame = ControlFrame(c, "offer", h.cipher, k, h.peer)
    BY OneMessage DEF OfferSent
  <1>2. answerer[c] # Caller[c]
    BY DEF HandshakeInv, ConnInv, Order, OfferSent
  <1>3. KeysFor(c, answerer[c], h).receive = k
    BY <1>2 DEF KeysFor
  <1> HIDE DEF frame, k
  <1>4. /\ frame.kind = "control" /\ frame.inner = "offer" /\ frame.cipher = h.cipher
        /\ frame.sealed = Sealed(h.cipher, k, AssociatedData(c, "offer"), h.peer)
    BY <1>1 DEF ControlFrame
  <1>5. Opens(frame.cipher, k, AssociatedData(c, frame.inner), frame.sealed)
    BY <1>4 DEF Opens, Sealed
  <1>6. frame.sealed.payload = h.peer
    BY <1>4 DEF Sealed
  <1> QED
    BY <1>3, <1>4, <1>5, <1>6 DEF OpensControl, frame

LEMMA ReceiveOfferStep ==
  ASSUME HandshakeInv, NEW c \in Conns, ReceiveOffer(c)
  PROVE  HandshakeInv'
  <1> DEFINE frame == Head(toResponder[c])
             h == handshakeR[c]
             good == /\ OpensControl(c, frame, "offer", KeysFor(c, answerer[c], h).receive)
                     /\ SenderMatches(frame.sealed.payload, h)
  <1>1. TypeOK'
    <2>1. DOMAIN toResponder' = Conns
      BY DEF HandshakeInv, TypeOK, ReceiveOffer, Take
    <2>2. link' \in [Conns -> {"open", "closed", "lost"}]
      BY DEF HandshakeInv, TypeOK, ReceiveOffer, Refuse, Hang
    <2>3. responder' \in [Conns -> [mode : Modes, stage : StagesR]]
      <3>1. PICK stage \in StagesR : responder' = [responder EXCEPT ![c].stage = stage]
        BY DEF ReceiveOffer, To, Refuse, StagesR
      <3>2. responder \in [Conns -> [mode : Modes, stage : StagesR]]
        BY DEF HandshakeInv, TypeOK
      <3> QED
        BY <3>1, <3>2, NewStage
    <2>4. decision' \in [Conns -> {"none", "auto", "ask", "blocked"}]
      BY DEF HandshakeInv, TypeOK, ReceiveOffer
    <2> QED
      BY <2>1, <2>2, <2>3, <2>4 DEF HandshakeInv, TypeOK, ReceiveOffer, devices, handshakes
  <1>2. ASSUME NEW e \in Conns, e # c PROVE ConnInv(e)'
    BY <1>2, Elsewhere
    DEF HandshakeInv, TypeOK, ReceiveOffer, Take, To, Refuse, Hang, State, devices, handshakes
  <1>3. ConnInv(c)'
    <2>1. /\ ConnInv(c) /\ StageR(c) = "session"
          /\ toInitiator[c] = <<>> /\ (BindingSent(c) \/ OfferSent(c))
      BY NextAtResponder DEF HandshakeInv, ReceiveOffer, StageR
    <2>2. /\ toResponder'[c] = <<>> /\ toInitiator' = toInitiator
          /\ initiator' = initiator /\ answerer' = answerer /\ context' = context
          /\ key' = key /\ meant' = meant /\ handshakeR' = handshakeR /\ handshakeI' = handshakeI
          /\ responder'[c].mode = responder[c].mode
          /\ StageI(c)' = StageI(c)
      <3>1. PICK m : toResponder[c] = <<m>>
        BY <2>1 DEF BindingSent, OfferSent
      <3> QED
        BY <3>1, OneMessage
        DEF ReceiveOffer, Take, To, Refuse, Hang, HandshakeInv, TypeOK, devices, handshakes, StageI
    <2>3. responder'[c].stage = IF good THEN "decided" ELSE "refused"
      BY DEF ReceiveOffer, To, Refuse, HandshakeInv, TypeOK
    <2>4. StageI(c) # "idle" /\ (StageI(c) = "offered" => OfferSent(c))
      BY <2>1 DEF BindingSent, OfferSent
    <2>5. StageI(c) = "offered" => good
      BY <2>1, <2>4, OfferOpens DEF SenderMatches
    <2> QED
      BY <2>1, <2>2, <2>3, <2>4, <2>5
      DEF ConnInv, HalfDuplex, Order, ChosenWell, Chosen, SameSession, ModesKept, Reached, StageI,
          StageR, IsMeant, Identity
  <1> QED
    BY <1>1, <1>2, <1>3 DEF HandshakeInv

\* An end that fails takes nothing from the other.
LEMMA InitiatorFails ==
  ASSUME NEW c \in Conns, ConnInv(c), StageI(c) \in {"hello", "bound"},
         initiator'[c].stage = "failed", initiator'[c].mode = initiator[c].mode,
         UNCHANGED <<meant[c], answerer[c], responder[c], toResponder[c], toInitiator[c],
                     handshakeR[c], context[c]>>
  PROVE  ConnInv(c)'
  <1>1. HalfDuplex(c)'
    BY DEF ConnInv, HalfDuplex, HelloSent, BindingSent, OfferSent, ReadySent, BindingReturned,
           StageI, StageR
  <1> QED
    BY <1>1 DEF ConnInv, Order, ChosenWell, Chosen, SameSession, ModesKept, Reached, StageI, StageR

LEMMA InitiatorGivesUpStep ==
  ASSUME HandshakeInv, NEW c \in Conns, InitiatorGivesUp(c)
  PROVE  HandshakeInv'
  <1>1. TypeOK'
    <2>1. initiator \in [Conns -> [mode : Modes, stage : StagesI]] /\ "failed" \in StagesI
      BY DEF HandshakeInv, TypeOK, StagesI
    <2>2. initiator' \in [Conns -> [mode : Modes, stage : StagesI]]
      BY <2>1, NewStage DEF InitiatorGivesUp, To
    <2> QED
      BY <2>2 DEF HandshakeInv, TypeOK, InitiatorGivesUp, devices, streams, handshakes
  <1>2. ASSUME NEW e \in Conns, e # c PROVE ConnInv(e)'
    BY <1>2, Elsewhere
    DEF HandshakeInv, TypeOK, InitiatorGivesUp, To, State, devices, streams, handshakes
  <1>3. ConnInv(c)'
    BY InitiatorFails
    DEF HandshakeInv, TypeOK, InitiatorGivesUp, To, StageI, devices, streams, handshakes
  <1> QED
    BY <1>1, <1>2, <1>3 DEF HandshakeInv

LEMMA ResponderFails ==
  ASSUME NEW c \in Conns, ConnInv(c), StageI(c) # "idle", StageR(c) \in {"idle", "ready", "session"},
         responder'[c].stage = "failed", responder'[c].mode = responder[c].mode,
         UNCHANGED <<meant[c], answerer[c], initiator[c], toResponder[c], toInitiator[c],
                     handshakeI[c], handshakeR[c], context[c], key[Caller[c]]>>
  PROVE  ConnInv(c)'
  <1>1. HalfDuplex(c)'
    BY DEF ConnInv, HalfDuplex, HelloSent, BindingSent, OfferSent, ReadySent, BindingReturned,
           StageI, StageR, Identity
  <1> QED
    BY <1>1 DEF ConnInv, Order, ChosenWell, Chosen, SameSession, ModesKept, Reached, StageI, StageR,
                IsMeant, Identity

LEMMA ResponderGivesUpStep ==
  ASSUME HandshakeInv, NEW c \in Conns, ResponderGivesUp(c)
  PROVE  HandshakeInv'
  <1>1. TypeOK'
    <2>1. responder \in [Conns -> [mode : Modes, stage : StagesR]] /\ "failed" \in StagesR
      BY DEF HandshakeInv, TypeOK, StagesR
    <2>2. responder' \in [Conns -> [mode : Modes, stage : StagesR]]
      BY <2>1, NewStage DEF ResponderGivesUp, To
    <2> QED
      BY <2>2 DEF HandshakeInv, TypeOK, ResponderGivesUp, devices, streams, handshakes
  <1>2. ASSUME NEW e \in Conns, e # c PROVE ConnInv(e)'
    BY <1>2, Elsewhere
    DEF HandshakeInv, TypeOK, ResponderGivesUp, To, State, devices, streams, handshakes
  <1>3. ConnInv(c)'
    BY ResponderFails
    DEF HandshakeInv, TypeOK, ResponderGivesUp, To, StageI, StageR, devices, streams, handshakes
  <1> QED
    BY <1>1, <1>2, <1>3 DEF HandshakeInv

LEMMA LoseStep ==
  ASSUME HandshakeInv, NEW c \in Conns, Lose(c)
  PROVE  HandshakeInv'
  <1>1. TypeOK'
    BY DEF HandshakeInv, TypeOK, Lose, devices, ends, streams, handshakes
  <1>2. ASSUME NEW e \in Conns, e # c PROVE ConnInv(e)'
    BY <1>2, Elsewhere DEF HandshakeInv, TypeOK, Lose, State, devices, ends, streams, handshakes
  <1>3. ConnInv(c)'
    <2>1. /\ ConnInv(c) /\ StageI(c) # "idle"
          /\ UNCHANGED <<meant[c], answerer[c], initiator[c], responder[c], handshakeI[c],
                         handshakeR[c], context[c], key[Caller[c]]>>
          /\ \/ UNCHANGED <<toResponder[c], toInitiator[c]>>
             \/ toResponder'[c] = <<>> /\ UNCHANGED toInitiator[c]
             \/ toInitiator'[c] = <<>> /\ UNCHANGED toResponder[c]
      BY DEF HandshakeInv, TypeOK, Lose, StageI, devices, ends, streams, handshakes
    <2>2. HalfDuplex(c)'
      BY <2>1 DEF ConnInv, HalfDuplex, HelloSent, BindingSent, OfferSent, ReadySent, BindingReturned,
                  StageI, StageR, Identity
    <2> QED
      BY <2>1, <2>2 DEF ConnInv, Order, ChosenWell, Chosen, SameSession, ModesKept, Reached, StageI,
                        StageR, IsMeant, Identity
  <1> QED
    BY <1>1, <1>2, <1>3 DEF HandshakeInv

LEMMA TrustStep ==
  ASSUME HandshakeInv, NEW d \in Devices, NEW e \in Callers, NEW k \in Keys \cup {NoKey},
         Trust(d, e, k)
  PROVE  HandshakeInv'
  <1>1. TypeOK'
    BY DEF HandshakeInv, TypeOK, Trust, ends, streams, handshakes
  <1>2. ASSUME NEW c \in Conns PROVE ConnInv(c)'
    BY Elsewhere DEF HandshakeInv, Trust, State, ends, streams, handshakes
  <1> QED
    BY <1>1, <1>2 DEF HandshakeInv

\* A device that gets a new key takes the sessions it was opening with it.
LEMMA RekeyStep ==
  ASSUME HandshakeInv, NEW d \in Devices, Rekey(d)
  PROVE  HandshakeInv'
  <1> DEFINE dials(c) == Caller[c] = d /\ StageI(c) # "idle"
             answers(c) == answerer[c] = d /\ StageI(c) # "idle"
  <1>1. \A c \in Conns :
          /\ initiator'[c] = IF dials(c) THEN Dead(initiator, c) ELSE initiator[c]
          /\ responder'[c] = IF answers(c) THEN Dead(responder, c) ELSE responder[c]
    BY DEF Rekey, StageI
  <1>2. \A c \in Conns :
          /\ Dead(initiator, c) \in [mode : Modes, stage : StagesI]
          /\ Dead(initiator, c).mode = initiator[c].mode
          /\ Dead(initiator, c).stage = IF StageI(c) \in {"idle", "hello", "bound"} THEN "failed"
                                        ELSE StageI(c)
          /\ StageI(c) \notin {"idle", "hello", "bound"} => Dead(initiator, c) = initiator[c]
    <2> TAKE c \in Conns
    <2>1. initiator[c] \in [mode : Modes, stage : StagesI]
      BY DEF HandshakeInv, TypeOK
    <2>2. Dead(initiator, c) =
            [mode |-> initiator[c].mode,
             stage |-> IF StageI(c) \in {"idle", "hello", "bound"} THEN "failed" ELSE StageI(c)]
      <3> DEFINE r == initiator[c]
                 s == IF r.stage \in {"idle", "hello", "ready", "bound", "session"} THEN "failed"
                      ELSE r.stage
      <3>1. Dead(initiator, c) = [r EXCEPT !.stage = s]
        BY DEF Dead
      <3>2. [r EXCEPT !.stage = s] = [mode |-> r.mode, stage |-> s]
        BY <2>1, StageChanged
      <3>3. s = IF r.stage \in {"idle", "hello", "bound"} THEN "failed" ELSE r.stage
        BY <2>1 DEF StagesI
      <3> QED
        BY <3>1, <3>2, <3>3 DEF StageI
    <2> QED
      BY <2>1, <2>2 DEF StagesI, StageI
  <1>3. \A c \in Conns :
          /\ Dead(responder, c) \in [mode : Modes, stage : StagesR]
          /\ Dead(responder, c).mode = responder[c].mode
          /\ Dead(responder, c).stage = IF StageR(c) \in {"idle", "ready", "session"} THEN "failed"
                                        ELSE StageR(c)
          /\ StageR(c) \notin {"idle", "ready", "session"} => Dead(responder, c) = responder[c]
    <2> TAKE c \in Conns
    <2>1. responder[c] \in [mode : Modes, stage : StagesR]
      BY DEF HandshakeInv, TypeOK
    <2>2. Dead(responder, c) =
            [mode |-> responder[c].mode,
             stage |-> IF StageR(c) \in {"idle", "ready", "session"} THEN "failed" ELSE StageR(c)]
      <3> DEFINE r == responder[c]
                 s == IF r.stage \in {"idle", "hello", "ready", "bound", "session"} THEN "failed"
                      ELSE r.stage
      <3>1. Dead(responder, c) = [r EXCEPT !.stage = s]
        BY DEF Dead
      <3>2. [r EXCEPT !.stage = s] = [mode |-> r.mode, stage |-> s]
        BY <2>1, StageChanged
      <3>3. s = IF r.stage \in {"idle", "ready", "session"} THEN "failed" ELSE r.stage
        BY <2>1 DEF StagesR
      <3> QED
        BY <3>1, <3>2, <3>3 DEF StageR
    <2> QED
      BY <2>1, <2>2 DEF StagesR, StageR
  <1>4. TypeOK'
    <2>1. key' \in [Devices -> Keys]
      BY DEF HandshakeInv, TypeOK, Rekey, Keys
    <2>2. initiator' \in [Conns -> [mode : Modes, stage : StagesI]]
      BY <1>1, <1>2 DEF HandshakeInv, TypeOK, Rekey
    <2>3. responder' \in [Conns -> [mode : Modes, stage : StagesR]]
      BY <1>1, <1>3 DEF HandshakeInv, TypeOK, Rekey
    <2>4. link' \in [Conns -> {"open", "closed", "lost"}]
      BY DEF HandshakeInv, TypeOK, Rekey
    <2> QED
      BY <2>1, <2>2, <2>3, <2>4 DEF HandshakeInv, TypeOK, Rekey, streams, handshakes
  <1>5. ASSUME NEW c \in Conns PROVE ConnInv(c)'
    <2>1. /\ ConnInv(c)
          /\ UNCHANGED <<meant[c], answerer[c], toResponder[c], toInitiator[c], handshakeI[c],
                         handshakeR[c], context[c]>>
          /\ Caller[c] # d => UNCHANGED key[Caller[c]]
      BY DEF HandshakeInv, TypeOK, Rekey, streams, handshakes
    <2>2. dials(c) => ~answers(c)
      BY <2>1 DEF ConnInv, Order
    <2>3. CASE dials(c) /\ StageI(c) \in {"hello", "bound"}
      BY <1>1, <1>2, <2>1, <2>2, <2>3, InitiatorFails
    <2>4. CASE dials(c) /\ StageI(c) \notin {"hello", "bound"}
      <3>1. initiator'[c] = initiator[c] /\ responder'[c] = responder[c]
        BY <1>1, <1>2, <2>2, <2>4
      <3>2. HalfDuplex(c)'
        BY <2>1, <2>4, <3>1
        DEF ConnInv, HalfDuplex, HelloSent, BindingSent, OfferSent, ReadySent, BindingReturned,
            StageI, StageR
      <3> QED
        BY <2>1, <2>4, <3>1, <3>2
        DEF ConnInv, Order, ChosenWell, Chosen, SameSession, ModesKept, Reached, StageI, StageR, IsMeant
    <2>5. CASE ~dials(c) /\ answers(c)
      <3>1. Caller[c] # d /\ initiator'[c] = initiator[c]
        BY <1>1, <2>5
      <3>2. CASE StageR(c) \in {"idle", "ready", "session"}
        BY <1>1, <1>3, <2>1, <2>5, <3>1, <3>2, ResponderFails
      <3>3. CASE StageR(c) \notin {"idle", "ready", "session"}
        <4>1. responder'[c] = responder[c] /\ link'[c] = "lost"
          BY <1>1, <1>3, <2>5, <3>3 DEF Rekey, StageI
        <4>2. HalfDuplex(c)'
          BY <2>1, <2>5, <3>1, <4>1
          DEF ConnInv, HalfDuplex, HelloSent, BindingSent, OfferSent, ReadySent, BindingReturned,
              StageI, StageR, Identity
        <4> QED
          BY <2>1, <2>5, <3>1, <4>1, <4>2
          DEF ConnInv, Order, ChosenWell, Chosen, SameSession, ModesKept, Reached, StageI, StageR,
              IsMeant, Identity
      <3> QED
        BY <3>2, <3>3
    <2>6. CASE ~dials(c) /\ ~answers(c)
      <3>1. initiator'[c] = initiator[c] /\ responder'[c] = responder[c] /\ link'[c] = link[c]
        BY <1>1, <2>6 DEF Rekey, StageI
      <3>2. CASE Caller[c] # d
        BY <2>1, <3>1, <3>2, Elsewhere DEF State
      <3>3. CASE StageI(c) = "idle"
        <4>1. toResponder[c] = <<>> /\ toInitiator[c] = <<>>
          BY <2>1, <3>3 DEF ConnInv, Order
        <4> QED
          BY <2>1, <3>1, <3>3, <4>1
          DEF ConnInv, HalfDuplex, Order, ChosenWell, Chosen, SameSession, ModesKept, Reached, StageI,
              StageR
      <3> QED
        BY <2>6, <3>2, <3>3
    <2> QED
      BY <2>3, <2>4, <2>5, <2>6
  <1> QED
    BY <1>4, <1>5 DEF HandshakeInv

LEMMA NextStep == HandshakeInv /\ [Next]_vars => HandshakeInv'
  <1> SUFFICES ASSUME HandshakeInv, [Next]_vars PROVE HandshakeInv'
    OBVIOUS
  <1>1. CASE \E c \in Conns, d \in Devices, peer \in Peer \cup {Anyone}, mI, mR \in Modes :
               Dial(c, d, peer, mI, mR)
    BY <1>1, DialStep
  <1>2. CASE \E c \in Conns : Step(c) \/ Lose(c)
    <2> PICK c \in Conns : Step(c) \/ Lose(c)
      BY <1>2
    <2> QED
      BY AcceptHelloStep, ReceiveReadyStep, ReceiveInitiatorBindingStep,
         ReceiveResponderBindingStep, ReceiveOfferStep, InitiatorGivesUpStep, ResponderGivesUpStep,
         LoseStep
      DEF Step
  <1>3. CASE \E d \in Devices, e \in Callers, k \in Keys \cup {NoKey} : Trust(d, e, k)
    BY <1>3, TrustStep
  <1>4. CASE \E d \in Devices : Rekey(d)
    BY <1>4, RekeyStep
  <1>5. CASE UNCHANGED vars
    <2>1. TypeOK'
      BY <1>5 DEF vars, devices, ends, streams, handshakes, HandshakeInv, TypeOK
    <2>2. ASSUME NEW c \in Conns PROVE ConnInv(c)'
      BY <1>5, Elsewhere DEF vars, devices, ends, streams, handshakes, HandshakeInv, State
    <2> QED
      BY <2>1, <2>2 DEF HandshakeInv
  <1> QED
    BY <1>1, <1>2, <1>3, <1>4, <1>5 DEF Next

THEOREM HandshakeInvariant == Spec => []HandshakeInv
  BY InitStep, NextStep, PTL DEF Spec

\* Every state of a handshake is well typed.
THEOREM HandshakeTypeCorrect == Spec => []TypeOK
  BY HandshakeInvariant, PTL DEF HandshakeInv

\* Two ends that hold the session of a connection hold the same one
\* (session_handshake_hash, derive_key_material, select_session_cipher).
THEOREM TheEndsAgree == Spec => []EndsAgree
  <1>1. HandshakeInv => EndsAgree
    <2> SUFFICES ASSUME HandshakeInv, NEW c \in Conns, HoldsI(c), HoldsR(c)
                 PROVE  LET i == handshakeI[c]
                            r == handshakeR[c]
                            ki == KeysFor(c, Caller[c], i)
                            kr == KeysFor(c, answerer[c], r)
                        IN /\ i.cipher = r.cipher
                           /\ \A d \in {Caller[c], answerer[c]} : Contains(Ciphers[d], i.cipher)
                           /\ i.peer.id = answerer[c] /\ r.peer.id = Caller[c]
                           /\ ki.send = kr.receive /\ ki.receive = kr.send
                           /\ ki.send # ki.receive
      BY DEF EndsAgree
    <2> DEFINE i == handshakeI[c]
               r == handshakeR[c]
               ki == KeysFor(c, Caller[c], i)
               kr == KeysFor(c, answerer[c], r)
    <2>1. /\ i.cipher = r.cipher /\ i.hash = r.hash /\ i.peer.id = answerer[c]
          /\ r.peer.id = Caller[c]
          /\ \A d \in {Caller[c], answerer[c]} : Contains(Ciphers[d], r.cipher)
          /\ answerer[c] # Caller[c]
      BY DEF HandshakeInv, ConnInv, SameSession, ChosenWell, Chosen, Order, HoldsI, StageI
    <2>2. /\ ki.send = <<i.hash, Caller[c], answerer[c]>>
          /\ ki.receive = <<i.hash, answerer[c], Caller[c]>>
          /\ kr.send = <<r.hash, answerer[c], Caller[c]>>
          /\ kr.receive = <<r.hash, Caller[c], answerer[c]>>
      BY <2>1 DEF KeysFor
    <2> QED
      BY <2>1, <2>2
  <1> QED
    BY <1>1, HandshakeInvariant, PTL

\* An authenticated offer is sent only to a receiver that has accepted its sender
\* (exchange_responder_identity_binding).
THEOREM OffersFollowAcceptance == Spec => []OfferAfterAcceptance
  <1>1. HandshakeInv => OfferAfterAcceptance
    BY DEF HandshakeInv, ConnInv, Reached, OfferAfterAcceptance, HoldsI, StageI, StageR
  <1> QED
    BY <1>1, HandshakeInvariant, PTL

\* An authenticated offer reaches the device that was meant, or none
\* (verify_peer_matches_transfer_peer).
THEOREM OffersReachTheMeant == Spec => []OfferReachesTheMeant
  <1>1. HandshakeInv => OfferReachesTheMeant
    <2> SUFFICES ASSUME HandshakeInv, NEW c \in Conns, HoldsI(c),
                        initiator[c].mode = "authenticated", meant[c] # Anyone
                 PROVE  answerer[c] = meant[c].id /\ handshakeI[c].peer = meant[c]
      BY DEF OfferReachesTheMeant
    <2>1. handshakeI[c].peer = meant[c]
      BY DEF HandshakeInv, ConnInv, Reached, IsMeant, HoldsI, StageI
    <2>2. handshakeI[c].peer.id = answerer[c]
      BY DEF HandshakeInv, ConnInv, SameSession, HoldsI, StageI
    <2> QED
      BY <2>1, <2>2
  <1> QED
    BY <1>1, HandshakeInvariant, PTL

\* What is accepted without a question is from a device that is trusted at that moment, under
\* the key it has proved to hold (should_auto_accept_receive_offer).
THEOREM AutoAcceptsOnlyTrusted == Spec => AutoAcceptedIsTrusted
  <1> DEFINE Ok == \A c \in Conns :
               decision[c] # "auto" /\ decision'[c] = "auto" =>
                   /\ responder[c].mode = "authenticated"
                   /\ handshakeR[c].peer.id = Caller[c]
                   /\ trusts[answerer[c]][Caller[c]] = handshakeR[c].peer.key
  <1>1. HandshakeInv /\ [Next]_vars => [Ok]_vars
    <2> SUFFICES ASSUME HandshakeInv, Next,
                        NEW c \in Conns, decision[c] # "auto", decision'[c] = "auto"
                 PROVE  /\ responder[c].mode = "authenticated"
                        /\ handshakeR[c].peer.id = Caller[c]
                        /\ trusts[answerer[c]][Caller[c]] = handshakeR[c].peer.key
      OBVIOUS
    <2>1. \E e \in Conns : ReceiveOffer(e)
      BY DEF Next, Step, Dial, AcceptHello, ReceiveReady, ReceiveInitiatorBinding,
             ReceiveResponderBinding, InitiatorGivesUp, ResponderGivesUp, Lose, Trust, Rekey
    <2>2. ReceiveOffer(c)
      BY <2>1 DEF ReceiveOffer, HandshakeInv, TypeOK
    <2> DEFINE sender == Head(toResponder[c]).sealed.payload
    <2>3. AutoAccepts(c, sender) /\ SenderMatches(sender, handshakeR[c])
      BY <2>2 DEF ReceiveOffer, HandshakeInv, TypeOK
    <2>4. sender = handshakeR[c].peer
      BY <2>3 DEF SenderMatches
    <2>5. /\ context[c] = "AuthenticatedTrusted"
          /\ trusts[answerer[c]][handshakeR[c].peer.id] = handshakeR[c].peer.key
      BY <2>3, <2>4 DEF AutoAccepts
    <2>6. handshakeR[c].peer.id = Caller[c]
      BY <2>2 DEF HandshakeInv, ConnInv, ChosenWell, Chosen, StageR, ReceiveOffer
    <2>7. responder[c].mode = "authenticated"
      BY <2>5 DEF HandshakeInv, ConnInv, ModesKept
    <2> QED
      BY <2>5, <2>6, <2>7
  <1> QED
    BY <1>1, HandshakeInvariant, PTL DEF Spec, AutoAcceptedIsTrusted
=============================================================================
