------------------------------ MODULE Handshake ------------------------------
(***************************************************************************)
(* How two devices open a session on a connection (nekodrop-service,       *)
(* start_*_initiator_session and accept_*_responder_session; the payloads  *)
(* are those of nekolink-protocol), up to the first frame that is sealed   *)
(* in it, the offer, and the trust under which the receiver decides it.    *)
(*                                                                         *)
(*     initiator   hello ->          -> binding            -> offer        *)
(*     responder            ready ->            binding ->                 *)
(*                                                                         *)
(* The address that is dialled may belong to another device than the one   *)
(* that is meant, a device may come back with a new key, a receiver may    *)
(* trust or forget the caller at any time, the ends may be of different    *)
(* versions, and the connection may be lost between any two steps.         *)
(***************************************************************************)
EXTENDS Naturals, Sequences, SequencesExt

CONSTANTS
    Devices,
    Conns,      \* connections
    Caller,     \* the device that dials each connection
    Ciphers,    \* [device] the ciphers of its version, in order of preference
    KeyMax,     \* bound: how often a device may get a new key
    NoKey,      \* a device that is not trusted
    Anyone,     \* no device in particular is meant: a bare address was dialled
    NoHandshake

ASSUME CallerAssumption == Caller \in [Conns -> Devices]
ASSUME CiphersAssumption ==
    /\ DOMAIN Ciphers = Devices
    /\ \A d \in Devices : Ciphers[d] \in Seq(STRING) /\ Ciphers[d] # <<>>
ASSUME BoundAssumption == KeyMax \in Nat
ASSUME NoneAssumption ==
    /\ NoKey \notin Nat
    /\ Anyone \notin [id : Devices, key : 0..KeyMax]

VARIABLES
    key,        \* [device] its long-term key
    trusts,     \* [device][caller] the key it trusts the caller under
    meant,      \* [conn] the device and key the caller wants to reach
    answerer,   \* [conn] the device that answers
    initiator,  \* [conn] how far the dialling end is
    responder,  \* [conn] how far the answering end is
    toResponder, toInitiator,  \* [conn] the two streams
    link,       \* [conn] "open", "closed" by one of its ends, or "lost"
    handshakeI, handshakeR,  \* [conn] VerifiedSessionHandshake of each end
    context,    \* [conn] ReceiveTrustContext
    decision    \* [conn] what the receiver makes of the offer

devices == <<key, trusts>>
ends == <<initiator, responder>>
streams == <<toResponder, toInitiator>>
handshakes == <<handshakeI, handshakeR>>
vars == <<devices, meant, answerer, ends, streams, link, handshakes, context, decision>>

Keys == 0..KeyMax
Callers == Range(Caller)
Peer == [id : Devices, key : Keys]
Modes == {"authenticated", "anonymous"}

\* The identity of a device, as its hello, its ready and its binding carry it.
Identity(d) == [id |-> d, key |-> key[d]]

Init ==
    /\ key = [d \in Devices |-> 0]
    /\ trusts \in [Devices -> [Callers -> {NoKey}]]
    /\ meant = [c \in Conns |-> Anyone]
    /\ answerer = Caller
    /\ initiator = [c \in Conns |-> [mode |-> "authenticated", stage |-> "idle"]]
    /\ responder = initiator
    /\ toResponder = [c \in Conns |-> <<>>]
    /\ toInitiator = [c \in Conns |-> <<>>]
    /\ link = [c \in Conns |-> "open"]
    /\ handshakeI = [c \in Conns |-> NoHandshake]
    /\ handshakeR = [c \in Conns |-> NoHandshake]
    /\ context = [c \in Conns |-> "Untrusted"]
    /\ decision = [c \in Conns |-> "none"]

-----------------------------------------------------------------------------
(* The payloads.                                                            *)

\* The first cipher of the local preference that the peer offers: none or one.  A peer that
\* names a cipher which this version does not know is refused as a whole.
select_session_cipher(local, peer) ==
    LET offered == {i \in DOMAIN local : Contains(peer, local[i])}
        known == \A i \in DOMAIN peer : Contains(local, peer[i])
    IN IF known /\ offered # {}
       THEN <<local[CHOOSE i \in offered : \A j \in offered : i <= j]>>
       ELSE <<>>

\* session_handshake_hash: what both ends have seen.  (The ephemeral keys and the session's
\* name are fresh for each connection, and stand in it by the connection.)
HandshakeHash(c, hello, from, cipher) == <<c, hello.from, hello.ciphers, from, cipher>>

HelloFor(c) ==
    [kind |-> "hello", from |-> Identity(Caller[c]), ciphers |-> Ciphers[Caller[c]]]

ReadyFor(c, hello, cipher) ==
    [kind |-> "ready", from |-> Identity(answerer[c]), cipher |-> cipher,
     hash |-> HandshakeHash(c, hello, Identity(answerer[c]), cipher)]

\* sign_binding: a signature that only the holder of the device's key can make.
SignedWith(d, binding) == [binding |-> binding, key |-> key[d]]

\* The binding of one end, signed with the key of the device that holds it.
BindingFor(role, d, peer, hash) ==
    [kind |-> "binding", signed |-> SignedWith(d, <<role, peer, hash>>)]

\* verify_signed_session_identity_binding: it is the binding this end expects, under the key
\* that the peer's hello or ready named.
Verifies(binding, role, peer, hash) ==
    /\ binding.kind = "binding"
    /\ binding.signed = [binding |-> <<role, peer, hash>>, key |-> peer.key]

Handshaken(peer, ready) == [peer |-> peer, cipher |-> ready.cipher, hash |-> ready.hash]

\* Mutant: both ends take the keys of the initiator.
KeysFor_Initiator(c, d, h) ==
    [send |-> <<h.hash, Caller[c], answerer[c]>>, receive |-> <<h.hash, answerer[c], Caller[c]>>]

\* key_derivation_context_for_local_device, derive_key_material: a key for each direction.
KeysFor(c, d, h) ==
    LET peer == IF d = Caller[c] THEN answerer[c] ELSE Caller[c]
    IN [send |-> <<h.hash, d, peer>>, receive |-> <<h.hash, peer, d>>]

\* session_control_associated_data: what stands beside the ciphertext and cannot be changed.
AssociatedData(c, inner) == <<c, inner>>

\* seal_session_payload: what only the holder of the key can make, and open.
Sealed(cipher, k, data, payload) ==
    [cipher |-> cipher, key |-> k, data |-> data, payload |-> payload]

\* open_session_payload: under this key, with the cipher and the data the frame names.
Opens(cipher, k, data, sealed) ==
    sealed.cipher = cipher /\ sealed.key = k /\ sealed.data = data

\* A sealed control frame, EncryptedSessionPayload in its envelope.
ControlFrame(c, inner, cipher, k, payload) ==
    [kind |-> "control", inner |-> inner, cipher |-> cipher,
     sealed |-> Sealed(cipher, k, AssociatedData(c, inner), payload)]

\* The offer, the first frame that is sealed in the session: it names its sender.
OfferFor(c, h) ==
    ControlFrame(c, "offer", h.cipher, KeysFor(c, Caller[c], h).send, Identity(Caller[c]))

\* read_session_control_payload_kind_once: a sealed frame that says it is of this kind, and opens
\* as one.
OpensControl(c, frame, inner, k) ==
    /\ frame.kind = "control"
    /\ frame.inner = inner
    /\ Opens(frame.cipher, k, AssociatedData(c, frame.inner), frame.sealed)

\* validate_offer_sender_identity_matches_session: the offer names the peer of the session.
SenderMatches(offer, h) == offer = h.peer

-----------------------------------------------------------------------------
(* The two ends.                                                            *)

Put(stream, c, m) == IF link[c] = "open" THEN [stream EXCEPT ![c] = Append(@, m)] ELSE stream
Take(stream, c) == [stream EXCEPT ![c] = Tail(@)]
To(end, c, stage) == end' = [end EXCEPT ![c].stage = stage]
Hang(c) == link' = [link EXCEPT ![c] = IF @ = "open" THEN "closed" ELSE @]

\* Whom the caller may mean.  A device that it has paired with goes by the name and the key it
\* showed then, found nearby or in the list of trusted ones, and is never the caller itself.
PairedPeers(c) == {p \in Peer : p.id # Caller[c] /\ p.key <= key[p.id]}

\* A connection code may name a device, by what it showed when it made the code; an address, an
\* old code and an old record of the history name nobody.
Targets(c) == PairedPeers(c) \cup {Anyone}

\* The caller connects to an address, which may be another device's, and says hello.
Dial(c, d, peer, mI, mR) ==
    /\ initiator[c].stage = "idle"
    /\ d # Caller[c]
    /\ peer \in Targets(c)
    /\ answerer' = [answerer EXCEPT ![c] = d]
    /\ meant' = [meant EXCEPT ![c] = peer]
    /\ responder' = [responder EXCEPT ![c].mode = mR]
    /\ initiator' = [initiator EXCEPT ![c] = [mode |-> mI, stage |-> "hello"]]
    /\ toResponder' = Put(toResponder, c, HelloFor(c))
    /\ UNCHANGED <<devices, toInitiator, link, handshakes, context, decision>>

\* An end refuses what it has read, and lets the connection go.
Refuse(end, c) == To(end, c, "refused") /\ Hang(c)

\* accept_*_responder_session up to the ready.  Without authentication the session is open.
AcceptHello(c) ==
    LET hello == Head(toResponder[c])
        cipher == select_session_cipher(Ciphers[answerer[c]], hello.ciphers)
        ready == ReadyFor(c, hello, cipher[1])
    IN /\ responder[c].stage = "idle"
       /\ toResponder[c] # <<>>
       /\ toResponder' = Take(toResponder, c)
       /\ IF cipher # <<>>
          THEN /\ toInitiator' = Put(toInitiator, c, ready)
               /\ handshakeR' = [handshakeR EXCEPT ![c] = Handshaken(hello.from, ready)]
               /\ To(responder, c, IF responder[c].mode = "anonymous" THEN "session" ELSE "ready")
               /\ UNCHANGED link
          ELSE /\ Refuse(responder, c)
               /\ UNCHANGED <<toInitiator, handshakeR>>
       /\ UNCHANGED <<devices, meant, answerer, initiator, handshakeI, context, decision>>

\* Mutant: an authenticated initiator waits for the responder's binding before it sends its own.
ReceiveReady_Waits(c) ==
    LET ready == Head(toInitiator[c])
        h == Handshaken(ready.from, ready)
    IN /\ initiator[c].stage = "hello"
       /\ toInitiator[c] # <<>>
       /\ toInitiator' = Take(toInitiator, c)
       /\ handshakeI' = [handshakeI EXCEPT ![c] = h]
       /\ To(initiator, c, "bound")
       /\ UNCHANGED <<devices, toResponder, meant, answerer, responder, handshakeR, link,
                      context, decision>>

\* read_verified_session_ready.  An anonymous initiator sends its offer at once, the other one
\* its signed binding.
ReceiveReady(c) ==
    LET ready == Head(toInitiator[c])
        h == Handshaken(ready.from, ready)
    IN /\ initiator[c].stage = "hello"
       /\ toInitiator[c] # <<>>
       /\ toInitiator' = Take(toInitiator, c)
       /\ IF /\ ready.hash = HandshakeHash(c, HelloFor(c), ready.from, ready.cipher)
             /\ Contains(Ciphers[Caller[c]], ready.cipher)
          THEN /\ handshakeI' = [handshakeI EXCEPT ![c] = h]
               /\ IF initiator[c].mode = "anonymous"
                  THEN /\ To(initiator, c, "offered")
                       /\ toResponder' = Put(toResponder, c, OfferFor(c, h))
                  ELSE /\ To(initiator, c, "bound")
                       /\ toResponder' = Put(toResponder, c, BindingFor("initiator", Caller[c],
                                                                 Identity(Caller[c]), h.hash))
               /\ UNCHANGED link
          ELSE Refuse(initiator, c) /\ UNCHANGED <<toResponder, handshakeI>>
       /\ UNCHANGED <<devices, meant, answerer, responder, handshakeR, context, decision>>

\* verify_incoming_peer_against_trusted_devices: a device that is in the list must come under
\* the key it is trusted under.
Trusted(c, peer) == trusts[answerer[c]][peer.id] # NoKey
AcceptsCaller(c, peer) == Trusted(c, peer) => trusts[answerer[c]][peer.id] = peer.key

\* Mutant: the responder binds itself before it verifies the caller.
ReceiveInitiatorBinding_First(c) ==
    LET h == handshakeR[c]
    IN /\ responder[c].stage = "ready"
       /\ toResponder[c] # <<>>
       /\ toResponder' = Take(toResponder, c)
       /\ toInitiator' = Put(toInitiator, c, BindingFor("responder", answerer[c],
                                                 Identity(answerer[c]), h.hash))
       /\ IF AcceptsCaller(c, h.peer)
          THEN /\ context' = [context EXCEPT ![c] =
                      IF Trusted(c, h.peer) THEN "AuthenticatedTrusted" ELSE "Untrusted"]
               /\ To(responder, c, "session")
               /\ UNCHANGED link
          ELSE Refuse(responder, c) /\ UNCHANGED context
       /\ UNCHANGED <<devices, meant, answerer, initiator, handshakes, decision>>

\* exchange_responder_identity_binding: the responder verifies the caller before it binds
\* itself.
ReceiveInitiatorBinding(c) ==
    LET h == handshakeR[c]
    IN /\ responder[c].stage = "ready"
       /\ toResponder[c] # <<>>
       /\ toResponder' = Take(toResponder, c)
       /\ IF /\ Verifies(Head(toResponder[c]), "initiator", h.peer, h.hash)
             /\ AcceptsCaller(c, h.peer)
          THEN /\ context' = [context EXCEPT ![c] =
                      IF Trusted(c, h.peer) THEN "AuthenticatedTrusted" ELSE "Untrusted"]
               /\ toInitiator' = Put(toInitiator, c, BindingFor("responder", answerer[c],
                                                         Identity(answerer[c]), h.hash))
               /\ To(responder, c, "session")
               /\ UNCHANGED link
          ELSE Refuse(responder, c) /\ UNCHANGED <<context, toInitiator>>
       /\ UNCHANGED <<devices, meant, answerer, initiator, handshakes, decision>>

\* Mutant: the device that is meant is not compared with the one that answers.
IsMeant_KeyOnly(c, peer) == meant[c] # Anyone => meant[c].key = peer.key

\* verify_peer_matches_transfer_peer.
IsMeant(c, peer) == meant[c] # Anyone => meant[c] = peer

\* exchange_initiator_identity_binding, its second half; then the offer is sealed and sent.
ReceiveResponderBinding(c) ==
    LET h == handshakeI[c]
    IN /\ initiator[c].stage = "bound"
       /\ toInitiator[c] # <<>>
       /\ toInitiator' = Take(toInitiator, c)
       /\ IF /\ Verifies(Head(toInitiator[c]), "responder", h.peer, h.hash)
             /\ IsMeant(c, h.peer)
          THEN /\ To(initiator, c, "offered")
               /\ toResponder' = Put(toResponder, c, OfferFor(c, h))
               /\ UNCHANGED link
          ELSE Refuse(initiator, c) /\ UNCHANGED toResponder
       /\ UNCHANGED <<devices, meant, answerer, responder, handshakes, context, decision>>

\* Mutant: what the handshake found is not compared with the list as it is now.
AutoAccepts_ByContext(c, peer) == context[c] = "AuthenticatedTrusted"

\* should_auto_accept_receive_offer under the policy AutoAcceptTrusted: the device was trusted
\* when it was authenticated, and is in the list now, under this key.
AutoAccepts(c, peer) ==
    /\ context[c] = "AuthenticatedTrusted"
    /\ trusts[answerer[c]][peer.id] = peer.key

\* The offer is opened with the key of its direction and decided (wait_for_receive_decision).
ReceiveOffer(c) ==
    LET frame == Head(toResponder[c])
        sender == frame.sealed.payload
        h == handshakeR[c]
    IN /\ responder[c].stage = "session"
       /\ toResponder[c] # <<>>
       /\ toResponder' = Take(toResponder, c)
       /\ IF /\ OpensControl(c, frame, "offer", KeysFor(c, answerer[c], h).receive)
             /\ SenderMatches(sender, h)
          THEN /\ decision' = [decision EXCEPT ![c] =
                      IF AutoAccepts(c, sender) THEN "auto"
                      ELSE IF context[c] = "Untrusted" /\ Trusted(c, sender) THEN "blocked"
                      ELSE "ask"]
               /\ To(responder, c, "decided")
               /\ UNCHANGED link
          ELSE Refuse(responder, c) /\ UNCHANGED decision
       /\ UNCHANGED <<devices, meant, answerer, initiator, toInitiator, handshakes, context>>

\* An end that waits finds that the connection is gone: closed, or silent for too long.
InitiatorGivesUp(c) ==
    /\ initiator[c].stage \in {"hello", "bound"}
    /\ toInitiator[c] = <<>> /\ link[c] # "open"
    /\ To(initiator, c, "failed")
    /\ UNCHANGED <<devices, meant, answerer, responder, streams, link, handshakes, context, decision>>

ResponderGivesUp(c) ==
    /\ initiator[c].stage # "idle"
    /\ responder[c].stage \in {"idle", "ready", "session"}
    /\ toResponder[c] = <<>> /\ link[c] # "open"
    /\ To(responder, c, "failed")
    /\ UNCHANGED <<devices, meant, answerer, initiator, streams, link, handshakes, context, decision>>

-----------------------------------------------------------------------------
(* Around them.                                                             *)

\* The connection is lost, with what is in flight.
Lose(c) ==
    /\ initiator[c].stage # "idle"
    /\ link' = [link EXCEPT ![c] = "lost"]
    /\ \/ UNCHANGED streams
       \/ toResponder' = [toResponder EXCEPT ![c] = <<>>] /\ UNCHANGED toInitiator
       \/ toInitiator' = [toInitiator EXCEPT ![c] = <<>>] /\ UNCHANGED toResponder
    /\ UNCHANGED <<devices, meant, answerer, ends, handshakes, context, decision>>

\* A device trusts the caller under the key it has now (pairing), or forgets it.
Trust(d, e, k) ==
    /\ d # e
    /\ k \in {key[e], NoKey}
    /\ trusts' = [trusts EXCEPT ![d][e] = k]
    /\ UNCHANGED <<key, meant, answerer, ends, streams, link, handshakes, context, decision>>

\* The processes of an end are gone.
Dead(end, c) ==
    [end[c] EXCEPT !.stage = IF @ \in {"idle", "hello", "ready", "bound", "session"}
                             THEN "failed" ELSE @]

\* A device comes back with a new key (migrate_persisted_identity): it was restarted.
Rekey(d) ==
    LET dials == {c \in Conns : Caller[c] = d /\ initiator[c].stage # "idle"}
        answers == {c \in Conns : answerer[c] = d /\ initiator[c].stage # "idle"}
    IN /\ key[d] < KeyMax
       /\ key' = [key EXCEPT ![d] = @ + 1]
       /\ initiator' = [c \in Conns |-> IF c \in dials THEN Dead(initiator, c) ELSE initiator[c]]
       /\ responder' = [c \in Conns |-> IF c \in answers THEN Dead(responder, c) ELSE responder[c]]
       /\ link' = [c \in Conns |-> IF c \in dials \cup answers THEN "lost" ELSE link[c]]
       /\ UNCHANGED <<trusts, meant, answerer, streams, handshakes, context, decision>>

Step(c) ==
    \/ AcceptHello(c) \/ ReceiveReady(c) \/ ReceiveInitiatorBinding(c)
    \/ ReceiveResponderBinding(c) \/ ReceiveOffer(c)
    \/ InitiatorGivesUp(c) \/ ResponderGivesUp(c)

Next ==
    \/ \E c \in Conns, d \in Devices, peer \in Peer \cup {Anyone}, mI, mR \in Modes :
           Dial(c, d, peer, mI, mR)
    \/ \E c \in Conns : Step(c) \/ Lose(c)
    \/ \E d \in Devices, e \in Callers, k \in Keys \cup {NoKey} : Trust(d, e, k)
    \/ \E d \in Devices : Rekey(d)

\* Both ends run, and what is in a stream reaches its reader or is lost with the connection.
Fairness == \A c \in Conns : WF_vars(Step(c))

Spec == Init /\ [][Next]_vars /\ Fairness

-----------------------------------------------------------------------------
(* Properties.                                                              *)

StagesI == {"idle", "hello", "bound", "offered", "refused", "failed"}
StagesR == {"idle", "ready", "session", "decided", "refused", "failed"}

TypeOK ==
    /\ key \in [Devices -> Keys]
    /\ trusts \in [Devices -> [Callers -> Keys \cup {NoKey}]]
    /\ meant \in [Conns -> Peer \cup {Anyone}]
    /\ answerer \in [Conns -> Devices]
    /\ initiator \in [Conns -> [mode : Modes, stage : StagesI]]
    /\ responder \in [Conns -> [mode : Modes, stage : StagesR]]
    /\ link \in [Conns -> {"open", "closed", "lost"}]
    /\ context \in [Conns -> {"Untrusted", "AuthenticatedTrusted"}]
    /\ decision \in [Conns -> {"none", "auto", "ask", "blocked"}]
    /\ DOMAIN toResponder = Conns /\ DOMAIN toInitiator = Conns
    /\ DOMAIN handshakeI = Conns /\ DOMAIN handshakeR = Conns

HoldsI(c) == initiator[c].stage = "offered"
HoldsR(c) == responder[c].stage \in {"session", "decided"}

\* When both ends hold the session of a connection they mean the same one: one cipher, which
\* both support, each end's peer is the other device, what one seals the other opens, and the
\* two directions have two keys.
EndsAgree ==
    \A c \in Conns :
        HoldsI(c) /\ HoldsR(c) =>
            LET i == handshakeI[c]
                r == handshakeR[c]
                ki == KeysFor(c, Caller[c], i)
                kr == KeysFor(c, answerer[c], r)
            IN /\ i.cipher = r.cipher
               /\ \A d \in {Caller[c], answerer[c]} : Contains(Ciphers[d], i.cipher)
               /\ i.peer.id = answerer[c] /\ r.peer.id = Caller[c]
               /\ ki.send = kr.receive /\ ki.receive = kr.send
               /\ ki.send # ki.receive

\* An authenticated caller sends its offer only after the receiver has verified and accepted
\* who it is: never to a receiver that has refused it or still waits for its binding
\* (exchange_responder_identity_binding writes last).
OfferAfterAcceptance ==
    \A c \in Conns :
        HoldsI(c) /\ initiator[c].mode = "authenticated" =>
            /\ responder[c].mode = "authenticated"
            /\ responder[c].stage \in {"session", "decided", "failed"}

\* An authenticated offer goes to the device that was meant, although the address it was sent
\* to may by now be another device's, or the device may have a new key
\* (verify_peer_matches_transfer_peer).
OfferReachesTheMeant ==
    \A c \in Conns :
        HoldsI(c) /\ initiator[c].mode = "authenticated" /\ meant[c] # Anyone =>
            /\ answerer[c] = meant[c].id
            /\ handshakeI[c].peer = meant[c]

\* An offer is accepted without a question only if its sender is trusted at that moment, under
\* the key it has proved to hold, although the list may change between the handshake and the
\* offer (should_auto_accept_receive_offer).
AutoAcceptedIsTrusted ==
    [][\A c \in Conns :
          decision[c] # "auto" /\ decision'[c] = "auto" =>
              /\ responder[c].mode = "authenticated"
              /\ handshakeR[c].peer.id = Caller[c]
              /\ trusts[answerer[c]][Caller[c]] = handshakeR[c].peer.key]_vars

\* Nothing stands between two ends that could have a session.
Fit(c) ==
    LET pinned == trusts[answerer[c]][Caller[c]]
    IN /\ link[c] # "lost"
       /\ initiator[c].mode = responder[c].mode
       /\ Range(Ciphers[Caller[c]]) \subseteq Range(Ciphers[answerer[c]])
       /\ initiator[c].mode = "authenticated" =>
             pinned \in {NoKey, key[Caller[c]]} /\ meant[c] \in {Anyone, Identity(answerer[c])}

\* As long as nothing stands between them, an offer is opened and decided: no end waits for a
\* message that the other sends only after its own, and none refuses the other.
HealthyHandshakeSucceeds ==
    \A c \in Conns :
        (initiator[c].stage = "hello" /\ responder[c].stage = "idle")
            ~> (~Fit(c) \/ decision[c] # "none")
=============================================================================
