---------------------------- MODULE VerifiedInbox ----------------------------
(***************************************************************************)
(* What the receive directory promises, with every transfer detail left    *)
(* out.  A receiver accepts an offer, which names the content of each      *)
(* file; a file appears in the inbox in one step, complete, with exactly   *)
(* the content the accepted offer named; a file that is there is never     *)
(* touched again until the user takes it away.  FileTransfer implements    *)
(* this with partial files, resume offsets, checksums and renames.         *)
(***************************************************************************)

CONSTANTS
    Listeners,  \* the accept loops of the receiver, one connection at a time each
    Files,      \* the paths of an offer
    Contents,   \* what a file may contain
    NoFile,     \* nothing at a path
    Present     \* what other files the directory may hold from the start

VARIABLES
    inbox,      \* [Files -> Contents \cup {NoFile}]: the finished files
    accepted    \* [Listeners -> SUBSET [Files -> Contents]]: the offer being received, if any

vars == <<inbox, accepted>>

Init ==
    /\ inbox \in [Files -> Present \cup {NoFile}]
    /\ accepted = [l \in Listeners |-> {}]

\* An offer is accepted: from now on its files may appear.
Accept(l) ==
    /\ accepted[l] = {}
    /\ \E o \in [Files -> Contents] : accepted' = [accepted EXCEPT ![l] = {o}]
    /\ UNCHANGED inbox

\* A file of the accepted offer appears, complete, where nothing was.
Deliver(l, f) ==
    /\ inbox[f] = NoFile
    /\ \E o \in accepted[l] : inbox' = [inbox EXCEPT ![f] = o[f]]
    /\ UNCHANGED accepted

\* The transfer ends, for whatever reason.
Close(l) ==
    /\ accepted' = [accepted EXCEPT ![l] = {}]
    /\ UNCHANGED inbox

\* The receiver dies with all its transfers.
CloseAll ==
    /\ accepted' = [l \in Listeners |-> {}]
    /\ UNCHANGED inbox

\* The user moves a finished file away.
Take(f) ==
    /\ inbox' = [inbox EXCEPT ![f] = NoFile]
    /\ UNCHANGED accepted

Next ==
    \/ \E l \in Listeners : Accept(l) \/ Close(l)
    \/ \E l \in Listeners, f \in Files : Deliver(l, f)
    \/ CloseAll
    \/ \E f \in Files : Take(f)

Spec == Init /\ [][Next]_vars
=============================================================================
