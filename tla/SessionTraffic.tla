--------------------------- MODULE SessionTraffic ----------------------------
(***************************************************************************)
(* One direction of an authenticated session: the counter the sender seals *)
(* its frames with (session_traffic.rs, SessionTrafficCounters) and the    *)
(* replay window through which the receiver opens control frames           *)
(* (SessionReplayWindow, open_control_once).  The counter is the nonce of  *)
(* its frame; control and file frames share it.  A frame that was sent may *)
(* reach the receiver late, out of order, or again.                        *)
(***************************************************************************)
EXTENDS Integers, FiniteSets

CONSTANTS
    CounterMax,  \* u64::MAX: the counter that is never used
    Window,      \* SESSION_REPLAY_WINDOW_SIZE
    NoCounter    \* highest_counter: None

ASSUME CounterMaxAssumption == CounterMax \in Nat
ASSUME WindowAssumption == Window \in Nat \ {0}
ASSUME NoCounterAssumption == NoCounter \notin Nat

VARIABLES
    send_counter,     \* the sender's next counter
    sent,             \* the frames it sealed
    highest_counter,  \* the receiver's window: the highest counter accepted
    seen_counters,    \* ... and the counters it remembers
    opened            \* [counter] (history): how often a control frame of it was opened

senderVars == <<send_counter, sent>>
windowVars == <<highest_counter, seen_counters, opened>>
trafficVars == <<senderVars, windowVars>>

Counters == 0..(CounterMax - 1)
Frame    == [kind : {"control", "file"}, counter : Counters]

TrafficInit ==
    /\ send_counter = 0
    /\ sent = {}
    /\ highest_counter = NoCounter
    /\ seen_counters = {}
    /\ opened = [c \in Counters |-> 0]

-----------------------------------------------------------------------------

\* Mutant: the last counter is used, and the next one wraps.
Seal_Wraps(kind) ==
    /\ sent' = sent \cup {[kind |-> kind, counter |-> send_counter]}
    /\ send_counter' = (send_counter + 1) % CounterMax
    /\ UNCHANGED windowVars

\* A frame is sealed under the next counter, until the counters are used up.
Seal(kind) ==
    /\ send_counter # CounterMax
    /\ sent' = sent \cup {[kind |-> kind, counter |-> send_counter]}
    /\ send_counter' = send_counter + 1
    /\ UNCHANGED windowVars

\* Subtraction that stops at zero.
saturating_sub(a, b) == IF a > b THEN a - b ELSE 0

\* The lowest counter of the window below a highest one.
minimum_counter(highest) == saturating_sub(highest, saturating_sub(Window, 1))

\* Mutant: the lowest counter of the window is already too old.
InWindow_Exclusive(c) ==
    highest_counter # NoCounter => c > minimum_counter(highest_counter)

\* The counter is not too old.
InWindow(c) ==
    highest_counter # NoCounter => c >= minimum_counter(highest_counter)

\* The window takes this counter.
Accepts(c) == InWindow(c) /\ c \notin seen_counters

\* Mutant: what is remembered is cut to the counters above the window's lowest.
prune_Exclusive(seen, highest) == {c \in seen : c > minimum_counter(highest)}

\* What the window forgets when its highest counter is this one.
prune(seen, highest) == {c \in seen : c >= minimum_counter(highest)}

Higher(c) == highest_counter = NoCounter \/ c > highest_counter

\* A control frame arrives, is decrypted, and the window takes its counter.  A frame it does
\* not take changes nothing.
Open(f) ==
    /\ f.kind = "control"
    /\ Accepts(f.counter)
    /\ highest_counter' = IF Higher(f.counter) THEN f.counter ELSE highest_counter
    /\ seen_counters' = prune(seen_counters \cup {f.counter}, highest_counter')
    /\ opened' = [opened EXCEPT ![f.counter] = @ + 1]
    /\ UNCHANGED senderVars

TrafficNext ==
    \/ \E kind \in {"control", "file"} : Seal(kind)
    \/ \E f \in sent : Open(f)

TrafficSpec == TrafficInit /\ [][TrafficNext]_trafficVars

-----------------------------------------------------------------------------
(* Properties.                                                              *)

TrafficTypeOK ==
    /\ send_counter \in 0..CounterMax
    /\ sent \subseteq Frame
    /\ highest_counter \in Counters \cup {NoCounter}
    /\ seen_counters \subseteq Counters
    /\ opened \in [Counters -> Nat]

\* No two frames of a session are sealed with one nonce, up to the last counter
\* (next_session_counter).
NonceUnique == \A f, g \in sent : f.counter = g.counter => f = g

\* A control frame is opened at most once, however often and in whatever order frames
\* arrive, although the window remembers only its last counters (accept, prune).
OpenedOnce == \A c \in Counters : opened[c] <= 1

\* The window remembers at most Window counters, for any length of session (prune).
SeenBounded == IsFiniteSet(seen_counters) /\ Cardinality(seen_counters) <= Window

\* A control frame that was not opened yet is taken if fewer than Window counters lie
\* between it and the highest one: reordering within the window loses nothing.
LateFrameTaken ==
    \A f \in sent :
        (/\ f.kind = "control"
         /\ opened[f.counter] = 0
         /\ highest_counter # NoCounter => f.counter + Window > highest_counter)
        => Accepts(f.counter)

\* What makes OpenedOnce inductive: a counter that was opened is remembered, or is below the
\* window for ever.
OpenedIsCovered ==
    /\ \A c \in Counters : opened[c] > 0 => c \in seen_counters \/ ~InWindow(c)
    /\ \A c \in seen_counters : opened[c] > 0

\* What is remembered lies in the window.
SeenInWindow ==
    \A c \in seen_counters :
        /\ highest_counter # NoCounter
        /\ minimum_counter(highest_counter) <= c
        /\ c <= highest_counter
=============================================================================
