--------------------------- MODULE MCBridgeClients ---------------------------
(* Two clients, two kinds of events, a queue of two events read one by one:  *)
(* once with two grants and no event, once with three events and a grant     *)
(* that may be revoked, and a restart or a lost answer.                      *)
EXTENDS BridgeClients

CONSTANTS a, b, bundle, transfer

MCClients == {a, b}
MCScopes == {bundle, transfer}
MCBounds ==
    {[granted |-> {}, asks |-> {<<a, {bundle, transfer}>>, <<b, {bundle}>>}, readers |-> {},
      time |-> 1, codes |-> 2, events |-> 0, restarts |-> 1, lost |-> 0]}
    \cup
    {[granted |-> {[client |-> a, scopes |-> {bundle, transfer}, until |-> 1]},
      asks |-> {}, readers |-> {a},
      time |-> 0, codes |-> 0, events |-> 3, restarts |-> n, lost |-> 1 - n] : n \in 0..1}
MCRepeating == {bundle}
=============================================================================
