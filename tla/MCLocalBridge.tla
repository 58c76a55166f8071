---------------------------- MODULE MCLocalBridge ----------------------------
(***************************************************************************)
(* Instances of LocalBridge: a send, an import and a rollback, the first   *)
(* two with one request_id, queue and results shorter than the requests.   *)
(***************************************************************************)
EXTENDS LocalBridge, TLC

CONSTANTS r1, r2, r3, p, q

MCKind == (r1 :> "send") @@ (r2 :> "import") @@ (r3 :> "rollback")

\* Two clients, or two kinds of action, may use the same request_id.
MCId == (r1 :> "x") @@ (r2 :> "x") @@ (r3 :> "y")

\* The import is retried with another payload.
MCComes == (r1 :> {p}) @@ (r2 :> {p, q}) @@ (r3 :> {p})

MCBudgets ==
    {[posts |-> 3, commands |-> 1, of |-> {r1, r2}],
     [posts |-> 2, commands |-> 2, of |-> {r1, r2, r3}]}

=============================================================================
