---------------------------- MODULE MCDeliveries ----------------------------
(* Small instances of Deliveries for TLC.                                   *)
EXTENDS Deliveries, TLC

CONSTANTS e1, e2, bob, r1, r2, a1

(* bob starts watching something, and a task fails. *)
TwoKinds    == (e1 :> "play_started") @@ (e2 :> "task_failed")
AboutBob    == (e1 :> bob) @@ (e2 :> Nobody)
APlay       == e1 :> "play_started"
OfBob       == e1 :> bob
SignsInOnly == bob :> {"sign_in"}

Heard == {"play_started", "task_failed"}

All(owner) == [enabled |-> TRUE, events |-> Heard, min |-> Info, owner |-> owner]

(* A destination of bob's own, who may see what is about himself; and one of *)
(* the server, that hears it all.                                            *)
Bobs           == {All(bob)}
ServersAndBobs == {All(Nobody), All(bob)}
=============================================================================
