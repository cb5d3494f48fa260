------------------------------ MODULE MCPlays ------------------------------
(* Small instances of Plays for TLC.                                        *)
EXTENDS Plays, TLC

CONSTANTS s1, s2, v1, v2

Runs(v)   == [view |-> v, paused |-> FALSE]
Pauses(v) == [view |-> v, paused |-> TRUE]

(* One device that plays and pauses one item, and switches to another.      *)
OneDevice == s1 :> {Runs(v1), Pauses(v1), Runs(v2)}

(* Two devices, one item each: every session keeps to its own view.         *)
TwoDevices == (s1 :> {Runs(v1)}) @@ (s2 :> {Runs(v2)})

(* One device and one item that is never paused.                            *)
OneItem == s1 :> {Runs(v1)}

(* One device and two items that are never paused.                          *)
TwoItems == s1 :> {Runs(v1), Runs(v2)}
=============================================================================
