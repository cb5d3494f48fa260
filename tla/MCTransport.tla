---------------------------- MODULE MCTransport -----------------------------
(* A small instance of Transport for TLC.                                   *)
EXTENDS Transport

(* A change, a dead connection and a lost push; or a change and an outage. *)
MCTroubles == {[changes |-> 1, drops |-> 1, lost |-> 1, outages |-> 0],
               [changes |-> 1, drops |-> 0, lost |-> 0, outages |-> 1]}

MCBlips == {[changes |-> 0, drops |-> 0, lost |-> 0, outages |-> 2]}
=============================================================================
