------------------------------ MODULE MCServer ------------------------------
(***************************************************************************)
(* The parts of the server that share no state with one another, checked   *)
(* in one run: a behaviour is a behaviour of one of them, while the others *)
(* stay as they began.                                                     *)
(***************************************************************************)
EXTENDS ReadBudget, Access, History, Connections, Schedule, Downloads

CONSTANTS a, u, b1, b2, o1, o2, f1, f2, g, Film, Other, j1, s1, s2, r1, r2, r3, k1, k2

VARIABLE part

serverVars == <<vars, accessVars, historyVars, connVars, scheduleVars, downloadsVars, part>>

MCBackup == [settings |-> [allow |-> TRUE, defaults |-> {}], grants |-> [z \in {u} |-> {"manage"}]]

MCTitleOf == [f \in {f1, f2, g} |-> IF f = g THEN Other ELSE Film]
MCJellystat == <<[user |-> u, item |-> f1, start |-> 1, active |-> FALSE, source_id |-> j1]>>

MCAtFirst == s1 :> (r1 :> 1 @@ r2 :> 2 @@ r3 :> 3) @@ s2 :> (r1 :> 2 @@ r2 :> 0 @@ r3 :> 0)

MCAwaits == s1 :> {k1} @@ s2 :> {k2}
MCPartsOf == k1 :> {1, 2} @@ k2 :> {1}

(* Nothing is chosen among the browsers or the owners. *)
MCSymmetry == Permutations({b1, b2}) \cup Permutations({o1, o2})

(* The parts at rest begin in one state each. *)
ServerInit ==
  /\ part \in {"gate", "access", "history", "connections", "schedule", "downloads"}
  /\ Init
  /\ AccessInit /\ (part # "access" => NewInstall)
  /\ HistoryInit /\ (part # "history" => here = Films)
  /\ ConnectionsInit
  /\ ScheduleInit
  /\ DownloadsInit /\ (part # "downloads" => arrs = {})

ServerNext ==
  \/ /\ part = "gate" /\ Next
     /\ UNCHANGED <<accessVars, historyVars, connVars, scheduleVars, downloadsVars, part>>
  \/ /\ part = "access" /\ AccessNext
     /\ UNCHANGED <<vars, historyVars, connVars, scheduleVars, downloadsVars, part>>
  \/ /\ part = "history" /\ HistoryNext
     /\ UNCHANGED <<vars, accessVars, connVars, scheduleVars, downloadsVars, part>>
  \/ /\ part = "connections" /\ ConnectionsNext
     /\ UNCHANGED <<vars, accessVars, historyVars, scheduleVars, downloadsVars, part>>
  \/ /\ part = "schedule" /\ ScheduleNext
     /\ UNCHANGED <<vars, accessVars, historyVars, connVars, downloadsVars, part>>
  \/ /\ part = "downloads" /\ DownloadsNext
     /\ UNCHANGED <<vars, accessVars, historyVars, connVars, scheduleVars, part>>

(* The type invariants of the parts. *)
ServerTypeOK ==
  TypeOK /\ AccessTypeOK /\ HistoryTypeOK /\ ConnectionsTypeOK /\ ScheduleTypeOK /\ DownloadsTypeOK

(* What is known of the other services is what they have said: of Seerr's  *)
(* requests, and of the queues of Sonarr and Radarr.                       *)
ServicesAreTrue == RequestsAreTrue /\ QueueIsTrue

ServerSpec == ServerInit /\ [][ServerNext]_serverVars
=============================================================================
