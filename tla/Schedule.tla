------------------------------ MODULE Schedule ------------------------------
(***************************************************************************)
(* When the library is read: after each of Jellyfin's own scans.  The      *)
(* scheduler asks Jellyfin how its scan is doing and starts the task; the  *)
(* task may also be started by hand, fail, panic, or find an answer it     *)
(* refuses and ask the whole process to stop.  When the last read was is   *)
(* remembered in memory from the start of the round, and in the database   *)
(* from the start of the read, once it is complete.                        *)
(*                                                                         *)
(* Time is in whole seconds, here ticks, and several things happen in one. *)
(* A scan takes a second at least; a scan that ends in the very second a   *)
(* read begins is left out: the code takes it as read.                     *)
(*                                                                         *)
(* A definition whose name ends in _slip is the one below it with a        *)
(* mistake in it.  No action uses it: it is there to see that the          *)
(* properties notice.                                                      *)
(***************************************************************************)
EXTENDS Naturals

CONSTANTS
  SafetyNet,     \* SAFETY_NET_S
  Interval,      \* sync_interval_h: while Jellyfin has never scanned
  (* the bounds of the model *)
  MaxTick,
  MaxByHand      \* reads started by hand, and restarts

ASSUME ScheduleAssumption ==
  /\ SafetyNet \in Nat \ {0} /\ Interval \in Nat \ {0}
  /\ MaxTick \in Nat \ {0} /\ MaxByHand \in Nat

VARIABLES
  tick,
  scan,        \* Jellyfin's: is it on, when it began and when the last one ended
  round,       \* the scheduler's
  lastLibrary, \* last_library
  task,        \* the state of sync_libraries
  reader,      \* the task itself
  synced,      \* library_synced_at
  main,        \* the serve loop: does anybody wait for a halt?
  halted,      \* halt_reason is set
  (* what has happened *)
  begun, done, \* since the last scan ended, a read has begun; has been completed
  early,       \* a halt was asked for before anybody waited for one
  byHand

scheduleVars == <<tick, scan, round, lastLibrary, task, reader, synced, main, halted,
                  begun, done, early, byHand>>

Ticks == 0..MaxTick
NoReader == [pc |-> "none", started |-> 0, fresh |-> FALSE]

ScheduleTypeOK ==
  /\ tick \in Ticks
  /\ scan \in [on : BOOLEAN, began : Ticks, ended : Ticks]
  /\ round \in [pc : {"rest"}] \cup [pc : {"asks"}, now : Ticks]
               \cup [pc : {"decides"}, now : Ticks, on : BOOLEAN, ended : Ticks]
  /\ lastLibrary \in Ticks /\ synced \in Ticks
  /\ task \in {"idle", "running", "ok", "error"}
  /\ reader \in [pc : {"none", "spawned", "reads", "stuck"}, started : Ticks, fresh : BOOLEAN]
  /\ main \in {"starts", "serves", "stops"}
  /\ halted \in BOOLEAN /\ begun \in BOOLEAN /\ done \in BOOLEAN /\ early \in BOOLEAN
  /\ byHand \in 0..MaxByHand

ScheduleInit ==
  /\ tick = 1
  /\ scan = [on |-> FALSE, began |-> 0, ended |-> 0]
  /\ round = [pc |-> "rest"]
  /\ lastLibrary = 0 /\ synced = 0
  /\ task = "idle" /\ reader = NoReader
  /\ main = "starts" /\ halted = FALSE
  /\ begun = TRUE /\ done = TRUE
  /\ early = FALSE /\ byHand = 0

server == <<round, lastLibrary, task, reader, synced, main, halted>>
-----------------------------------------------------------------------------
Passes ==
  /\ tick < MaxTick
  /\ tick' = tick + 1
  /\ UNCHANGED <<scan, server, begun, done, early, byHand>>

ScanBegins ==
  /\ ~scan.on
  /\ scan' = [scan EXCEPT !.on = TRUE, !.began = tick]
  /\ UNCHANGED <<tick, server, begun, done, early, byHand>>

ScanEnds ==
  /\ scan.on /\ tick > scan.began
  /\ tick \notin {reader.started, synced}
  /\ scan' = [scan EXCEPT !.on = FALSE, !.ended = tick]
  /\ begun' = FALSE /\ done' = FALSE
  /\ reader' = [reader EXCEPT !.fresh = FALSE]
  /\ UNCHANGED <<tick, round, lastLibrary, task, synced, main, halted, early, byHand>>
-----------------------------------------------------------------------------
(* `spawn`, by way of `try_start` *)
Spawns ==
  /\ task # "running"
  /\ task' = "running"
  /\ reader' = [pc |-> "spawned", started |-> 0, fresh |-> FALSE]

(* A round of the scheduler: the time is taken first. *)
RoundBegins ==
  /\ round.pc = "rest" /\ main # "stops"
  /\ round' = [pc |-> "asks", now |-> tick]
  /\ UNCHANGED <<tick, scan, lastLibrary, task, reader, synced, main, halted, begun, done, early, byHand>>

(* `scheduled_tasks`: both answers from one read; or none, and nothing is due. *)
RoundAsks ==
  /\ round.pc = "asks"
  /\ round' \in {[pc |-> "decides", now |-> round.now, on |-> scan.on, ended |-> scan.ended],
                 [pc |-> "rest"]}
  /\ UNCHANGED <<tick, scan, lastLibrary, task, reader, synced, main, halted, begun, done, early, byHand>>

LibraryDue ==
  /\ ~round.on
  /\ \/ round.ended > lastLibrary /\ round.ended > 0
     \/ round.ended > 0 /\ round.now - lastLibrary >= SafetyNet
     \/ round.ended = 0 /\ round.now - lastLibrary >= Interval

(* `due && spawn(...)` *)
RoundDecides_slip ==
  /\ round.pc = "decides"
  /\ round' = [pc |-> "rest"]
  /\ lastLibrary' = IF LibraryDue THEN round.now ELSE lastLibrary
  /\ IF LibraryDue /\ task # "running" THEN Spawns ELSE UNCHANGED <<task, reader>>
  /\ UNCHANGED <<tick, scan, synced, main, halted, begun, done, early, byHand>>
RoundDecides ==
  /\ round.pc = "decides"
  /\ round' = [pc |-> "rest"]
  /\ IF LibraryDue /\ task # "running"
     THEN Spawns /\ lastLibrary' = round.now
     ELSE UNCHANGED <<task, reader, lastLibrary>>
  /\ UNCHANGED <<tick, scan, synced, main, halted, begun, done, early, byHand>>

(* `run_task`: a manager starts it, even while a scan is on. *)
ByHand ==
  /\ main # "stops"
  /\ byHand < MaxByHand
  /\ byHand' = byHand + 1
  /\ Spawns
  /\ UNCHANGED <<tick, scan, round, lastLibrary, synced, main, halted, begun, done, early>>
-----------------------------------------------------------------------------
(* `sync_libraries` *)
LibraryReadBegins ==
  /\ reader.pc = "spawned"
  /\ reader' = [pc |-> "reads", started |-> tick, fresh |-> TRUE]
  /\ begun' = TRUE
  /\ UNCHANGED <<tick, scan, round, lastLibrary, task, synced, main, halted, done, early, byHand>>

LibraryReadEnds ==
  /\ reader.pc = "reads"
  /\ synced' = reader.started
  /\ done' = (done \/ reader.fresh)
  /\ task' = "ok" /\ reader' = NoReader
  /\ UNCHANGED <<tick, scan, round, lastLibrary, main, halted, begun, early, byHand>>

LibraryReadFails ==
  /\ reader.pc = "reads"
  /\ task' = "error" /\ reader' = NoReader
  /\ UNCHANGED <<tick, scan, round, lastLibrary, synced, main, halted, begun, done, early, byHand>>

(* A panic ends the tokio task before `finish`. *)
LibraryReadPanics ==
  /\ reader.pc = "reads"
  /\ reader' = [reader EXCEPT !.pc = "stuck"]
  /\ UNCHANGED <<tick, scan, round, lastLibrary, task, synced, main, halted, begun, done, early, byHand>>

(* `request_halt`: the first reason is kept, and wakes whoever waits now. *)
RequestHalt ==
  /\ halted' = TRUE
  /\ early' = IF halted THEN early ELSE main = "starts"
  /\ main' = IF ~halted /\ main = "serves" THEN "stops" ELSE main

LibraryReadRefuses_slip ==
  /\ reader.pc = "reads"
  /\ RequestHalt
  /\ reader' = NoReader
  /\ UNCHANGED <<tick, scan, round, lastLibrary, task, synced, begun, done, byHand>>
LibraryReadRefuses ==
  /\ reader.pc = "reads"
  /\ RequestHalt
  /\ task' = "error" /\ reader' = NoReader
  /\ UNCHANGED <<tick, scan, round, lastLibrary, synced, begun, done, byHand>>

(* `axum::serve` is up, and its shutdown signal is waited for. *)
Serves ==
  /\ main = "starts"
  /\ main' = "serves"
  /\ UNCHANGED <<tick, scan, round, lastLibrary, task, reader, synced, halted, begun, done, early, byHand>>

(* Stopped or killed, and started again: the scheduler reads `library_synced_at`. *)
StartsOver ==
  /\ byHand < MaxByHand
  /\ byHand' = byHand + 1
  /\ round' = [pc |-> "rest"]
  /\ lastLibrary' = synced
  /\ task' = "idle" /\ reader' = NoReader
  /\ main' = "starts" /\ halted' = FALSE /\ early' = FALSE
  /\ begun' = done
  /\ UNCHANGED <<tick, scan, synced, done>>

ScheduleNext ==
  \/ Passes \/ ScanBegins \/ ScanEnds
  \/ RoundBegins \/ RoundAsks \/ RoundDecides \/ ByHand
  \/ LibraryReadBegins \/ LibraryReadEnds \/ LibraryReadFails \/ LibraryReadPanics \/ LibraryReadRefuses
  \/ Serves \/ StartsOver

ScheduleSpec == ScheduleInit /\ [][ScheduleNext]_scheduleVars
-----------------------------------------------------------------------------
(* A scan nobody has begun to read after is due in the next round that     *)
(* sees it, whatever was running when it ended, and whatever the scheduler *)
(* had seen before.                                                        *)
UnreadIsDue ==
  ~scan.on /\ ~begun => scan.ended > lastLibrary \/ reader.pc = "spawned"

(* A scan nobody has completed a read of is due again after a restart.     *)
UnreadSurvivesRestart == ~scan.on /\ ~done => scan.ended > synced

(* Both: no scan goes unread, within a process or across a restart.        *)
NoScanStaysUnread == UnreadIsDue /\ UnreadSurvivesRestart

(* A task that is said to be running is, unless it has panicked: then it   *)
(* stays taken until the process starts again.                             *)
RunningMeansSomebody == task = "running" <=> reader.pc # "none"

(* A halt that was asked for ends the serve loop; one that was asked for   *)
(* before it waited does not, nor any after it.                            *)
HaltIsHeard == halted /\ main = "serves" => early

(* Both: neither a job nor the serve loop waits for what will never come.  *)
NobodyWaitsInVain == RunningMeansSomebody /\ HaltIsHeard
=============================================================================
