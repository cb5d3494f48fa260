------------------------------- MODULE Plays -------------------------------
(***************************************************************************)
(* The collector's `tick`: a list of sessions in, playback rows out.       *)
(*                                                                         *)
(* One process runs `run`, which hands every list it gets to `tick`.  A    *)
(* tick walks the list one session at a time and then the plays that are   *)
(* no longer in it, and awaits the database in between: the process can be *)
(* killed, and a write can fail, between any two of those steps.  A write  *)
(* is one `db.call` on an autocommitting connection, so of the two         *)
(* statements in it the first can stand while the second fails.            *)
(*                                                                         *)
(* Time is in whole seconds and one clock; `db::now` and `Instant` agree.  *)
(* Positions, streams, addresses and names are left out: the only thing    *)
(* they decide here is whether a sighting has an event to write.           *)
(*                                                                         *)
(* A definition whose name ends in _slip is the one below it with a        *)
(* mistake in it.  No action uses it: it is there to see that the          *)
(* properties notice.                                                      *)
(***************************************************************************)
EXTENDS Naturals, FiniteSets

CONSTANTS
  Sids,          \* Jellyfin's session ids
  Views,         \* a person, an item and a device
  Shows,         \* Shows[s]: what Jellyfin may report of session s
  MinKeep,       \* MIN_KEEP_S
  PersistEvery,  \* PERSIST_EVERY
  StepCap,       \* the longest step that counts as viewing (90 in the code)
  Merge,         \* settings.merge_window_s, 0 when it is off
  Notify,        \* some destination wants to hear about plays
  NoRow, NoPlay, Nothing,
  (* the bounds of the model *)
  Waits,         \* the gaps between two things happening
  Horizon,       \* the last second of the run
  MaxRows, MaxCrashes, MaxFails,
  MaxSpawned     \* notifications still on their way when a tick begins

ASSUME ParamsAssumption ==
  /\ MinKeep \in Nat \ {0}
  /\ PersistEvery \in Nat \ {0}
  /\ StepCap \in Nat
  /\ Merge \in Nat
  /\ Notify \in BOOLEAN

ASSUME BoundsAssumption ==
  /\ Waits \subseteq Nat \ {0}
  /\ Horizon \in Nat
  /\ MaxRows \in Nat
  /\ MaxCrashes \in Nat
  /\ MaxFails \in Nat
  /\ MaxSpawned \in Nat

VARIABLES
  now,      \* seconds
  pc,       \* where the process is: not running, between ticks, or in one
  list,     \* the list being worked through
  todo,     \* its sessions that `tick` has still to come to
  tracked,  \* the collector's own map, by session and item
  rows,     \* the playback table
  live,     \* app.live: what the dashboard says is playing
  spawned,  \* notifications on their way to be written
  told,     \* notifications written down
  crashes, fails,  \* how often each has happened
  seenAt    \* history: when the viewing in a row was last in a list

proc == <<pc, list, todo>>
vars == <<now, pc, list, todo, tracked, rows, live, spawned, told,
          crashes, fails, seenAt>>

Ids  == 1..MaxRows
Keys == Sids \X Views
View(k) == k[2]

Slot == [view : Views, paused : BOOLEAN]

ASSUME ShowsAssumption == Shows \in [Sids -> SUBSET Slot]

Row == [view : Views, active : BOOLEAN,
        started : Nat, ended : Nat, duration : Nat, paused : Nat]

Play == [row : Ids, started : Nat, watched : Nat, rested : Nat,
         paused : BOOLEAN, lastTick : Nat, lastPersist : Nat]

Notice == [kind : {"start", "stop"}, row : Ids, view : Views, started : Nat]

ASSUME NullsAssumption ==
  /\ NoRow \notin Row
  /\ NoPlay \notin Play
  /\ Nothing \notin Slot

TypeOK ==
  /\ now \in Nat
  /\ pc \in {"down", "idle", "sessions", "ended"}
  /\ list \in [Sids -> Slot \cup {Nothing}]
  /\ todo \subseteq {s \in Sids : list[s] # Nothing}
  /\ tracked \in [Keys -> Play \cup {NoPlay}]
  /\ rows \in [Ids -> Row \cup {NoRow}]
  /\ live \subseteq Keys
  /\ spawned \subseteq Notice
  /\ told \subseteq Notice
  /\ crashes \in Nat
  /\ fails \in Nat
  /\ seenAt \in [Ids -> Nat]

Empty == [s \in Sids |-> Nothing]
Idle  == [k \in Keys |-> NoPlay]

Init ==
  /\ now = 0
  /\ pc = "down"
  /\ list = Empty
  /\ todo = {}
  /\ tracked = Idle
  /\ rows = [i \in Ids |-> NoRow]
  /\ live = {}
  /\ spawned = {}
  /\ told = {}
  /\ crashes = 0
  /\ fails = 0
  /\ seenAt = [i \in Ids |-> 0]

-----------------------------------------------------------------------------
(* Helpers *)

Playing == {k \in Keys : tracked[k] # NoPlay}

(* The keys of the sessions in a list that have something loaded. *)
KeysOf(l) == {k \in Keys : l[k[1]] # Nothing /\ l[k[1]].view = View(k)}

Least(a, b) == IF a < b THEN a ELSE b

(* What a row says once the play has been written to it. *)
Written(r, p, active) ==
  [r EXCEPT !.active = active, !.ended = p.lastTick,
            !.duration = p.watched, !.paused = p.rested]

(* The id an INSERT takes: one above the largest there is.  The column is a *)
(* plain INTEGER PRIMARY KEY, so the id of a deleted last row comes round   *)
(* again.                                                                   *)
IsNextId(i) ==
  /\ rows[i] = NoRow
  /\ \A j \in Ids : rows[j] # NoRow => j < i
  /\ i > 1 => rows[i - 1] # NoRow

Resumable_slip(v) ==   \* the break is counted from the beginning
  {i \in Ids : /\ rows[i] # NoRow /\ ~rows[i].active /\ rows[i].view = v
               /\ rows[i].started + Merge >= now}

(* The rows a new sighting of v could be the continuation of. *)
Resumable(v) == {i \in Ids : /\ rows[i] # NoRow
                             /\ ~rows[i].active
                             /\ rows[i].view = v
                             /\ rows[i].ended + Merge >= now}

Resumed(i, v) ==
  /\ Merge > 0
  /\ i \in Resumable(v)
  /\ \A j \in Resumable(v) : rows[j].ended <= rows[i].ended

(* `raise` in a task of its own: nothing at all unless somebody wants it. *)
Raised(kind, i, v, started) ==
  IF Notify THEN {[kind |-> kind, row |-> i, view |-> v, started |-> started]} ELSE {}

Abandon_slip ==   \* the rest of the list is left to do
  /\ fails < MaxFails
  /\ fails' = fails + 1
  /\ pc' = "idle"
  /\ list' = Empty
  /\ UNCHANGED todo

(* A failed write ends the tick where it is; `run` logs it and carries on. *)
Abandon ==
  /\ fails < MaxFails
  /\ fails' = fails + 1
  /\ pc' = "idle"
  /\ list' = Empty
  /\ todo' = {}
-----------------------------------------------------------------------------
(* A process starts: whatever is flagged active belongs to a previous one. *)

Settled_slip(r, closing) ==   \* nothing that was open is kept
  IF r = NoRow \/ ~r.active THEN r ELSE NoRow

Settled(r, closing) ==
  IF r = NoRow \/ ~r.active THEN r
  ELSE IF r.duration < MinKeep THEN NoRow
  ELSE [r EXCEPT !.active = ~closing]

Start ==
  /\ pc = "down"
  /\ pc' = "idle"
  /\ list' = Empty
  /\ todo' = {}
  /\ tracked' = Idle
  /\ UNCHANGED <<now, live, spawned, told, crashes, seenAt>>

Boot ==
  /\ Start
  /\ rows' = [i \in Ids |-> Settled(rows[i], TRUE)]
  /\ UNCHANGED fails

(* Logged, and the collector runs on: neither statement, or only the DELETE. *)
BootFails ==
  /\ Start
  /\ fails < MaxFails
  /\ fails' = fails + 1
  /\ \/ rows' = rows
     \/ rows' = [i \in Ids |-> Settled(rows[i], FALSE)]

-----------------------------------------------------------------------------
(* One tick. *)

Lists == {l \in [Sids -> Slot \cup {Nothing}] :
            \A s \in Sids : l[s] \in Shows[s] \cup {Nothing}}

(* Bound of the model: ids enough for every session in the list.            *)
Room(l) ==
  Cardinality({i \in Ids : \A j \in Ids : rows[j] # NoRow => j < i})
    >= Cardinality({s \in Sids : l[s] # Nothing})

TickBegin(l) ==
  /\ pc = "idle"
  /\ Room(l)
  /\ Cardinality(spawned) <= MaxSpawned
  /\ pc' = "sessions"
  /\ list' = l
  /\ todo' = {s \in Sids : l[s] # Nothing}
  /\ UNCHANGED <<now, tracked, rows, live, spawned, told, crashes, fails, seenAt>>

Watched_slip(dt, wasPaused) == dt   \* a pause is watched too

(* The seconds between two sightings belong to the state the play was in. *)
Watched(dt, wasPaused) == IF wasPaused THEN 0 ELSE dt
Rested(dt, wasPaused)  == IF wasPaused THEN dt ELSE 0

Sighted(p, paused) ==
  LET dt == Least(now - p.lastTick, StepCap) IN
  [p EXCEPT !.watched = @ + Watched(dt, p.paused),
            !.rested  = @ + Rested(dt, p.paused),
            !.paused  = paused,
            !.lastTick = now]

Key(s) == <<s, list[s].view>>

(* Session s of the list is a play the collector already follows. *)
Known(s) ==
  /\ pc = "sessions"
  /\ s \in todo
  /\ tracked[Key(s)] # NoPlay
  /\ seenAt' = [seenAt EXCEPT ![tracked[Key(s)].row] = now]
  /\ UNCHANGED <<now, live, spawned, told, crashes>>

Next1(s) == pc' = pc /\ list' = list /\ todo' = todo \ {s}

(* Nothing happened and it is not time to save: only memory moves. *)
Glance(s) ==
  LET p == tracked[Key(s)] IN
  /\ Known(s)
  /\ p.paused = list[s].paused
  /\ now - p.lastPersist < PersistEvery
  /\ tracked' = [tracked EXCEPT ![Key(s)] = Sighted(p, list[s].paused)]
  /\ Next1(s)
  /\ UNCHANGED <<rows, fails>>

(* An event (a pause, a resume, a seek, another track) or PersistEvery.  The *)
(* save clock is set before the write is tried.                              *)
Saved(s) == [Sighted(tracked[Key(s)], list[s].paused) EXCEPT !.lastPersist = now]

SavedRows(s) ==
  LET p == Saved(s) IN [rows EXCEPT ![p.row] = Written(@, p, TRUE)]

Save(s) ==
  /\ Known(s)
  /\ tracked' = [tracked EXCEPT ![Key(s)] = Saved(s)]
  /\ rows' = SavedRows(s)
  /\ Next1(s)
  /\ UNCHANGED fails

SaveFails(s) ==
  /\ Known(s)
  /\ tracked' = [tracked EXCEPT ![Key(s)] = Saved(s)]
  /\ rows' \in {rows, SavedRows(s)}
  /\ Abandon

(* Session s carries something the collector does not follow yet. *)
New(s) ==
  /\ pc = "sessions"
  /\ s \in todo
  /\ tracked[Key(s)] = NoPlay
  /\ UNCHANGED <<now, live, told, crashes>>

Opened(v) == [view |-> v, active |-> TRUE, started |-> now, ended |-> now,
              duration |-> 0, paused |-> 0]

Follow(s, i, started, watched, rested) ==
  tracked' = [tracked EXCEPT ![Key(s)] =
                [row |-> i, started |-> started, watched |-> watched, rested |-> rested,
                 paused |-> list[s].paused, lastTick |-> now, lastPersist |-> now]]

(* The same viewing, continued after a short break: only `active` is written. *)
Resume(s) ==
  /\ New(s)
  /\ \E i \in Ids :
       /\ Resumed(i, list[s].view)
       /\ rows' = [rows EXCEPT ![i].active = TRUE]
       /\ Follow(s, i, rows[i].started, rows[i].duration, rows[i].paused)
       /\ spawned' = spawned \cup Raised("start", i, list[s].view, rows[i].started)
       /\ seenAt' = [seenAt EXCEPT ![i] = now]
  /\ Next1(s)
  /\ UNCHANGED fails

CannotResume(v) == Merge = 0 \/ Resumable(v) = {}

Insert(s) ==
  /\ New(s)
  /\ CannotResume(list[s].view)
  /\ \E i \in Ids :
       /\ IsNextId(i)
       /\ rows' = [rows EXCEPT ![i] = Opened(list[s].view)]
       /\ Follow(s, i, now, 0, 0)
       /\ spawned' = spawned \cup Raised("start", i, list[s].view, now)
       /\ seenAt' = [seenAt EXCEPT ![i] = now]
  /\ Next1(s)
  /\ UNCHANGED fails

(* The row may be there, active and followed by nobody, when its first event *)
(* could not be written.                                                     *)
NewFails(s) ==
  /\ New(s)
  /\ \/ rows' = rows
     \/ \E i \in Ids : /\ Resumed(i, list[s].view)
                       /\ rows' = [rows EXCEPT ![i].active = TRUE]
     \/ \E i \in Ids : /\ CannotResume(list[s].view)
                       /\ IsNextId(i)
                       /\ rows' = [rows EXCEPT ![i] = Opened(list[s].view)]
  /\ Abandon
  /\ UNCHANGED <<tracked, spawned, seenAt>>

(* Whatever is tracked but no longer reported has ended. *)
SessionsDone ==
  /\ pc = "sessions"
  /\ todo = {}
  /\ pc' = "ended"
  /\ UNCHANGED <<now, list, todo, tracked, rows, live, spawned, told, crashes, fails, seenAt>>

Gone == Playing \ KeysOf(list)

Stopped_slip(k) == Raised("stop", tracked[k].row, View(k), tracked[k].started)

(* An accidental click is not worth a word. *)
Stopped(k) ==
  IF tracked[k].watched >= MinKeep
  THEN Raised("stop", tracked[k].row, View(k), tracked[k].started) ELSE {}

(* Untracked, and told about, before the database hears of it. *)
End(k) ==
  /\ pc = "ended"
  /\ k \in Gone
  /\ tracked' = [tracked EXCEPT ![k] = NoPlay]
  /\ spawned' = spawned \cup Stopped(k)
  /\ UNCHANGED <<now, live, told, crashes, seenAt>>

ClosedRows_slip(k) ==   \* `active` is not among what the last write sets
  LET p == tracked[k] IN
  [rows EXCEPT ![p.row] = IF p.watched < MinKeep THEN NoRow ELSE Written(@, p, TRUE)]

ClosedRows(k) ==
  LET p == tracked[k] IN
  [rows EXCEPT ![p.row] = IF p.watched < MinKeep THEN NoRow ELSE Written(@, p, FALSE)]

Close(k) ==
  /\ End(k)
  /\ rows' = ClosedRows(k)
  /\ UNCHANGED <<pc, list, todo, fails>>

CloseFails(k) ==
  /\ End(k)
  /\ rows' \in {rows, ClosedRows(k)}
  /\ Abandon

TickEnd ==
  /\ pc = "ended"
  /\ Gone = {}
  /\ live' = Playing
  /\ pc' = "idle"
  /\ list' = Empty
  /\ todo' = {}
  /\ UNCHANGED <<now, tracked, rows, spawned, told, crashes, fails, seenAt>>

(* The devices seen in the list are upserted before `live` is replaced. *)
DevicesFail ==
  /\ pc = "ended"
  /\ Gone = {}
  /\ Abandon
  /\ UNCHANGED <<now, tracked, rows, live, spawned, told, crashes, seenAt>>

-----------------------------------------------------------------------------
(* Everything around the tick. *)

(* A spawned `raise` gets to the database: INSERT OR IGNORE on a key made of *)
(* what happened and the row's id.                                           *)
AlreadyTold(e) == \E f \in told : f.kind = e.kind /\ f.row = e.row

Tell(e) ==
  /\ pc # "down"
  /\ e \in spawned
  /\ spawned' = spawned \ {e}
  /\ told' = IF AlreadyTold(e) THEN told ELSE told \cup {e}
  /\ UNCHANGED <<now, pc, list, todo, tracked, rows, live, crashes, fails, seenAt>>

DeletePlay_slip(i) ==   \* whatever it is
  /\ pc # "down"
  /\ rows[i] # NoRow
  /\ rows' = [rows EXCEPT ![i] = NoRow]
  /\ UNCHANGED <<now, pc, list, todo, tracked, live, spawned, told, crashes, fails, seenAt>>

(* Somebody deletes a finished play on the activity page. *)
DeletePlay(i) ==
  /\ pc # "down"
  /\ rows[i] # NoRow
  /\ ~rows[i].active
  /\ rows' = [rows EXCEPT ![i] = NoRow]
  /\ UNCHANGED <<now, pc, list, todo, tracked, live, spawned, told, crashes, fails, seenAt>>

(* A tick keeps the second it began in, so nothing in it notices time pass. *)
Wait(d) ==
  /\ pc \in {"idle", "down"}
  /\ now + d <= Horizon
  /\ now' = now + d
  /\ UNCHANGED <<pc, list, todo, tracked, rows, live, spawned, told, crashes, fails, seenAt>>

Crash ==
  /\ pc # "down"
  /\ crashes < MaxCrashes
  /\ crashes' = crashes + 1
  /\ pc' = "down"
  /\ list' = Empty
  /\ todo' = {}
  /\ tracked' = Idle
  /\ live' = {}
  /\ spawned' = {}
  /\ UNCHANGED <<now, rows, told, fails, seenAt>>

Tick ==
  \/ \E l \in Lists : TickBegin(l)
  \/ \E s \in Sids : \/ Glance(s) \/ Save(s) \/ SaveFails(s)
                     \/ Resume(s) \/ Insert(s) \/ NewFails(s)
  \/ SessionsDone
  \/ \E k \in Keys : Close(k) \/ CloseFails(k)
  \/ TickEnd
  \/ DevicesFail

Next ==
  \/ Boot
  \/ BootFails
  \/ Tick
  \/ \E e \in spawned : Tell(e)
  \/ \E i \in Ids : DeletePlay(i)
  \/ \E d \in Waits : Wait(d)
  \/ Crash

Spec == Init /\ [][Next]_vars

-----------------------------------------------------------------------------
(* Properties *)

(* Every play the collector follows has a row of its own that is active,     *)
(* says who it says it is, and is never ahead of what the collector knows:   *)
(* no resume, failed write, delete by hand or reused id crosses two plays.   *)
(* (`tracked` in `tick` against the playbacks table.)                        *)
FollowsARow(k) ==
  LET p == tracked[k] IN
  /\ rows[p.row] # NoRow
  /\ rows[p.row].active
  /\ rows[p.row].view = View(k)
  /\ rows[p.row].started = p.started
  /\ rows[p.row].ended <= p.lastTick
  /\ rows[p.row].duration <= p.watched
  /\ rows[p.row].paused <= p.rested

PlaysOwnTheirRows ==
  /\ \A k \in Playing : FollowsARow(k)
  /\ \A k, l \in Playing : tracked[k].row = tracked[l].row => k = l

(* No play is ever longer than the time it was there to be watched: gaps,    *)
(* breaks, restarts and downtime are never counted as viewing (`attribute`,  *)
(* the cap in `tick`, and the counters a resumed row hands back).            *)
NeverLongerThanItLasted ==
  /\ \A k \in Playing : LET p == tracked[k] IN
       p.started + p.watched + p.rested <= p.lastTick /\ p.lastTick <= now
  /\ \A i \in Ids : rows[i] # NoRow => LET r == rows[i] IN
       r.started + r.duration + r.paused <= r.ended /\ r.ended <= now

(* While no write has failed, a crash can take less than PersistEvery of     *)
(* watch time from a play: what is in memory is never further ahead of the   *)
(* row than that (`last_persist` in `tick`).                                 *)
UnsavedIsBounded ==
  fails = 0 => \A k \in Playing :
    tracked[k].watched < rows[tracked[k].row].duration + PersistEvery

(* Between ticks, while nothing has failed, the three pictures of what is on *)
(* agree: the rows flagged active, the collector's map and what the          *)
(* dashboard shows.  Nothing is left active with nobody following it.        *)
PicturesAgree ==
  (pc = "idle" /\ fails = 0) =>
    /\ live = Playing
    /\ {i \in Ids : rows[i] # NoRow /\ rows[i].active} = {tracked[k].row : k \in Playing}

(* A finished play that comes back within the merge window is one viewing,   *)
(* never a second row ("Same person, same item, same device, moments later:  *)
(* that's one viewing" in `tick`).  PersistEvery of slack for what a crash   *)
(* may not have saved.                                                       *)
SecondRow(i, j) ==
  /\ rows[j] = NoRow
  /\ rows'[j] # NoRow
  /\ rows[i] # NoRow
  /\ ~rows[i].active
  /\ rows[i].view = rows'[j].view
  /\ seenAt[i] + Merge >= now + PersistEvery

OneViewing == [][\A i, j \in Ids : ~SecondRow(i, j)]_vars

(* While no write has failed, a play thrown away as an accidental click is   *)
(* one nobody was told the end of, now or by a notification still on its way *)
(* (MIN_KEEP_S is asked twice in `tick`, and once more by the next process). *)
ThrownAway(i) == rows[i] # NoRow /\ rows[i].active /\ rows'[i] = NoRow

ThrownAwayUntold ==
  [][fails = 0 =>
       \A i \in Ids : ThrownAway(i) =>
         ~\E e \in told' \cup spawned' : /\ e.kind = "stop"
                                         /\ e.row = i
                                         /\ e.started = rows[i].started]_vars

(* Whatever begins is announced: a notification that is dropped as already   *)
(* known is one that was already written about this very viewing ("somebody  *)
(* has started watching something", `tick`; `raise_in`).                     *)
NoticesAreNotLost == [][\A e \in spawned : e \in spawned' \/ e \in told' \/ pc' = "down"]_vars

(* The time on the books is neither invented nor lost.                       *)
TimeIsHonest == NeverLongerThanItLasted /\ UnsavedIsBounded

(* The playback table keeps every promise of PlayLedger.                     *)
Ledger == INSTANCE PlayLedger
LedgerSpec == Ledger!Spec

-----------------------------------------------------------------------------
(* The inductive invariant behind the state properties.                      *)

(* What is finished is worth keeping, and nobody follows a play while the    *)
(* process is down.                                                          *)
FinishedIsKept ==
  \A i \in Ids : (rows[i] # NoRow /\ ~rows[i].active) => rows[i].duration >= MinKeep

DownIsEmpty == pc = "down" => Playing = {} /\ live = {}

Core ==
  /\ TypeOK
  /\ PlaysOwnTheirRows
  /\ NeverLongerThanItLasted
  /\ FinishedIsKept
  /\ DownIsEmpty

(* How far memory is ahead of the row is at most the time since the save     *)
(* clock was set, and that is less than PersistEvery.                        *)
SaveClock ==
  \A k \in Playing : LET p == tracked[k] IN
    /\ p.lastPersist <= p.lastTick
    /\ fails = 0 => /\ p.lastTick < p.lastPersist + PersistEvery
                    /\ p.watched + p.lastPersist <= rows[p.row].duration + p.lastTick

(* While nothing has failed, an active row is one the collector follows.     *)
ActiveIsFollowed ==
  (fails = 0 /\ pc # "down") =>
    \A i \in Ids : (rows[i] # NoRow /\ rows[i].active) => \E k \in Playing : tracked[k].row = i

LiveIsTracked == (fails = 0 /\ pc = "idle") => live = Playing

IInv == Core /\ SaveClock /\ ActiveIsFollowed /\ LiveIsTracked

(* While no write has failed, the end of a viewing is only ever told of one  *)
(* the table keeps, and of one that is over before the next can begin.       *)
EndsAreKept ==
  fails = 0 =>
    \A e \in told \cup spawned : e.kind = "stop" =>
      /\ e.started + MinKeep <= now
      /\ (rows[e.row] # NoRow /\ rows[e.row].started = e.started)
           => rows[e.row].duration >= MinKeep

(* Until a process is killed, a finished row ends when its viewing was last  *)
(* in a list, whatever writes have failed.                                   *)
EndIsLastSeen ==
  crashes = 0 =>
    /\ pc = "down" => \A i \in Ids : rows[i] = NoRow
    /\ \A k \in Playing : seenAt[tracked[k].row] = tracked[k].lastTick
    /\ \A i \in Ids : (rows[i] # NoRow /\ ~rows[i].active) => seenAt[i] = rows[i].ended
=============================================================================
