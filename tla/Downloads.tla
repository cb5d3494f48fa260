----------------------------- MODULE Downloads ------------------------------
(***************************************************************************)
(* What is arriving right now: the queues of Sonarr and Radarr, read by a  *)
(* loop of its own, often while somebody looks at them and rarely while    *)
(* nobody does, and kept in memory only.                                   *)
(*                                                                         *)
(* The loop sleeps until its time is up or somebody wakes it; a wake that  *)
(* finds it awake is lost.  Each service answers at its own moment, or not *)
(* in time.  How fast something comes is worked out from two readings.     *)
(*                                                                         *)
(* A download is what one service waits for under one id, and has a record *)
(* for each of its parts; one without an id is known by its parts.  Left   *)
(* out: names, what a client says of its errors, who wished for what, and  *)
(* the wake after a pass over Seerr.                                       *)
(*                                                                         *)
(* `KeyOf_slip` is `KeyOf` with a mistake in it; no action uses it.        *)
(***************************************************************************)
EXTENDS Integers, FiniteSets, FiniteSetsExt, Sequences

CONSTANTS
  Instances,            \* connections to a Sonarr or a Radarr
  Awaits,               \* what each of them may wait for
  PartsOf,              \* the parts of each, every one a season
  HasId,                \* those that have a download id
  Sizes,
  WATCHED_EVERY_S, IDLE_EVERY_S, EMPTY_EVERY_S, WATCHING_FOR_S,
  PER_SERVICE_TIMEOUT,
  Nearest, Furthest,    \* two readings a speed is worked out from
  NoAnswer, NotThere,
  MaxMoment, MaxDoings  \* bounds

VARIABLES
  moment,
  arrs,      \* the enabled ones in memory
  queue,     \* of each service
  downloads, \* the snapshot, and the services that were asked for it
  seen,      \* what was left of each row, and when
  loop,
  downloads_watched,
  (* what has happened *)
  arrived, claimed, \* of each download: what came, and what the speeds said
  swapped,          \* downloads in whose place one may have come that is smaller than what was left
  missed,           \* who woke a loop that was not asleep
  doings

downloadsVars == <<moment, arrs, queue, downloads, seen, loop, downloads_watched,
                   arrived, claimed, swapped, missed, doings>>

STATES == <<"failed", "importing", "downloading", "stalled", "queued">>
Rank(state) == CHOOSE i \in DOMAIN STATES : STATES[i] = state

Held == UNION {{s} \X Awaits[s] : s \in Instances}
Loads(d) == [size : Sizes, left : 0..Max(Sizes), state : [PartsOf[d] -> Range(STATES)]]
Queues(s) == {q \in [Awaits[s] -> {NotThere} \cup UNION {Loads(d) : d \in Awaits[s]}] :
                \A d \in Awaits[s] : q[d] = NotThere \/ q[d] \in Loads(d)}

(* What has no id is waited for part by part. *)
ASSUME DownloadsAssumption ==
  /\ IsFiniteSet(Instances) /\ \A s \in Instances : IsFiniteSet(Awaits[s]) /\ NoAnswer \notin Queues(s)
  /\ \A h \in Held : LET parts == PartsOf[h[2]] IN
       /\ IsFiniteSet(parts) /\ parts # {}
       /\ h[2] \notin HasId => \A p, q \in parts : p = q
       /\ NotThere \notin Loads(h[2])
  /\ Sizes \subseteq Nat /\ Sizes # {} /\ IsFiniteSet(Sizes)
  /\ {WATCHED_EVERY_S, IDLE_EVERY_S, EMPTY_EVERY_S, WATCHING_FOR_S} \subseteq Nat
  /\ Nearest \in Nat \ {0} /\ Furthest \in Nat /\ MaxMoment \in Nat /\ MaxDoings \in Nat

DownloadsTypeOK ==
  /\ moment \in 0..MaxMoment
  /\ arrs \subseteq Instances
  /\ \A h \in Held : LET load == queue[h[1]][h[2]] IN load # NotThere => load \in Loads(h[2])
  /\ downloads.asked \subseteq Instances /\ downloads.at \in 0..MaxMoment
  /\ \A r \in downloads.rows : /\ r.left \in 0..Max(Sizes) /\ r.down_bps \in 0..Max(Sizes)
                               /\ r.parts \in 1..Cardinality(PartsOf[r.of[2]])
  /\ loop.pc \in {"top", "asks", "reads", "decides", "decided", "sleeps"}
  /\ missed \subseteq {"page", "source"}
  /\ doings \in 0..MaxDoings

DownloadsInit ==
  /\ moment = 0 /\ arrs \in SUBSET Instances
  /\ queue = [s \in Instances |-> [d \in Awaits[s] |-> NotThere]]
  /\ downloads = [rows |-> {}, at |-> 0, asked |-> {}]
  /\ seen = {}
  /\ loop = [pc |-> "top"]
  /\ downloads_watched = -1 - WATCHING_FOR_S
  /\ arrived = [h \in Held |-> 0] /\ claimed = [h \in Held |-> 0]
  /\ swapped = {} /\ missed = {} /\ doings = 0

-----------------------------------------------------------------------------
(* What Sonarr and Radarr do *)

Doing == doings < MaxDoings /\ doings' = doings + 1

Becomes(s, d, load) ==
  /\ Doing
  /\ queue' = [queue EXCEPT ![s][d] = load]
  /\ UNCHANGED <<moment, arrs, downloads, seen, loop, downloads_watched, claimed, missed>>

Grabbed(s, d) ==
  /\ queue[s][d] = NotThere
  /\ \E n \in Sizes : Becomes(s, d, [size |-> n, left |-> n, state |-> [p \in PartsOf[d] |-> "downloading"]])
  /\ UNCHANGED <<arrived, swapped>>

Comes(s, d) ==
  /\ queue[s][d] # NotThere
  /\ \E n \in 1..queue[s][d].left :
       /\ Becomes(s, d, [queue[s][d] EXCEPT !.left = @ - n])
       /\ arrived' = [arrived EXCEPT ![<<s, d>>] = @ + n]
  /\ UNCHANGED swapped

(* "An upgrade replacing a download keeps the id but starts again." *)
Replaced(s, d) ==
  /\ queue[s][d] # NotThere
  /\ \E n \in Sizes :
       /\ Becomes(s, d, [queue[s][d] EXCEPT !.size = n, !.left = n])
       /\ swapped' = IF n < queue[s][d].left THEN swapped \cup {<<s, d>>} ELSE swapped
  /\ UNCHANGED arrived

PartTurns(s, d) ==
  /\ queue[s][d] # NotThere
  /\ \E p \in PartsOf[d], state \in {"importing", "failed"} :
       queue[s][d].state[p] # state /\ Becomes(s, d, [queue[s][d] EXCEPT !.state[p] = state])
  /\ UNCHANGED <<arrived, swapped>>

(* Another release may come under the same name. *)
Gone(s, d) ==
  /\ queue[s][d] # NotThere
  /\ Becomes(s, d, NotThere)
  /\ swapped' = IF \E n \in Sizes : n < queue[s][d].left THEN swapped \cup {<<s, d>>} ELSE swapped
  /\ UNCHANGED arrived

-----------------------------------------------------------------------------
(* Who wakes the loop *)

(* `notify_waiters` wakes whoever waits, and nobody else. *)
Wake(by, lostAt) ==
  IF loop.pc = "sleeps" THEN loop' = [pc |-> "top"] /\ missed' = {}
  ELSE loop' = loop /\ missed' = IF loop.pc \in lostAt THEN missed \cup {by} ELSE missed

(* "A page still counts as being watched this long after it last asked." *)
Watching(now, watched) == now - watched <= WATCHING_FOR_S

(* The page asks again and again, and wakes the loop when it has just been  *)
(* opened.                                                                 *)
AsksLive ==
  /\ Doing
  /\ downloads_watched' = moment
  /\ IF moment - downloads_watched > WATCHING_FOR_S THEN Wake("page", {"decided"}) ELSE UNCHANGED <<loop, missed>>
  /\ UNCHANGED <<moment, arrs, queue, downloads, seen, arrived, claimed, swapped>>

(* `services::changed` *)
Switched(s) ==
  /\ Doing
  /\ arrs' = IF s \in arrs THEN arrs \ {s} ELSE arrs \cup {s}
  /\ Wake("source", {"reads", "decides", "decided"})
  /\ UNCHANGED <<moment, queue, downloads, seen, downloads_watched, arrived, claimed, swapped>>

-----------------------------------------------------------------------------
(* One row for each download *)

Parts(s, answer) == UNION {{s} \X {d} \X PartsOf[d] : d \in {e \in Awaits[s] : answer[e] # NotThere}}

KeyOf_slip(x) == x

(* Without an id a part stands for itself. *)
KeyOf(x) == IF x[2] \in HasId THEN <<x[1], x[2]>> ELSE x

(* A pack is in the state of its part that needs somebody most. *)
DownloadOf(records, key, answers) ==
  LET own == {x \in records : KeyOf(x) = key}
      load == answers[key[1]][key[2]]
  IN  [key |-> key, of |-> <<key[1], key[2]>>, parts |-> Cardinality(own), seasons |-> {x[3] : x \in own},
       size |-> load.size, left |-> load.left, down_bps |-> 0,
       state |-> STATES[Min({Rank(load.state[x[3]]) : x \in own})]]

fold(answers) ==
  LET records == UNION {Parts(s, answers[s]) : s \in {t \in DOMAIN answers : answers[t] # NoAnswer}}
  IN  {DownloadOf(records, key, answers) : key \in {KeyOf(x) : x \in records}}

speeds(rows, before, now) ==
  {LET known == {b \in before : b.key = r.key}
       b == CHOOSE x \in known : TRUE
       moved == b.left - r.left
       seconds == now - b.at
   IN  IF known # {} /\ seconds \in Nearest..Furthest /\ moved > 0 /\ moved <= Max({r.size, b.left})
       THEN [r EXCEPT !.down_bps = moved \div seconds] ELSE r : r \in rows}

SumOf(f, S) ==
  LET sum[R \in SUBSET S] ==
        IF R = {} THEN 0 ELSE LET x == CHOOSE y \in R : TRUE IN f[x] + sum[R \ {x}]
  IN  sum[S]

(* The figures above the list. *)
Totals(rows) ==
  LET In(states) == Cardinality({r \in rows : r.state \in states})
  IN  [downloading |-> In({"downloading", "stalled"}), queued |-> In({"queued"}),
       importing |-> In({"importing"}), failed |-> In({"failed"})]

-----------------------------------------------------------------------------
(* `run` and `tick` *)

External == <<moment, arrs, queue, downloads_watched, arrived, swapped, doings>>

(* Nothing to read: nothing is asked, and what was read stays. *)
LoopBegins ==
  /\ loop.pc = "top"
  /\ loop' = IF arrs = {} THEN [pc |-> "decides", anything |-> FALSE] ELSE [pc |-> "asks"]
  /\ UNCHANGED <<downloads, seen, claimed, missed, External>>

TickBegins ==
  /\ loop.pc = "asks"
  /\ IF arrs = {}
     THEN /\ downloads' = [rows |-> {}, at |-> moment, asked |-> {}] /\ seen' = {}
          /\ loop' = [pc |-> "decides", anything |-> TRUE]
     ELSE /\ loop' = [pc |-> "reads", since |-> moment, answers |-> <<>>, asked |-> arrs]
          /\ UNCHANGED <<downloads, seen>>
  /\ missed' = missed \ {"source"}
  /\ UNCHANGED <<claimed, External>>

read_queue(s) ==
  /\ loop.pc = "reads" /\ s \in loop.asked \ DOMAIN loop.answers
  /\ \E answer \in {queue[s], NoAnswer} :
       loop' = [loop EXCEPT !.answers = [t \in DOMAIN @ \cup {s} |-> IF t = s THEN answer ELSE @[t]]]
  /\ UNCHANGED <<downloads, seen, claimed, missed, External>>

TickEnds ==
  /\ loop.pc = "reads" /\ DOMAIN loop.answers = loop.asked
  /\ LET rows == speeds(fold(loop.answers), seen, moment)
         At(key) == (CHOOSE b \in seen : b.key = key).at
         came == [r \in rows |-> IF r.down_bps > 0 THEN r.down_bps * (moment - At(r.key)) ELSE 0]
         Said(h) == SumOf(came, {r \in rows : r.of = h})
     IN  /\ downloads' = [rows |-> rows, at |-> moment, asked |-> loop.asked]
         /\ seen' = {[key |-> r.key, left |-> r.left, at |-> moment] : r \in rows}
         /\ claimed' = [h \in Held |-> claimed[h] + Said(h)]
  /\ loop' = [pc |-> "decides", anything |-> TRUE]
  /\ UNCHANGED <<missed, External>>

wait_s(watching, connected, queued) ==
  IF ~connected THEN IDLE_EVERY_S
  ELSE IF watching THEN WATCHED_EVERY_S
  ELSE IF queued THEN IDLE_EVERY_S ELSE EMPTY_EVERY_S

(* Whoever opens the page from here on is not heard until it sleeps. *)
Decides ==
  /\ loop.pc = "decides"
  /\ loop' = [pc |-> "decided",
              wait |-> wait_s(Watching(moment, downloads_watched), loop.anything, downloads.rows # {})]
  /\ UNCHANGED <<downloads, seen, claimed, missed, External>>

Sleeps ==
  /\ loop.pc = "decided"
  /\ loop' = [pc |-> "sleeps", due |-> moment + loop.wait]
  /\ UNCHANGED <<downloads, seen, claimed, missed, External>>

TimeIsUp ==
  /\ loop.pc = "sleeps" /\ loop.due <= moment
  /\ loop' = [pc |-> "top"] /\ missed' = {}
  /\ UNCHANGED <<downloads, seen, claimed, External>>

(* Time goes on while the loop sleeps or waits for an answer. *)
TimePasses ==
  /\ moment < MaxMoment
  /\ \/ loop.pc = "sleeps" /\ moment < loop.due
     \/ /\ loop.pc = "reads" /\ DOMAIN loop.answers # loop.asked
        /\ moment < loop.since + PER_SERVICE_TIMEOUT
  /\ moment' = moment + 1
  /\ UNCHANGED <<arrs, queue, downloads, seen, loop, downloads_watched, arrived, claimed, swapped, missed, doings>>

DownloadsNext ==
  \/ \E s \in Instances : \E d \in Awaits[s] :
       Grabbed(s, d) \/ Comes(s, d) \/ Replaced(s, d) \/ PartTurns(s, d) \/ Gone(s, d)
  \/ AsksLive \/ \E s \in Instances : Switched(s) \/ read_queue(s)
  \/ LoopBegins \/ TickBegins \/ TickEnds \/ Decides \/ Sleeps \/ TimeIsUp \/ TimePasses

DownloadsSpec == DownloadsInit /\ [][DownloadsNext]_downloadsVars
-----------------------------------------------------------------------------
(* Properties *)

(* While somebody looks, the loop never sleeps for longer than            *)
(* WATCHED_EVERY_S, whoever opens the page at whatever moment, unless they *)
(* opened it between the loop's last look and its lying down.              *)
PageIsFresh ==
  loop.pc = "sleeps" /\ Watching(moment, downloads_watched) /\ missed = {} /\ arrs # {}
    => loop.due - moment <= WATCHED_EVERY_S

(* What is shown is of the services that are connected, and all of them    *)
(* have been asked, unless one was switched while the loop was busy; when  *)
(* none is left, what was read last stays.                                 *)
SourcesAreAsked ==
  loop.pc = "sleeps" /\ "source" \notin missed /\ arrs # {}
    => downloads.asked = arrs /\ {r.of[1] : r \in downloads.rows} \subseteq arrs

(* "Nothing is invented": all speeds together never say that more came     *)
(* than did, however answers fail and downloads start again; except where  *)
(* a smaller release takes the place of one of which more was left.        *)
NothingIsInvented == \A h \in Held : h \in swapped \/ claimed[h] <= arrived[h]

(* Every part of a download is in one row, and every row in one figure.    *)
EveryPartOnce ==
  LET rows == downloads.rows
      t == Totals(rows)
  IN  /\ \A r, q \in rows : r.of = q.of /\ r.seasons \cap q.seasons # {} => r = q
      /\ t.downloading + t.queued + t.importing + t.failed = Cardinality(rows)

(* All of it. *)
QueueIsTrue == PageIsFresh /\ SourcesAreAsked /\ NothingIsInvented /\ EveryPartOnce
=============================================================================
