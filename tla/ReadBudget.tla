----------------------------- MODULE ReadBudget -----------------------------
(***************************************************************************)
(* The one gate every read of /Sessions passes through, and the clocks that *)
(* say when the collector's one-shot read (the net) falls due.             *)
(*                                                                         *)
(* Two tasks ask: the collector's loop, for a poll or for the net, and the *)
(* socket, for its consistency check.  Each takes the time first and the   *)
(* lock after, so a caller can be let in with an older time than the one   *)
(* before it: MaxSkew is how long it may have stood in between.            *)
(*                                                                         *)
(* Which mode the loop is in is not decided here: it may poll at any time  *)
(* (a wake cuts every beat short), and use the net whenever that is due.   *)
(*                                                                         *)
(* A definition whose name ends in _slip is the one below it with a        *)
(* mistake in it.  No action uses it: it is there to see that the          *)
(* properties notice.                                                      *)
(***************************************************************************)
EXTENDS Naturals, FiniteSets

CONSTANTS
  PerSecond, PerMinute,  \* READS_PER_S, READS_PER_MIN
  Second, Minute,        \* A_SECOND, A_MINUTE
  Every, Silence,        \* SAFETY_EVERY, PAUSED_SAFETY_SILENCE
  MinGap,                \* SAFETY_MIN_GAP
  MaxTries,              \* what `sessions_waiting` makes of a full gate
  Nothing,
  (* the bounds of the model *)
  MaxSkew, Horizon

ASSUME LimitsAssumption ==
  /\ PerSecond \in Nat \ {0} /\ PerMinute \in Nat \ {0}
  /\ Second \in Nat \ {0} /\ Minute \in Nat /\ Second <= Minute
  /\ Every \in Nat /\ Silence \in Nat /\ MinGap \in Nat
  /\ MaxTries \in Nat \ {0}

ASSUME SkewAssumption ==
  /\ MaxSkew \in Nat /\ MaxSkew + Second <= Minute
  /\ Horizon \in Nat

VARIABLES
  now,
  asked,     \* what each task has come to the gate with, if it has
  until,     \* each task is asleep until then
  tries,     \* how many of its tries the check has used up
  alone,     \* history: how often in a row each was refused, nobody reading
  at,        \* the reads the gate still remembers
  made,      \* history: every read there was
  count,     \* history: how many
  activity,  \* Net.activity
  read,      \* Net.read
  subscribed \* Pass.subscribed

gate == <<at, made, count>>
net  == <<activity, read, subscribed>>
vars == <<now, asked, until, tries, alone, gate, net>>

Callers == {"loop", "socket"}
Kinds   == {"poll", "safety", "socket_check"}

Read == [n : Nat, at : Nat, listening : BOOLEAN]
Ask  == [at : Nat, kind : Kinds]

ASSUME NothingAssumption == Nothing \notin Ask

TypeOK ==
  /\ now \in Nat
  /\ asked \in [Callers -> Ask \cup {Nothing}]
  /\ until \in [Callers -> Nat]
  /\ tries \in 0..MaxTries
  /\ alone \in [Callers -> Nat]
  /\ at \subseteq made
  /\ made \subseteq Read /\ IsFiniteSet(made)
  /\ count \in Nat
  /\ activity \in Nat
  /\ read \in Nat
  /\ subscribed \in BOOLEAN

Init ==
  /\ now = 0
  /\ asked = [c \in Callers |-> Nothing]
  /\ until = [c \in Callers |-> 0]
  /\ tries = 0
  /\ alone = [c \in Callers |-> 0]
  /\ at = {} /\ made = {} /\ count = 0
  /\ activity = 0 /\ read = 0
  /\ subscribed = FALSE

-----------------------------------------------------------------------------
(* The gate *)

(* saturating_duration_since and saturating_sub. *)
Since(t, from) == IF from <= t THEN t - from ELSE 0

Least(a, b) == IF a < b THEN a ELSE b
Most(a, b)  == IF a < b THEN b ELSE a

Pruned(t) == {e \in at : Since(t, e.at) < Minute}

Within(t, window) == {e \in Pruned(t) : Since(t, e.at) < window}

Full_slip(t, window, limit) == Cardinality(Within(t, window)) > limit

Full(t, window, limit) == Cardinality(Within(t, window)) >= limit

(* Once e has left the window only limit - 1 of the reads in it remain. *)
FreesRoom(e, t, window, limit) ==
  /\ e \in Within(t, window)
  /\ Cardinality({f \in Within(t, window) : f.at >= e.at}) >= limit
  /\ Cardinality({f \in Within(t, window) : f.at > e.at}) < limit

Refuses(t) == Full(t, Second, PerSecond) \/ Full(t, Minute, PerMinute)

FreeIn_slip(t, window, limit) == {1}   \* soon

(* How long until there is room again. *)
FreeIn(t, window, limit) ==
  {Since(e.at + window, t) + 1 : e \in {f \in at : FreesRoom(f, t, window, limit)}}

(* What a caller who took the time at t is told: the second is asked about  *)
(* first.                                                                   *)
HowLong(t) ==
  IF Full(t, Second, PerSecond) THEN FreeIn(t, Second, PerSecond)
                                ELSE FreeIn(t, Minute, PerMinute)

-----------------------------------------------------------------------------
(* The clocks of the net *)

SafetyDue(active, sinceActivity, sinceRead) ==
  LET plain == Since(Every, sinceRead)
      due   == IF active THEN Least(plain, Since(Silence, sinceActivity)) ELSE plain
  IN  Most(due, Since(MinGap, sinceRead))

Due(active) == SafetyDue(active, Since(now, activity), Since(now, read))

(* A read re-arms both clocks, and a pushed list or a fresh subscription one. *)
Rearm == activity' = now /\ read' = now
Hear  == activity' = now /\ read' = read

Pushed ==
  /\ Hear
  /\ UNCHANGED <<now, asked, until, tries, alone, gate, subscribed>>

Subscription(on) ==
  /\ on # subscribed
  /\ subscribed' = on
  /\ IF on THEN Hear ELSE UNCHANGED <<activity, read>>
  /\ UNCHANGED <<now, asked, until, tries, alone, gate>>

-----------------------------------------------------------------------------
(* A read: the time is taken, and then the lock. *)

Come(c, kind) ==
  /\ asked[c] = Nothing
  /\ until[c] <= now
  /\ asked' = [asked EXCEPT ![c] = [at |-> now, kind |-> kind]]
  /\ UNCHANGED <<now, until, tries, alone, gate, subscribed>>

(* `take_read`: the attempt re-arms, whatever the gate answers. *)
AskPoll   == Come("loop", "poll") /\ Rearm
AskSafety == /\ \E active \in BOOLEAN : Due(active) = 0
             /\ Come("loop", "safety")
             /\ Rearm
AskCheck  == /\ tries < MaxTries
             /\ Come("socket", "socket_check")
             /\ UNCHANGED <<activity, read>>

Take(c) ==
  /\ asked[c] # Nothing
  /\ asked' = [asked EXCEPT ![c] = Nothing]
  /\ UNCHANGED <<now, net>>

Entry(c) == [n |-> count, at |-> asked[c].at, listening |-> asked[c].kind = "safety"]

Granted(c) ==
  /\ Take(c)
  /\ ~Refuses(asked[c].at)
  /\ at' = Pruned(asked[c].at) \cup {Entry(c)}
  /\ made' = made \cup {Entry(c)}
  /\ count' = count + 1
  /\ tries' = IF c = "socket" THEN 0 ELSE tries
  /\ alone' = [d \in Callers |-> 0]
  /\ UNCHANGED until

(* The loop and the check wait out the gate; the net is simply not read. *)
Sleep(c) ==
  /\ \E wait \in HowLong(asked[c].at) : until' = [until EXCEPT ![c] = now + wait]
  /\ alone' = [alone EXCEPT ![c] = @ + 1]

Refused(c) ==
  /\ Take(c)
  /\ Refuses(asked[c].at)
  /\ at' = Pruned(asked[c].at)
  /\ IF asked[c].kind = "safety" THEN UNCHANGED <<until, alone>> ELSE Sleep(c)
  /\ tries' = IF c = "socket" THEN tries + 1 ELSE tries
  /\ UNCHANGED <<made, count>>

(* The last sleep over, the check gives up and takes its connection with it. *)
GiveUp ==
  /\ tries = MaxTries
  /\ until["socket"] <= now
  /\ tries' = 0
  /\ UNCHANGED <<now, asked, until, alone, gate, net>>

Wait ==
  /\ now < Horizon
  /\ \A c \in Callers : asked[c] # Nothing => now < asked[c].at + MaxSkew
  /\ now' = now + 1
  /\ UNCHANGED <<asked, until, tries, alone, gate, net>>

Next ==
  \/ Pushed
  \/ \E on \in BOOLEAN : Subscription(on)
  \/ AskPoll
  \/ AskSafety
  \/ AskCheck
  \/ \E c \in Callers : Granted(c) \/ Refused(c)
  \/ GiveUp
  \/ Wait

Spec == Init /\ [][Next]_vars

-----------------------------------------------------------------------------
(* Properties *)

Window(t, length) == {e \in made : t <= e.at /\ e.at < t + length}

(* At most PerSecond reads in any second, from every caller there is, in     *)
(* whatever order they come to the lock ("At most this many /Sessions reads  *)
(* in any one second", READS_PER_S).                                         *)
SecondLimit ==
  \A e \in made : Cardinality(Window(e.at, Second)) <= PerSecond

(* At most PerMinute in a minute (READS_PER_MIN), short of the time a caller *)
(* can stand at the lock: a later one that overtakes it forgets reads that   *)
(* still count for the earlier.                                              *)
MinuteLimit ==
  \A e \in made : Cardinality(Window(e.at, Minute - MaxSkew)) <= PerMinute

(* What is read while listening is never a storm: two such reads are as far  *)
(* apart as the net's two clocks say, pushes, subscriptions, refusals and    *)
(* changes of mode notwithstanding ("there is no way to read without         *)
(* re-arming", `take_read`).                                                 *)
Apart == Most(Least(Silence, Every), MinGap)

ListeningIsQuiet ==
  \A e, f \in made : (e.listening /\ f.listening /\ e # f) =>
    e.at + Apart <= f.at \/ f.at + Apart <= e.at

(* All three: however it is asked for, Jellyfin is never asked too often.    *)
ReadsArePaced == SecondLimit /\ MinuteLimit /\ ListeningIsQuiet

(* A caller that waits as long as it was told finds room, unless somebody    *)
(* else read in the meantime: it is refused once for the second and once for *)
(* the minute, so the MaxTries of `sessions_waiting` are enough (`free_in`). *)
WaitingIsEnough == \A c \in Callers : alone[c] <= 2

-----------------------------------------------------------------------------
(* The inductive invariant *)

(* Entries are numbered, and nobody comes from the future or from too far    *)
(* in the past.                                                              *)
Numbered == \A e \in made : e.n < count /\ e.at <= now

TriesLeft == asked["socket"] # Nothing => tries < MaxTries

SkewBound ==
  \A c \in Callers : asked[c] # Nothing =>
    asked[c].at <= now /\ now <= asked[c].at + MaxSkew

(* What the gate has forgotten is too old to matter to anyone.               *)
Forgotten == \A e \in made \ at : e.at + Minute <= now

(* The clocks of the net are never behind a read it was asked for.           *)
ClocksInOrder ==
  /\ read <= activity /\ activity <= now
  /\ \A e \in made : e.listening => e.at <= read
  /\ asked["loop"] # Nothing => asked["loop"].at = read
  /\ asked["socket"] # Nothing => asked["socket"].kind = "socket_check"

NetIsNext ==
  (asked["loop"] # Nothing /\ asked["loop"].kind = "safety") =>
    \A e \in made : e.listening => e.at + Apart <= asked["loop"].at

IInv ==
  /\ TypeOK /\ SecondLimit /\ MinuteLimit /\ ListeningIsQuiet
  /\ Numbered /\ TriesLeft /\ SkewBound /\ Forgotten /\ ClocksInOrder /\ NetIsNext
=============================================================================
