----------------------------- MODULE Transport ------------------------------
(***************************************************************************)
(* How the collector learns what is playing: the loop in `run`, the socket *)
(* task it owns, and the Jellyfin they both talk to.                       *)
(*                                                                         *)
(* The socket task pushes what it hears into a bounded channel; the loop   *)
(* takes from that channel in two places, while it listens and while it    *)
(* sleeps between two polls, and reads /Sessions for itself the rest of    *)
(* the time.  Every list it gets, pushed or asked for, decides which of    *)
(* the two carries next and whether Jellyfin is asked to push at all.      *)
(*                                                                         *)
(* How long things take is left open: a timer may fire whenever it is set. *)
(* The clocks of the net and the gate in front of every read are in        *)
(* ReadBudget, what becomes of a list is in Plays.  A list is what it says *)
(* (nothing loaded, all of it paused, something running) and its version.  *)
(*                                                                         *)
(* A definition whose name ends in _slip is the one below it with a        *)
(* mistake in it.  No action uses it: it is there to see that the          *)
(* properties notice.                                                      *)
(***************************************************************************)
EXTENDS Naturals, Sequences

CONSTANTS
  Debounce,    \* PAUSE_DEBOUNCE
  DownAfter,   \* JELLYFIN_DOWN_AFTER
  Queue,       \* QUEUE
  Prompt,      \* a new connection finds room in the channel for its first word
  Nothing,
  (* the bounds of the model *)
  MaxChanges,  \* how often what is playing changes
  Budgets,     \* how often that, and each thing that can go wrong, in one behaviour
  MaxFrames    \* frames under way on the connection

ASSUME TransportAssumption ==
  /\ Debounce \in Nat \ {0} /\ DownAfter \in Nat \ {0} /\ Queue \in Nat \ {0}
  /\ Prompt \in BOOLEAN
  /\ MaxChanges \in Nat /\ MaxFrames \in Nat \ {0}
  /\ Budgets \subseteq [changes : 0..MaxChanges, drops : Nat, lost : Nat, outages : Nat]

VARIABLES
  (* Jellyfin *)
  up,        \* /Sessions answers
  now,       \* the list as it is
  carries,   \* the connection works
  pushed,    \* the version this subscription was sent last
  frames,    \* lists under way to the socket
  left,      \* what else may go wrong, and change
  (* the socket task: `spawn` and `serve` *)
  phase, listening, checked, proven, unproven, heard, holding,
  (* between the two *)
  want, chan,
  (* the loop: `run` *)
  pc, src, got, onSocket, mode, live, pending, seen, paused, failures, told,
  inrow      \* history: how many reads of the list have failed in a row

server == <<up, now, carries, pushed, frames, left>>
socket == <<phase, listening, checked, proven, unproven, heard, holding>>
loop   == <<pc, src, got, onSocket, mode, live, pending, seen, paused, failures,
            told, inrow>>
vars   == <<server, socket, want, chan, loop>>

States == {"idle", "paused", "playing"}
List   == [state : States, ver : 0..MaxChanges]

(* What the socket tells the loop. *)
Events == {[kind |-> "snapshot", list |-> l] : l \in List}
          \cup {[kind |-> k, list |-> Nothing] : k \in {"trusted", "alive", "down"}}

ASSUME NothingAssumption == Nothing \notin List

(* The connections that die or do not pass the check, the pushes that go    *)
(* missing, the times /Sessions stops answering.                            *)
Budget == [changes : 0..MaxChanges, drops : Nat, lost : Nat, outages : Nat]

TypeOK ==
  /\ up \in BOOLEAN /\ carries \in BOOLEAN
  /\ now \in List /\ pushed \in Nat \cup {Nothing}
  /\ frames \in Seq(List) /\ Len(frames) <= MaxFrames
  /\ left \in Budget
  /\ phase \in {"off", "open", "checking", "telling"}
  /\ listening \in BOOLEAN /\ checked \in BOOLEAN /\ want \in BOOLEAN
  /\ proven \in BOOLEAN /\ unproven \in BOOLEAN /\ heard \in BOOLEAN
  /\ holding \in List \cup {Nothing}
  /\ chan \in Seq(Events) /\ Len(chan) <= Queue
  /\ pc \in {"top", "select", "asking", "apply", "failed", "sleep"}
  /\ src \in {"push", "safety", "poll"}
  /\ got \in List \cup {Nothing} /\ pending \in List \cup {Nothing}
  /\ onSocket \in BOOLEAN /\ live \in BOOLEAN /\ told \in BOOLEAN
  /\ mode \in {"poll", "listen"}
  /\ seen \in List
  /\ paused \in 0..Debounce
  /\ failures \in 0..(DownAfter + 1) /\ inrow \in 0..(DownAfter + 1)

Init ==
  /\ up = TRUE /\ carries = FALSE /\ pushed = Nothing /\ frames = <<>>
  /\ now \in {[state |-> s, ver |-> 0] : s \in States}
  /\ left \in Budgets
  /\ phase = "off" /\ holding = Nothing /\ want = TRUE /\ chan = <<>>
  /\ listening = FALSE /\ checked = FALSE
  /\ proven = FALSE /\ unproven = FALSE /\ heard = FALSE
  /\ pc = "top" /\ src = "poll" /\ got = Nothing /\ pending = Nothing
  /\ onSocket = FALSE /\ live = FALSE /\ told = FALSE
  /\ mode = "poll" /\ seen = [state |-> "idle", ver |-> 0]
  /\ paused = 0 /\ failures = 0 /\ inrow = 0

-----------------------------------------------------------------------------
(* Jellyfin, as far as src/ relies on it *)

Spend(b) == left[b] > 0 /\ left' = [left EXCEPT ![b] = @ - 1]

(* Somebody starts, pauses, resumes or stops. *)
Change ==
  /\ Spend("changes")
  /\ \E s \in States \ {now.state} : now' = [state |-> s, ver |-> now.ver + 1]
  /\ UNCHANGED <<up, carries, pushed, frames, socket, want, chan, loop>>

Outage ==
  /\ up /\ Spend("outages")
  /\ up' = FALSE
  /\ UNCHANGED <<now, carries, pushed, frames, socket, want, chan, loop>>

Recover ==
  /\ ~up
  /\ up' = TRUE
  /\ UNCHANGED <<now, carries, pushed, frames, left, socket, want, chan, loop>>

(* The connection stops working, whoever notices. *)
Drop ==
  /\ carries /\ Spend("drops")
  /\ carries' = FALSE
  /\ frames' = <<>>
  /\ UNCHANGED <<up, now, pushed, socket, want, chan, loop>>

(* A subscriber is sent the list when it is not the one it was sent last: a *)
(* position that moves is a change of its own.                              *)
MayPush == carries /\ listening /\ (pushed # now.ver \/ now.state = "playing")

Push ==
  /\ MayPush
  /\ Len(frames) < MaxFrames
  /\ frames' = Append(frames, now)
  /\ pushed' = now.ver
  /\ UNCHANGED <<up, now, carries, left, socket, want, chan, loop>>

LosePush ==
  /\ MayPush /\ Spend("lost")
  /\ pushed' = now.ver
  /\ UNCHANGED <<up, now, carries, frames, socket, want, chan, loop>>

-----------------------------------------------------------------------------
(* The socket task *)

Room == Len(chan) < Queue

(* Prompt is an assumption about time: it takes seconds to reconnect, and a  *)
(* pass that has an event waiting only as long as one read.  Dropped, the    *)
(* first word of a connection leaves the loop in its fallback until Jellyfin *)
(* has another list to send.                                                 *)
FirstWord == Prompt => Room

TrySend_slip(kind, list) == chan' = Append(chan, [kind |-> kind, list |-> list])

(* try_send: an event that finds the channel full is dropped. *)
TrySend(kind, list) ==
  chan' = IF Room THEN Append(chan, [kind |-> kind, list |-> list]) ELSE chan

(* SessionsStart is answered with the list as it is, or with nothing at all. *)
Subscribed == pushed' \in {Nothing, now.ver}

(* Subscribe whatever is wanted, then go quiet if silence is. *)
Connect ==
  /\ phase = "off" /\ up
  /\ phase' = "open" /\ carries' = TRUE
  /\ Subscribed
  /\ frames' \in IF want THEN {<<>>} ELSE {<<>>, <<now>>}
  /\ listening' = want
  /\ checked' = FALSE /\ proven' = FALSE /\ unproven' = FALSE /\ heard' = FALSE
  /\ UNCHANGED <<up, now, left, holding, want, chan, loop>>

ConnectFails ==
  /\ phase = "off" /\ ~up
  /\ phase' = "telling"
  /\ UNCHANGED <<server, listening, checked, proven, unproven, heard, holding, want,
                 chan, loop>>

(* A list that is good enough to hand on. *)
HandOn(list) ==
  /\ proven' = TRUE
  /\ unproven' = (unproven /\ proven)
  /\ TrySend("snapshot", list)

HearList ==
  /\ phase = "open" /\ frames # <<>>
  /\ heard' = TRUE
  /\ frames' = Tail(frames)
  /\ checked' = TRUE
  /\ IF checked
     THEN HandOn(Head(frames)) /\ UNCHANGED <<phase, holding>>
     ELSE /\ phase' = "checking" /\ holding' = Head(frames)
          /\ UNCHANGED <<proven, unproven, chan>>
  /\ UNCHANGED <<up, now, carries, pushed, left, listening, want, loop>>

(* The first list of a connection is compared with /Sessions. *)
CheckPasses ==
  /\ FirstWord
  /\ phase = "checking" /\ up
  /\ phase' = "open" /\ holding' = Nothing
  /\ HandOn(holding)
  /\ UNCHANGED <<server, listening, checked, heard, want, loop>>

CheckFails ==
  /\ phase = "checking"
  /\ IF up THEN Spend("drops") ELSE UNCHANGED left
  /\ phase' = "telling" /\ holding' = Nothing
  /\ carries' = FALSE /\ frames' = <<>>
  /\ UNCHANGED <<up, now, pushed, listening, checked, proven, unproven, heard, want,
                 chan, loop>>

(* KeepAlive is answered. *)
HearAlive ==
  /\ phase = "open" /\ carries
  /\ heard' = TRUE
  /\ IF proven THEN TrySend("alive", Nothing) ELSE UNCHANGED chan
  /\ UNCHANGED <<server, phase, listening, checked, proven, unproven, holding, want, loop>>

(* want.changed(): SessionsStart or SessionsStop. *)
Follow ==
  /\ phase = "open" /\ want # listening
  /\ listening' = want
  /\ IF want THEN Subscribed ELSE UNCHANGED pushed
  /\ UNCHANGED <<up, now, carries, frames, left, phase, checked, proven, unproven, heard,
                 holding, want, chan, loop>>

(* Subscribed, answering, and nothing pushed: believed, and said once. *)
Trust ==
  /\ FirstWord
  /\ phase = "open" /\ listening /\ ~proven /\ ~unproven /\ heard
  /\ unproven' = TRUE
  /\ TrySend("trusted", Nothing)
  /\ UNCHANGED <<server, phase, listening, checked, proven, heard, holding, want, loop>>

(* Still unproven: the subscription is asked for again. *)
Probe ==
  /\ phase = "open" /\ listening /\ ~proven /\ carries
  /\ Subscribed
  /\ UNCHANGED <<up, now, carries, frames, left, socket, want, chan, loop>>

(* A close, a failed write, or the watchdog's silence. *)
Break ==
  /\ phase = "open" /\ ~carries
  /\ phase' = "telling"
  /\ UNCHANGED <<server, listening, checked, proven, unproven, heard, holding, want, chan,
                 loop>>

(* Down is the one event that waits for room. *)
TellDown ==
  /\ phase = "telling" /\ Room
  /\ phase' = "off"
  /\ chan' = Append(chan, [kind |-> "down", list |-> Nothing])
  /\ UNCHANGED <<server, listening, checked, proven, unproven, heard, holding, want, loop>>

-----------------------------------------------------------------------------
(* The loop *)

(* should_subscribe: not while something runs, nor through the debounce. *)
Settling(count) == count \in 1..(Debounce - 1)
SubscribeLatch_slip(state, count) == mode = "listen"   \* only while it listens
SubscribeAlways_slip(state, count) == TRUE
Subscribe(state, count) == state # "playing" /\ ~Settling(count)

(* Counters stop where nothing in the code tells their values apart. *)
Upto(n, limit) == IF n < limit THEN n + 1 ELSE limit

(* Decide::see *)
Count(state, count) == IF state = "paused" THEN Upto(count, Debounce) ELSE 0

Sees(state, count, carrying) ==
  IF /\ carrying
     /\ \/ state = "idle"
        \/ state = "paused" /\ Count(state, count) >= Debounce
  THEN "listen" ELSE "poll"

(* session_mode *)
Word(carrying, m, state) ==
  IF ~carrying THEN "fallback"
  ELSE IF m = "poll" THEN "playing_poll"
  ELSE IF state = "idle" THEN "idle_socket" ELSE "paused_socket"

(* One pass begins: the subscription goes out, and the transport is picked. *)
Top ==
  /\ pc = "top"
  /\ want' = Subscribe(seen.state, paused)
  /\ onSocket' = (live /\ mode = "listen")
  /\ pending' = Nothing
  /\ \/ /\ onSocket' /\ pending # Nothing
        /\ pc' = "apply" /\ src' = "push" /\ got' = pending
     \/ /\ onSocket' /\ pending = Nothing
        /\ pc' = "select" /\ UNCHANGED <<src, got>>
     \/ /\ ~onSocket'
        /\ pc' = "asking" /\ src' = "poll" /\ UNCHANGED got
  /\ UNCHANGED <<server, socket, chan, mode, live, seen, paused, failures, told, inrow>>

(* A read is answered with the list as it is then, or not at all. *)
Answer ==
  /\ pc = "asking"
  /\ IF up THEN pc' = "apply" /\ got' = now ELSE pc' = "failed" /\ UNCHANGED got
  /\ UNCHANGED <<server, socket, want, chan, src, onSocket, mode, live, pending, seen,
                 paused, failures, told, inrow>>

Rest == pc' = IF onSocket THEN "top" ELSE "sleep"

(* A list: what it says is playing, and what that means for the transport. *)
Apply ==
  /\ pc = "apply"
  /\ seen' = got
  /\ paused' = Count(got.state, paused)
  /\ mode' = Sees(got.state, paused, live)
  /\ want' = IF Word(live, mode, seen.state) # Word(live, mode', got.state)
             THEN Subscribe(got.state, paused') ELSE want
  /\ failures' = IF src = "poll" THEN 0 ELSE failures
  /\ told' = FALSE
  /\ inrow' = IF src = "push" THEN inrow ELSE 0
  /\ got' = Nothing
  /\ Rest
  /\ UNCHANGED <<server, socket, chan, src, onSocket, live, pending>>

(* No list. *)
Fail ==
  /\ pc = "failed"
  /\ failures' = Upto(failures, DownAfter + 1)
  /\ inrow' = Upto(inrow, DownAfter + 1)
  /\ told' = (told \/ failures + 1 = DownAfter)
  /\ Rest
  /\ UNCHANGED <<server, socket, want, chan, src, got, onSocket, mode, live, pending, seen,
                 paused>>

(* The oldest event in the channel, and the state it leaves the loop in. *)
Recv(kind) ==
  /\ chan # <<>> /\ Head(chan).kind = kind
  /\ chan' = Tail(chan)
  /\ UNCHANGED <<server, socket, want, onSocket, mode, seen, paused, failures, told, inrow>>

Lost_slip == Recv("down") /\ UNCHANGED live
Lost == Recv("down") /\ live' = FALSE

ListenSnapshot ==
  /\ pc = "select" /\ Recv("snapshot")
  /\ pc' = "apply" /\ src' = "push" /\ got' = Head(chan).list
  /\ UNCHANGED <<live, pending>>

ListenOther ==
  /\ pc = "select"
  /\ \/ Lost
     \/ (Recv("trusted") \/ Recv("alive")) /\ UNCHANGED live
  /\ pc' = "top"
  /\ UNCHANGED <<src, got, pending>>

Safety_slip ==   \* only under what is paused
  /\ pc = "select" /\ seen.state = "paused"
  /\ pc' = "asking" /\ src' = "safety"
  /\ UNCHANGED <<server, socket, want, chan, got, onSocket, mode, live, pending, seen, paused,
                 failures, told, inrow>>

(* The net falls. *)
Safety ==
  /\ pc = "select"
  /\ pc' = "asking" /\ src' = "safety"
  /\ UNCHANGED <<server, socket, want, chan, got, onSocket, mode, live, pending, seen, paused,
                 failures, told, inrow>>

(* The settings were saved, or it is time to look at them, or the beat is over. *)
Wake ==
  /\ pc \in {"select", "sleep"}
  /\ pc' = "top"
  /\ UNCHANGED <<server, socket, want, chan, src, got, onSocket, mode, live, pending, seen,
                 paused, failures, told, inrow>>

SleepRecv ==
  /\ pc = "sleep"
  /\ \/ Recv("snapshot") /\ live' = TRUE /\ pending' = Head(chan).list
     \/ Recv("trusted") /\ live' = TRUE /\ UNCHANGED pending
     \/ Recv("alive") /\ UNCHANGED <<live, pending>>
     \/ Lost /\ UNCHANGED pending
  /\ pc' = "top"
  /\ UNCHANGED <<src, got>>

-----------------------------------------------------------------------------
Jellyfin == Change \/ Outage \/ Recover \/ Drop \/ Push \/ LosePush

Socket == \/ Connect \/ ConnectFails \/ HearList \/ CheckPasses \/ CheckFails
          \/ HearAlive \/ Follow \/ Trust \/ Probe \/ Break \/ TellDown

Loop == \/ Top \/ Answer \/ Apply \/ Fail \/ ListenSnapshot \/ ListenOther
        \/ Safety \/ Wake \/ SleepRecv

Next == Jellyfin \/ Socket \/ Loop

(* The loop and the socket are tasks the runtime keeps running, and every    *)
(* branch of a select that stays ready is taken.  The net's clock runs on    *)
(* through whatever else wakes the loop, and so do the socket's timers.      *)
Fairness ==
  /\ WF_vars(Top) /\ WF_vars(Answer) /\ WF_vars(Apply) /\ WF_vars(Fail)
  /\ WF_vars(Wake)
  /\ SF_vars(ListenSnapshot) /\ SF_vars(ListenOther) /\ SF_vars(SleepRecv)
  /\ SF_vars(Safety)
  /\ WF_vars(Connect) /\ WF_vars(HearList) /\ WF_vars(CheckPasses \/ CheckFails)
  /\ WF_vars(HearAlive) /\ WF_vars(Follow) /\ WF_vars(Trust) /\ WF_vars(Break)
  /\ WF_vars(TellDown) /\ WF_vars(Push)

Spec == Init /\ [][Next]_vars /\ Fairness

-----------------------------------------------------------------------------
(* Properties *)

(* The socket is believed only on the strength of the connection it has now: *)
(* with no Down still to be read, a live socket is an open one that has      *)
(* pushed a checked list or is trusted (`socket_live` in `run`; "it died     *)
(* can never be observed before the last snapshot that arrived before it",   *)
(* `Event`).                                                                 *)
DownIsComing == phase = "telling" \/ \E i \in DOMAIN chan : chan[i].kind = "down"

BelievedIsCarrying ==
  (live /\ ~DownIsComing) => phase \in {"open", "checking"} /\ (proven \/ unproven)

(* While the loop listens it has asked to be told, and what it saw last is   *)
(* nothing that has to be watched: listening and a subscription that is      *)
(* given up never go together (`should_subscribe`, `Decide::see`).           *)
ListeningIsAsking ==
  pc = "select" => want /\ seen.state # "playing" /\ ~Settling(paused)

(* Both: the loop relaxes only on a socket that carries what it asked for.   *)
ListeningIsSound == BelievedIsCarrying /\ ListeningIsAsking

(* A play is never missed for good: if /Sessions answers from some time on,  *)
(* what the loop saw last becomes and stays what is really so, whichever     *)
(* pushes were lost, dropped by a full channel or applied late               *)
(* (SAFETY_EVERY, `pending`).                                                *)
EventuallyTrue == <>[]up => <>[](seen.ver = now.ver)

(* The fallback never latches: once nothing runs any more the loop ends up   *)
(* listening, however the socket came and went and whatever the server says  *)
(* to a subscription ("the fallback latched for good", `run`).               *)
NeverLatched == <>[](up /\ now.state # "playing") => <>[](live /\ mode = "listen")

(* While something keeps running its pushes end: the same list never arrives *)
(* twice for good (`should_subscribe`, `Handle::listen`).                    *)
GoesQuiet == <>[](up /\ now.state = "playing") => <>[](phase = "open" => ~listening)

(* Jellyfin counts as down after DownAfter reads that failed in a row        *)
(* (JELLYFIN_DOWN_AFTER).                                                    *)
DownMeansInARow == [][(told' /\ ~told) => inrow' >= DownAfter]_vars
=============================================================================
