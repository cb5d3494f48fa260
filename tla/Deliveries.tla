----------------------------- MODULE Deliveries -----------------------------
(***************************************************************************)
(* notify.rs: what finstats has to say, the destinations that asked to     *)
(* hear it, and the queue between the two.                                 *)
(*                                                                         *)
(* Four kinds of actor share three tables and one list in memory.  Raisers *)
(* write an event and a delivery for every destination that wants it, one  *)
(* statement after the other, by the list of destinations in memory.       *)
(* Administrators change the table of destinations and then read it into   *)
(* memory again.  One loop takes what is due, sends it and notes how it    *)
(* went.  Time makes a delivery due, an event old and a minute new.        *)
(*                                                                         *)
(* Times are kept as far as they decide something: what happened before a  *)
(* destination existed, what is older than HISTORIC_S or KEEP_S, which     *)
(* deliveries are due and in which order, which wait for the ladder and    *)
(* which for the next minute.  The loop may look again whenever it likes:  *)
(* it does within 300 s, and the wake only makes it sooner.  Not here: the *)
(* text of a message, the Test button, and what an address must look like. *)
(*                                                                         *)
(* A definition whose name ends in _slip is the one below it with a        *)
(* mistake in it.  No action uses it: it is there to see that the          *)
(* properties notice.                                                      *)
(***************************************************************************)
EXTENDS Naturals, Sequences, FiniteSets, SequencesExt

CONSTANTS
  Events,      \* what is worth saying: one `dedupe` each
  KindOf,      \* the kind of an event
  About,       \* whom it is about, or Nobody
  People,      \* who may own a destination
  Perms,       \* what a person may see; no entry: may not sign in
  Wishes,      \* what may be asked of a destination: events, min, owner
  Raisers, Admins,
  PerMinute,   \* PER_MINUTE
  Batch,       \* BATCH
  GiveUp,      \* the attempt after which `backoff` gives up
  MaxTargets,  \* MAX_TARGETS
  MaxOwn,      \* MAX_OWN_TARGETS
  Nobody, NoRow,
  (* the bounds of the model *)
  MaxIds,      \* destinations ever added
  MaxTurns     \* updates of a destination, restarts, failures of the loop's calls

Ids     == 1 .. MaxIds
Pairs   == Events \X Ids
EventOf(p) == p[1]
TargetOf(p) == p[2]

Kinds == {"travel", "new_country", "failed_sign_ins", "task_failed", "backup_failed",
          "service_down", "service_back", "new_items", "request_available",
          "play_started", "play_stopped"}

Info == 1
Warn == 2
Alert == 3

Severity(k) ==
  CASE k = "travel" -> Alert
    [] k \in {"failed_sign_ins", "task_failed", "backup_failed", "service_down"} -> Warn
    [] OTHER -> Info

Need(k) ==
  CASE k \in {"travel", "new_country", "failed_sign_ins"} -> "place"
    [] k \in {"task_failed", "backup_failed", "service_down", "service_back"} -> "server"
    [] k \in {"request_available", "play_started", "play_stopped"} -> "person"
    [] OTHER -> "anyone"

Wish == [enabled : BOOLEAN, events : SUBSET Kinds, min : Info .. Alert,
         owner : People \cup {Nobody}]

(* A row of notify_targets: what was asked for, and since when. *)
Row == [wish : Wish, born : Nat]

ASSUME DeliveriesAssumption ==
  /\ KindOf \in [Events -> Kinds]
  /\ About \in [Events -> People \cup {Nobody}]
  /\ DOMAIN Perms \subseteq People
  /\ Wishes \subseteq Wish
  /\ PerMinute \in Nat \ {0} /\ Batch \in Nat \ {0} /\ GiveUp \in Nat \ {0}
  /\ MaxTargets \in Nat /\ MaxOwn \in Nat /\ MaxIds \in Nat
  /\ MaxTurns \in Nat
  /\ Nobody \notin People /\ NoRow \notin Row
  /\ IsFiniteSet(Events)

VARIABLES
  (* the tables *)
  rows,      \* notify_targets
  lastId,    \* the id it handed out last
  known,     \* notify_events
  box,       \* notify_deliveries: none, queued, sent or failed
  attempts,  \* and how often each was tried, counted up to GiveUp
  (* time: the deliveries of the queue by their next_at *)
  line,      \* due, the longest due first
  late,      \* waiting for the ladder, or for as long as they were asked to
  turn,      \* waiting for the next minute
  (* what happened, in order, and how long ago *)
  happened,  \* 0: not yet
  stale,     \* longer than HISTORIC_S ago
  expired,   \* written down longer than KEEP_S ago
  (* memory *)
  mem,       \* app.notify_targets
  admin, raiser, loop,
  used,      \* how much of this minute each destination has had
  spent,     \* how much of MaxTurns is used
  (* history *)
  asked,     \* pairs that were ever queued
  meant,     \* pairs that were wanted when their event was written
  taken,     \* how often the other side accepted it, counted up to 2
  tries,     \* how often it did not, counted up to GiveUp
  unnoted    \* accepted, and finstats could not write that down

targets == <<rows, lastId, mem, admin>>
queue   == <<box, attempts, line, late, turn>>
world   == <<happened, stale, expired>>
history == <<asked, meant, taken, tries, unnoted>>
vars    == <<targets, queue, world, history, known, raiser, loop, used, spent>>

Least(m, n) == IF m <= n THEN m ELSE n

Exists(t) == rows[t] # NoRow

(* The loop with nothing in hand: no batch, and no answer heard. *)
Draining == [pc |-> "drain", batch |-> <<>>, seen |-> {}, answer |-> "none"]

(* What the model allows a few times only. *)
Spend == spent < MaxTurns /\ spent' = spent + 1

Resting == [pc |-> "idle"]

Init ==
  /\ rows = [t \in Ids |-> NoRow] /\ mem = rows /\ lastId = 0
  /\ known = {} /\ box = [p \in Pairs |-> "none"] /\ attempts = [p \in Pairs |-> 0]
  /\ line = <<>> /\ late = {} /\ turn = {}
  /\ happened = [e \in Events |-> 0] /\ stale = {} /\ expired = {}
  /\ admin = [a \in Admins |-> Resting] /\ raiser = [r \in Raisers |-> Resting]
  /\ loop = Draining /\ used = [t \in Ids |-> 0]
  /\ spent = 0
  /\ asked = {} /\ meant = {} /\ unnoted = {}
  /\ taken = [p \in Pairs |-> 0] /\ tries = [p \in Pairs |-> 0]

-----------------------------------------------------------------------------
(* The world: things happen and become old.                                 *)

Happenings == Cardinality({e \in Events : happened[e] # 0})

Happen(e) ==
  /\ happened[e] = 0
  /\ happened' = [happened EXCEPT ![e] = Happenings + 1]
  /\ UNCHANGED <<targets, queue, stale, expired, history, known, raiser, loop, used, spent>>

(* What happened earlier is older. *)
Age(e) ==
  /\ happened[e] # 0 /\ e \notin stale
  /\ \A f \in Events : happened[f] \in 1 .. happened[e] - 1 => f \in stale
  /\ stale' = stale \cup {e}
  /\ UNCHANGED <<targets, queue, happened, expired, history, known, raiser, loop, used, spent>>

(* Thirty days do not pass while an event is being written. *)
Expire(e) ==
  /\ e \in known \cap stale /\ e \notin expired
  /\ \A r \in Raisers : raiser[r].pc = "fan" => raiser[r].event # e
  /\ expired' = expired \cup {e}
  /\ UNCHANGED <<targets, queue, happened, stale, history, known, raiser, loop, used, spent>>

-----------------------------------------------------------------------------
(* Destinations.  Every handler reads, writes and reloads in steps of its   *)
(* own, and `reload` itself reads the table and then replaces the list.     *)

(* `describe`: what the destination will be, and since when.                *)
Count(a, w) ==
  LET held == {t \in Ids : Exists(t)} IN
  /\ admin[a] = Resting
  /\ Cardinality(held) < MaxTargets
  /\ w.owner # Nobody => Cardinality({t \in held : rows[t].wish.owner = w.owner}) < MaxOwn
  /\ admin' = [admin EXCEPT ![a] = [pc |-> "insert", row |-> [wish |-> w, born |-> Happenings]]]
  /\ UNCHANGED <<rows, lastId, mem, queue, world, history, known, raiser, loop, used, spent>>

Insert(a) ==
  /\ admin[a].pc = "insert" /\ lastId < MaxIds
  /\ lastId' = lastId + 1
  /\ rows' = [rows EXCEPT ![lastId'] = admin[a].row]
  /\ admin' = [admin EXCEPT ![a] = [pc |-> "load"]]
  /\ UNCHANGED <<mem, queue, world, history, known, raiser, loop, used, spent>>

(* One field is given, the others are those of the row as it was read: the  *)
(* switch, or all of what it hears about.                                   *)
Edits(w) ==
  {[w EXCEPT !.enabled = ~w.enabled]} \cup
  {[w EXCEPT !.events = v.events, !.min = v.min] : v \in Wishes}

Edit(a, t) ==
  /\ admin[a] = Resting /\ Exists(t) /\ Spend
  /\ \E w \in Edits(rows[t].wish) \ {rows[t].wish} :
       admin' = [admin EXCEPT ![a] =
                   [pc |-> "write", id |-> t, row |-> [rows[t] EXCEPT !.wish = w]]]
  /\ UNCHANGED <<rows, lastId, mem, queue, world, history, known, raiser, loop, used>>

Write(a) ==
  /\ admin[a].pc = "write"
  /\ rows' = IF Exists(admin[a].id) THEN [rows EXCEPT ![admin[a].id] = admin[a].row] ELSE rows
  /\ admin' = [admin EXCEPT ![a] = [pc |-> "load"]]
  /\ UNCHANGED <<lastId, mem, queue, world, history, known, raiser, loop, used, spent>>

(* Sequence s without what is in S. *)
Without(s, S) ==
  LET kept[n \in 0 .. Len(s)] ==
        IF n = 0 THEN <<>>
        ELSE IF s[n] \in S THEN kept[n - 1] ELSE Append(kept[n - 1], s[n])
  IN kept[Len(s)]

(* The rows of deliveries in S are deleted. *)
Delete(S) ==
  /\ box' = [p \in Pairs |-> IF p \in S THEN "none" ELSE box[p]]
  /\ attempts' = [p \in Pairs |-> IF p \in S THEN 0 ELSE attempts[p]]
  /\ line' = Without(line, S)
  /\ late' = late \ S
  /\ turn' = turn \ S

(* The deliveries of a destination go with its row. *)
Forget(a, t) ==
  /\ admin[a] = Resting /\ Exists(t)
  /\ rows' = [rows EXCEPT ![t] = NoRow]
  /\ Delete({p \in Pairs : TargetOf(p) = t})
  /\ admin' = [admin EXCEPT ![a] = [pc |-> "load"]]
  /\ UNCHANGED <<lastId, mem, world, history, known, raiser, loop, used, spent>>

Load(a) ==
  /\ admin[a].pc = "load"
  /\ admin' = [admin EXCEPT ![a] = [pc |-> "store", list |-> rows]]
  /\ UNCHANGED <<rows, lastId, mem, queue, world, history, known, raiser, loop, used, spent>>

Store(a) ==
  /\ admin[a].pc = "store"
  /\ mem' = admin[a].list
  /\ admin' = [admin EXCEPT ![a] = Resting]
  /\ UNCHANGED <<rows, lastId, queue, world, history, known, raiser, loop, used, spent>>

-----------------------------------------------------------------------------
(* Raising an event.                                                        *)

AnyoneWants(list, e) ==
  \E t \in Ids : /\ list[t] # NoRow
                 /\ list[t].wish.enabled /\ KindOf[e] \in list[t].wish.events

(* What the owner of a personal destination may see in the app. *)
Allowed(w, e) ==
  LET own  == About[e] = w.owner
      sees == Perms[w.owner]
      need == Need(KindOf[e])
  IN \/ w.owner = Nobody
     \/ /\ w.owner \in DOMAIN Perms
        /\ \/ need = "anyone"
           \/ need = "person" /\ (own \/ "see_everyone" \in sees)
           \/ need = "place"  /\ (own \/ {"see_everyone", "see_network"} \subseteq sees)
           \/ need = "server" /\ "see_server" \in sees

WantedBy(row, e) ==
  /\ row # NoRow
  /\ row.wish.enabled /\ KindOf[e] \in row.wish.events
  /\ row.wish.min <= Severity(KindOf[e])
  /\ row.born < happened[e]
  /\ Allowed(row.wish, e)

Historic_slip(e) == FALSE

Historic(e) == e \in stale

(* `Fanout::of`: the list as memory has it.  Nothing is written down that   *)
(* nothing listens for.  `raise` looks at memory once before, with the same *)
(* question; that look decides nothing this one would not.                  *)
Gather(r, e) ==
  /\ raiser[r] = Resting /\ happened[e] # 0
  /\ AnyoneWants(mem, e)
  /\ raiser' = [raiser EXCEPT ![r] = [pc |-> "insert", event |-> e, list |-> mem]]
  /\ UNCHANGED <<targets, queue, world, history, known, loop, used, spent>>

(* Event e with the destinations in todo still to come. *)
Onwards(e, todo) ==
  IF todo = {} THEN Resting ELSE [pc |-> "fan", event |-> e, todo |-> todo]

(* INSERT OR IGNORE on `dedupe`.  History is written down, not announced.   *)
WriteEvent(r) ==
  LET e    == raiser[r].event
      todo == IF Historic(e) THEN {} ELSE {t \in Ids : WantedBy(raiser[r].list[t], e)}
  IN /\ raiser[r].pc = "insert"
     /\ IF e \in known
          THEN /\ raiser' = [raiser EXCEPT ![r] = Resting]
               /\ UNCHANGED <<known, meant>>
          ELSE /\ known' = known \cup {e}
               /\ raiser' = [raiser EXCEPT ![r] = Onwards(e, todo)]
               /\ meant' = meant \cup {<<e, t>> : t \in todo}
     /\ UNCHANGED <<targets, queue, world, asked, taken, tries, unnoted, loop, used, spent>>

(* One delivery is queued, due at once, the oldest destination's first.  A  *)
(* destination that is no more ends all of it: the foreign key is not what  *)
(* OR IGNORE ignores.                                                       *)
Enqueue(p) ==
  IF box[p] = "none"
    THEN /\ box' = [box EXCEPT ![p] = "queued"]
         /\ line' = Append(line, p)
         /\ asked' = asked \cup {p}
    ELSE UNCHANGED <<box, line, asked>>

Queue(r) ==
  /\ raiser[r].pc = "fan"
  /\ \E t \in raiser[r].todo :
       /\ \A u \in raiser[r].todo : t <= u
       /\ IF Exists(t)
            THEN /\ raiser' = [raiser EXCEPT ![r] = Onwards(@.event, @.todo \ {t})]
                 /\ Enqueue(<<raiser[r].event, t>>)
            ELSE /\ raiser' = [raiser EXCEPT ![r] = Resting]
                 /\ UNCHANGED <<box, line, asked>>
  /\ UNCHANGED <<targets, attempts, late, turn, world, meant, taken, tries, unnoted,
                 known, loop, used, spent>>

-----------------------------------------------------------------------------
(* Sending: `drain` and the loop around it.                                 *)

(* `due`: the next batch, in the order it became due. *)
Fetch ==
  /\ loop.pc = "drain" /\ line # <<>>
  /\ loop' = [loop EXCEPT !.pc = "sample", !.batch = SubSeq(line, 1, Least(Batch, Len(line)))]
  /\ UNCHANGED <<targets, queue, world, history, known, raiser, used, spent>>

Listed_slip(list) == {t \in Ids : list[t] # NoRow /\ list[t].wish.enabled}

(* The destinations this batch is sent to. *)
Listed(list) == {t \in Ids : list[t] # NoRow}

Sample ==
  /\ loop.pc = "sample"
  /\ loop' = [loop EXCEPT !.pc = "item", !.seen = Listed(mem)]
  /\ UNCHANGED <<targets, queue, world, history, known, raiser, used, spent>>

Item == Head(loop.batch)

Following ==
  IF Len(loop.batch) = 1 THEN Draining
  ELSE [loop EXCEPT !.pc = "item", !.batch = Tail(@), !.answer = "none"]

(* The list does not have the destination: it is taken to be deleted. *)
Orphan ==
  /\ loop.pc = "item" /\ TargetOf(Item) \notin loop.seen
  /\ \/ Delete({p \in Pairs : TargetOf(p) = TargetOf(Item)}) /\ UNCHANGED spent
     \/ Spend /\ UNCHANGED queue
  /\ loop' = Following
  /\ UNCHANGED <<targets, world, history, known, raiser, used>>

OverTheMinute(t) == used[t] >= PerMinute

Out(p) == Without(line, {p})

Postpone_slip(p) == turn' = turn \cup {p} /\ UNCHANGED line

(* To the start of the next minute, if the row is still there. *)
Postpone(p) ==
  IF box[p] = "queued" THEN turn' = turn \cup {p} /\ line' = Out(p)
  ELSE UNCHANGED <<line, turn>>

Hold ==
  /\ loop.pc = "item" /\ TargetOf(Item) \in loop.seen /\ OverTheMinute(TargetOf(Item))
  /\ \/ Postpone(Item) /\ UNCHANGED spent
     \/ Spend /\ UNCHANGED <<line, turn>>
  /\ loop' = Following
  /\ UNCHANGED <<targets, box, attempts, late, world, history, known, raiser, used>>

(* One message goes out.  The other side takes it, refuses it, or refuses   *)
(* it and says for how long.                                                *)
Send(answer) ==
  /\ loop.pc = "item" /\ TargetOf(Item) \in loop.seen /\ ~OverTheMinute(TargetOf(Item))
  /\ used' = [used EXCEPT ![TargetOf(Item)] = @ + 1]
  /\ loop' = [loop EXCEPT !.pc = "note", !.answer = answer]
  /\ IF answer = "taken"
       THEN taken' = [taken EXCEPT ![Item] = Least(2, @ + 1)] /\ UNCHANGED tries
       ELSE tries' = [tries EXCEPT ![Item] = Least(GiveUp, @ + 1)] /\ UNCHANGED taken
  /\ UNCHANGED <<targets, queue, world, asked, meant, unnoted, known, raiser, spent>>

BackoffEver_slip(n) == TRUE

(* Whether there is another rung on the ladder after n attempts. *)
Backoff(n) == n < GiveUp

Record_slip(p, answer) ==
  LET n == Least(GiveUp, attempts[p] + 1) IN
  /\ attempts' = [attempts EXCEPT ![p] = n]
  /\ line' = Out(p)
  /\ IF answer = "taken" \/ answer = "wait" \/ Backoff(n)
       THEN late' = late \cup {p} /\ UNCHANGED box
       ELSE box' = [box EXCEPT ![p] = "failed"] /\ UNCHANGED late

(* `record` of a delivery that is still there. *)
Record(p, answer) ==
  LET n == Least(GiveUp, attempts[p] + 1) IN
  /\ attempts' = [attempts EXCEPT ![p] = n]
  /\ line' = Out(p)
  /\ IF answer = "taken"
       THEN box' = [box EXCEPT ![p] = "sent"] /\ UNCHANGED late
     ELSE IF answer = "wait" \/ Backoff(n)
       THEN late' = late \cup {p} /\ UNCHANGED box
     ELSE box' = [box EXCEPT ![p] = "failed"] /\ UNCHANGED late

Forgets(p) == IF loop.answer = "taken" THEN unnoted' = unnoted \cup {p} ELSE UNCHANGED unnoted

(* How it went is written down, unless that fails: then nothing about the   *)
(* delivery has changed and it is still due.                                *)
Note ==
  /\ loop.pc = "note"
  /\ \/ /\ IF box[Item] = "queued" THEN Record(Item, loop.answer)
           ELSE UNCHANGED <<box, attempts, line, late>>
        /\ UNCHANGED <<unnoted, spent>>
     \/ Spend /\ Forgets(Item) /\ UNCHANGED <<box, attempts, line, late>>
  /\ loop' = Following
  /\ UNCHANGED <<targets, turn, world, asked, meant, taken, tries, known, raiser, used>>

(* Nothing due, or no answer: the drain is over.  Once an hour the history  *)
(* is thinned out; then the loop sleeps, and drains again.                  *)
Prune ==
  /\ loop.pc = "drain"
  /\ \/ line = <<>> /\ UNCHANGED spent
     \/ Spend
  /\ known' = known \ expired /\ expired' = {}
  /\ Delete({p \in Pairs : EventOf(p) \in expired})
  /\ UNCHANGED <<targets, happened, stale, history, raiser, loop, used>>

-----------------------------------------------------------------------------
(* Time and restarts.                                                       *)

(* A rung of the ladder, or the time asked for, is over. *)
Ripen(p) ==
  /\ p \in late
  /\ late' = late \ {p} /\ line' = Append(line, p)
  /\ UNCHANGED <<targets, box, attempts, turn, world, history, known, raiser, loop, used, spent>>

(* Deliveries held over are due together, by the order of their events. *)
Minute ==
  /\ turn # {} \/ \E t \in Ids : used[t] # 0
  /\ \E held \in SetToSeqs(turn) :
       /\ \A i, j \in DOMAIN held :
            i < j => happened[EventOf(held[i])] <= happened[EventOf(held[j])]
       /\ line' = line \o held
  /\ turn' = {} /\ used' = [t \in Ids |-> 0]
  /\ UNCHANGED <<targets, box, attempts, late, world, history, known, raiser, loop, spent>>

(* The process ends anywhere and starts again: `reload`, then the loop. *)
Restart ==
  /\ Spend
  /\ IF loop.pc = "note" THEN Forgets(Item) ELSE UNCHANGED unnoted
  /\ mem' = rows
  /\ admin' = [a \in Admins |-> Resting] /\ raiser' = [r \in Raisers |-> Resting]
  /\ loop' = Draining /\ used' = [t \in Ids |-> 0]
  /\ UNCHANGED <<rows, lastId, queue, world, known, asked, meant, taken, tries>>

-----------------------------------------------------------------------------
Happens  == \E e \in Events : Happen(e) \/ Age(e) \/ Expire(e)
Manages  == \E a \in Admins :
              \/ \E w \in Wishes : Count(a, w)
              \/ Insert(a)
              \/ \E t \in Ids : Edit(a, t) \/ Forget(a, t)
              \/ Write(a) \/ Load(a) \/ Store(a)
Raises   == \E r \in Raisers :
              (\E e \in Events : Gather(r, e)) \/ WriteEvent(r) \/ Queue(r)
Runs     == \/ Fetch \/ Sample \/ Orphan \/ Hold \/ Note \/ Prune
            \/ \E answer \in {"taken", "refused", "wait"} : Send(answer)

Next == Happens \/ Manages \/ Raises \/ Runs \/ (\E p \in Pairs : Ripen(p)) \/ Minute \/ Restart

Fairness == /\ WF_vars(Runs) /\ WF_vars(Minute)
            /\ \A p \in Pairs : WF_vars(Ripen(p))

Spec == Init /\ [][Next]_vars /\ Fairness

-----------------------------------------------------------------------------
(* Properties.                                                              *)

(* The shape of the state, and the queue and its three waiting places agree: *)
(* every queued delivery is in one of them, once, and nothing else is.       *)
TypeOK ==
  /\ \A t \in Ids : rows[t] # NoRow => t <= lastId /\ rows[t].wish \in Wish /\ rows[t].born \in Nat
  /\ known \subseteq Events /\ expired \subseteq known \cap stale
  /\ box \in [Pairs -> {"none", "queued", "sent", "failed"}]
  /\ attempts \in [Pairs -> 0 .. GiveUp]
  /\ used \in [Ids -> 0 .. PerMinute]
  /\ Len(line) = Cardinality(ToSet(line))
  /\ ToSet(line) \cap late = {} /\ ToSet(line) \cap turn = {} /\ late \cap turn = {}
  /\ ToSet(line) \cup late \cup turn = {p \in Pairs : box[p] = "queued"}
  /\ \A p \in Pairs : box[p] # "none" => EventOf(p) \in known /\ Exists(TargetOf(p))

(* A message is taken twice only when finstats was stopped, or could not     *)
(* write, between its being taken and its being noted ("deriving the same    *)
(* thing twice sends nothing twice", notify.rs:16; send and record in drain).*)
OnceUnlessUnnoted == \A p \in Pairs : taken[p] = 2 => p \in unnoted

(* What is given up on was refused as often as the ladder of `backoff` says. *)
GivenUpAfterTheLadder == \A p \in Pairs : box[p] = "failed" => tries[p] = GiveUp

(* Both: never twice without a reason, and not given up on before time.    *)
SentAsPromised == OnceUnlessUnnoted /\ GivenUpAfterTheLadder

(* A message leaves the queue unsent only with its destination or its event: *)
(* what `drain` throws away for want of a destination really has none.       *)
KeptWhileItExists ==
  [][\A p \in Pairs : box[p] = "queued" /\ box'[p] = "none" =>
        rows'[TargetOf(p)] = NoRow \/ EventOf(p) \in expired]_vars

(* The queue as its messages see it: asked for once in all of history, even  *)
(* when the event is thinned out and derived again (KEEP_S, HISTORIC_S).     *)
Promise ==
  INSTANCE Mailbox WITH
    Messages <- Pairs,
    box      <- [p \in Pairs |-> IF box[p] # "none" THEN box[p]
                                 ELSE IF p \in asked THEN "gone" ELSE "never"]

MailboxSpec == Promise!Spec

(* Every message ends: taken, given up on or gone, unless its destination    *)
(* asks for a delay again and again.                                         *)
PutOff(t) ==
  /\ loop.pc = "item" /\ TargetOf(Item) = t
  /\ loop'.pc = "note" /\ loop'.answer = "wait"

EndsUnlessPutOff ==
  \A t \in Ids : \/ []<><<PutOff(t)>>_vars
                 \/ \A e \in Events : box[<<e, t>>] = "queued" ~> box[<<e, t>>] # "queued"

(* Every destination that asked for an event when it was written is sent a   *)
(* message about it ("every *destination* that asked for that kind of event  *)
(* is sent a message about it", notify.rs:4), or is on the way to be, or is  *)
(* gone itself.                                                              *)
EveryoneWhoAskedIsTold ==
  \A p \in meant \ asked :
    \/ ~Exists(TargetOf(p))
    \/ \E r \in Raisers : raiser[r].pc = "fan" /\ raiser[r].event = EventOf(p)
=============================================================================
