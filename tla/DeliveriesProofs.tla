-------------------------- MODULE DeliveriesProofs --------------------------
(* The queue of notifications keeps the promises of Mailbox, holds every     *)
(* delivery in one place, sends none twice and throws none away, for any     *)
(* events, destinations, raisers, batches, ladders and restarts.             *)
EXTENDS Deliveries, DataInduction, SequenceTheorems, TLAPS

Fans(r) == raiser[r].pc = "fan"

(* What is queued was asked for, and what was asked for is of an event that  *)
(* is written down or history.                                               *)
AskedOfKnown ==
  /\ box \in [Pairs -> {"none", "queued", "sent", "failed"}]
  /\ \A p \in Pairs : box[p] # "none" => p \in asked
  /\ \A p \in Pairs : p \in asked => EventOf(p) \in known \cup stale
  /\ expired \subseteq stale

(* Who fans an event out is the only one, and what it has still to ask for   *)
(* was never asked for; the event stays while it does.                       *)
FansOnce ==
  /\ DOMAIN raiser = Raisers
  /\ \A r \in Raisers : Fans(r) =>
       /\ raiser[r].event \in known \ expired
       /\ \A p \in Pairs : EventOf(p) = raiser[r].event /\ TargetOf(p) \in raiser[r].todo => p \notin asked
  /\ \A r, s \in Raisers : Fans(r) /\ Fans(s) /\ r # s => raiser[r].event # raiser[s].event

QueueInv == AskedOfKnown /\ FansOnce

LEMMA QueueInit == Init => QueueInv
BY DEF Init, QueueInv, AskedOfKnown, FansOnce, Fans, Resting

-----------------------------------------------------------------------------
(* The steps *)

(* Deleting takes from the queue and gives it nothing.                       *)
LEMMA DeleteKeeps ==
  ASSUME AskedOfKnown, NEW S, Delete(S)
  PROVE  /\ box' \in [Pairs -> {"none", "queued", "sent", "failed"}]
         /\ \A p \in Pairs : box'[p] = box[p] \/ box'[p] = "none"
BY DEF Delete, AskedOfKnown

(* A step that writes no event and asks for nothing keeps the books.         *)
LEMMA QuietKeeps ==
  ASSUME QueueInv, UNCHANGED <<asked, known, raiser>>, stale \subseteq stale',
         expired' \subseteq stale', \A r \in Raisers : Fans(r) => raiser[r].event \notin expired',
         box' \in [Pairs -> {"none", "queued", "sent", "failed"}],
         \A p \in Pairs : box'[p] # "none" => box[p] # "none"
  PROVE  QueueInv'
<1>1. AskedOfKnown'
  BY DEF QueueInv, AskedOfKnown
<1>2. FansOnce'
  BY DEF QueueInv, FansOnce, Fans
<1> QED
  BY <1>1, <1>2 DEF QueueInv

LEMMA HappensKeeps ==
  ASSUME QueueInv, NEW e \in Events, Happen(e) \/ Age(e) \/ Expire(e)
  PROVE  QueueInv'
<1>1. UNCHANGED <<asked, known, raiser, box>>
  BY DEF Happen, Age, Expire, queue, history
<1>2. expired' = expired \/ (expired' = expired \cup {e} /\ Expire(e))
  BY DEF Happen, Age, Expire
<1>3. stale \subseteq stale' /\ expired' \subseteq stale'
  BY DEF Happen, Age, Expire, QueueInv, AskedOfKnown
<1>4. \A r \in Raisers : Fans(r) => raiser[r].event \notin expired'
  BY <1>2 DEF QueueInv, FansOnce, Fans, Expire
<1> QED
  BY <1>1, <1>3, <1>4, QuietKeeps DEF QueueInv, AskedOfKnown

LEMMA GatherKeeps ==
  ASSUME QueueInv, NEW r \in Raisers, NEW e \in Events, Gather(r, e)
  PROVE  QueueInv'
<1>1. raiser' = [raiser EXCEPT ![r] = [pc |-> "insert", event |-> e, list |-> mem]]
  BY DEF Gather
<1>2. UNCHANGED <<asked, known, box, stale, expired>>
  BY DEF Gather, queue, history, world
<1>3. AskedOfKnown'
  BY <1>2 DEF QueueInv, AskedOfKnown
<1>4. ~Fans(r)' /\ \A s \in Raisers \ {r} : raiser'[s] = raiser[s]
  BY <1>1 DEF QueueInv, FansOnce, Fans
<1>5. FansOnce'
  BY <1>1, <1>2, <1>4 DEF QueueInv, FansOnce, Fans
<1> QED
  BY <1>3, <1>5 DEF QueueInv

(* What is announced is not history, so nobody was ever asked about it; what *)
(* is history is written down and fanned out to nobody.                      *)
LEMMA WriteEventKeeps ==
  ASSUME QueueInv, NEW r \in Raisers, WriteEvent(r)
  PROVE  QueueInv'
<1> DEFINE e    == raiser[r].event
           todo == IF Historic(e) THEN {} ELSE {t \in Ids : WantedBy(raiser[r].list[t], e)}
<1>1. UNCHANGED <<asked, box, stale, expired>>
  BY DEF WriteEvent, queue, world
<1>2. CASE e \in known
  <2>1. raiser' = [raiser EXCEPT ![r] = Resting] /\ known' = known
    BY <1>2 DEF WriteEvent
  <2>2. ~Fans(r)' /\ \A s \in Raisers \ {r} : raiser'[s] = raiser[s]
    BY <2>1 DEF QueueInv, FansOnce, Fans, Resting
  <2>3. FansOnce'
    BY <1>1, <2>1, <2>2 DEF QueueInv, FansOnce, Fans
  <2> QED
    BY <1>1, <2>1, <2>3 DEF QueueInv, AskedOfKnown
<1>3. CASE e \notin known
  <2>1. raiser' = [raiser EXCEPT ![r] = Onwards(e, todo)] /\ known' = known \cup {e}
    BY <1>3 DEF WriteEvent
  <2>2. raiser'[r] = Onwards(e, todo) /\ \A s \in Raisers \ {r} : raiser'[s] = raiser[s]
    BY <2>1 DEF QueueInv, FansOnce
  <2>3. AskedOfKnown'
    BY <1>1, <2>1 DEF QueueInv, AskedOfKnown
  <2>4. \A s \in Raisers \ {r} : Fans(s) => raiser[s].event # e
    BY <1>3 DEF QueueInv, FansOnce
  <2>5. CASE todo = {}
    <3>1. ~Fans(r)'
      BY <2>2, <2>5 DEF Onwards, Fans, Resting
    <3>2. FansOnce'
      BY <1>1, <2>1, <2>2, <3>1 DEF QueueInv, FansOnce, Fans
    <3> QED
      BY <2>3, <3>2 DEF QueueInv
  <2>6. CASE todo # {}
    <3>1. e \notin stale
      BY <2>6 DEF Historic
    <3>2. raiser'[r].event = e /\ raiser'[r].todo = todo
      BY <2>2, <2>6 DEF Onwards
    <3>4. \A p \in Pairs : EventOf(p) = e => p \notin asked'
      BY <1>1, <1>3, <3>1 DEF QueueInv, AskedOfKnown
    <3> HIDE DEF todo
    <3>5. e \in known' \ expired'
      BY <1>1, <2>1, <3>1 DEF QueueInv, AskedOfKnown
    <3>6. \A s \in Raisers \ {r} : Fans(s)' => Fans(s) /\ raiser'[s] = raiser[s] /\ raiser[s].event # e
      BY <2>2, <2>4 DEF Fans
    <3>7. DOMAIN raiser' = Raisers
      BY <2>1 DEF QueueInv, FansOnce
    <3>8. FansOnce'
      BY <1>1, <2>1, <3>2, <3>4, <3>5, <3>6, <3>7 DEF QueueInv, FansOnce
    <3> QED
      BY <2>3, <3>8 DEF QueueInv
  <2> QED
    BY <2>5, <2>6
<1> QED
  BY <1>2, <1>3

(* What is asked for leaves what the raiser still has to ask for.            *)
LEMMA QueueKeeps ==
  ASSUME QueueInv, NEW r \in Raisers, Queue(r)
  PROVE  QueueInv'
<1> DEFINE e == raiser[r].event
<1>1. PICK t \in raiser[r].todo :
        IF Exists(t)
          THEN /\ raiser' = [raiser EXCEPT ![r] = Onwards(e, raiser[r].todo \ {t})]
               /\ Enqueue(<<e, t>>)
          ELSE /\ raiser' = [raiser EXCEPT ![r] = Resting]
               /\ UNCHANGED <<box, line, asked>>
  BY DEF Queue, QueueInv, FansOnce
<1>2. Fans(r) /\ UNCHANGED <<known, stale, expired>>
  BY DEF Queue, Fans, world
<1>3. CASE Exists(t)
  <2>1. raiser' = [raiser EXCEPT ![r] = Onwards(e, raiser[r].todo \ {t})] /\ Enqueue(<<e, t>>)
    BY <1>1, <1>3
  <2>2. raiser'[r] = Onwards(e, raiser[r].todo \ {t}) /\ \A s \in Raisers \ {r} : raiser'[s] = raiser[s]
    BY <2>1 DEF QueueInv, FansOnce
  <2>3. e \in known \ expired
    BY <1>2 DEF QueueInv, FansOnce
  <2>4. asked \subseteq asked' /\ asked' \subseteq asked \cup {<<e, t>>}
    BY <2>1 DEF Enqueue
  <2>5. AskedOfKnown'
    <3>1. \A p \in Pairs : box'[p] # "none" => p \in asked'
      BY <2>1 DEF Enqueue, QueueInv, AskedOfKnown
    <3>2. box' \in [Pairs -> {"none", "queued", "sent", "failed"}]
      BY <2>1 DEF Enqueue, QueueInv, AskedOfKnown
    <3>3. \A p \in Pairs : p \in asked' => EventOf(p) \in known' \cup stale'
      BY <1>2, <2>3, <2>4 DEF QueueInv, AskedOfKnown, EventOf
    <3> QED
      BY <1>2, <3>1, <3>2, <3>3 DEF QueueInv, AskedOfKnown
  <2>6. Fans(r)' => raiser'[r].event = e /\ raiser'[r].todo = raiser[r].todo \ {t}
    BY <2>2 DEF Onwards, Fans, Resting
  <2>7. \A s \in Raisers \ {r} : Fans(s)' => Fans(s) /\ raiser'[s] = raiser[s] /\ raiser[s].event # e
    BY <1>2, <2>2 DEF Fans, QueueInv, FansOnce
  <2>8. \A p \in Pairs : p \in asked' /\ p \notin asked => EventOf(p) = e /\ TargetOf(p) = t
    BY <2>4 DEF EventOf, TargetOf
  <2>9. DOMAIN raiser' = Raisers
    BY <2>1 DEF QueueInv, FansOnce
  <2>10. ASSUME NEW s \in Raisers, Fans(s)'
         PROVE  /\ raiser'[s].event \in known' \ expired'
                /\ \A p \in Pairs : EventOf(p) = raiser'[s].event /\ TargetOf(p) \in raiser'[s].todo => p \notin asked'
    <3>1. CASE s = r
      <4>1. raiser'[r].event = e /\ raiser'[r].todo = raiser[r].todo \ {t}
        BY <2>6, <2>10, <3>1
      <4>2. \A p \in Pairs : EventOf(p) = e /\ TargetOf(p) \in raiser[r].todo => p \notin asked
        BY <1>2 DEF QueueInv, FansOnce
      <4> QED
        BY <1>2, <2>3, <2>8, <3>1, <4>1, <4>2
    <3>2. CASE s # r
      <4>1. Fans(s) /\ raiser'[s] = raiser[s] /\ raiser[s].event # e
        BY <2>7, <2>10, <3>2
      <4>2. /\ raiser[s].event \in known \ expired
            /\ \A p \in Pairs : EventOf(p) = raiser[s].event /\ TargetOf(p) \in raiser[s].todo => p \notin asked
        BY <4>1 DEF QueueInv, FansOnce
      <4> QED
        BY <1>2, <2>8, <4>1, <4>2
    <3> QED
      BY <3>1, <3>2
  <2>11. \A s, u \in Raisers : Fans(s)' /\ Fans(u)' /\ s # u => raiser'[s].event # raiser'[u].event
    BY <2>6, <2>7 DEF QueueInv, FansOnce
  <2>12. FansOnce'
    BY <2>9, <2>10, <2>11 DEF FansOnce
  <2> QED
    BY <2>5, <2>12 DEF QueueInv
<1>4. CASE ~Exists(t)
  <2>1. raiser' = [raiser EXCEPT ![r] = Resting] /\ UNCHANGED <<box, asked>>
    BY <1>1, <1>4
  <2>2. ~Fans(r)' /\ \A s \in Raisers \ {r} : raiser'[s] = raiser[s]
    BY <2>1 DEF QueueInv, FansOnce, Fans, Resting
  <2>3. FansOnce'
    BY <1>2, <2>1, <2>2 DEF QueueInv, FansOnce, Fans
  <2>4. AskedOfKnown'
    BY <1>2, <2>1 DEF QueueInv, AskedOfKnown
  <2> QED
    BY <2>3, <2>4 DEF QueueInv
<1> QED
  BY <1>3, <1>4

(* What the loop does to the queue: nothing, one delivery that was queued is *)
(* settled, or some are deleted.                                             *)
Settled(p) ==
  /\ box[p] = "queued"
  /\ box' = [box EXCEPT ![p] = "sent"] \/ box' = [box EXCEPT ![p] = "failed"]

LEMMA RunsTouch ==
  ASSUME Runs, ~Prune
  PROVE  /\ UNCHANGED <<asked, known, raiser, stale, expired>>
         /\ \/ UNCHANGED box
            \/ \E p : Settled(p)
            \/ \E S : Delete(S)
<1>1. CASE Fetch \/ Sample \/ \E answer \in {"taken", "refused", "wait"} : Send(answer)
  BY <1>1 DEF Fetch, Sample, Send, queue, history, world
<1>2. CASE Orphan
  BY <1>2 DEF Orphan, queue, history, world
<1>3. CASE Hold
  BY <1>3 DEF Hold, history, world
<1>4. CASE Note
  <2>1. UNCHANGED <<asked, known, raiser, stale, expired>>
    BY <1>4 DEF Note, world
  <2>2. UNCHANGED box \/ Settled(Item)
    BY <1>4 DEF Note, Record, Settled
  <2> QED
    BY <2>1, <2>2
<1> QED
  BY <1>1, <1>2, <1>3, <1>4 DEF Runs

LEMMA RunsKeep ==
  ASSUME QueueInv, Runs
  PROVE  QueueInv'
<1>1. CASE Prune
  <2>1. UNCHANGED <<asked, raiser, stale>> /\ known' = known \ expired /\ expired' = {}
    BY <1>1 DEF Prune, history
  <2>2. PICK S : Delete(S)
    BY <1>1 DEF Prune
  <2>3. AskedOfKnown'
    BY <2>1, <2>2, DeleteKeeps DEF QueueInv, AskedOfKnown
  <2>4. FansOnce'
    BY <2>1 DEF QueueInv, FansOnce, Fans
  <2> QED
    BY <2>3, <2>4 DEF QueueInv
<1>2. CASE ~Prune
  <2>1. UNCHANGED <<asked, known, raiser, stale, expired>>
    BY <1>2, RunsTouch
  <2>2. /\ box' \in [Pairs -> {"none", "queued", "sent", "failed"}]
        /\ \A p \in Pairs : box'[p] # "none" => box[p] # "none"
    <3>1. CASE UNCHANGED box
      BY <3>1 DEF QueueInv, AskedOfKnown
    <3>2. ASSUME NEW p, Settled(p)
          PROVE  /\ box' \in [Pairs -> {"none", "queued", "sent", "failed"}]
                 /\ \A q \in Pairs : box'[q] # "none" => box[q] # "none"
      BY <3>2 DEF Settled, QueueInv, AskedOfKnown
    <3>3. ASSUME NEW S, Delete(S)
          PROVE  /\ box' \in [Pairs -> {"none", "queued", "sent", "failed"}]
                 /\ \A q \in Pairs : box'[q] # "none" => box[q] # "none"
      BY <3>3, DeleteKeeps DEF QueueInv
    <3> QED
      BY <1>2, <3>1, <3>2, <3>3, RunsTouch
  <2>3. \A r \in Raisers : Fans(r) => raiser[r].event \notin expired'
    BY <2>1 DEF QueueInv, FansOnce
  <2>4. stale \subseteq stale' /\ expired' \subseteq stale'
    BY <2>1 DEF QueueInv, AskedOfKnown
  <2> QED
    BY <2>1, <2>2, <2>3, <2>4, QuietKeeps
<1> QED
  BY <1>1, <1>2

LEMMA ManagesKeep ==
  ASSUME QueueInv, Manages
  PROVE  /\ QueueInv' /\ UNCHANGED asked
         /\ UNCHANGED box \/ \E S : Delete(S)
<1>1. UNCHANGED <<asked, known, raiser, stale, expired>>
  BY DEF Manages, Count, Insert, Edit, Forget, Write, Load, Store, history, world
<1>2. UNCHANGED box \/ \E S : Delete(S)
  BY DEF Manages, Count, Insert, Edit, Forget, Write, Load, Store, queue
<1>3. /\ box' \in [Pairs -> {"none", "queued", "sent", "failed"}]
      /\ \A p \in Pairs : box'[p] # "none" => box[p] # "none"
  <2>1. CASE UNCHANGED box
    BY <2>1 DEF QueueInv, AskedOfKnown
  <2>2. ASSUME NEW S, Delete(S)
        PROVE  /\ box' \in [Pairs -> {"none", "queued", "sent", "failed"}]
               /\ \A q \in Pairs : box'[q] # "none" => box[q] # "none"
    BY <2>2, DeleteKeeps DEF QueueInv
  <2> QED
    BY <1>2, <2>1, <2>2
<1>4. \A r \in Raisers : Fans(r) => raiser[r].event \notin expired'
  BY <1>1 DEF QueueInv, FansOnce
<1>5. stale \subseteq stale' /\ expired' \subseteq stale'
  BY <1>1 DEF QueueInv, AskedOfKnown
<1> QED
  BY <1>1, <1>2, <1>3, <1>4, <1>5, QuietKeeps

LEMMA RestartKeeps ==
  ASSUME QueueInv, Restart
  PROVE  QueueInv'
<1>1. UNCHANGED <<asked, known, stale, expired, box>> /\ raiser' = [r \in Raisers |-> Resting]
  BY DEF Restart, queue, world
<1>2. DOMAIN raiser' = Raisers /\ \A r \in Raisers : ~Fans(r)'
  BY <1>1 DEF Fans, Resting
<1>3. AskedOfKnown'
  BY <1>1 DEF QueueInv, AskedOfKnown
<1> QED
  BY <1>2, <1>3 DEF QueueInv, FansOnce

LEMMA WaitsKeep ==
  ASSUME QueueInv, Minute \/ (\E p \in Pairs : Ripen(p)) \/ UNCHANGED vars
  PROVE  QueueInv' /\ UNCHANGED <<asked, box>>
<1>1. UNCHANGED <<asked, known, raiser, stale, expired, box>>
  BY DEF Minute, Ripen, vars, history, world, queue
<1> QED
  BY <1>1 DEF QueueInv, AskedOfKnown, FansOnce, Fans

LEMMA QueueStep == QueueInv /\ [Next]_vars => QueueInv'
<1> SUFFICES ASSUME QueueInv, [Next]_vars PROVE QueueInv'
  OBVIOUS
<1>1. CASE Happens
  BY <1>1, HappensKeeps DEF Happens
<1>2. CASE Manages
  BY <1>2, ManagesKeep
<1>3. CASE Raises
  BY <1>3, GatherKeeps, WriteEventKeeps, QueueKeeps DEF Raises
<1>4. CASE Runs
  BY <1>4, RunsKeep
<1>5. CASE Minute \/ (\E p \in Pairs : Ripen(p)) \/ UNCHANGED vars
  BY <1>5, WaitsKeep
<1>6. CASE Restart
  BY <1>6, RestartKeeps
<1> QED
  BY <1>1, <1>2, <1>3, <1>4, <1>5, <1>6 DEF Next

(* Every message that was queued was asked for, and what a raiser has still  *)
(* to ask for was never asked for, whatever is raised twice, thinned out,    *)
(* removed or restarted in between.                                          *)
THEOREM AskedForOnce == Spec => []QueueInv
BY QueueInit, QueueStep, PTL DEF Spec

-----------------------------------------------------------------------------
(* The refinement *)

(* A delivery as its message sees it. *)
Seen(p) == IF box[p] # "none" THEN box[p] ELSE IF p \in asked THEN "gone" ELSE "never"

LEMMA SeenTypes ==
  ASSUME QueueInv, NEW p \in Pairs
  PROVE  Seen(p) \in Promise!States
BY DEF QueueInv, AskedOfKnown, Seen, Promise!States

(* A step of the queue is a move of the mailbox when every message goes one  *)
(* of its ways, and alone or away with the others.                           *)
LEMMA MoveOrNot ==
  ASSUME QueueInv, QueueInv',
         \A p \in Pairs : Promise!Becomes(Seen(p), Seen(p)'),
         \A p, q \in Pairs : Seen(p)' # Seen(p) /\ Seen(q)' # Seen(q) /\ p # q => Seen(p)' = "gone" /\ Seen(q)' = "gone"
  PROVE  Promise!Move
<1> DEFINE B == [p \in Pairs |-> IF box[p] # "none" THEN box[p] ELSE IF p \in asked THEN "gone" ELSE "never"]
<1>1. \A p \in Pairs : B[p] = Seen(p) /\ B'[p] = Seen(p)'
  BY DEF Seen
<1>2. B' \in [Pairs -> Promise!States]
  <2>1. \A p \in Pairs : Seen(p)' \in Promise!States
    BY DEF QueueInv, AskedOfKnown, Seen, Promise!States
  <2>2. \A p \in Pairs : B'[p] \in Promise!States
    BY <1>1, <2>1
  <2> QED
    BY <2>2
<1>3. \A p \in Pairs : Promise!Becomes(B[p], B'[p])
  BY <1>1
<1>4. \A p, q \in Pairs : B'[p] # B[p] /\ B'[q] # B[q] /\ p # q => B'[p] = "gone" /\ B'[q] = "gone"
  BY <1>1
<1>5. Promise!Move <=>
        /\ B' \in [Pairs -> Promise!States]
        /\ \A m \in Pairs : Promise!Becomes(B[m], B'[m])
        /\ \A m, n \in Pairs : B'[m] # B[m] /\ B'[n] # B[n] /\ m # n => B'[m] = "gone" /\ B'[n] = "gone"
  BY DEF Promise!Move
<1> QED
  BY <1>2, <1>3, <1>4, <1>5

(* Nothing happens to a message, or some are deleted and gone.               *)
LEMMA DeleteMoves ==
  ASSUME QueueInv, QueueInv', UNCHANGED asked, UNCHANGED box \/ \E S : Delete(S)
  PROVE  Promise!Move
<1>1. \A p \in Pairs : box'[p] = box[p] \/ (box'[p] = "none" /\ box[p] # "none")
  BY DeleteKeeps DEF QueueInv
<1>2. \A p \in Pairs : Seen(p)' = Seen(p) \/ (Seen(p)' = "gone" /\ Seen(p) \in {"queued", "sent", "failed"})
  BY <1>1 DEF Seen, QueueInv, AskedOfKnown
<1>3. \A p \in Pairs : Promise!Becomes(Seen(p), Seen(p)')
  BY <1>2 DEF Promise!Becomes
<1> QED
  BY <1>2, <1>3, MoveOrNot

(* One message becomes something else, the others stay as they are.          *)
LEMMA OneMoves ==
  ASSUME QueueInv, QueueInv', NEW p,
         p \in Pairs => Promise!Becomes(Seen(p), Seen(p)'),
         \A q \in Pairs \ {p} : Seen(q)' = Seen(q)
  PROVE  Promise!Move
<1>1. \A q \in Pairs : Promise!Becomes(Seen(q), Seen(q)')
  BY DEF Promise!Becomes
<1> QED
  BY <1>1, MoveOrNot

LEMMA QueueMoves ==
  ASSUME QueueInv, QueueInv', NEW r \in Raisers, Queue(r)
  PROVE  Promise!Move
<1>1. CASE UNCHANGED <<box, asked>>
  BY <1>1, DeleteMoves
<1>2. CASE ~UNCHANGED <<box, asked>>
  <2>1. PICK t \in raiser[r].todo : Enqueue(<<raiser[r].event, t>>)
    BY <1>2 DEF Queue
  <2> DEFINE p == <<raiser[r].event, t>>
  <2>2. box[p] = "none" /\ box' = [box EXCEPT ![p] = "queued"] /\ asked' = asked \cup {p}
    BY <1>2, <2>1 DEF Enqueue
  <2>3. p \in Pairs => p \notin asked
    BY DEF Queue, QueueInv, FansOnce, Fans, EventOf, TargetOf
  <2>4. \A q \in Pairs \ {p} : box'[q] = box[q] /\ (q \in asked' <=> q \in asked)
    BY <2>2 DEF QueueInv, AskedOfKnown
  <2>5. p \in Pairs => box'[p] = "queued"
    BY <2>2 DEF QueueInv, AskedOfKnown
  <2> HIDE DEF p
  <2>6. p \in Pairs => Seen(p) = "never"
    BY <2>2, <2>3 DEF Seen
  <2>7. ASSUME NEW q \in Pairs \ {p} PROVE Seen(q)' = Seen(q)
    BY <2>4 DEF Seen
  <2>8. PICK u : u = p
    OBVIOUS
  <2>9. u \in Pairs => Seen(u) = "never" /\ Seen(u)' = "queued"
    BY <2>5, <2>6, <2>8 DEF Seen
  <2>10. u \in Pairs => Promise!Becomes(Seen(u), Seen(u)')
    BY <2>9 DEF Promise!Becomes
  <2> QED
    BY <2>7, <2>8, <2>10, OneMoves
<1> QED
  BY <1>1, <1>2

LEMMA SettledMoves ==
  ASSUME QueueInv, QueueInv', NEW p, Settled(p), UNCHANGED asked
  PROVE  Promise!Move
<1>1. \A q \in Pairs \ {p} : box'[q] = box[q]
  BY DEF Settled, QueueInv, AskedOfKnown
<1>2. p \in Pairs => box[p] = "queued" /\ box'[p] \in {"sent", "failed"}
  BY DEF Settled, QueueInv, AskedOfKnown
<1>3. \A q \in Pairs \ {p} : Seen(q)' = Seen(q)
  BY <1>1 DEF Seen
<1>4. p \in Pairs => Promise!Becomes(Seen(p), Seen(p)')
  BY <1>2 DEF Seen, Promise!Becomes
<1> QED
  BY <1>3, <1>4, OneMoves

LEMMA RunsMove ==
  ASSUME QueueInv, QueueInv', Runs
  PROVE  Promise!Move
<1>1. CASE Prune
  BY <1>1, DeleteMoves DEF Prune, history
<1>2. CASE ~Prune
  <2>1. UNCHANGED asked
    BY <1>2, RunsTouch
  <2>2. ASSUME NEW p, Settled(p) PROVE Promise!Move
    BY <2>1, <2>2, SettledMoves
  <2> QED
    BY <1>2, <2>1, <2>2, RunsTouch, DeleteMoves
<1> QED
  BY <1>1, <1>2

LEMMA StepMoves ==
  ASSUME QueueInv, QueueInv', [Next]_vars
  PROVE  Promise!Move
<1>1. CASE Happens \/ Restart
  BY <1>1, DeleteMoves DEF Happens, Happen, Age, Expire, Restart, queue, history
<1>2. CASE Manages
  BY <1>2, ManagesKeep, DeleteMoves
<1>3. CASE Raises
  <2>1. ASSUME NEW r \in Raisers, (\E e \in Events : Gather(r, e)) \/ WriteEvent(r) PROVE Promise!Move
    BY <2>1, DeleteMoves DEF Gather, WriteEvent, queue, history
  <2> QED
    BY <1>3, <2>1, QueueMoves DEF Raises
<1>4. CASE Runs
  BY <1>4, RunsMove
<1>5. CASE Minute \/ (\E p \in Pairs : Ripen(p)) \/ UNCHANGED vars
  BY <1>5, WaitsKeep, DeleteMoves
<1> QED
  BY <1>1, <1>2, <1>3, <1>4, <1>5 DEF Next

LEMMA StartsAsPromised == Init => Promise!Init
BY DEF Init, Promise!Init

(* The queue keeps what Mailbox promises: each message is asked for at most  *)
(* once in all of history, settled once, and once gone stays gone.           *)
THEOREM QueueKeepsPromises == Spec => MailboxSpec
<1>1. QueueInv /\ QueueInv' /\ [Next]_vars => Promise!Move
  BY StepMoves
<1> QED
  BY AskedForOnce, StartsAsPromised, <1>1, PTL DEF Spec, MailboxSpec, Promise!Spec
-----------------------------------------------------------------------------
(* Sequences without repetition                                              *)

Once(s) == \A i, j \in 1 .. Len(s) : s[i] = s[j] => i = j

LEMMA ElementsOf ==
  ASSUME NEW X, NEW s \in Seq(X)
  PROVE  /\ Len(s) \in Nat /\ \A i \in 1 .. Len(s) : s[i] \in X
         /\ ToSet(s) \subseteq X
         /\ \A x : x \in ToSet(s) <=> \E i \in 1 .. Len(s) : x = s[i]
BY DEF ToSet

LEMMA AsManyAsElements ==
  ASSUME NEW X, NEW s \in Seq(X), Once(s)
  PROVE  Len(s) = Cardinality(ToSet(s))
<1>1. s \in Bijection(1 .. Len(s), ToSet(s))
  BY DEF Once, ToSet, Bijection, Injection, Surjection, IsInjective
<1> QED
  BY <1>1, FS_CountingElements, ElementsOf DEF ExistsBijection

LEMMA AppendOnce ==
  ASSUME NEW X, NEW s \in Seq(X), NEW e \in X
  PROVE  /\ Append(s, e) \in Seq(X) /\ ToSet(Append(s, e)) = ToSet(s) \cup {e}
         /\ Once(s) /\ e \notin ToSet(s) => Once(Append(s, e))
<1> DEFINE a == Append(s, e)
<1>1. /\ a \in Seq(X) /\ Len(a) = Len(s) + 1 /\ Len(s) \in Nat
      /\ \A i \in 1 .. Len(s) : a[i] = s[i]
      /\ a[Len(s) + 1] = e
  BY AppendProperties
<1>2. /\ \A x : x \in ToSet(a) <=> \E i \in 1 .. Len(a) : x = a[i]
      /\ \A x : x \in ToSet(s) <=> \E i \in 1 .. Len(s) : x = s[i]
  BY <1>1, ElementsOf
<1> HIDE DEF a
<1>3. \A x : x \in ToSet(a) <=> x \in ToSet(s) \/ x = e
  BY <1>1, <1>2
<1>4. Once(s) /\ e \notin ToSet(s) => Once(a)
  BY <1>1, <1>2 DEF Once
<1> QED
  BY <1>1, <1>3, <1>4 DEF a

LEMMA ConcatOnce ==
  ASSUME NEW X, NEW s \in Seq(X), NEW t \in Seq(X)
  PROVE  /\ s \o t \in Seq(X) /\ ToSet(s \o t) = ToSet(s) \cup ToSet(t)
         /\ Once(s) /\ Once(t) /\ ToSet(s) \cap ToSet(t) = {} => Once(s \o t)
<1> DEFINE a == s \o t
<1>1. /\ a \in Seq(X) /\ Len(a) = Len(s) + Len(t) /\ Len(s) \in Nat /\ Len(t) \in Nat
      /\ \A i \in 1 .. Len(s) + Len(t) : a[i] = IF i <= Len(s) THEN s[i] ELSE t[i - Len(s)]
  BY ConcatProperties
<1> HIDE DEF a
<1>2. /\ \A x : x \in ToSet(a) <=> \E i \in 1 .. Len(a) : x = a[i]
      /\ \A x : x \in ToSet(s) <=> \E i \in 1 .. Len(s) : x = s[i]
      /\ \A x : x \in ToSet(t) <=> \E i \in 1 .. Len(t) : x = t[i]
  BY <1>1, ElementsOf
<1>3. \A i \in 1 .. Len(s) : i \in 1 .. Len(a) /\ a[i] = s[i]
  BY <1>1
<1>4. ASSUME NEW i \in 1 .. Len(t)
      PROVE  i + Len(s) \in 1 .. Len(a) /\ a[i + Len(s)] = t[i]
  <2>1. Len(a) = Len(s) + Len(t) /\ Len(s) \in Nat /\ Len(t) \in Nat
    BY <1>1
  <2>2. /\ i + Len(s) \in 1 .. Len(s) + Len(t) /\ ~(i + Len(s) <= Len(s))
        /\ (i + Len(s)) - Len(s) = i
    BY <2>1
  <2>3. a[i + Len(s)] = t[(i + Len(s)) - Len(s)]
    BY <1>1, <2>2
  <2> QED
    BY <2>1, <2>2, <2>3
<1>5. ASSUME NEW i \in 1 .. Len(a)
      PROVE  i \in 1 .. Len(s) \/ (i - Len(s) \in 1 .. Len(t) /\ a[i] = t[i - Len(s)])
  <2>1. Len(a) = Len(s) + Len(t) /\ Len(s) \in Nat /\ Len(t) \in Nat
    BY <1>1
  <2>2. CASE i <= Len(s)
    <3>1. i \in 1 .. Len(s)
      BY <2>1, <2>2
    <3> QED
      BY <3>1
  <2>3. CASE ~(i <= Len(s))
    <3>1. i - Len(s) \in 1 .. Len(t)
      BY <2>1, <2>3
    <3>2. a[i] = t[i - Len(s)]
      BY <1>1, <2>1, <2>3
    <3> QED
      BY <3>1, <3>2
  <2> QED
    BY <2>2, <2>3
<1>6. \A x : x \in ToSet(a) <=> x \in ToSet(s) \/ x \in ToSet(t)
  <2>1. \A x : x \in ToSet(a) => x \in ToSet(s) \/ x \in ToSet(t)
    <3> SUFFICES ASSUME NEW i \in 1 .. Len(a)
                 PROVE  a[i] \in ToSet(s) \/ a[i] \in ToSet(t)
      BY <1>2
    <3>1. CASE i \in 1 .. Len(s)
      BY <1>2, <1>3, <3>1
    <3>2. CASE i - Len(s) \in 1 .. Len(t) /\ a[i] = t[i - Len(s)]
      BY <1>2, <3>2
    <3> QED
      BY <1>5, <3>1, <3>2
  <2>2. \A x : x \in ToSet(s) \/ x \in ToSet(t) => x \in ToSet(a)
    <3>1. \A x : x \in ToSet(s) => x \in ToSet(a)
      BY <1>2, <1>3
    <3>2. \A x : x \in ToSet(t) => x \in ToSet(a)
      <4> SUFFICES ASSUME NEW i \in 1 .. Len(t)
                   PROVE  t[i] \in ToSet(a)
        BY <1>2
      <4> QED
        BY <1>2, <1>4
    <3> QED
      BY <3>1, <3>2
  <2> QED
    BY <2>1, <2>2
<1>7. ASSUME Once(s), Once(t), ToSet(s) \cap ToSet(t) = {}
      PROVE  Once(a)
  <2> SUFFICES ASSUME NEW i \in 1 .. Len(a), NEW j \in 1 .. Len(a), a[i] = a[j]
               PROVE  i = j
    BY DEF Once
  <2>1. CASE i \in 1 .. Len(s) /\ j \in 1 .. Len(s)
    BY <1>3, <1>7, <2>1 DEF Once
  <2>2. CASE i - Len(s) \in 1 .. Len(t) /\ j - Len(s) \in 1 .. Len(t)
    <3>1. t[i - Len(s)] = a[i] /\ t[j - Len(s)] = a[j]
      BY <1>1, <2>2
    <3>2. i - Len(s) = j - Len(s)
      BY <1>7, <2>2, <3>1 DEF Once
    <3> QED
      BY <1>1, <3>2
  <2>3. CASE i \in 1 .. Len(s) /\ j - Len(s) \in 1 .. Len(t)
    <3>1. a[i] \in ToSet(s) /\ a[j] \in ToSet(t)
      BY <1>1, <1>2, <2>3
    <3> QED
      BY <1>7, <3>1
  <2>4. CASE j \in 1 .. Len(s) /\ i - Len(s) \in 1 .. Len(t)
    <3>1. a[j] \in ToSet(s) /\ a[i] \in ToSet(t)
      BY <1>1, <1>2, <2>4
    <3> QED
      BY <1>7, <3>1
  <2> QED
    BY <1>5, <2>1, <2>2, <2>3, <2>4
<1> QED
  BY <1>1, <1>6, <1>7 DEF a

LEMMA PrefixOnce ==
  ASSUME NEW X, NEW s \in Seq(X), NEW n \in 0 .. Len(s)
  PROVE  /\ SubSeq(s, 1, n) \in Seq(X) /\ Len(SubSeq(s, 1, n)) = n
         /\ ToSet(SubSeq(s, 1, n)) \subseteq ToSet(s)
         /\ Once(s) => Once(SubSeq(s, 1, n))
<1> DEFINE a == SubSeq(s, 1, n)
<1>1. a \in Seq(X) /\ Len(a) = n /\ Len(s) \in Nat /\ \A i \in 1 .. n : a[i] = s[i]
  BY SubSeqProperties
<1>2. /\ \A x : x \in ToSet(a) <=> \E i \in 1 .. Len(a) : x = a[i]
      /\ \A x : x \in ToSet(s) <=> \E i \in 1 .. Len(s) : x = s[i]
  BY <1>1, ElementsOf
<1> HIDE DEF a
<1>3. ToSet(a) \subseteq ToSet(s) /\ (Once(s) => Once(a))
  BY <1>1, <1>2 DEF Once
<1> QED
  BY <1>1, <1>3 DEF a

LEMMA TailOnce ==
  ASSUME NEW X, NEW s \in Seq(X), s # <<>>
  PROVE  /\ Head(s) \in ToSet(s) /\ Head(s) \in X
         /\ Tail(s) \in Seq(X) /\ ToSet(Tail(s)) \subseteq ToSet(s)
         /\ Tail(s) = <<>> <=> Len(s) = 1
         /\ Once(s) => Once(Tail(s)) /\ Head(s) \notin ToSet(Tail(s))
<1> DEFINE a == Tail(s)
<1>1. /\ a \in Seq(X) /\ Len(a) = Len(s) - 1 /\ Len(s) \in Nat \ {0}
      /\ \A i \in 1 .. Len(a) : a[i] = s[i + 1]
      /\ Head(s) = s[1] /\ Head(s) \in X
  BY HeadTailProperties, EmptySeq
<1> HIDE DEF a
<1>2. /\ \A x : x \in ToSet(a) <=> \E i \in 1 .. Len(a) : x = a[i]
      /\ \A x : x \in ToSet(s) <=> \E i \in 1 .. Len(s) : x = s[i]
  BY <1>1, ElementsOf
<1>3. a = <<>> <=> Len(a) = 0
  BY <1>1, EmptySeq
<1>4. \A i \in 1 .. Len(a) : i + 1 \in 1 .. Len(s) /\ i + 1 # 1
  BY <1>1
<1>5. ToSet(a) \subseteq ToSet(s) /\ Head(s) \in ToSet(s)
  BY <1>1, <1>2, <1>4
<1>6. Once(s) => Once(a) /\ Head(s) \notin ToSet(a)
  BY <1>1, <1>2, <1>4 DEF Once
<1> QED
  BY <1>1, <1>3, <1>5, <1>6 DEF a

(* What SetToSeqs puts in a row is all of the set, each once.                *)
LEMMA OrdersAll ==
  ASSUME NEW S, IsFiniteSet(S), NEW s \in SetToSeqs(S)
  PROVE  s \in Seq(S) /\ Once(s) /\ ToSet(s) = S
<1> DEFINE D == 1 .. Cardinality(S)
<1>1. Cardinality(S) \in Nat
  BY FS_CardinalityType
<1>2. s \in [D -> S] /\ \A i, j \in D : i # j => s[i] # s[j]
  BY DEF SetToSeqs
<1>3. s \in Seq(S) /\ Len(s) = Cardinality(S)
  BY <1>1, <1>2
<1>4. s \in Injection(D, S)
  BY <1>2 DEF Injection, IsInjective
<1>5. Cardinality(D) = Cardinality(S)
  BY <1>1, FS_Interval
<1>6. s \in Surjection(D, S)
  BY <1>4, <1>5, FS_Injection
<1>7. \A x \in S : \E i \in D : s[i] = x
  BY <1>6 DEF Surjection
<1>8. ToSet(s) = S
  <2>1. ToSet(s) \subseteq S
    BY <1>3, ElementsOf
  <2>2. \A x \in S : x \in ToSet(s)
    BY <1>3, <1>7, ElementsOf
  <2> QED
    BY <2>1, <2>2
<1> QED
  BY <1>2, <1>3, <1>8 DEF Once

LEMMA WithoutIs ==
  ASSUME NEW X, NEW s \in Seq(X), NEW S
  PROVE  /\ Without(s, S) \in Seq(X)
         /\ ToSet(Without(s, S)) = ToSet(s) \ S
         /\ Once(s) => Once(Without(s, S))
<1> DEFINE L       == Len(s)
           Step(f) == [n \in 0 .. L |->
                         IF n = 0 THEN <<>>
                         ELSE IF s[n] \in S THEN f[n - 1] ELSE Append(f[n - 1], s[n])]
           kept    == CHOOSE f : f = Step(f)
<1>1. L \in Nat /\ \A i \in 1 .. L : s[i] \in X
  OBVIOUS
<1>2. \E f : f = Step(f)
  <2> DEFINE D == [n \in 1 .. L |-> [x \in Seq(X) |-> IF s[n] \in S THEN x ELSE Append(x, s[n])]]
  <2>1. D \in [1 .. L -> [Seq(X) -> Seq(X)]]
    BY <1>1, AppendProperties
  <2>2. <<>> \in Seq(X)
    OBVIOUS
  <2>3. PICK f \in [0 .. L -> Seq(X)] : IsFold(f, L, <<>>, D)
    <3> DEFINE Y == Seq(X)
    <3>1. <<>> \in Y /\ D \in [1 .. L -> [Y -> Y]] /\ L \in Nat
      BY <1>1, <2>1, <2>2
    <3> HIDE DEF D, L, Y, Step, kept
    <3>2. \E f \in [0 .. L -> Y] : IsFold(f, L, <<>>, D)
      BY <3>1, FoldExists
    <3> QED
      BY <3>2 DEF Y
  <2>4. ASSUME NEW n \in 1 .. L
        PROVE  f[n] = IF s[n] \in S THEN f[n - 1] ELSE Append(f[n - 1], s[n])
    <3> HIDE DEF L, D
    <3>0. L \in Nat
      BY <1>1
    <3>1. n - 1 \in 0 .. L
      BY <3>0
    <3>3. f[n - 1] \in Seq(X)
      BY <3>1
    <3>2. f[n] = D[n][f[n - 1]]
      BY <2>3 DEF IsFold
    <3> QED
      BY <3>2, <3>3 DEF D
  <2>5. f = Step(f)
    <3> DEFINE g == Step(f)
    <3>1. f[0] = <<>>
      BY <2>3 DEF IsFold
    <3>2. ASSUME NEW n \in 0 .. L PROVE g[n] = f[n]
      <4>1. CASE n = 0
        BY <3>1, <4>1
      <4>2. CASE n # 0
        <5>1. n \in 1 .. L
          BY <4>2
        <5> HIDE DEF L
        <5> QED
          BY <2>4, <4>2, <5>1
      <4> QED
        BY <4>1, <4>2
    <3>3. f = [n \in 0 .. L |-> f[n]] /\ g = [n \in 0 .. L |-> g[n]]
      OBVIOUS
    <3> HIDE DEF g, L, kept
    <3>4. f = g
      BY <3>2, <3>3
    <3> QED
      BY <3>4 DEF g
  <2> QED
    BY <2>5
<1>3. kept = Step(kept)
  <2> HIDE DEF Step
  <2> QED
    BY <1>2
<1>4. Without(s, S) = kept[L]
  BY DEF Without
<1> HIDE DEF kept
<1> DEFINE Good(n) == /\ kept[n] \in Seq(X)
                      /\ \A x : (\E i \in 1 .. Len(kept[n]) : x = kept[n][i])
                                  <=> (\E i \in 1 .. n : x = s[i]) /\ x \notin S
                      /\ Once(s) => Once(kept[n])
           T       == {n \in Nat : n <= L => Good(n)}
<1>5. 0 \in T
  <2>1. kept[0] = <<>>
    BY <1>1, <1>3
  <2>2. Good(0)
    BY <2>1 DEF Once
  <2> QED
    BY <2>2
<1>6. ASSUME NEW n \in Nat, n \in T
      PROVE  n + 1 \in T
  <2> SUFFICES ASSUME n + 1 <= L
               PROVE  Good(n + 1)
    OBVIOUS
  <2>1. Good(n)
    BY <1>6
  <2>2. n + 1 \in 0 .. L /\ n + 1 # 0 /\ (n + 1) - 1 = n /\ s[n + 1] \in X
    BY <1>1
  <2>3. kept[n + 1] = IF s[n + 1] \in S THEN kept[n] ELSE Append(kept[n], s[n + 1])
    BY <1>3, <2>2
  <2>4. \A x : (\E i \in 1 .. n + 1 : x = s[i]) <=> (\E i \in 1 .. n : x = s[i]) \/ x = s[n + 1]
    OBVIOUS
  <2>5. CASE s[n + 1] \in S
    BY <2>1, <2>3, <2>4, <2>5
  <2>6. CASE s[n + 1] \notin S
    <3> DEFINE k == kept[n]
               e == s[n + 1]
               a == Append(k, e)
    <3>1. k \in Seq(X) /\ e \in X /\ kept[n + 1] = a
      BY <2>1, <2>2, <2>3, <2>6
    <3>2. /\ a \in Seq(X) /\ Len(a) = Len(k) + 1 /\ Len(k) \in Nat
          /\ \A i \in 1 .. Len(k) : a[i] = k[i]
          /\ a[Len(k) + 1] = e
      BY <3>1, AppendProperties
    <3>3. \A x : (\E i \in 1 .. Len(a) : x = a[i]) <=> (\E i \in 1 .. Len(k) : x = k[i]) \/ x = e
      <4> HIDE DEF a, k, e
      <4> QED
        BY <3>2
    <3>4. Once(s) => Once(a)
      <4> SUFFICES ASSUME Once(s)
                   PROVE  Once(a)
        OBVIOUS
      <4>1. \A i \in 1 .. Len(k) : k[i] # e
        <5>1. \A i \in 1 .. n : s[i] # e
          BY <1>1 DEF Once
        <5> QED
          BY <2>1, <5>1
      <4>2. Once(k)
        BY <2>1
      <4> HIDE DEF a, k, e
      <4> QED
        BY <3>2, <4>1, <4>2 DEF Once
    <3>5. \A x : (\E i \in 1 .. Len(k) : x = k[i]) <=> (\E i \in 1 .. n : x = s[i]) /\ x \notin S
      BY <2>1
    <3>6. \A x : (\E i \in 1 .. Len(a) : x = a[i]) <=> (\E i \in 1 .. n + 1 : x = s[i]) /\ x \notin S
      <4> HIDE DEF a, k
      <4> QED
        BY <2>4, <2>6, <3>3, <3>5
    <3> HIDE DEF a, k, e
    <3> QED
      BY <3>1, <3>2, <3>4, <3>6
  <2> QED
    BY <2>5, <2>6
<1>7. Nat \subseteq T
  <2> HIDE DEF T
  <2> QED
    BY <1>5, <1>6, NatByStep
<1>8. Good(L)
  <2>1. L \in T
    BY <1>1, <1>7
  <2>2. \A n \in T : n <= L => Good(n)
    OBVIOUS
  <2> HIDE DEF Good, T, L
  <2> QED
    BY <1>1, <2>1, <2>2
<1>9. \A x : x \in ToSet(kept[L]) <=> \E i \in 1 .. Len(kept[L]) : x = kept[L][i]
  BY <1>8 DEF ToSet
<1>10. \A x : x \in ToSet(s) <=> \E i \in 1 .. L : x = s[i]
  BY DEF ToSet
<1>11. ToSet(kept[L]) = ToSet(s) \ S
  BY <1>8, <1>9, <1>10
<1> QED
  BY <1>4, <1>8, <1>11

-----------------------------------------------------------------------------
(* What is where: the inductive invariant of the queue.                      *)

Lists == [Ids -> Row \cup {NoRow}]

(* What a handler and a raiser have in hand.                                 *)
InHand ==
  /\ DOMAIN admin = Admins
  /\ \A a \in Admins :
       /\ admin[a].pc = "insert" => admin[a].row \in Row
       /\ admin[a].pc = "write" => admin[a].id \in Ids /\ admin[a].row \in Row
       /\ admin[a].pc = "store" => admin[a].list \in Lists
  /\ \A r \in Raisers :
       /\ raiser[r].pc = "insert" => raiser[r].event \in Events /\ raiser[r].list \in Lists
       /\ raiser[r].pc = "fan" => raiser[r].event \in Events /\ raiser[r].todo \subseteq Ids

(* The tables, and the lists read from them.                                 *)
Tables ==
  /\ rows \in Lists /\ mem \in Lists /\ lastId \in 0 .. MaxIds
  /\ \A t \in Ids : Exists(t) => t <= lastId
  /\ happened \in [Events -> Nat]
  /\ known \subseteq Events /\ expired \subseteq known \cap stale
  /\ attempts \in [Pairs -> 0 .. GiveUp] /\ tries \in [Pairs -> 0 .. GiveUp]
  /\ taken \in [Pairs -> 0 .. 2] /\ used \in [Ids -> 0 .. PerMinute]

(* Every queued delivery waits in one place, once.                           *)
InPlaces ==
  /\ line \in Seq(Pairs) /\ Once(line) /\ late \subseteq Pairs /\ turn \subseteq Pairs
  /\ ToSet(line) \cap late = {} /\ ToSet(line) \cap turn = {} /\ late \cap turn = {}
  /\ ToSet(line) \cup late \cup turn = {p \in Pairs : box[p] = "queued"}
  /\ \A p \in Pairs : box[p] # "none" => EventOf(p) \in known /\ Exists(TargetOf(p))

(* The batch is of deliveries that were asked for, and those still queued    *)
(* are still due.                                                            *)
BatchInLine ==
  /\ loop.pc \in {"drain", "sample", "item", "note"}
  /\ DOMAIN loop = {"pc", "batch", "seen", "answer"}
  /\ loop.batch \in Seq(Pairs) /\ Once(loop.batch)
  /\ loop.batch = <<>> <=> loop.pc = "drain"
  /\ \A p \in ToSet(loop.batch) : p \in asked /\ (box[p] = "queued" => p \in ToSet(line))

Noting(p) == loop.pc = "note" /\ Item = p

(* What was taken, and finstats knows it, is about to be noted, or will not  *)
(* be sent again.                                                            *)
TakenOnce ==
  \A p \in Pairs : taken[p] # 0 /\ p \notin unnoted =>
    /\ taken[p] = 1 /\ p \in asked
    /\ \/ Noting(p) /\ loop.answer = "taken"
       \/ box[p] # "queued" /\ p \notin ToSet(loop.batch)

(* An attempt that is counted was refused, unless the last one was taken.    *)
AttemptsAreRefusals ==
  \A p \in Pairs :
    /\ box[p] # "sent" => attempts[p] <= tries[p]
    /\ box[p] = "queued" /\ Noting(p) /\ loop.answer # "taken" =>
         Least(GiveUp, attempts[p] + 1) <= tries[p]
    /\ box[p] = "failed" => tries[p] = GiveUp

(* A destination that memory has heard of and lacks now is no more.          *)
HasHeard(t) == t <= lastId /\ (Exists(t) => t \in Listed(mem))

MemoryIsRight ==
  /\ \A t \in Listed(mem) : t <= lastId
  /\ \A a \in Admins : admin[a].pc = "store" => admin[a].list = rows
  /\ \A r \in Raisers :
       /\ raiser[r].pc = "insert" => \A t \in Listed(raiser[r].list) : HasHeard(t)
       /\ raiser[r].pc = "fan" => \A t \in raiser[r].todo : HasHeard(t)
  /\ \A p \in Pairs : box[p] # "none" => HasHeard(TargetOf(p))
  /\ \A p \in ToSet(loop.batch) :
       /\ HasHeard(TargetOf(p))
       /\ loop.pc \in {"item", "note"} /\ TargetOf(p) \notin loop.seen => ~Exists(TargetOf(p))

DeliveriesInv == Tables /\ InHand /\ InPlaces /\ BatchInLine /\ TakenOnce /\ AttemptsAreRefusals

-----------------------------------------------------------------------------
(* The tables and what is in hand                                            *)

LEMMA PairsAre ==
  ASSUME NEW p \in Pairs
  PROVE  EventOf(p) \in Events /\ TargetOf(p) \in Ids /\ p = <<EventOf(p), TargetOf(p)>>
BY DEF Pairs, EventOf, TargetOf

LEMMA PairsAreFinite == IsFiniteSet(Pairs)
<1>1. IsFiniteSet(Ids)
  BY FS_Interval, DeliveriesAssumption DEF Ids
<1> QED
  BY <1>1, FS_Product, DeliveriesAssumption DEF Pairs

LEMMA HappeningsNat == Happenings \in Nat
<1>1. IsFiniteSet({e \in Events : happened[e] # 0})
  BY FS_Subset, DeliveriesAssumption
<1> QED
  BY <1>1, FS_CardinalityType DEF Happenings

(* The item in hand, and the batch after it.                                 *)
LEMMA ItemInHand ==
  ASSUME BatchInLine, loop.pc # "drain"
  PROVE  Item \in Pairs /\ Item \in ToSet(loop.batch)
BY TailOnce DEF BatchInLine, Item

LEMMA FollowingBatch ==
  ASSUME BatchInLine, loop.pc # "drain", loop' = Following
  PROVE  /\ loop'.pc \in {"drain", "item"} /\ DOMAIN loop' = {"pc", "batch", "seen", "answer"}
         /\ loop'.batch \in Seq(Pairs) /\ Once(loop'.batch)
         /\ loop'.batch = <<>> <=> loop'.pc = "drain"
         /\ ToSet(loop'.batch) \subseteq ToSet(loop.batch) \ {Item}
         /\ loop'.pc = "item" => loop'.seen = loop.seen
<1>1. /\ Head(loop.batch) \in ToSet(loop.batch)
      /\ Tail(loop.batch) \in Seq(Pairs) /\ ToSet(Tail(loop.batch)) \subseteq ToSet(loop.batch)
      /\ Tail(loop.batch) = <<>> <=> Len(loop.batch) = 1
      /\ Once(Tail(loop.batch)) /\ Head(loop.batch) \notin ToSet(Tail(loop.batch))
  BY TailOnce DEF BatchInLine
<1>2. CASE Len(loop.batch) = 1
  <2>1. loop' = Draining
    BY <1>2 DEF Following
  <2>2. ToSet(<<>>) = {} /\ Once(<<>>)
    BY DEF ToSet, Once
  <2> QED
    BY <2>1, <2>2 DEF Draining
<1>3. CASE Len(loop.batch) # 1
  <2>1. loop' = [loop EXCEPT !.pc = "item", !.batch = Tail(loop.batch), !.answer = "none"]
    BY <1>3 DEF Following
  <2>2. /\ loop'.pc = "item" /\ loop'.batch = Tail(loop.batch) /\ loop'.seen = loop.seen
        /\ DOMAIN loop' = DOMAIN loop
    BY <2>1 DEF BatchInLine
  <2> QED
    BY <1>1, <1>3, <2>2 DEF BatchInLine, Item
<1> QED
  BY <1>2, <1>3

LEMMA TablesStep ==
  ASSUME Tables, InHand, BatchInLine, [Next]_vars
  PROVE  Tables'
<1>1. CASE UNCHANGED <<rows, lastId, mem, happened, known, expired, stale, attempts, tries, taken, used>>
  BY <1>1 DEF Tables, Exists
<1>2. ASSUME NEW e \in Events, Happen(e)
      PROVE  Tables'
  <2>1. UNCHANGED <<rows, lastId, mem, known, expired, stale, attempts, tries, taken, used>>
    BY <1>2 DEF Happen, targets, queue, history
  <2>2. happened' = [happened EXCEPT ![e] = Happenings + 1]
    BY <1>2 DEF Happen
  <2> QED
    BY <2>1, <2>2, HappeningsNat DEF Tables, Exists
<1>3. ASSUME NEW e \in Events, Age(e) \/ Expire(e)
      PROVE  Tables'
  <2>1. UNCHANGED <<rows, lastId, mem, known, happened, attempts, tries, taken, used>>
    BY <1>3 DEF Age, Expire, targets, queue, history
  <2>2. expired' \subseteq known \cap stale'
    BY <1>3 DEF Age, Expire, Tables
  <2> QED
    BY <2>1, <2>2 DEF Tables, Exists
<1>4. ASSUME NEW a \in Admins, Insert(a) \/ Write(a)
      PROVE  Tables'
  <2>1. UNCHANGED <<mem, known, happened, expired, stale, attempts, tries, taken, used>>
    BY <1>4 DEF Insert, Write, queue, world, history
  <2>2. rows' \in Lists /\ lastId' \in 0 .. MaxIds /\ \A t \in Ids : Exists(t)' => t <= lastId'
    <3>1. CASE Insert(a)
      <4>1. lastId' = lastId + 1 /\ lastId' \in Ids /\ admin[a].row \in Row
        BY <1>4, <3>1, DeliveriesAssumption DEF Insert, Tables, InHand, Ids, Write
      <4>2. rows' = [rows EXCEPT ![lastId'] = admin[a].row]
        BY <3>1 DEF Insert
      <4> QED
        BY <4>1, <4>2, DeliveriesAssumption DEF Tables, Lists, Exists, Ids
    <3>2. CASE Write(a)
      <4>1. admin[a].id \in Ids /\ admin[a].row \in Row /\ UNCHANGED lastId
        BY <3>2 DEF Write, InHand
      <4>2. rows' = IF Exists(admin[a].id) THEN [rows EXCEPT ![admin[a].id] = admin[a].row] ELSE rows
        BY <3>2 DEF Write
      <4> QED
        BY <4>1, <4>2 DEF Tables, Lists, Exists
    <3> QED
      BY <1>4, <3>1, <3>2
  <2> QED
    BY <2>1, <2>2 DEF Tables
<1>5. ASSUME NEW a \in Admins, NEW t \in Ids, Forget(a, t)
      PROVE  Tables'
  <2>1. UNCHANGED <<lastId, mem, known, happened, expired, stale, tries, taken, used>>
    BY <1>5 DEF Forget, world, history
  <2>2. rows' = [rows EXCEPT ![t] = NoRow]
    BY <1>5 DEF Forget
  <2>3. attempts' \in [Pairs -> 0 .. GiveUp]
    BY <1>5, DeliveriesAssumption DEF Forget, Delete, Tables
  <2> QED
    BY <2>1, <2>2, <2>3 DEF Tables, Lists, Exists
<1>6. ASSUME NEW a \in Admins, Store(a)
      PROVE  Tables'
  <2>1. UNCHANGED <<rows, lastId, known, happened, expired, stale, attempts, tries, taken, used>>
    BY <1>6 DEF Store, queue, world, history
  <2>2. mem' \in Lists
    BY <1>6 DEF Store, InHand
  <2> QED
    BY <2>1, <2>2 DEF Tables, Exists
<1>7. ASSUME NEW r \in Raisers, WriteEvent(r)
      PROVE  Tables'
  <2>1. UNCHANGED <<rows, lastId, mem, happened, expired, stale, attempts, tries, taken, used>>
    BY <1>7 DEF WriteEvent, targets, queue, world
  <2>2. raiser[r].event \in Events /\ known' \subseteq known \cup {raiser[r].event} /\ known \subseteq known'
    BY <1>7 DEF WriteEvent, InHand
  <2> QED
    BY <2>1, <2>2 DEF Tables, Exists
<1>8. CASE Orphan \/ Note
  <2>1. UNCHANGED <<rows, lastId, mem, known, happened, expired, stale, tries, taken, used>>
    BY <1>8 DEF Orphan, Note, targets, world, history
  <2>2. attempts' \in [Pairs -> 0 .. GiveUp]
    <3>1. CASE Orphan
      BY <3>1, DeliveriesAssumption DEF Orphan, Delete, Tables, queue
    <3>2. CASE Note
      <4>1. Item \in Pairs
        BY <3>2, ItemInHand DEF Note
      <4>2. Least(GiveUp, attempts[Item] + 1) \in 0 .. GiveUp
        BY <4>1, DeliveriesAssumption DEF Tables, Least
      <4> QED
        BY <3>2, <4>2 DEF Note, Record, Tables
    <3> QED
      BY <1>8, <3>1, <3>2
  <2> QED
    BY <2>1, <2>2 DEF Tables, Exists
<1>9. ASSUME NEW answer, Send(answer)
      PROVE  Tables'
  <2>1. UNCHANGED <<rows, lastId, mem, known, happened, expired, stale, attempts>>
    BY <1>9 DEF Send, targets, queue, world
  <2>2. Item \in Pairs /\ TargetOf(Item) \in Ids
    BY <1>9, ItemInHand, PairsAre DEF Send
  <2>3. used' = [used EXCEPT ![TargetOf(Item)] = used[TargetOf(Item)] + 1] /\ used[TargetOf(Item)] < PerMinute
    BY <1>9, <2>2, DeliveriesAssumption DEF Send, OverTheMinute, Tables
  <2>4. used' \in [Ids -> 0 .. PerMinute]
    BY <2>2, <2>3, DeliveriesAssumption DEF Tables
  <2>5. taken' \in [Pairs -> 0 .. 2] /\ tries' \in [Pairs -> 0 .. GiveUp]
    <3>1. Least(2, taken[Item] + 1) \in 0 .. 2 /\ Least(GiveUp, tries[Item] + 1) \in 0 .. GiveUp
      BY <2>2, DeliveriesAssumption DEF Tables, Least
    <3>2. \/ taken' = [taken EXCEPT ![Item] = Least(2, taken[Item] + 1)] /\ UNCHANGED tries
          \/ tries' = [tries EXCEPT ![Item] = Least(GiveUp, tries[Item] + 1)] /\ UNCHANGED taken
      BY <1>9 DEF Send
    <3> QED
      BY <3>1, <3>2 DEF Tables
  <2> QED
    BY <2>1, <2>4, <2>5 DEF Tables, Exists
<1>10. CASE Prune
  <2>1. UNCHANGED <<rows, lastId, mem, happened, stale, tries, taken, used>>
    BY <1>10 DEF Prune, targets, history
  <2>2. known' \subseteq known /\ expired' = {}
    BY <1>10 DEF Prune
  <2>3. attempts' \in [Pairs -> 0 .. GiveUp]
    BY <1>10, DeliveriesAssumption DEF Prune, Delete, Tables
  <2> QED
    BY <2>1, <2>2, <2>3 DEF Tables, Exists
<1>11. CASE Minute \/ Restart
  <2>1. UNCHANGED <<rows, lastId, known, happened, expired, stale, attempts, tries, taken>>
    BY <1>11 DEF Minute, Restart, targets, world, history, queue
  <2>2. used' = [t \in Ids |-> 0] /\ mem' \in {mem, rows}
    BY <1>11 DEF Minute, Restart, targets
  <2> QED
    BY <2>1, <2>2, DeliveriesAssumption DEF Tables, Exists
<1>12. ASSUME NEW a \in Admins,
              (\E w \in Wishes : Count(a, w)) \/ (\E t \in Ids : Edit(a, t)) \/ Load(a)
       PROVE  Tables'
  BY <1>1, <1>12 DEF Count, Edit, Load, queue, world, history
<1>13. ASSUME NEW r \in Raisers, (\E e \in Events : Gather(r, e)) \/ Queue(r)
       PROVE  Tables'
  BY <1>1, <1>13 DEF Gather, Queue, targets, queue, world, history
<1>14. CASE Fetch \/ Sample \/ Hold \/ (\E p \in Pairs : Ripen(p)) \/ UNCHANGED vars
  BY <1>1, <1>14 DEF Fetch, Sample, Hold, Ripen, vars, targets, queue, world, history
<1> QED
  BY <1>2, <1>3, <1>4, <1>5, <1>6, <1>7, <1>8, <1>9, <1>10, <1>11, <1>12, <1>13, <1>14
  DEF Next, Happens, Manages, Raises, Runs

LEMMA EditsAreWishes ==
  ASSUME NEW w \in Wish
  PROVE  Edits(w) \subseteq Wish
<1>1. [w EXCEPT !.enabled = ~w.enabled] \in Wish
  BY DEF Wish
<1>2. ASSUME NEW v \in Wishes
      PROVE  [w EXCEPT !.events = v.events, !.min = v.min] \in Wish
  BY DeliveriesAssumption DEF Wish
<1> QED
  BY <1>1, <1>2 DEF Edits

LEMMA OnwardsIs ==
  ASSUME NEW e, NEW todo
  PROVE  /\ Onwards(e, todo).pc # "insert"
         /\ Onwards(e, todo).pc = "fan" => Onwards(e, todo).event = e /\ Onwards(e, todo).todo = todo
BY DEF Onwards, Resting

LEMMA InHandStep ==
  ASSUME Tables, InHand, QueueInv, [Next]_vars
  PROVE  InHand'
<1>1. CASE UNCHANGED <<admin, raiser>>
  BY <1>1 DEF InHand
<1>2. ASSUME NEW a \in Admins, NEW v, admin' = [admin EXCEPT ![a] = v], UNCHANGED raiser,
             v.pc = "insert" => v.row \in Row,
             v.pc = "write" => v.id \in Ids /\ v.row \in Row,
             v.pc = "store" => v.list \in Lists
      PROVE  InHand'
  BY <1>2 DEF InHand
<1>3. ASSUME NEW r \in Raisers, NEW v, raiser' = [raiser EXCEPT ![r] = v], UNCHANGED admin,
             v.pc = "insert" => v.event \in Events /\ v.list \in Lists,
             v.pc = "fan" => v.event \in Events /\ v.todo \subseteq Ids
      PROVE  InHand'
  BY <1>3 DEF InHand, QueueInv, FansOnce
<1>4. ASSUME NEW a \in Admins, NEW w \in Wishes, Count(a, w)
      PROVE  InHand'
  <2> DEFINE v == [pc |-> "insert", row |-> [wish |-> w, born |-> Happenings]]
  <2>1. admin' = [admin EXCEPT ![a] = v] /\ UNCHANGED raiser
    BY <1>4 DEF Count
  <2>2. v.row \in Row
    BY HappeningsNat, DeliveriesAssumption DEF Row
  <2> QED
    BY <1>2, <2>1, <2>2
<1>5. ASSUME NEW a \in Admins, Insert(a) \/ Write(a) \/ (\E t \in Ids : Forget(a, t))
      PROVE  InHand'
  BY <1>2, <1>5 DEF Insert, Write, Forget
<1>6. ASSUME NEW a \in Admins, NEW t \in Ids, Edit(a, t)
      PROVE  InHand'
  <2>1. PICK w \in Edits(rows[t].wish) :
          admin' = [admin EXCEPT ![a] = [pc |-> "write", id |-> t, row |-> [rows[t] EXCEPT !.wish = w]]]
    BY <1>6 DEF Edit
  <2>2. rows[t] \in Row
    BY <1>6 DEF Edit, Exists, Tables, Lists
  <2>3. w \in Wish
    BY <2>2, EditsAreWishes DEF Row
  <2>4. [rows[t] EXCEPT !.wish = w] \in Row
    BY <2>2, <2>3 DEF Row
  <2>5. UNCHANGED raiser
    BY <1>6 DEF Edit
  <2> QED
    BY <1>2, <2>1, <2>4, <2>5
<1>7. ASSUME NEW a \in Admins, Load(a) \/ Store(a)
      PROVE  InHand'
  BY <1>2, <1>7 DEF Load, Store, Resting, Tables
<1>8. ASSUME NEW r \in Raisers, NEW e \in Events, Gather(r, e)
      PROVE  InHand'
  BY <1>3, <1>8 DEF Gather, Tables, targets
<1>9. ASSUME NEW r \in Raisers, WriteEvent(r)
      PROVE  InHand'
  <2> DEFINE e    == raiser[r].event
             todo == IF Historic(e) THEN {} ELSE {t \in Ids : WantedBy(raiser[r].list[t], e)}
  <2>1. e \in Events /\ todo \subseteq Ids /\ UNCHANGED admin
    BY <1>9 DEF WriteEvent, InHand, targets
  <2>2. raiser' = [raiser EXCEPT ![r] = Resting] \/ raiser' = [raiser EXCEPT ![r] = Onwards(e, todo)]
    BY <1>9 DEF WriteEvent
  <2> HIDE DEF todo
  <2>3. CASE raiser' = [raiser EXCEPT ![r] = Resting]
    BY <1>3, <2>1, <2>3 DEF Resting
  <2>4. CASE raiser' = [raiser EXCEPT ![r] = Onwards(e, todo)]
    <3>1. PICK v : v = Onwards(e, todo)
      OBVIOUS
    <3>2. v.pc # "insert" /\ (v.pc = "fan" => v.event \in Events /\ v.todo \subseteq Ids)
      BY <2>1, <3>1, OnwardsIs
    <3> QED
      BY <1>3, <2>1, <2>4, <3>1, <3>2
  <2> QED
    BY <2>2, <2>3, <2>4
<1>10. ASSUME NEW r \in Raisers, Queue(r)
       PROVE  InHand'
  <2>1. PICK t : \/ raiser' = [raiser EXCEPT ![r] = Resting]
                 \/ raiser' = [raiser EXCEPT ![r] = Onwards(raiser[r].event, raiser[r].todo \ {t})]
    BY <1>10 DEF Queue, QueueInv, FansOnce
  <2>2. raiser[r].event \in Events /\ raiser[r].todo \ {t} \subseteq Ids /\ UNCHANGED admin
    BY <1>10 DEF Queue, InHand, targets
  <2>3. CASE raiser' = [raiser EXCEPT ![r] = Resting]
    BY <1>3, <2>2, <2>3 DEF Resting
  <2>4. CASE raiser' = [raiser EXCEPT ![r] = Onwards(raiser[r].event, raiser[r].todo \ {t})]
    <3>1. PICK v : v = Onwards(raiser[r].event, raiser[r].todo \ {t})
      OBVIOUS
    <3>2. v.pc # "insert" /\ (v.pc = "fan" => v.event \in Events /\ v.todo \subseteq Ids)
      BY <2>2, <3>1, OnwardsIs
    <3> QED
      BY <1>3, <2>2, <2>4, <3>1, <3>2
  <2> QED
    BY <2>1, <2>3, <2>4
<1>11. CASE Restart
  <2>1. admin' = [a \in Admins |-> Resting] /\ raiser' = [r \in Raisers |-> Resting]
    BY <1>11 DEF Restart
  <2> QED
    BY <2>1 DEF InHand, Resting
<1>12. CASE Happens
  BY <1>1, <1>12 DEF Happens, Happen, Age, Expire, targets
<1>13. CASE Runs
  BY <1>1, <1>13 DEF Runs, Fetch, Sample, Orphan, Hold, Note, Prune, Send, targets
<1>14. CASE Minute \/ (\E p \in Pairs : Ripen(p)) \/ UNCHANGED vars
  BY <1>1, <1>14 DEF Minute, Ripen, vars, targets
<1> QED
  BY <1>4, <1>5, <1>6, <1>7, <1>8, <1>9, <1>10, <1>11, <1>12, <1>13, <1>14 DEF Next, Manages, Raises

-----------------------------------------------------------------------------
(* Where the queued deliveries are                                           *)

Queued == {p \in Pairs : box[p] = "queued"}

(* Deleting takes away from every place what it takes from the table.        *)
LEMMA DeletePlaces ==
  ASSUME InPlaces, QueueInv, NEW S, Delete(S),
         \A p \in Pairs \ S : box[p] # "none" => EventOf(p) \in known' /\ Exists(TargetOf(p))'
  PROVE  InPlaces'
<1>1. line' \in Seq(Pairs) /\ Once(line') /\ ToSet(line') = ToSet(line) \ S
  BY WithoutIs DEF Delete, InPlaces
<1>2. late' = late \ S /\ turn' = turn \ S
  BY DEF Delete
<1>3. \A p \in Pairs : box'[p] = IF p \in S THEN "none" ELSE box[p]
  BY DEF Delete
<1>4. ToSet(line') \cup late' \cup turn' = {p \in Pairs : box'[p] = "queued"}
  BY <1>1, <1>2, <1>3 DEF InPlaces
<1> QED
  BY <1>1, <1>2, <1>3, <1>4 DEF InPlaces

LEMMA OutIs ==
  ASSUME InPlaces, NEW p
  PROVE  Out(p) \in Seq(Pairs) /\ Once(Out(p)) /\ ToSet(Out(p)) = ToSet(line) \ {p}
BY WithoutIs DEF Out, InPlaces

LEMMA PlacesStep ==
  ASSUME Tables, InHand, QueueInv, InPlaces, BatchInLine, [Next]_vars
  PROVE  InPlaces'
<1>1. CASE UNCHANGED <<box, line, late, turn, known, rows>>
  BY <1>1 DEF InPlaces, Exists
<1>2. ASSUME NEW a \in Admins, Insert(a) \/ Write(a)
      PROVE  InPlaces'
  <2>1. UNCHANGED <<box, line, late, turn, known>>
    BY <1>2 DEF Insert, Write, queue
  <2>2. \A t \in Ids : Exists(t) => Exists(t)'
    <3>1. admin[a].row # NoRow
      BY <1>2, DeliveriesAssumption DEF InHand, Insert, Write
    <3>2. PICK t : rows' = rows \/ rows' = [rows EXCEPT ![t] = admin[a].row]
      BY <1>2 DEF Insert, Write
    <3> QED
      BY <3>1, <3>2 DEF Exists, Tables, Lists
  <2> QED
    BY <2>1, <2>2, PairsAre DEF InPlaces
<1>3. ASSUME NEW a \in Admins, NEW t \in Ids, Forget(a, t)
      PROVE  InPlaces'
  <2> DEFINE S == {p \in Pairs : TargetOf(p) = t}
  <2>1. Delete(S) /\ rows' = [rows EXCEPT ![t] = NoRow] /\ UNCHANGED known
    BY <1>3 DEF Forget
  <2>2. \A u \in Ids : u # t /\ Exists(u) => Exists(u)'
    BY <2>1 DEF Exists, Tables, Lists
  <2>3. \A p \in Pairs \ S : box[p] # "none" => EventOf(p) \in known' /\ Exists(TargetOf(p))'
    BY <2>1, <2>2, PairsAre DEF InPlaces
  <2> QED
    BY <2>1, <2>3, DeletePlaces
<1>4. ASSUME NEW r \in Raisers, WriteEvent(r)
      PROVE  InPlaces'
  <2>1. UNCHANGED <<box, line, late, turn, rows>> /\ known \subseteq known'
    BY <1>4 DEF WriteEvent, queue, targets
  <2> QED
    BY <2>1 DEF InPlaces, Exists
<1>5. ASSUME NEW r \in Raisers, Queue(r)
      PROVE  InPlaces'
  <2>1. UNCHANGED <<late, turn, known, rows>>
    BY <1>5 DEF Queue, targets
  <2>2. CASE UNCHANGED <<box, line>>
    BY <1>1, <2>1, <2>2
  <2>3. CASE ~UNCHANGED <<box, line>>
    <3>1. PICK t \in raiser[r].todo : Exists(t) /\ Enqueue(<<raiser[r].event, t>>)
      BY <1>5, <2>3 DEF Queue
    <3>2. PICK p \in Pairs : p = <<raiser[r].event, t>> /\ EventOf(p) = raiser[r].event /\ TargetOf(p) = t
      BY <1>5, <3>1 DEF Queue, InHand, Pairs, EventOf, TargetOf
    <3>3. box[p] = "none" /\ box' = [box EXCEPT ![p] = "queued"] /\ line' = Append(line, p)
      BY <2>3, <3>1, <3>2 DEF Enqueue
    <3>4. EventOf(p) \in known' /\ Exists(TargetOf(p))'
      <4>1. raiser[r].event \in known
        BY <1>5 DEF Queue, QueueInv, FansOnce, Fans
      <4>2. Exists(t)'
        BY <2>1, <3>1 DEF Exists
      <4> QED
        BY <2>1, <3>2, <4>1, <4>2
    <3>5. p \notin ToSet(line) /\ p \notin late /\ p \notin turn
      BY <3>3 DEF InPlaces
    <3>6. line' \in Seq(Pairs) /\ Once(line') /\ ToSet(line') = ToSet(line) \cup {p}
      BY <3>3, <3>5, AppendOnce DEF InPlaces
    <3>7. \A q \in Pairs : box'[q] = IF q = p THEN "queued" ELSE box[q]
      BY <3>3 DEF QueueInv, AskedOfKnown
    <3>8. ToSet(line') \cup late' \cup turn' = {q \in Pairs : box'[q] = "queued"}
      BY <2>1, <3>6, <3>7 DEF InPlaces
    <3>9. \A q \in Pairs : box'[q] # "none" => EventOf(q) \in known' /\ Exists(TargetOf(q))'
      BY <2>1, <3>4, <3>7 DEF InPlaces, Exists
    <3> QED
      BY <2>1, <3>5, <3>6, <3>8, <3>9 DEF InPlaces
  <2> QED
    BY <2>2, <2>3
<1>6. CASE Orphan
  <2>1. UNCHANGED <<known, rows>>
    BY <1>6 DEF Orphan, targets
  <2>2. UNCHANGED <<box, line, late, turn>> \/ \E S : Delete(S)
    BY <1>6 DEF Orphan, queue
  <2>3. ASSUME NEW S, Delete(S) PROVE InPlaces'
    BY <2>1, <2>3, DeletePlaces DEF InPlaces, Exists
  <2> QED
    BY <1>1, <2>1, <2>2, <2>3
<1>7. CASE Hold
  <2>1. UNCHANGED <<box, late, known, rows>>
    BY <1>7 DEF Hold, targets
  <2>2. CASE UNCHANGED <<line, turn>>
    BY <1>1, <2>1, <2>2
  <2>3. CASE ~UNCHANGED <<line, turn>>
    <3>1. box[Item] = "queued" /\ turn' = turn \cup {Item} /\ line' = Out(Item)
      BY <1>7, <2>3 DEF Hold, Postpone
    <3>2. Item \in Pairs /\ Item \in ToSet(line)
      BY <1>7, <3>1, ItemInHand DEF Hold, BatchInLine
    <3> QED
      BY <2>1, <3>1, <3>2, OutIs DEF InPlaces, Exists
  <2> QED
    BY <2>2, <2>3
<1>8. CASE Note
  <2>1. UNCHANGED <<turn, known, rows>>
    BY <1>8 DEF Note, targets
  <2>2. CASE UNCHANGED <<box, line, late>>
    BY <1>1, <2>1, <2>2
  <2>3. CASE ~UNCHANGED <<box, line, late>>
    <3>1. box[Item] = "queued" /\ Record(Item, loop.answer)
      BY <1>8, <2>3 DEF Note
    <3>2. Item \in Pairs /\ Item \in ToSet(line)
      BY <1>8, <3>1, ItemInHand DEF Note, BatchInLine
    <3>3. line' = Out(Item)
      BY <3>1 DEF Record
    <3>4. \/ late' = late \cup {Item} /\ UNCHANGED box
          \/ UNCHANGED late /\ \E v \in {"sent", "failed"} : box' = [box EXCEPT ![Item] = v]
      BY <3>1 DEF Record
    <3>5. CASE late' = late \cup {Item} /\ UNCHANGED box
      BY <2>1, <3>2, <3>3, <3>5, OutIs DEF InPlaces, Exists
    <3>6. ASSUME UNCHANGED late, NEW v \in {"sent", "failed"}, box' = [box EXCEPT ![Item] = v]
          PROVE  InPlaces'
      <4>1. \A q \in Pairs : box'[q] = IF q = Item THEN v ELSE box[q]
        BY <3>2, <3>6 DEF QueueInv, AskedOfKnown
      <4>2. ToSet(line') \cup late' \cup turn' = {q \in Pairs : box'[q] = "queued"}
        BY <2>1, <3>2, <3>3, <3>6, <4>1, OutIs DEF InPlaces
      <4> QED
        BY <2>1, <3>1, <3>3, <3>6, <4>1, <4>2, OutIs DEF InPlaces, Exists
    <3> QED
      BY <3>4, <3>5, <3>6
  <2> QED
    BY <2>2, <2>3
<1>9. CASE Prune
  <2> DEFINE S == {p \in Pairs : EventOf(p) \in expired}
  <2>1. Delete(S) /\ known' = known \ expired /\ UNCHANGED rows
    BY <1>9 DEF Prune, targets
  <2>2. \A p \in Pairs \ S : box[p] # "none" => EventOf(p) \in known' /\ Exists(TargetOf(p))'
    BY <2>1 DEF InPlaces, Exists
  <2> QED
    BY <2>1, <2>2, DeletePlaces
<1>10. ASSUME NEW p \in Pairs, Ripen(p)
       PROVE  InPlaces'
  <2>1. UNCHANGED <<box, turn, known, rows>> /\ p \in late /\ late' = late \ {p} /\ line' = Append(line, p)
    BY <1>10 DEF Ripen, targets
  <2>2. line' \in Seq(Pairs) /\ Once(line') /\ ToSet(line') = ToSet(line) \cup {p}
    BY <2>1, AppendOnce DEF InPlaces
  <2> QED
    BY <2>1, <2>2 DEF InPlaces, Exists
<1>11. CASE Minute
  <2>1. UNCHANGED <<box, late, known, rows>> /\ turn' = {}
    BY <1>11 DEF Minute, targets
  <2>2. PICK held \in SetToSeqs(turn) : line' = line \o held
    BY <1>11 DEF Minute
  <2>3. held \in Seq(turn) /\ Once(held) /\ ToSet(held) = turn
    BY <2>2, OrdersAll, PairsAreFinite, FS_Subset DEF InPlaces
  <2>4. held \in Seq(Pairs)
    BY <2>3, SeqMonotonic DEF InPlaces
  <2>5. line' \in Seq(Pairs) /\ Once(line') /\ ToSet(line') = ToSet(line) \cup turn
    BY <2>2, <2>3, <2>4, ConcatOnce DEF InPlaces
  <2> QED
    BY <2>1, <2>5 DEF InPlaces, Exists
<1>12. CASE Happens \/ Restart
  BY <1>1, <1>12 DEF Happens, Happen, Age, Expire, Restart, targets, queue
<1>13. ASSUME NEW a \in Admins,
              (\E w \in Wishes : Count(a, w)) \/ (\E t \in Ids : Edit(a, t)) \/ Load(a) \/ Store(a)
       PROVE  InPlaces'
  BY <1>1, <1>13 DEF Count, Edit, Load, Store, queue
<1>14. ASSUME NEW r \in Raisers, NEW e \in Events, Gather(r, e)
       PROVE  InPlaces'
  BY <1>1, <1>14 DEF Gather, targets, queue
<1>15. CASE Fetch \/ Sample \/ (\E answer \in {"taken", "refused", "wait"} : Send(answer)) \/ UNCHANGED vars
  BY <1>1, <1>15 DEF Fetch, Sample, Send, vars, targets, queue
<1> QED
  BY <1>2, <1>3, <1>4, <1>5, <1>6, <1>7, <1>8, <1>9, <1>10, <1>11, <1>12, <1>13, <1>14, <1>15
  DEF Next, Happens, Manages, Raises, Runs

-----------------------------------------------------------------------------
(* The batch, and what becomes of its messages                               *)

(* Apart from p, what was due stays due for as long as it is queued; and     *)
(* what was asked for and is not queued will not be.                         *)
OthersStay(p) ==
  /\ asked \subseteq asked'
  /\ \A q \in Pairs \ {p} : box'[q] = "queued" /\ q \in asked =>
       box[q] = "queued" /\ (q \in ToSet(line) => q \in ToSet(line'))

LEMMA DeleteStays ==
  ASSUME InPlaces, NEW S, Delete(S), UNCHANGED asked
  PROVE  \A p : OthersStay(p)
<1>1. ToSet(line') = ToSet(line) \ S
  BY WithoutIs DEF Delete, InPlaces
<1>2. \A p \in Pairs : box'[p] = IF p \in S THEN "none" ELSE box[p]
  BY DEF Delete
<1> QED
  BY <1>1, <1>2 DEF OthersStay

(* What a step does to what the loop may have in its hands: nothing, unless  *)
(* it is the loop itself that takes the item out of the line.                *)
LEMMA StepStays ==
  ASSUME InHand, QueueInv, InPlaces, BatchInLine, [Next]_vars
  PROVE  IF Hold \/ Note THEN OthersStay(Item) ELSE \A p : OthersStay(p)
<1>1. CASE UNCHANGED <<box, line, asked>>
  BY <1>1 DEF OthersStay
<1>2. ASSUME NEW r \in Raisers, Queue(r), ~UNCHANGED <<box, line, asked>>
      PROVE  \A p : OthersStay(p)
  <2>1. PICK t \in raiser[r].todo : Enqueue(<<raiser[r].event, t>>)
    BY <1>2 DEF Queue
  <2>2. PICK p \in Pairs : p = <<raiser[r].event, t>> /\ EventOf(p) = raiser[r].event /\ TargetOf(p) = t
    BY <1>2, <2>1 DEF Queue, InHand, Pairs, EventOf, TargetOf
  <2>3. box' = [box EXCEPT ![p] = "queued"] /\ line' = Append(line, p) /\ asked' = asked \cup {p}
    BY <1>2, <2>1, <2>2 DEF Enqueue
  <2>4. p \notin asked
    BY <1>2, <2>2 DEF Queue, QueueInv, FansOnce, Fans
  <2>5. \A q \in Pairs \ {p} : box'[q] = box[q]
    BY <2>3 DEF QueueInv, AskedOfKnown
  <2>6. ToSet(line') = ToSet(line) \cup {p}
    BY <2>3, AppendOnce DEF InPlaces
  <2> QED
    BY <2>3, <2>4, <2>5, <2>6 DEF OthersStay
<1>3. ASSUME NEW a \in Admins, NEW t \in Ids, Forget(a, t)
      PROVE  \A p : OthersStay(p)
  BY <1>3, DeleteStays DEF Forget, history
<1>4. CASE Orphan
  BY <1>1, <1>4, DeleteStays DEF Orphan, history, queue, OthersStay
<1>5. CASE Prune
  BY <1>5, DeleteStays DEF Prune, history
<1>6. CASE Hold
  <2>1. UNCHANGED <<box, asked>> /\ (line' = line \/ line' = Out(Item))
    BY <1>6 DEF Hold, Postpone, history
  <2> QED
    BY <1>6, <2>1, OutIs DEF OthersStay
<1>7. CASE Note
  <2>1. UNCHANGED asked /\ (UNCHANGED <<box, line>> \/ Record(Item, loop.answer))
    BY <1>7 DEF Note
  <2>2. CASE Record(Item, loop.answer)
    <3>1. line' = Out(Item) /\ (box' = box \/ \E v : box' = [box EXCEPT ![Item] = v])
      BY <2>2 DEF Record
    <3>2. \A q \in Pairs \ {Item} : box'[q] = box[q]
      BY <3>1 DEF QueueInv, AskedOfKnown
    <3> QED
      BY <1>7, <2>1, <3>1, <3>2, OutIs DEF OthersStay
  <2> QED
    BY <1>7, <2>1, <2>2 DEF OthersStay
<1>8. ASSUME NEW p \in Pairs, Ripen(p)
      PROVE  \A q : OthersStay(q)
  <2>1. UNCHANGED <<box, asked>> /\ line' = Append(line, p)
    BY <1>8 DEF Ripen, history
  <2>2. ToSet(line') = ToSet(line) \cup {p}
    BY <2>1, AppendOnce DEF InPlaces
  <2> QED
    BY <2>1, <2>2 DEF OthersStay
<1>9. CASE Minute
  <2>1. UNCHANGED <<box, asked>>
    BY <1>9 DEF Minute, history
  <2>2. PICK held \in SetToSeqs(turn) : line' = line \o held
    BY <1>9 DEF Minute
  <2>3. held \in Seq(turn)
    BY <2>2, OrdersAll, PairsAreFinite, FS_Subset DEF InPlaces
  <2>4. held \in Seq(Pairs)
    BY <2>3, SeqMonotonic DEF InPlaces
  <2>5. ToSet(line) \subseteq ToSet(line')
    BY <2>2, <2>4, ConcatOnce DEF InPlaces
  <2> QED
    BY <2>1, <2>5 DEF OthersStay
<1>10. CASE Happens \/ Restart
  BY <1>1, <1>10 DEF Happens, Happen, Age, Expire, Restart, queue, history, OthersStay
<1>11. ASSUME NEW a \in Admins,
              \/ \E w \in Wishes : Count(a, w)
              \/ Insert(a) \/ (\E t \in Ids : Edit(a, t)) \/ Write(a) \/ Load(a) \/ Store(a)
       PROVE  \A p : OthersStay(p)
  BY <1>11 DEF Count, Insert, Edit, Write, Load, Store, queue, history, OthersStay
<1>12. ASSUME NEW r \in Raisers, (\E e \in Events : Gather(r, e)) \/ WriteEvent(r)
       PROVE  \A p : OthersStay(p)
  BY <1>12 DEF Gather, WriteEvent, queue, history, OthersStay
<1>13. CASE Fetch \/ Sample \/ (\E answer \in {"taken", "refused", "wait"} : Send(answer)) \/ UNCHANGED vars
  BY <1>13 DEF Fetch, Sample, Send, vars, queue, history, OthersStay
<1>14. (\A p : OthersStay(p)) => OthersStay(Item)
  OBVIOUS
<1>15. ASSUME NEW r \in Raisers, Queue(r), UNCHANGED <<box, line, asked>>
       PROVE  \A p : OthersStay(p)
  BY <1>15 DEF OthersStay
<1> QED
  BY <1>2, <1>3, <1>4, <1>5, <1>6, <1>7, <1>8, <1>9, <1>10, <1>11, <1>12, <1>13, <1>14, <1>15
  DEF Next, Happens, Manages, Raises, Runs

(* Who is not the loop leaves its hands alone, and so does the loop when it  *)
(* only looks at the list or hears an answer.                                *)
LEMMA LoopMoves ==
  ASSUME BatchInLine, [Next]_vars
  PROVE  \/ UNCHANGED loop /\ ~Hold /\ ~Note
         \/ Fetch \/ Sample \/ Restart
         \/ \E answer \in {"taken", "refused", "wait"} : Send(answer)
         \/ (Orphan \/ Hold \/ Note) /\ loop.pc \in {"item", "note"} /\ loop' = Following
<1>1. CASE Happens \/ Manages \/ Raises \/ Minute \/ (\E p \in Pairs : Ripen(p)) \/ UNCHANGED vars
  <2>1. UNCHANGED loop
    BY <1>1 DEF Happens, Happen, Age, Expire, Manages, Count, Insert, Edit, Forget, Write, Load, Store,
                Raises, Gather, WriteEvent, Queue, Minute, Ripen, vars
  <2>2. Hold \/ Note => loop' = Following /\ loop.pc # "drain"
    BY DEF Hold, Note
  <2>3. ~(loop' = Following /\ loop.pc # "drain" /\ UNCHANGED loop)
    BY FollowingBatch, ItemInHand
  <2> QED
    BY <2>1, <2>2, <2>3
<1>2. CASE Prune
  BY <1>2 DEF Prune, Hold, Note
<1>3. CASE Orphan \/ Hold \/ Note
  BY <1>3 DEF Orphan, Hold, Note
<1> QED
  BY <1>1, <1>2, <1>3 DEF Next, Runs

LEMMA FetchTakes ==
  ASSUME InPlaces, BatchInLine, Fetch
  PROVE  /\ loop'.pc = "sample" /\ DOMAIN loop' = {"pc", "batch", "seen", "answer"}
         /\ loop'.batch \in Seq(Pairs) /\ Once(loop'.batch) /\ loop'.batch # <<>>
         /\ ToSet(loop'.batch) \subseteq ToSet(line)
<1> DEFINE n == Least(Batch, Len(line))
<1>1. n \in 0 .. Len(line) /\ n # 0
  <2>1. Len(line) \in Nat \ {0}
    BY EmptySeq DEF Fetch, InPlaces
  <2> QED
    BY <2>1, DeliveriesAssumption DEF Least
<1>2. loop' = [loop EXCEPT !.pc = "sample", !.batch = SubSeq(line, 1, n)]
  BY DEF Fetch
<1> HIDE DEF n
<1>3. /\ SubSeq(line, 1, n) \in Seq(Pairs) /\ Len(SubSeq(line, 1, n)) = n
      /\ ToSet(SubSeq(line, 1, n)) \subseteq ToSet(line) /\ Once(SubSeq(line, 1, n))
  BY <1>1, PrefixOnce DEF InPlaces
<1>4. SubSeq(line, 1, n) # <<>>
  BY <1>1, <1>3
<1> QED
  BY <1>2, <1>3, <1>4 DEF BatchInLine

LEMMA BatchStep ==
  ASSUME InHand, QueueInv, InPlaces, BatchInLine, [Next]_vars
  PROVE  BatchInLine'
<1>1. \A q \in ToSet(loop.batch) : q \in Pairs /\ q \in asked /\ (box[q] = "queued" => q \in ToSet(line))
  BY ElementsOf DEF BatchInLine
<1>2. ASSUME \A p : OthersStay(p)
      PROVE  \A q \in ToSet(loop.batch) : q \in asked' /\ (box'[q] = "queued" => q \in ToSet(line'))
  <2> SUFFICES ASSUME NEW q \in ToSet(loop.batch)
               PROVE  q \in asked' /\ (box'[q] = "queued" => q \in ToSet(line'))
    OBVIOUS
  <2>1. PICK p \in {1, 2} : p # q
    OBVIOUS
  <2> QED
    BY <1>1, <1>2, <2>1 DEF OthersStay
<1>3. CASE UNCHANGED loop /\ ~Hold /\ ~Note
  BY <1>2, <1>3, StepStays DEF BatchInLine
<1>4. CASE Fetch
  <2>1. \A q \in ToSet(line) : q \in Pairs /\ q \in asked
    BY ElementsOf DEF InPlaces, QueueInv, AskedOfKnown
  <2>2. UNCHANGED <<line, asked>>
    BY <1>4 DEF Fetch, queue, history
  <2> QED
    BY <1>4, <2>1, <2>2, FetchTakes DEF BatchInLine
<1>5. CASE Sample \/ \E answer \in {"taken", "refused", "wait"} : Send(answer)
  <2>1. UNCHANGED <<box, line, asked>>
    BY <1>5 DEF Sample, Send, queue, history
  <2>2. /\ loop'.batch = loop.batch /\ loop'.pc \in {"item", "note"} /\ loop.pc # "drain"
        /\ DOMAIN loop' = DOMAIN loop
    BY <1>5 DEF Sample, Send, BatchInLine
  <2> QED
    BY <2>1, <2>2 DEF BatchInLine
<1>6. CASE Restart
  <2>1. loop' = Draining
    BY <1>6 DEF Restart
  <2>2. ToSet(<<>>) = {} /\ Once(<<>>)
    BY DEF ToSet, Once
  <2> QED
    BY <2>1, <2>2 DEF BatchInLine, Draining
<1>7. CASE (Orphan \/ Hold \/ Note) /\ loop.pc \in {"item", "note"} /\ loop' = Following
  <2>1. OthersStay(Item)
    BY StepStays
  <2>2. ToSet(loop'.batch) \subseteq ToSet(loop.batch) \ {Item}
    BY <1>7, FollowingBatch
  <2>3. \A q \in ToSet(loop'.batch) : q \in asked' /\ (box'[q] = "queued" => q \in ToSet(line'))
    BY <1>1, <2>1, <2>2 DEF OthersStay
  <2> QED
    BY <1>7, <2>3, FollowingBatch DEF BatchInLine
<1> QED
  BY <1>3, <1>4, <1>5, <1>6, <1>7, LoopMoves

(* A message that was asked for and is not queued stays out of the queue,    *)
(* unless it is the one in hand.                                             *)
LEMMA StaysOut ==
  ASSUME InHand, QueueInv, InPlaces, BatchInLine, [Next]_vars,
         NEW p \in Pairs, p \in asked, box[p] # "queued", ~Note \/ p # Item
  PROVE  box'[p] # "queued" /\ p \in asked'
<1>1. PICK q \in {1, 2} : q # p
  OBVIOUS
<1>2. CASE ~Hold /\ ~Note
  <2>1. OthersStay(q)
    BY <1>2, StepStays
  <2> QED
    BY <1>1, <2>1 DEF OthersStay
<1>3. CASE Hold
  BY <1>3 DEF Hold, history
<1>4. CASE Note
  <2>1. OthersStay(Item)
    BY <1>4, StepStays
  <2> QED
    BY <1>4, <2>1 DEF OthersStay
<1> QED
  BY <1>2, <1>3, <1>4

LEMMA TakenIsUnchanged ==
  ASSUME [Next]_vars
  PROVE  /\ Note \/ Restart \/ UNCHANGED unnoted
         /\ Send("taken") \/ UNCHANGED taken
         /\ (\E answer \in {"refused", "wait"} : Send(answer)) \/ UNCHANGED tries
<1>1. CASE Happens \/ Manages \/ Raises \/ Minute \/ (\E p \in Pairs : Ripen(p)) \/ UNCHANGED vars
  BY <1>1 DEF Happens, Happen, Age, Expire, Manages, Count, Insert, Edit, Forget, Write, Load, Store,
              Raises, Gather, WriteEvent, Queue, Minute, Ripen, vars, history
<1>2. CASE Fetch \/ Sample \/ Orphan \/ Hold \/ Note \/ Prune \/ Restart
  BY <1>2 DEF Fetch, Sample, Orphan, Hold, Note, Prune, Restart, history
<1>3. ASSUME NEW answer \in {"taken", "refused", "wait"}, Send(answer)
      PROVE  UNCHANGED unnoted /\ (answer = "taken" \/ UNCHANGED taken) /\ (answer # "taken" \/ UNCHANGED tries)
  BY <1>3 DEF Send
<1> QED
  BY <1>1, <1>2, <1>3 DEF Next, Runs

(* What was taken is about to be noted, or out of the queue and out of the   *)
(* loop's hands, unless it could not be noted.                               *)
LEMMA TakenStep ==
  ASSUME Tables, InHand, QueueInv, InPlaces, BatchInLine, TakenOnce, [Next]_vars
  PROVE  TakenOnce'
<1> SUFFICES ASSUME NEW p \in Pairs, taken'[p] # 0, p \notin unnoted'
             PROVE  /\ taken'[p] = 1 /\ p \in asked'
                    /\ \/ Noting(p)' /\ loop'.answer = "taken"
                       \/ box'[p] # "queued" /\ p \notin ToSet(loop'.batch)
  BY DEF TakenOnce
<1>1. p \notin unnoted
  BY TakenIsUnchanged DEF Note, Restart, Forgets
<1>2. CASE taken[p] # 0 /\ Noting(p) /\ loop.answer = "taken"
  <2>1. taken[p] = 1 /\ p \in asked
    BY <1>1, <1>2 DEF TakenOnce
  <2>2. CASE UNCHANGED loop /\ ~Hold /\ ~Note
    <3>1. taken' = taken
      BY <1>2, TakenIsUnchanged DEF Send, Noting
    <3>2. p \in asked'
      BY <2>1, <2>2, StepStays DEF OthersStay
    <3> QED
      BY <1>2, <2>1, <2>2, <3>1, <3>2 DEF Noting, Item
  <2>3. CASE Restart
    BY <1>2, <2>3 DEF Restart, Forgets, Noting
  <2>4. CASE Note
    <3>1. taken' = taken
      BY <1>2, TakenIsUnchanged DEF Send, Noting
    <3>2. p \notin ToSet(loop'.batch)
      BY <1>2, <2>4, FollowingBatch DEF Note, Noting
    <3>3. box'[p] # "queued"
      <4>1. CASE box[Item] = "queued"
        <5>1. Record(Item, "taken")
          BY <1>2, <2>4, <4>1 DEF Note, Noting, Forgets
        <5>2. box' = [box EXCEPT ![Item] = "sent"]
          BY <5>1 DEF Record
        <5> QED
          BY <1>2, <5>2 DEF Noting, QueueInv, AskedOfKnown
      <4>2. CASE box[Item] # "queued"
        BY <1>2, <2>4, <4>2 DEF Note, Noting
      <4> QED
        BY <4>1, <4>2
    <3>4. UNCHANGED asked
      BY <2>4 DEF Note
    <3> QED
      BY <2>1, <3>1, <3>2, <3>3, <3>4
  <2> QED
    BY <1>2, <2>2, <2>3, <2>4, LoopMoves DEF Noting, Fetch, Sample, Send, Orphan, Hold
<1>3. CASE taken[p] # 0 /\ ~(Noting(p) /\ loop.answer = "taken")
  <2>1. taken[p] = 1 /\ p \in asked /\ box[p] # "queued" /\ p \notin ToSet(loop.batch)
    BY <1>1, <1>3 DEF TakenOnce
  <2>2. loop.pc # "drain" => p # Item
    BY <2>1, ItemInHand
  <2>3. box'[p] # "queued" /\ p \in asked'
    BY <2>1, <2>2, StaysOut DEF Note
  <2>4. taken'[p] = 1
    <3>1. CASE Send("taken")
      BY <2>1, <2>2, <3>1 DEF Send, Tables
    <3> QED
      BY <2>1, <3>1, TakenIsUnchanged
  <2>5. p \notin ToSet(loop'.batch)
    <3>1. CASE Fetch
      <4>1. p \notin ToSet(line)
        BY <2>1 DEF InPlaces
      <4> QED
        BY <3>1, <4>1, FetchTakes
    <3>2. CASE Sample \/ \E answer \in {"taken", "refused", "wait"} : Send(answer)
      <4>1. loop'.batch = loop.batch
        BY <3>2 DEF Sample, Send, BatchInLine
      <4> QED
        BY <2>1, <4>1
    <3>3. CASE Restart
      BY <3>3 DEF Restart, Draining, ToSet
    <3>4. CASE loop.pc \in {"item", "note"} /\ loop' = Following
      BY <2>1, <3>4, FollowingBatch
    <3> QED
      BY <2>1, <3>1, <3>2, <3>3, <3>4, LoopMoves
  <2> QED
    BY <2>3, <2>4, <2>5
<1>4. CASE taken[p] = 0
  <2>1. Send("taken")
    BY <1>4, TakenIsUnchanged
  <2>2. p = Item /\ taken'[p] = 1
    BY <1>4, <2>1 DEF Send, Tables, Least
  <2>3. loop' = [loop EXCEPT !.pc = "note", !.answer = "taken"] /\ UNCHANGED asked
    BY <2>1 DEF Send
  <2>4. loop'.pc = "note" /\ loop'.answer = "taken" /\ loop'.batch = loop.batch
    BY <2>3 DEF BatchInLine
  <2>5. p \in asked
    BY <2>1, <2>2, ItemInHand DEF Send, BatchInLine
  <2> QED
    BY <2>2, <2>3, <2>4, <2>5 DEF Noting, Item
<1> QED
  BY <1>2, <1>3, <1>4

(* What a step that notes nothing does to the count of a delivery: nothing,  *)
(* or it is of a row that is new, or it goes with its row.                   *)
LEMMA CountsStay ==
  ASSUME QueueInv, Tables, [Next]_vars, ~Note, NEW p \in Pairs
  PROVE  \/ attempts'[p] = attempts[p] /\ (box'[p] = box[p] \/ (box[p] = "none" /\ box'[p] = "queued"))
         \/ attempts'[p] = 0 /\ box'[p] = "none"
<1>1. CASE UNCHANGED <<box, attempts>>
  BY <1>1
<1>2. ASSUME NEW S, Delete(S)
      PROVE  \/ attempts'[p] = attempts[p] /\ box'[p] = box[p]
             \/ attempts'[p] = 0 /\ box'[p] = "none"
  BY <1>2 DEF Delete
<1>3. ASSUME NEW r \in Raisers, Queue(r)
      PROVE  attempts'[p] = attempts[p] /\ (box'[p] = box[p] \/ (box[p] = "none" /\ box'[p] = "queued"))
  <2>1. attempts' = attempts
    BY <1>3 DEF Queue
  <2>2. CASE box' = box
    BY <2>1, <2>2
  <2>3. CASE box' # box
    <3>1. PICK q : box[q] = "none" /\ box' = [box EXCEPT ![q] = "queued"]
      BY <1>3, <2>3 DEF Queue, Enqueue
    <3> QED
      BY <2>1, <3>1 DEF QueueInv, AskedOfKnown
  <2> QED
    BY <2>2, <2>3
<1>4. CASE Happens \/ Restart \/ Minute \/ (\E q \in Pairs : Ripen(q)) \/ UNCHANGED vars
  BY <1>1, <1>4 DEF Happens, Happen, Age, Expire, Restart, Minute, Ripen, vars, queue
<1>5. CASE Manages
  BY <1>1, <1>2, <1>5 DEF Manages, Count, Insert, Edit, Forget, Write, Load, Store, queue
<1>6. CASE Runs
  BY <1>1, <1>2, <1>6 DEF Runs, Fetch, Sample, Orphan, Hold, Prune, Send, queue
<1>7. CASE Raises
  BY <1>1, <1>3, <1>7 DEF Raises, Gather, WriteEvent, queue
<1> QED
  BY <1>4, <1>5, <1>6, <1>7 DEF Next

LEMMA AttemptsStep ==
  ASSUME Tables, InHand, QueueInv, InPlaces, BatchInLine, AttemptsAreRefusals, [Next]_vars
  PROVE  AttemptsAreRefusals'
<1> SUFFICES ASSUME NEW p \in Pairs
             PROVE  /\ box'[p] # "sent" => attempts'[p] <= tries'[p]
                    /\ box'[p] = "queued" /\ Noting(p)' /\ loop'.answer # "taken" =>
                         Least(GiveUp, attempts'[p] + 1) <= tries'[p]
                    /\ box'[p] = "failed" => tries'[p] = GiveUp
  BY DEF AttemptsAreRefusals
<1>1. /\ attempts[p] \in 0 .. GiveUp /\ tries[p] \in 0 .. GiveUp /\ GiveUp \in Nat \ {0}
      /\ box[p] \in {"none", "queued", "sent", "failed"}
  BY DeliveriesAssumption DEF Tables, QueueInv, AskedOfKnown
<1>2. /\ box[p] # "sent" => attempts[p] <= tries[p]
      /\ box[p] = "queued" /\ Noting(p) /\ loop.answer # "taken" =>
           Least(GiveUp, attempts[p] + 1) <= tries[p]
      /\ box[p] = "failed" => tries[p] = GiveUp
  BY DEF AttemptsAreRefusals
<1>3. CASE Note
  <2>1. ~Noting(p)' /\ UNCHANGED tries
    BY <1>3, FollowingBatch DEF Note, Noting
  <2>2. CASE p # Item \/ UNCHANGED <<box, attempts>>
    <3>1. box'[p] = box[p] /\ attempts'[p] = attempts[p]
      BY <1>3, <2>2 DEF Note, Record, QueueInv, AskedOfKnown, Tables
    <3> QED
      BY <1>2, <2>1, <3>1
  <2>3. CASE p = Item /\ ~UNCHANGED <<box, attempts>>
    <3> DEFINE n == Least(GiveUp, attempts[p] + 1)
    <3>1. box[p] = "queued" /\ Record(p, loop.answer) /\ Noting(p)
      BY <1>3, <2>3 DEF Note, Noting
    <3>2. attempts'[p] = n
      BY <3>1 DEF Record, Tables
    <3>3. CASE loop.answer = "taken"
      <4>1. box'[p] = "sent"
        BY <3>1, <3>3 DEF Record, QueueInv, AskedOfKnown
      <4> QED
        BY <2>1, <4>1
    <3>4. CASE loop.answer # "taken"
      <4>1. n <= tries[p]
        BY <1>2, <3>1, <3>4
      <4>2. \/ box'[p] = "queued"
            \/ box'[p] = "failed" /\ ~Backoff(n)
        BY <3>1, <3>4 DEF Record, QueueInv, AskedOfKnown
      <4>3. ~Backoff(n) => tries[p] = GiveUp
        BY <1>1, <4>1 DEF Backoff, Least
      <4> QED
        BY <2>1, <3>2, <4>1, <4>2, <4>3
    <3> QED
      BY <3>3, <3>4
  <2> QED
    BY <2>2, <2>3
<1>4. CASE ~Note /\ \E answer \in {"refused", "wait"} : Send(answer)
  <2>1. PICK answer \in {"refused", "wait"} : Send(answer)
    BY <1>4
  <2>2. UNCHANGED <<box, attempts>> /\ tries' = [tries EXCEPT ![Item] = Least(GiveUp, tries[Item] + 1)]
    BY <2>1 DEF Send, queue
  <2>3. loop'.batch = loop.batch
    BY <2>1 DEF Send, BatchInLine
  <2>4. tries'[p] = IF p = Item THEN Least(GiveUp, tries[p] + 1) ELSE tries[p]
    BY <2>2 DEF Tables
  <2>5. Noting(p)' => p = Item
    BY <2>3 DEF Noting, Item
  <2> QED
    BY <1>1, <1>2, <2>2, <2>4, <2>5 DEF Least
<1>5. CASE ~Note /\ ~\E answer \in {"refused", "wait"} : Send(answer)
  <2>1. UNCHANGED tries
    BY <1>5, TakenIsUnchanged
  <2>2. Noting(p)' /\ loop'.answer # "taken" => UNCHANGED loop
    <3>1. Fetch \/ Sample \/ Restart => loop'.pc # "note"
      <4>1. Fetch => loop'.pc = "sample"
        BY FetchTakes
      <4>2. Sample => loop'.pc = "item"
        BY DEF Sample, BatchInLine
      <4>3. Restart => loop'.pc = "drain"
        BY DEF Restart, Draining
      <4> QED
        BY <4>1, <4>2, <4>3
    <3>2. Send("taken") => loop'.answer = "taken"
      BY DEF Send, BatchInLine
    <3>3. loop.pc \in {"item", "note"} /\ loop' = Following => loop'.pc # "note"
      BY FollowingBatch
    <3> QED
      BY <1>5, <3>1, <3>2, <3>3, LoopMoves DEF Noting
  <2>3. Noting(p)' /\ loop'.answer # "taken" /\ box'[p] = "queued" =>
          Noting(p) /\ loop.answer # "taken" /\ box[p] = "queued" /\ attempts'[p] = attempts[p]
    <3> SUFFICES ASSUME Noting(p)', loop'.answer # "taken", box'[p] = "queued"
                 PROVE  Noting(p) /\ loop.answer # "taken" /\ box[p] = "queued" /\ attempts'[p] = attempts[p]
      OBVIOUS
    <3>1. UNCHANGED loop
      BY <2>2
    <3>2. Noting(p) /\ loop.answer # "taken"
      BY <3>1 DEF Noting, Item
    <3>3. p \in asked
      BY <3>2, ItemInHand DEF Noting, BatchInLine
    <3>4. box[p] = "queued"
      BY <1>5, <3>3, StaysOut
    <3> QED
      BY <1>5, <3>2, <3>4, CountsStay
  <2> QED
    BY <1>1, <1>2, <1>5, <2>1, <2>3, CountsStay
<1> QED
  BY <1>3, <1>4, <1>5

-----------------------------------------------------------------------------
(* What memory has heard of, when one administrator at a time changes the    *)
(* destinations                                                              *)

OneAdministrator == \A a, b \in Admins : a = b

(* Ids are handed out once: who is no more does not come back.               *)
LEMMA GoneStays ==
  ASSUME Tables, InHand, [Next]_vars, NEW t \in Ids, t <= lastId, ~Exists(t)
  PROVE  ~Exists(t)' /\ t <= lastId'
<1>1. CASE UNCHANGED <<rows, lastId>>
  BY <1>1 DEF Exists
<1>2. ASSUME NEW a \in Admins, Insert(a)
      PROVE  ~Exists(t)' /\ t <= lastId'
  <2>1. lastId' = lastId + 1 /\ rows' = [rows EXCEPT ![lastId'] = admin[a].row] /\ t # lastId'
    BY <1>2, DeliveriesAssumption DEF Insert, Ids, Tables
  <2> QED
    BY <2>1, DeliveriesAssumption DEF Exists, Tables, Lists, Ids
<1>3. ASSUME NEW a \in Admins, Write(a)
      PROVE  ~Exists(t)' /\ t <= lastId'
  <2>1. \/ rows' = rows
        \/ Exists(admin[a].id) /\ rows' = [rows EXCEPT ![admin[a].id] = admin[a].row]
    BY <1>3 DEF Write
  <2>2. UNCHANGED lastId
    BY <1>3 DEF Write
  <2> QED
    BY <2>1, <2>2 DEF Exists, Tables, Lists
<1>4. ASSUME NEW a \in Admins, NEW u \in Ids, Forget(a, u)
      PROVE  ~Exists(t)' /\ t <= lastId'
  BY <1>4 DEF Forget, Exists, Tables, Lists
<1>5. CASE Manages
  BY <1>1, <1>2, <1>3, <1>4, <1>5 DEF Manages, Count, Edit, Load, Store
<1>6. CASE ~Manages
  BY <1>1, <1>6 DEF Next, Happens, Happen, Age, Expire, Raises, Gather, WriteEvent, Queue,
                    Runs, Fetch, Sample, Orphan, Hold, Note, Prune, Send, Minute, Ripen, Restart, vars, targets
<1> QED
  BY <1>5, <1>6

LEMMA MemoryMoves ==
  ASSUME MemoryIsRight, [Next]_vars
  PROVE  mem' = mem \/ (mem' = rows /\ UNCHANGED <<rows, lastId>>)
<1>1. CASE Manages
  BY <1>1 DEF Manages, Count, Insert, Edit, Forget, Write, Load, Store, MemoryIsRight
<1>2. CASE ~Manages
  BY <1>2 DEF Next, Happens, Happen, Age, Expire, Raises, Gather, WriteEvent, Queue,
              Runs, Fetch, Sample, Orphan, Hold, Note, Prune, Send, Minute, Ripen, Restart, vars, targets
<1> QED
  BY <1>1, <1>2

LEMMA HeardStays ==
  ASSUME Tables, InHand, MemoryIsRight, [Next]_vars, NEW t \in Ids, HasHeard(t)
  PROVE  HasHeard(t)'
<1>1. CASE ~Exists(t)
  BY <1>1, GoneStays DEF HasHeard
<1>2. CASE Exists(t)
  <2>1. t \in Listed(mem) /\ t <= lastId
    BY <1>2 DEF HasHeard
  <2>2. lastId' = lastId \/ lastId' = lastId + 1
    BY DEF Next, Happens, Happen, Age, Expire, Raises, Gather, WriteEvent, Queue,
           Manages, Count, Insert, Edit, Forget, Write, Load, Store,
           Runs, Fetch, Sample, Orphan, Hold, Note, Prune, Send, Minute, Ripen, Restart, vars, targets
  <2>3. t <= lastId'
    BY <2>1, <2>2, DeliveriesAssumption DEF Tables, Ids
  <2>4. Exists(t)' => t \in Listed(mem')
    <3>1. CASE mem' = mem
      BY <2>1, <3>1
    <3>2. CASE mem' = rows /\ UNCHANGED rows
      BY <3>2 DEF Exists, Listed
    <3> QED
      BY <3>1, <3>2, MemoryMoves
  <2> QED
    BY <2>3, <2>4 DEF HasHeard
<1> QED
  BY <1>1, <1>2

(* The list a handler is about to store is the table: nobody else changes    *)
(* the table between its being read and its being stored.                    *)
LEMMA StoresTheTable ==
  ASSUME OneAdministrator, InHand, MemoryIsRight, [Next]_vars
  PROVE  \A a \in Admins : admin'[a].pc = "store" => admin'[a].list = rows'
<1>1. CASE UNCHANGED <<admin, rows>>
  BY <1>1 DEF MemoryIsRight
<1>2. ASSUME NEW a \in Admins, NEW v, admin' = [admin EXCEPT ![a] = v],
             v.pc = "store" => v.list = rows'
      PROVE  \A b \in Admins : admin'[b].pc = "store" => admin'[b].list = rows'
  BY <1>2 DEF OneAdministrator, InHand
<1>3. ASSUME NEW a \in Admins, NEW w \in Wishes, Count(a, w)
      PROVE  \A b \in Admins : admin'[b].pc = "store" => admin'[b].list = rows'
  BY <1>2, <1>3 DEF Count
<1>4. ASSUME NEW a \in Admins, Insert(a) \/ Write(a) \/ (\E t \in Ids : Forget(a, t))
      PROVE  \A b \in Admins : admin'[b].pc = "store" => admin'[b].list = rows'
  BY <1>2, <1>4 DEF Insert, Write, Forget
<1>5. ASSUME NEW a \in Admins, NEW t \in Ids, Edit(a, t)
      PROVE  \A b \in Admins : admin'[b].pc = "store" => admin'[b].list = rows'
  BY <1>2, <1>5 DEF Edit
<1>6. ASSUME NEW a \in Admins, Load(a) \/ Store(a)
      PROVE  \A b \in Admins : admin'[b].pc = "store" => admin'[b].list = rows'
  BY <1>2, <1>6 DEF Load, Store, Resting
<1>7. CASE Restart
  BY <1>7 DEF Restart, Resting
<1>8. CASE ~Manages /\ ~Restart
  BY <1>1, <1>8 DEF Next, Happens, Happen, Age, Expire, Raises, Gather, WriteEvent, Queue,
                    Runs, Fetch, Sample, Orphan, Hold, Note, Prune, Send, Minute, Ripen, vars, targets
<1> QED
  BY <1>3, <1>4, <1>5, <1>6, <1>7, <1>8 DEF Manages

(* The part of MemoryIsRight that is about raisers.                          *)
RaisersHeard ==
  \A r \in Raisers :
    /\ raiser[r].pc = "insert" => \A t \in Listed(raiser[r].list) : HasHeard(t)
    /\ raiser[r].pc = "fan" => \A t \in raiser[r].todo : HasHeard(t)

LEMMA RaisersHear ==
  ASSUME Tables, InHand, QueueInv, MemoryIsRight, [Next]_vars
  PROVE  RaisersHeard'
<1>1. \A t \in Ids : HasHeard(t) => HasHeard(t)'
  BY HeardStays
<1>2. ASSUME NEW r \in Raisers
      PROVE  /\ raiser[r].pc = "insert" => \A t \in Listed(raiser[r].list) : HasHeard(t)'
             /\ raiser[r].pc = "fan" => \A t \in raiser[r].todo : HasHeard(t)'
  BY <1>1 DEF MemoryIsRight, InHand, Listed
<1>3. CASE UNCHANGED raiser
  BY <1>2, <1>3 DEF RaisersHeard
<1>4. ASSUME NEW r \in Raisers, NEW v, raiser' = [raiser EXCEPT ![r] = v],
             v.pc = "insert" => \A t \in Listed(v.list) : HasHeard(t)',
             v.pc = "fan" => \A t \in v.todo : HasHeard(t)'
      PROVE  RaisersHeard'
  BY <1>2, <1>4 DEF RaisersHeard, QueueInv, FansOnce
<1>5. ASSUME NEW r \in Raisers, NEW e \in Events, Gather(r, e)
      PROVE  RaisersHeard'
  <2>1. \A t \in Listed(mem) : HasHeard(t)'
    BY <1>1 DEF MemoryIsRight, HasHeard, Listed
  <2> QED
    BY <1>4, <1>5, <2>1 DEF Gather
<1>6. ASSUME NEW r \in Raisers, WriteEvent(r)
      PROVE  RaisersHeard'
  <2> DEFINE e    == raiser[r].event
             todo == IF Historic(e) THEN {} ELSE {t \in Ids : WantedBy(raiser[r].list[t], e)}
  <2>1. \A t \in todo : HasHeard(t)'
    <3>1. todo \subseteq Listed(raiser[r].list)
      BY DEF WantedBy, Listed
    <3> QED
      BY <1>2, <1>6, <3>1 DEF WriteEvent
  <2>2. raiser' = [raiser EXCEPT ![r] = Resting] \/ raiser' = [raiser EXCEPT ![r] = Onwards(e, todo)]
    BY <1>6 DEF WriteEvent
  <2>3. PICK v, s : raiser' = [raiser EXCEPT ![r] = v] /\ s = todo /\ (v = Resting \/ v = Onwards(e, s))
    BY <2>2
  <2>4. \A t \in s : HasHeard(t)'
    BY <2>1, <2>3
  <2>5. v.pc # "insert" /\ (v.pc = "fan" => v.todo = s)
    BY <2>3, OnwardsIs DEF Resting
  <2> QED
    BY <1>4, <2>3, <2>4, <2>5
<1>7. ASSUME NEW r \in Raisers, Queue(r)
      PROVE  RaisersHeard'
  <2>1. PICK t : \/ raiser' = [raiser EXCEPT ![r] = Resting]
                 \/ raiser' = [raiser EXCEPT ![r] = Onwards(raiser[r].event, raiser[r].todo \ {t})]
    BY <1>7 DEF Queue, QueueInv, FansOnce
  <2>2. PICK v, s : /\ raiser' = [raiser EXCEPT ![r] = v] /\ s = raiser[r].todo \ {t}
                    /\ v = Resting \/ v = Onwards(raiser[r].event, s)
    BY <2>1
  <2>3. \A u \in s : HasHeard(u)'
    BY <1>2, <1>7, <2>2 DEF Queue
  <2>4. v.pc # "insert" /\ (v.pc = "fan" => v.todo = s)
    BY <2>2, OnwardsIs DEF Resting
  <2> QED
    BY <1>4, <2>2, <2>3, <2>4
<1>8. CASE Restart
  BY <1>8 DEF Restart, Resting, RaisersHeard
<1>9. CASE ~Raises /\ ~Restart
  BY <1>3, <1>9 DEF Next, Happens, Happen, Age, Expire, Manages, Count, Insert, Edit, Forget, Write, Load, Store,
                    Runs, Fetch, Sample, Orphan, Hold, Note, Prune, Send, Minute, Ripen, vars
<1> QED
  BY <1>5, <1>6, <1>7, <1>8, <1>9 DEF Raises

LEMMA MemoryStep ==
  ASSUME OneAdministrator, Tables, InHand, QueueInv, InPlaces, BatchInLine, MemoryIsRight, [Next]_vars
  PROVE  MemoryIsRight'
<1>1. \A t \in Ids : HasHeard(t) => HasHeard(t)'
  BY HeardStays
<1>2. \A t \in Ids : t <= lastId /\ ~Exists(t) => ~Exists(t)'
  BY GoneStays
<1>3. \A t \in Listed(mem') : t <= lastId'
  <2>1. \A t \in Listed(mem) : t <= lastId'
    BY <1>1 DEF MemoryIsRight, HasHeard, Listed
  <2>2. \A t \in Listed(rows) : t <= lastId
    BY DEF Listed, Tables, Exists
  <2> QED
    BY <2>1, <2>2, MemoryMoves
<1>4. \A p \in Pairs : box'[p] # "none" => HasHeard(TargetOf(p))'
  <2> SUFFICES ASSUME NEW p \in Pairs, box'[p] # "none"
               PROVE  HasHeard(TargetOf(p))'
    OBVIOUS
  <2>1. TargetOf(p) \in Ids
    BY PairsAre
  <2>2. CASE box[p] # "none"
    BY <1>1, <2>1, <2>2 DEF MemoryIsRight
  <2>3. CASE box[p] = "none"
    <3>1. ~Note
      <4>1. Note => box' = box \/ (Item \in Pairs /\ box[Item] = "queued" /\ \E v : box' = [box EXCEPT ![Item] = v])
        BY ItemInHand DEF Note, Record
      <4> QED
        BY <2>3, <4>1 DEF QueueInv, AskedOfKnown
    <3>2. box'[p] = "queued" /\ ~(\E S : Delete(S)) /\ box' # box
      BY <2>3, <3>1, CountsStay DEF Delete
    <3>3. PICK r \in Raisers : Queue(r)
      BY <3>1, <3>2 DEF Next, Happens, Happen, Age, Expire, Raises, Gather, WriteEvent,
               Manages, Count, Insert, Edit, Forget, Write, Load, Store,
               Runs, Fetch, Sample, Orphan, Hold, Prune, Send, Minute, Ripen, Restart, vars, queue
    <3>4. PICK t \in raiser[r].todo : Enqueue(<<raiser[r].event, t>>)
      BY <3>2, <3>3 DEF Queue
    <3>5. p = <<raiser[r].event, t>>
      BY <2>3, <3>2, <3>4 DEF Enqueue, QueueInv, AskedOfKnown
    <3>6. HasHeard(TargetOf(p))
      BY <3>3, <3>4, <3>5 DEF MemoryIsRight, TargetOf, Queue
    <3> QED
      BY <1>1, <2>1, <3>6
  <2> QED
    BY <2>2, <2>3
<1>5. \A p \in ToSet(loop'.batch) :
        /\ HasHeard(TargetOf(p))'
        /\ loop'.pc \in {"item", "note"} /\ TargetOf(p) \notin loop'.seen => ~Exists(TargetOf(p))'
  <2>1. \A p \in ToSet(loop.batch) : p \in Pairs /\ TargetOf(p) \in Ids /\ HasHeard(TargetOf(p))'
    BY <1>1, PairsAre, ElementsOf DEF BatchInLine, MemoryIsRight
  <2>2. \A p \in ToSet(loop.batch) :
          loop.pc \in {"item", "note"} /\ TargetOf(p) \notin loop.seen => ~Exists(TargetOf(p))'
    BY <1>2, <2>1 DEF MemoryIsRight, HasHeard
  <2>3. CASE UNCHANGED loop
    BY <2>1, <2>2, <2>3
  <2>4. CASE Fetch
    <3>1. \A p \in ToSet(line) : p \in Pairs /\ TargetOf(p) \in Ids /\ box[p] = "queued"
      BY PairsAre, ElementsOf DEF InPlaces
    <3>2. \A p \in ToSet(line) : HasHeard(TargetOf(p))'
      BY <1>1, <3>1 DEF MemoryIsRight
    <3> QED
      BY <2>4, <3>2, FetchTakes
  <2>5. CASE Sample
    <3>1. loop'.batch = loop.batch /\ loop'.seen = Listed(mem) /\ UNCHANGED <<rows, mem>>
      BY <2>5 DEF Sample, BatchInLine, targets
    <3>2. \A p \in ToSet(loop.batch) : TargetOf(p) \notin Listed(mem) => ~Exists(TargetOf(p))'
      BY <3>1 DEF MemoryIsRight, HasHeard, Exists
    <3> QED
      BY <2>1, <3>1, <3>2
  <2>6. CASE Restart
    BY <2>6 DEF Restart, Draining, ToSet
  <2>7. CASE \E answer \in {"taken", "refused", "wait"} : Send(answer)
    <3>1. loop'.batch = loop.batch /\ loop'.seen = loop.seen /\ loop.pc = "item"
      BY <2>7 DEF Send, BatchInLine
    <3> QED
      BY <2>1, <2>2, <3>1
  <2>8. CASE loop.pc \in {"item", "note"} /\ loop' = Following
    <3>1. ToSet(loop'.batch) \subseteq ToSet(loop.batch) /\ (loop'.pc = "item" => loop'.seen = loop.seen)
          /\ loop'.pc \in {"drain", "item"}
      BY <2>8, FollowingBatch
    <3> QED
      BY <2>1, <2>2, <2>8, <3>1
  <2> QED
    BY <2>3, <2>4, <2>5, <2>6, <2>7, <2>8, LoopMoves
<1> QED
  BY <1>3, <1>4, <1>5, StoresTheTable, RaisersHear DEF MemoryIsRight, RaisersHeard

-----------------------------------------------------------------------------
(* The invariants                                                            *)

LEMMA DeliveriesStart == Init => DeliveriesInv /\ MemoryIsRight
<1> SUFFICES ASSUME Init
             PROVE  DeliveriesInv /\ MemoryIsRight
  OBVIOUS
<1>1. Tables
  BY DeliveriesAssumption DEF Init, Tables, Lists, Exists
<1>2. InHand
  BY DEF Init, InHand, Resting
<1>3. ToSet(<<>>) = {} /\ Once(<<>>) /\ <<>> \in Seq(Pairs)
  BY DEF ToSet, Once
<1>4. InPlaces
  BY <1>3 DEF Init, InPlaces
<1>5. BatchInLine
  BY <1>3 DEF Init, Draining, BatchInLine
<1>6. TakenOnce
  BY DEF Init, TakenOnce
<1>7. AttemptsAreRefusals
  BY DEF Init, AttemptsAreRefusals, Noting, Draining
<1>8. MemoryIsRight
  <2>1. Listed(mem) = {}
    BY DEF Init, Listed
  <2> QED
    BY <1>3, <2>1 DEF Init, MemoryIsRight, Draining, Resting
<1> QED
  BY <1>1, <1>2, <1>4, <1>5, <1>6, <1>7, <1>8 DEF DeliveriesInv

LEMMA DeliveriesStep == DeliveriesInv /\ QueueInv /\ [Next]_vars => DeliveriesInv'
BY TablesStep, InHandStep, PlacesStep, BatchStep, TakenStep, AttemptsStep DEF DeliveriesInv

LEMMA InvIsTyped == DeliveriesInv /\ QueueInv => TypeOK
<1> SUFFICES ASSUME DeliveriesInv, QueueInv
             PROVE  TypeOK
  OBVIOUS
<1>1. \A t \in Ids : rows[t] # NoRow => t <= lastId /\ rows[t].wish \in Wish /\ rows[t].born \in Nat
  BY DEF DeliveriesInv, Tables, Lists, Exists, Row
<1>2. Len(line) = Cardinality(ToSet(line))
  BY AsManyAsElements DEF DeliveriesInv, InPlaces
<1> QED
  BY <1>1, <1>2 DEF TypeOK, DeliveriesInv, Tables, InPlaces, QueueInv, AskedOfKnown

LEMMA InvKeepsWord == DeliveriesInv => SentAsPromised
<1> SUFFICES ASSUME DeliveriesInv
             PROVE  SentAsPromised
  OBVIOUS
<1>1. OnceUnlessUnnoted
  BY DEF DeliveriesInv, TakenOnce, OnceUnlessUnnoted
<1>2. GivenUpAfterTheLadder
  BY DEF DeliveriesInv, AttemptsAreRefusals, GivenUpAfterTheLadder
<1> QED
  BY <1>1, <1>2 DEF SentAsPromised

(* The inductive invariant of the queue holds throughout.                    *)
THEOREM DeliveriesInvariant == Spec => [](DeliveriesInv /\ QueueInv)
<1>1. Init => DeliveriesInv
  BY DeliveriesStart
<1> QED
  BY <1>1, QueueInit, QueueStep, DeliveriesStep, PTL DEF Spec

(* Every queued delivery waits in exactly one place, once, belongs to a      *)
(* destination and to an event that are there, and no destination gets more  *)
(* than its share of a minute: whoever queues, deletes, postpones, notes,    *)
(* thins out and restarts in between.                                        *)
THEOREM DeliveriesTypeCorrect == Spec => []TypeOK
BY DeliveriesInvariant, InvIsTyped, PTL

(* No message is taken twice but where finstats was stopped, or could not    *)
(* write, between its being taken and its being noted; and none is given up  *)
(* on that was refused less often than the ladder says.                      *)
THEOREM NoMessageTwice == Spec => []SentAsPromised
BY DeliveriesInvariant, InvKeepsWord, PTL

(* What leaves the queue unsent leaves it with its destination or its event. *)
LEMMA KeptStep ==
  ASSUME DeliveriesInv, MemoryIsRight, QueueInv, [Next]_vars
  PROVE  \A p \in Pairs : box[p] = "queued" /\ box'[p] = "none" =>
           rows'[TargetOf(p)] = NoRow \/ EventOf(p) \in expired
<1> SUFFICES ASSUME NEW p \in Pairs, box[p] = "queued", box'[p] = "none"
             PROVE  rows'[TargetOf(p)] = NoRow \/ EventOf(p) \in expired
  OBVIOUS
<1>1. TargetOf(p) \in Ids
  BY PairsAre
<1>2. ASSUME NEW a \in Admins, NEW t \in Ids, Forget(a, t)
      PROVE  rows'[TargetOf(p)] = NoRow
  <2>1. Delete({q \in Pairs : TargetOf(q) = t}) /\ rows' = [rows EXCEPT ![t] = NoRow]
    BY <1>2 DEF Forget
  <2>2. TargetOf(p) = t
    BY <2>1 DEF Delete
  <2> QED
    BY <1>1, <2>1, <2>2 DEF DeliveriesInv, Tables, Lists
<1>3. CASE Orphan
  <2>1. UNCHANGED rows /\ TargetOf(Item) \notin loop.seen /\ loop.pc = "item"
    BY <1>3 DEF Orphan, targets
  <2>2. Delete({q \in Pairs : TargetOf(q) = TargetOf(Item)})
    BY <1>3 DEF Orphan, queue
  <2>3. TargetOf(p) = TargetOf(Item)
    BY <2>2 DEF Delete
  <2>4. ~Exists(TargetOf(Item))
    BY <2>1, ItemInHand DEF MemoryIsRight, DeliveriesInv
  <2> QED
    BY <2>1, <2>3, <2>4 DEF Exists
<1>4. CASE Prune
  <2>1. Delete({q \in Pairs : EventOf(q) \in expired})
    BY <1>4 DEF Prune
  <2> QED
    BY <2>1 DEF Delete
<1>5. CASE Note
  <2>1. box' = box \/ \E v \in {"sent", "failed"} : box' = [box EXCEPT ![Item] = v]
    BY <1>5 DEF Note, Record
  <2> QED
    BY <2>1 DEF QueueInv, AskedOfKnown
<1>6. ASSUME NEW r \in Raisers, Queue(r)
      PROVE  FALSE
  <2>1. box' = box \/ \E q : box' = [box EXCEPT ![q] = "queued"]
    BY <1>6 DEF Queue, Enqueue
  <2> QED
    BY <2>1 DEF QueueInv, AskedOfKnown
<1>7. ~UNCHANGED box
  OBVIOUS
<1>8. CASE Manages
  BY <1>2, <1>7, <1>8 DEF Manages, Count, Insert, Edit, Write, Load, Store, queue
<1>9. CASE ~Manages
  BY <1>3, <1>4, <1>5, <1>6, <1>7, <1>9
  DEF Next, Happens, Happen, Age, Expire, Raises, Gather, WriteEvent, Runs, Fetch, Sample, Hold, Send,
      Minute, Ripen, Restart, vars, queue
<1> QED
  BY <1>8, <1>9

(* With one administrator at a time memory never lacks a destination that is *)
(* there and was announced: what the loop throws away for want of a          *)
(* destination has none.                                                     *)
THEOREM NothingIsThrownAway ==
  ASSUME OneAdministrator
  PROVE  Spec => KeptWhileItExists
<1>1. DeliveriesInv /\ MemoryIsRight /\ QueueInv /\ [Next]_vars => MemoryIsRight'
  BY OneAdministrator, MemoryStep DEF DeliveriesInv
<1>2. DeliveriesInv /\ MemoryIsRight /\ QueueInv /\ [Next]_vars =>
        [\A p \in Pairs : box[p] = "queued" /\ box'[p] = "none" =>
           rows'[TargetOf(p)] = NoRow \/ EventOf(p) \in expired]_vars
  BY KeptStep
<1>3. Init => MemoryIsRight
  BY DeliveriesStart
<1> QED
  BY <1>1, <1>2, <1>3, DeliveriesInvariant, PTL DEF Spec, KeptWhileItExists
=============================================================================
