---------------------------- MODULE PlaysProofs ----------------------------
(* Proofs about Plays, for every value of its constants.                    *)
EXTENDS Plays, TLAPS

USE DEF Ids

(* A fresh database and a process not yet started are of the right type. *)
LEMMA TypeInit == Init => TypeOK
  BY ParamsAssumption, BoundsAssumption
  DEF Init, TypeOK, Empty, Idle

(* What a sighting does to a play: identity stays, the counters share the   *)
(* time since the last one, and take no more than it.                       *)
LEMMA SightedFacts ==
  ASSUME now \in Nat, NEW p \in Play, NEW q \in BOOLEAN, p.lastTick <= now
  PROVE  LET s == Sighted(p, q) IN
         /\ s \in Play
         /\ s.row = p.row /\ s.started = p.started /\ s.lastPersist = p.lastPersist
         /\ s.paused = q /\ s.lastTick = now
         /\ s.watched >= p.watched /\ s.rested >= p.rested
         /\ s.watched <= p.watched + (now - p.lastTick)
         /\ s.watched + s.rested <= p.watched + p.rested + (now - p.lastTick)
<1> DEFINE dt == Least(now - p.lastTick, StepCap)
<1>1. /\ p.lastTick \in Nat /\ p.watched \in Nat /\ p.rested \in Nat
      /\ p.paused \in BOOLEAN
  BY DEF Play
<1>2. dt \in Nat /\ dt <= now - p.lastTick
  BY <1>1, ParamsAssumption DEF Least
<1>3. /\ Watched(dt, p.paused) \in Nat
      /\ Rested(dt, p.paused) \in Nat
      /\ Watched(dt, p.paused) + Rested(dt, p.paused) = dt
  BY <1>1, <1>2 DEF Watched, Rested
<1> HIDE DEF dt
<1>4. Sighted(p, q) = [p EXCEPT !.watched = @ + Watched(dt, p.paused),
                                !.rested  = @ + Rested(dt, p.paused),
                                !.paused  = q,
                                !.lastTick = now]
  BY DEF Sighted, dt
<1> DEFINE w == Watched(dt, p.paused)
           r == Rested(dt, p.paused)
<1>5. w \in Nat /\ r \in Nat /\ w + r = dt
  BY <1>3
<1>6. Sighted(p, q) = [p EXCEPT !.watched = @ + w, !.rested = @ + r,
                                !.paused = q, !.lastTick = now]
  BY <1>4
<1> HIDE DEF w, r
<1>8. Sighted(p, q) = [row |-> p.row, started |-> p.started,
                       watched |-> p.watched + w, rested |-> p.rested + r,
                       paused |-> q, lastTick |-> now, lastPersist |-> p.lastPersist]
  BY <1>6 DEF Play
<1>9. p.watched + w \in Nat /\ p.rested + r \in Nat
  BY <1>1, <1>5
<1>7. Sighted(p, q) \in Play
  BY <1>8, <1>9 DEF Play
<1> QED
  BY <1>1, <1>2, <1>5, <1>6, <1>7 DEF Play

(* What a row says once a play has been written to it. *)
LEMMA WrittenFacts ==
  ASSUME NEW r \in Row, NEW p \in Play, NEW b \in BOOLEAN
  PROVE  LET w == Written(r, p, b) IN
         /\ w \in Row /\ w # NoRow
         /\ w.view = r.view /\ w.started = r.started /\ w.active = b
         /\ w.ended = p.lastTick /\ w.duration = p.watched /\ w.paused = p.rested
  BY NullsAssumption DEF Row, Play, Written

(* A row is a row and no hole, and so are its fields. *)
LEMMA RowFields ==
  ASSUME NEW r \in Row
  PROVE  /\ r # NoRow
         /\ r.view \in Views /\ r.active \in BOOLEAN
         /\ r.started \in Nat /\ r.ended \in Nat /\ r.duration \in Nat /\ r.paused \in Nat
  BY NullsAssumption DEF Row

(* A play is a play and no hole, and so are its fields. *)
LEMMA PlayFields ==
  ASSUME NEW p \in Play
  PROVE  /\ p # NoPlay
         /\ p.row \in Ids /\ p.paused \in BOOLEAN
         /\ p.started \in Nat /\ p.watched \in Nat /\ p.rested \in Nat
         /\ p.lastTick \in Nat /\ p.lastPersist \in Nat
  BY NullsAssumption DEF Play

(* The collector's map and the table, entry by entry. *)
LEMMA Entries ==
  ASSUME TypeOK
  PROVE  /\ now \in Nat
         /\ Playing \subseteq Keys
         /\ \A k \in Playing : tracked[k] \in Play /\ tracked[k].row \in Ids
         /\ \A i \in Ids : rows[i] # NoRow => rows[i] \in Row
  BY PlayFields DEF TypeOK, Playing

(* Settling what a process left open leaves a row or nothing. *)
LEMMA SettledType ==
  ASSUME NEW r \in Row \cup {NoRow}, NEW b \in BOOLEAN
  PROVE  Settled(r, b) \in Row \cup {NoRow}
<1>1. CASE r = NoRow \/ ~r.active
  BY <1>1 DEF Settled
<1>2. CASE r # NoRow /\ r.active
  <2>1. r \in Row /\ [r EXCEPT !.active = ~b] \in Row
    BY <1>2 DEF Row
  <2> QED
    BY <1>2, <2>1 DEF Settled
<1> QED
  BY <1>1, <1>2

-----------------------------------------------------------------------------
(* How the tracked plays and the table may move together.  Each lemma takes  *)
(* one kind of move and shows that the state half of Core survives it.       *)

Half == PlaysOwnTheirRows /\ NeverLongerThanItLasted /\ FinishedIsKept

(* Nothing moves but the clock, forwards. *)
LEMMA HalfQuiet ==
  ASSUME TypeOK, Half, now' \in Nat, now' >= now,
         UNCHANGED <<tracked, rows>>
  PROVE  Half'
<1>1. Playing' = Playing
  BY DEF Playing
<1>2. PlaysOwnTheirRows' /\ FinishedIsKept'
  BY <1>1 DEF Half, PlaysOwnTheirRows, FollowsARow, FinishedIsKept
<1>3. /\ now \in Nat
      /\ \A k \in Playing : tracked[k].lastTick \in Nat
      /\ \A i \in Ids : rows[i] # NoRow => rows[i].ended \in Nat
  BY Entries, PlayFields, RowFields
<1>4. NeverLongerThanItLasted'
  BY <1>1, <1>3 DEF Half, NeverLongerThanItLasted
<1> QED
  BY <1>2, <1>4 DEF Half

(* Nobody follows anything any more, and rows were only closed or thrown away. *)
LEMMA HalfReset ==
  ASSUME TypeOK, Half, UNCHANGED now, tracked' = Idle,
         rows' \in [Ids -> Row \cup {NoRow}],
         \A i \in Ids : rows'[i] \in {rows[i], NoRow, Settled(rows[i], TRUE)}
  PROVE  Half'
<1>1. Playing' = {}
  BY DEF Playing, Idle
<1>2. ASSUME NEW i \in Ids, rows'[i] # NoRow
      PROVE  /\ rows[i] # NoRow
             /\ rows'[i].started = rows[i].started
             /\ rows'[i].ended = rows[i].ended
             /\ rows'[i].duration = rows[i].duration
             /\ rows'[i].paused = rows[i].paused
             /\ ~rows'[i].active => rows'[i].duration >= MinKeep
  <2>1. rows[i] \in Row \cup {NoRow}
    BY DEF TypeOK
  <2>2. CASE rows'[i] = rows[i]
    BY <1>2, <2>1, <2>2 DEF Half, FinishedIsKept
  <2>3. CASE rows'[i] = Settled(rows[i], TRUE) /\ rows'[i] # rows[i]
    <3>1. /\ rows[i] # NoRow /\ rows[i].active
          /\ ~(rows[i].duration < MinKeep)
          /\ rows'[i] = [rows[i] EXCEPT !.active = FALSE]
      BY <1>2, <2>3 DEF Settled
    <3>2. rows[i] \in Row /\ rows[i].duration \in Nat
      BY <2>1, <3>1 DEF Row
    <3> QED
      BY <3>1, <3>2, ParamsAssumption DEF Row
  <2> QED
    BY <1>2, <2>2, <2>3
<1> QED
  BY <1>1, <1>2 DEF Half, PlaysOwnTheirRows, NeverLongerThanItLasted, FinishedIsKept

(* A followed play is sighted, and its row is written or left. *)
LEMMA HalfSighted ==
  ASSUME TypeOK, Half, UNCHANGED now,
         NEW key \in Playing, NEW q \in Play,
         q.row = tracked[key].row, q.started = tracked[key].started,
         q.watched >= tracked[key].watched, q.rested >= tracked[key].rested,
         q.lastTick = now, q.started + q.watched + q.rested <= now,
         tracked' = [tracked EXCEPT ![key] = q],
         rows' \in {rows, [rows EXCEPT ![q.row] = Written(@, q, TRUE)]}
  PROVE  Half'
<1> DEFINE i == q.row
           p == tracked[key]
           r == rows[i]
<1>1. /\ key \in Keys /\ p \in Play /\ i \in Ids /\ r \in Row
      /\ Playing \subseteq Keys
      /\ p # NoPlay /\ q # NoPlay
  BY Entries, PlayFields DEF Half, PlaysOwnTheirRows, FollowsARow, Playing
<1>2. Playing' = Playing /\ tracked'[key] = q
      /\ \A k \in Playing : k # key => tracked'[k] = tracked[k]
  BY <1>1 DEF TypeOK, Playing
<1>3. FollowsARow(key) /\ p.started + p.watched + p.rested <= p.lastTick /\ p.lastTick <= now
  BY DEF Half, PlaysOwnTheirRows, NeverLongerThanItLasted
<1>4. ASSUME NEW k \in Playing, k # key
      PROVE  tracked[k].row # i
  BY <1>4 DEF Half, PlaysOwnTheirRows
<1>5. /\ rows'[i] \in {r, Written(r, q, TRUE)}
      /\ \A j \in Ids : j # i => rows'[j] = rows[j]
  BY <1>1 DEF TypeOK
<1>6. /\ rows'[i] \in Row /\ rows'[i] # NoRow
      /\ rows'[i].active /\ rows'[i].view = r.view /\ rows'[i].started = r.started
      /\ rows'[i].ended <= now /\ rows'[i].duration <= q.watched /\ rows'[i].paused <= q.rested
      /\ rows'[i].started + rows'[i].duration + rows'[i].paused <= rows'[i].ended
  <2> now \in Nat
    BY Entries
  <2>0. /\ r.started = p.started /\ r.active /\ r.ended <= p.lastTick
        /\ r.duration <= p.watched /\ r.paused <= p.rested
        /\ r.started + r.duration + r.paused <= r.ended /\ r.ended <= now
    BY <1>1, <1>3, RowFields DEF FollowsARow, Half, NeverLongerThanItLasted
  <2> HIDE DEF i, p, r
  <2>1. CASE rows'[i] = r
    BY <1>1, <2>0, <2>1, RowFields, PlayFields DEF i, p
  <2>2. CASE rows'[i] = Written(r, q, TRUE)
    <3> DEFINE w == Written(r, q, TRUE)
    <3>1. /\ w \in Row /\ w # NoRow /\ w.view = r.view /\ w.started = r.started
          /\ w.active = TRUE /\ w.ended = q.lastTick
          /\ w.duration = q.watched /\ w.paused = q.rested
      BY <1>1, WrittenFacts
    <3>2. r.started = q.started
      BY <2>0 DEF p
    <3>3. q.started \in Nat /\ q.watched \in Nat /\ q.rested \in Nat
      BY PlayFields
    <3>4. rows'[i] = w
      BY <2>2
    <3> HIDE DEF w
    <3> QED
      BY <3>1, <3>2, <3>3, <3>4
  <2> QED
    BY <1>5, <2>1, <2>2
<1> HIDE DEF i, p, r
<1>7. ASSUME NEW k \in Playing
      PROVE  FollowsARow(k)'
  <2>1. CASE k = key
    BY <1>2, <1>3, <1>6, <2>1 DEF FollowsARow, i, r, p
  <2>2. CASE k # key
    <3>1. FollowsARow(k) /\ tracked[k].row # i /\ tracked[k].row \in Ids
      BY <1>1, <1>4, <2>2 DEF Half, PlaysOwnTheirRows, TypeOK, Playing, Play
    <3> QED
      BY <1>2, <1>5, <2>2, <3>1 DEF FollowsARow
  <2> QED
    BY <2>1, <2>2
<1>8. PlaysOwnTheirRows'
  <2>1. \A k, l \in Playing : tracked'[k].row = tracked'[l].row => k = l
    BY <1>2, <1>4 DEF Half, PlaysOwnTheirRows, i
  <2> QED
    BY <1>2, <1>7, <2>1 DEF PlaysOwnTheirRows
<1>9. NeverLongerThanItLasted'
  <2>1. \A k \in Playing : LET s == tracked'[k] IN
          s.started + s.watched + s.rested <= s.lastTick /\ s.lastTick <= now
    BY <1>2 DEF Half, NeverLongerThanItLasted, TypeOK
  <2>2. \A j \in Ids : rows'[j] # NoRow => LET s == rows'[j] IN
          s.started + s.duration + s.paused <= s.ended /\ s.ended <= now
    BY <1>5, <1>6 DEF Half, NeverLongerThanItLasted
  <2> QED
    BY <1>2, <2>1, <2>2 DEF NeverLongerThanItLasted
<1>10. FinishedIsKept'
  BY <1>5, <1>6 DEF Half, FinishedIsKept
<1> QED
  BY <1>8, <1>9, <1>10 DEF Half

(* A row nobody follows is opened, reopened, deleted or settled. *)
LEMMA HalfUnfollowed ==
  ASSUME TypeOK, Half, UNCHANGED <<now, tracked>>,
         NEW i \in Ids, NEW r \in Row \cup {NoRow},
         \A k \in Playing : tracked[k].row # i,
         r # NoRow => /\ r.active
                      /\ r.started + r.duration + r.paused <= r.ended
                      /\ r.ended <= now,
         rows' = [rows EXCEPT ![i] = r]
  PROVE  Half'
<1>1. rows'[i] = r /\ \A j \in Ids : j # i => rows'[j] = rows[j]
  BY DEF TypeOK
<1>2. Playing' = Playing
  BY DEF Playing
<1>3. PlaysOwnTheirRows'
  BY <1>1, <1>2, Entries DEF Half, PlaysOwnTheirRows, FollowsARow
<1>4. NeverLongerThanItLasted'
  <2>1. \A j \in Ids : rows'[j] # NoRow => LET s == rows'[j] IN
          s.started + s.duration + s.paused <= s.ended /\ s.ended <= now
    BY <1>1 DEF Half, NeverLongerThanItLasted
  <2> QED
    BY <1>2, <2>1 DEF Half, NeverLongerThanItLasted
<1>5. FinishedIsKept'
  BY <1>1 DEF Half, FinishedIsKept
<1> QED
  BY <1>3, <1>4, <1>5 DEF Half

(* A play is followed from now on, in a row nobody else follows. *)
LEMMA HalfAdopted ==
  ASSUME TypeOK, Half, UNCHANGED now,
         NEW key \in Keys \ Playing, NEW i \in Ids, NEW r \in Row, NEW q \in Play,
         \A k \in Playing : tracked[k].row # i,
         r.active, r.view = View(key),
         r.started + r.duration + r.paused <= r.ended, r.ended <= now,
         q.row = i, q.started = r.started,
         q.watched = r.duration, q.rested = r.paused, q.lastTick = now,
         tracked' = [tracked EXCEPT ![key] = q],
         rows' = [rows EXCEPT ![i] = r]
  PROVE  Half'
<1>1. rows'[i] = r /\ r # NoRow /\ \A j \in Ids : j # i => rows'[j] = rows[j]
  BY RowFields DEF TypeOK
<1>2. /\ Playing' = Playing \cup {key}
      /\ tracked'[key] = q
      /\ \A k \in Playing : k # key /\ tracked'[k] = tracked[k]
  BY PlayFields DEF TypeOK, Playing
<1>3. now \in Nat /\ Playing \subseteq Keys /\ \A k \in Playing : tracked[k].row \in Ids
  BY Entries
<1>4. /\ r.started \in Nat /\ r.duration \in Nat /\ r.paused \in Nat /\ r.ended \in Nat
  BY RowFields
<1>5. FollowsARow(key)'
  BY <1>1, <1>2, <1>4, <1>3 DEF FollowsARow
<1>6. ASSUME NEW k \in Playing
      PROVE  FollowsARow(k)'
  <2>1. FollowsARow(k) /\ tracked[k].row # i
    BY DEF Half, PlaysOwnTheirRows
  <2> QED
    BY <1>1, <1>2, <1>3, <2>1 DEF FollowsARow
<1>7. PlaysOwnTheirRows'
  <2>1. \A k, l \in Playing' : tracked'[k].row = tracked'[l].row => k = l
    BY <1>2 DEF Half, PlaysOwnTheirRows
  <2> QED
    BY <1>2, <1>5, <1>6, <2>1 DEF PlaysOwnTheirRows
<1>8. NeverLongerThanItLasted'
  <2>1. q.started + q.watched + q.rested <= q.lastTick /\ q.lastTick <= now
    BY <1>3, <1>4
  <2>2. \A k \in Playing' : LET s == tracked'[k] IN
          s.started + s.watched + s.rested <= s.lastTick /\ s.lastTick <= now
    BY <1>2, <2>1 DEF Half, NeverLongerThanItLasted
  <2>3. \A j \in Ids : rows'[j] # NoRow => LET s == rows'[j] IN
          s.started + s.duration + s.paused <= s.ended /\ s.ended <= now
    BY <1>1 DEF Half, NeverLongerThanItLasted
  <2> QED
    BY <2>2, <2>3 DEF NeverLongerThanItLasted
<1>9. FinishedIsKept'
  BY <1>1 DEF Half, FinishedIsKept
<1> QED
  BY <1>7, <1>8, <1>9 DEF Half

(* A play is let go of: its row is closed, thrown away, or left as it is. *)
LEMMA HalfReleased ==
  ASSUME TypeOK, Half, UNCHANGED now, NEW key \in Playing,
         tracked' = [tracked EXCEPT ![key] = NoPlay],
         rows' \in {rows, ClosedRows(key)}
  PROVE  Half'
<1> DEFINE p == tracked[key]
           i == p.row
           r == rows[i]
<1>1. /\ key \in Keys /\ p \in Play /\ i \in Ids
      /\ Playing \subseteq Keys /\ now \in Nat
      /\ \A k \in Playing : tracked[k].row \in Ids
  BY Entries
<1>2. FollowsARow(key) /\ p.started + p.watched + p.rested <= p.lastTick /\ p.lastTick <= now
  BY DEF Half, PlaysOwnTheirRows, NeverLongerThanItLasted
<1>3. r \in Row /\ r # NoRow /\ r.active /\ r.started = p.started
  BY <1>1, <1>2, Entries DEF FollowsARow
<1>4. /\ Playing' = Playing \ {key}
      /\ \A k \in Playing' : tracked'[k] = tracked[k] /\ k \in Playing /\ k # key
  BY <1>1 DEF TypeOK, Playing
<1>5. \A k \in Playing' : tracked[k].row # i
  BY <1>4 DEF Half, PlaysOwnTheirRows
<1>6. /\ rows'[i] \in {r, NoRow, Written(r, p, FALSE)}
      /\ rows'[i] = Written(r, p, FALSE) => (rows'[i] = r \/ ~(p.watched < MinKeep))
      /\ \A j \in Ids : j # i => rows'[j] = rows[j]
  <2>1. CASE rows' = rows
    BY <2>1
  <2>2. CASE rows' = ClosedRows(key)
    <3>1. rows' = [rows EXCEPT ![i] = IF p.watched < MinKeep THEN NoRow
                                      ELSE Written(r, p, FALSE)]
      BY <2>2 DEF ClosedRows
    <3>2. Written(r, p, FALSE) # NoRow
      BY <1>1, <1>3, WrittenFacts
    <3> QED
      BY <1>1, <3>1, <3>2 DEF TypeOK
  <2> QED
    BY <2>1, <2>2
<1>7. /\ rows'[i] # NoRow => /\ rows'[i].started + rows'[i].duration + rows'[i].paused
                                  <= rows'[i].ended
                             /\ rows'[i].ended <= now
                             /\ ~rows'[i].active => rows'[i].duration >= MinKeep
  <2>1. CASE rows'[i] = r
    BY <1>1, <1>3, <2>1 DEF Half, NeverLongerThanItLasted
  <2>2. CASE rows'[i] # r /\ rows'[i] = Written(r, p, FALSE)
    <3> DEFINE w == Written(r, p, FALSE)
    <3>1. /\ w.started = p.started /\ w.ended = p.lastTick
          /\ w.duration = p.watched /\ w.paused = p.rested
      BY <1>1, <1>3, WrittenFacts
    <3>2. ~(p.watched < MinKeep) /\ p.watched \in Nat
      BY <1>1, <1>6, <2>2, PlayFields
    <3>3. rows'[i] = w
      BY <2>2
    <3> HIDE DEF w, r
    <3> QED
      BY <1>2, <3>1, <3>2, <3>3, ParamsAssumption
  <2> QED
    BY <1>6, <2>1, <2>2
<1> HIDE DEF i, r
<1>8. PlaysOwnTheirRows'
  <2>1. ASSUME NEW k \in Playing'
        PROVE  FollowsARow(k)'
    <3>1. /\ FollowsARow(k) /\ tracked[k].row # i /\ tracked[k].row \in Ids
          /\ tracked'[k] = tracked[k]
      BY <1>1, <1>4, <1>5 DEF Half, PlaysOwnTheirRows
    <3>2. rows'[tracked[k].row] = rows[tracked[k].row]
      BY <1>6, <3>1
    <3> QED
      BY <3>1, <3>2 DEF FollowsARow
  <2>2. \A k, l \in Playing' : tracked'[k].row = tracked'[l].row => k = l
    BY <1>4 DEF Half, PlaysOwnTheirRows
  <2> QED
    BY <2>1, <2>2 DEF PlaysOwnTheirRows
<1>9. NeverLongerThanItLasted'
  <2>1. \A k \in Playing' : LET s == tracked'[k] IN
          s.started + s.watched + s.rested <= s.lastTick /\ s.lastTick <= now
    BY <1>4 DEF Half, NeverLongerThanItLasted
  <2>2. \A j \in Ids : rows'[j] # NoRow => LET s == rows'[j] IN
          s.started + s.duration + s.paused <= s.ended /\ s.ended <= now
    BY <1>6, <1>7 DEF Half, NeverLongerThanItLasted
  <2> QED
    BY <2>1, <2>2 DEF NeverLongerThanItLasted
<1>10. FinishedIsKept'
  BY <1>6, <1>7 DEF Half, FinishedIsKept
<1> QED
  BY <1>8, <1>9, <1>10 DEF Half

-----------------------------------------------------------------------------
(* Every action keeps Core. *)

(* Core, split the way the proofs use it. *)
LEMMA CoreHalf == Core <=> TypeOK /\ Half /\ DownIsEmpty
  BY DEF Core, Half

(* A session that is still to be done has a key, for the view in the list. *)
LEMMA KeyFacts ==
  ASSUME TypeOK, NEW s \in todo
  PROVE  /\ s \in Sids /\ Key(s) \in Keys
         /\ View(Key(s)) = list[s].view
         /\ list[s].view \in Views /\ list[s].paused \in BOOLEAN
  BY DEF TypeOK, Key, Keys, Slot, View

(* What the collector knows of a sighted play may be written to its row. *)
LEMMA SavedFacts ==
  ASSUME Core, NEW s \in todo, tracked[Key(s)] # NoPlay
  PROVE  LET p == tracked[Key(s)]
             q == Sighted(p, list[s].paused)
             z == Saved(s) IN
         /\ Key(s) \in Playing /\ p \in Play
         /\ q \in Play /\ z \in Play
         /\ z.row = q.row /\ z.started = q.started /\ z.paused = q.paused
         /\ z.watched = q.watched /\ z.rested = q.rested
         /\ z.lastTick = q.lastTick /\ z.lastPersist = now
<1> DEFINE p == tracked[Key(s)]
           q == Sighted(p, list[s].paused)
<1>1. Key(s) \in Playing /\ p \in Play /\ now \in Nat /\ p.lastTick <= now
      /\ list[s].paused \in BOOLEAN
  BY KeyFacts, Entries DEF Core, Playing, NeverLongerThanItLasted
<1>2. q \in Play
  BY <1>1, SightedFacts
<1>3. Saved(s) = [q EXCEPT !.lastPersist = now]
  BY DEF Saved
<1> HIDE DEF q
<1>4. Saved(s) = [row |-> q.row, started |-> q.started, watched |-> q.watched,
                  rested |-> q.rested, paused |-> q.paused,
                  lastTick |-> q.lastTick, lastPersist |-> now]
  BY <1>2, <1>3 DEF Play
<1>5. Saved(s) \in Play
  BY <1>1, <1>2, <1>4 DEF Play
<1> QED
  BY <1>1, <1>2, <1>4, <1>5 DEF q

(* The three ways of sighting a followed play. *)
LEMMA CoreSighted ==
  ASSUME Core, NEW s \in Sids, Glance(s) \/ Save(s) \/ SaveFails(s)
  PROVE  Core'
<1> DEFINE key == Key(s)
           p == tracked[key]
           q == Sighted(p, list[s].paused)
           z == Saved(s)
<1>1. s \in todo /\ p # NoPlay /\ pc = "sessions" /\ UNCHANGED <<now, live, spawned, told, crashes>>
      /\ seenAt' = [seenAt EXCEPT ![p.row] = now]
  BY DEF Glance, Save, SaveFails, Known
<1>2. /\ key \in Playing /\ key \in Keys /\ p \in Play /\ q \in Play /\ z \in Play
      /\ z.row = q.row /\ z.started = q.started
      /\ z.watched = q.watched /\ z.rested = q.rested /\ z.lastTick = q.lastTick
  BY <1>1, SavedFacts, KeyFacts DEF Core
<1>3. /\ TypeOK /\ Half /\ now \in Nat
      /\ p.lastTick <= now /\ p.started + p.watched + p.rested <= p.lastTick
  BY <1>2, CoreHalf, Entries DEF Half, NeverLongerThanItLasted
<1>4. /\ q.row = p.row /\ q.started = p.started /\ q.lastTick = now
      /\ q.watched >= p.watched /\ q.rested >= p.rested
      /\ q.watched + q.rested <= p.watched + p.rested + (now - p.lastTick)
  BY <1>1, <1>2, <1>3, KeyFacts, SightedFacts
<1>5. q.started + q.watched + q.rested <= now
  BY <1>2, <1>3, <1>4, PlayFields
<1>6. \E y \in {q, z} : /\ tracked' = [tracked EXCEPT ![key] = y]
                        /\ rows' \in {rows, [rows EXCEPT ![y.row] = Written(@, y, TRUE)]}
  BY DEF Glance, Save, SaveFails, SavedRows
<1> HIDE DEF q, z
<1>7. PICK y \in {q, z} :
           /\ tracked' = [tracked EXCEPT ![key] = y]
           /\ rows' \in {rows, [rows EXCEPT ![y.row] = Written(@, y, TRUE)]}
  BY <1>6
<1>8. /\ y \in Play /\ y.row = p.row /\ y.started = p.started /\ y.lastTick = now
      /\ y.watched >= p.watched /\ y.rested >= p.rested
      /\ y.started + y.watched + y.rested <= now
  BY <1>2, <1>4, <1>5
<1>9. Half'
  BY <1>1, <1>2, <1>3, <1>7, <1>8, HalfSighted
<1>10. TypeOK'
  <2>1. tracked' \in [Keys -> Play \cup {NoPlay}]
    BY <1>3, <1>7, <1>8 DEF TypeOK
  <2>2. rows' \in [Ids -> Row \cup {NoRow}]
    <3>1. p.row \in Ids /\ rows[p.row] \in Row
      BY <1>2, <1>3, Entries DEF Half, PlaysOwnTheirRows, FollowsARow
    <3>2. Written(rows[p.row], y, TRUE) \in Row
      BY <1>8, <3>1, WrittenFacts
    <3> QED
      BY <1>3, <1>7, <1>8, <3>1, <3>2 DEF TypeOK
  <2>3. list' \in [Sids -> Slot \cup {Nothing}] /\ todo' \subseteq {t \in Sids : list'[t] # Nothing}
        /\ pc' \in {"idle", "sessions"} /\ fails' \in Nat
    BY <1>1, <1>3 DEF Glance, Save, SaveFails, Next1, Abandon, TypeOK, Empty
  <2>4. seenAt' \in [Ids -> Nat]
    BY <1>1, <1>3 DEF TypeOK
  <2> QED
    BY <1>1, <1>3, <2>1, <2>2, <2>3, <2>4 DEF TypeOK
<1>11. DownIsEmpty'
  BY <1>1 DEF Glance, Save, SaveFails, Next1, Abandon, DownIsEmpty
<1> QED
  BY <1>9, <1>10, <1>11 DEF Core, Half

(* A row to resume is a closed one of this view, and reopening it changes nothing else. *)
LEMMA ResumeFacts ==
  ASSUME TypeOK, NEW v \in Views, NEW i \in Ids, Resumed(i, v)
  PROVE  /\ rows[i] \in Row /\ rows[i] # NoRow /\ ~rows[i].active /\ rows[i].view = v
         /\ [rows[i] EXCEPT !.active = TRUE] \in Row
  BY Entries DEF Resumed, Resumable, Row

(* Continuing a row after a short break keeps Core: nobody else followed it. *)
LEMMA CoreResume ==
  ASSUME Core, NEW s \in Sids, Resume(s)
  PROVE  Core'
<1> DEFINE key == Key(s)
<1>1. PICK i \in Ids :
        /\ Resumed(i, list[s].view)
        /\ rows' = [rows EXCEPT ![i].active = TRUE]
        /\ Follow(s, i, rows[i].started, rows[i].duration, rows[i].paused)
        /\ spawned' = spawned \cup Raised("start", i, list[s].view, rows[i].started)
        /\ seenAt' = [seenAt EXCEPT ![i] = now]
  BY DEF Resume
<1> DEFINE r == [rows[i] EXCEPT !.active = TRUE]
           q == [row |-> i, started |-> rows[i].started, watched |-> rows[i].duration,
                 rested |-> rows[i].paused, paused |-> list[s].paused,
                 lastTick |-> now, lastPersist |-> now]
<1>2. /\ s \in todo /\ pc = "sessions" /\ tracked[key] = NoPlay
      /\ UNCHANGED <<now, live, told, crashes, fails, pc, list>> /\ todo' = todo \ {s}
  BY DEF Resume, New, Next1
<1>3. TypeOK /\ Half /\ now \in Nat
  BY CoreHalf, Entries
<1>4. key \in Keys \ Playing /\ list[s].view \in Views /\ list[s].paused \in BOOLEAN
      /\ View(key) = list[s].view
  BY <1>2, <1>3, KeyFacts DEF Playing
<1>5. /\ rows[i] \in Row /\ ~rows[i].active /\ rows[i].view = View(key) /\ r \in Row
      /\ rows[i] # NoRow
  BY <1>1, <1>3, <1>4, ResumeFacts
<1>6. /\ r.active /\ r.view = rows[i].view /\ r.started = rows[i].started
      /\ r.ended = rows[i].ended /\ r.duration = rows[i].duration /\ r.paused = rows[i].paused
  BY <1>5 DEF Row
<1>7. q \in Play
  BY <1>3, <1>4, <1>5, RowFields DEF Play
<1>8. tracked' = [tracked EXCEPT ![key] = q] /\ rows' = [rows EXCEPT ![i] = r]
  BY <1>1 DEF Follow
<1>9. \A k \in Playing : tracked[k].row # i
  BY <1>3, <1>5 DEF Half, PlaysOwnTheirRows, FollowsARow
<1>10. rows[i].started + rows[i].duration + rows[i].paused <= rows[i].ended /\ rows[i].ended <= now
  BY <1>3, <1>5 DEF Half, NeverLongerThanItLasted
<1>11. /\ q.row = i /\ q.started = rows[i].started /\ q.watched = rows[i].duration
       /\ q.rested = rows[i].paused /\ q.lastTick = now
  OBVIOUS
<1> HIDE DEF r, q
<1>12. Half'
  <2>1. r.started + r.duration + r.paused <= r.ended /\ r.ended <= now
    BY <1>6, <1>10
  <2>2. /\ q.row = i /\ q.started = r.started /\ q.watched = r.duration
        /\ q.rested = r.paused /\ q.lastTick = now
    BY <1>6, <1>11
  <2>3. r.active /\ r.view = View(key)
    BY <1>5, <1>6
  <2> QED
    BY <1>2, <1>3, <1>4, <1>5, <1>7, <1>8, <1>9, <2>1, <2>2, <2>3, HalfAdopted
<1>13. TypeOK'
  <2>1. tracked' \in [Keys -> Play \cup {NoPlay}] /\ rows' \in [Ids -> Row \cup {NoRow}]
        /\ seenAt' \in [Ids -> Nat]
    BY <1>1, <1>3, <1>5, <1>7, <1>8 DEF TypeOK
  <2>2. spawned' \subseteq Notice
    BY <1>1, <1>3, <1>4, <1>5, RowFields DEF TypeOK, Raised, Notice
  <2> QED
    BY <1>2, <1>3, <2>1, <2>2 DEF TypeOK
<1> QED
  BY <1>2, <1>12, <1>13 DEF Core, Half, DownIsEmpty

(* A new row keeps Core: its id is taken by nobody. *)
LEMMA CoreInsert ==
  ASSUME Core, NEW s \in Sids, Insert(s)
  PROVE  Core'
<1> DEFINE key == Key(s)
           r == Opened(list[s].view)
<1>1. PICK i \in Ids :
        /\ IsNextId(i)
        /\ rows' = [rows EXCEPT ![i] = r]
        /\ Follow(s, i, now, 0, 0)
        /\ spawned' = spawned \cup Raised("start", i, list[s].view, now)
        /\ seenAt' = [seenAt EXCEPT ![i] = now]
  BY DEF Insert
<1> DEFINE q == [row |-> i, started |-> now, watched |-> 0, rested |-> 0,
                 paused |-> list[s].paused, lastTick |-> now, lastPersist |-> now]
<1>2. /\ s \in todo /\ pc = "sessions" /\ tracked[key] = NoPlay
      /\ UNCHANGED <<now, live, told, crashes, fails, pc, list>> /\ todo' = todo \ {s}
  BY DEF Insert, New, Next1
<1>3. TypeOK /\ Half /\ now \in Nat
  BY CoreHalf, Entries
<1>4. key \in Keys \ Playing /\ list[s].view \in Views /\ list[s].paused \in BOOLEAN
      /\ View(key) = list[s].view
  BY <1>2, <1>3, KeyFacts DEF Playing
<1>5. /\ r \in Row /\ r.active /\ r.view = View(key) /\ r.started = now /\ r.ended = now
      /\ r.duration = 0 /\ r.paused = 0
  BY <1>3, <1>4 DEF Opened, Row
<1>6. q \in Play /\ q.row = i /\ q.started = now /\ q.watched = 0 /\ q.rested = 0 /\ q.lastTick = now
  BY <1>3, <1>4 DEF Play
<1>7. tracked' = [tracked EXCEPT ![key] = q]
  BY <1>1 DEF Follow
<1>8. \A k \in Playing : tracked[k].row # i
  BY <1>1, <1>3 DEF IsNextId, Half, PlaysOwnTheirRows, FollowsARow
<1> HIDE DEF r, q
<1>9. Half'
  <2>1. r.started + r.duration + r.paused <= r.ended /\ r.ended <= now
    BY <1>3, <1>5
  <2>2. q.started = r.started /\ q.watched = r.duration /\ q.rested = r.paused
    BY <1>5, <1>6
  <2> QED
    BY <1>1, <1>2, <1>3, <1>4, <1>5, <1>6, <1>7, <1>8, <2>1, <2>2, HalfAdopted
<1>10. TypeOK'
  <2>1. tracked' \in [Keys -> Play \cup {NoPlay}] /\ rows' \in [Ids -> Row \cup {NoRow}]
        /\ seenAt' \in [Ids -> Nat]
    BY <1>1, <1>3, <1>5, <1>6, <1>7 DEF TypeOK
  <2>2. spawned' \subseteq Notice
    BY <1>1, <1>3, <1>4 DEF TypeOK, Raised, Notice
  <2> QED
    BY <1>2, <1>3, <2>1, <2>2 DEF TypeOK
<1> QED
  BY <1>2, <1>9, <1>10 DEF Core, Half, DownIsEmpty

(* A new play whose write fails keeps Core: the row is followed by nobody. *)
LEMMA CoreNewFails ==
  ASSUME Core, NEW s \in Sids, NewFails(s)
  PROVE  Core'
<1>1. /\ s \in todo /\ pc = "sessions"
      /\ UNCHANGED <<now, live, told, crashes, tracked, spawned, seenAt>>
      /\ fails' = fails + 1 /\ pc' = "idle" /\ list' = Empty /\ todo' = {}
  BY DEF NewFails, New, Abandon
<1>2. TypeOK /\ Half /\ now \in Nat /\ list[s].view \in Views
  BY <1>1, CoreHalf, Entries, KeyFacts
<1>3. Half' /\ rows' \in [Ids -> Row \cup {NoRow}]
  <2>1. CASE rows' = rows
    BY <1>1, <1>2, <2>1, HalfQuiet DEF TypeOK
  <2>2. ASSUME NEW i \in Ids, Resumed(i, list[s].view),
               rows' = [rows EXCEPT ![i].active = TRUE]
        PROVE  Half' /\ rows' \in [Ids -> Row \cup {NoRow}]
    <3> DEFINE r == [rows[i] EXCEPT !.active = TRUE]
    <3>1. rows[i] \in Row /\ rows[i] # NoRow /\ ~rows[i].active /\ r \in Row
      BY <1>2, <2>2, ResumeFacts
    <3>2. /\ r.active /\ r.started = rows[i].started /\ r.ended = rows[i].ended
          /\ r.duration = rows[i].duration /\ r.paused = rows[i].paused
      BY <3>1 DEF Row
    <3>3. \A k \in Playing : tracked[k].row # i
      BY <1>2, <3>1 DEF Half, PlaysOwnTheirRows, FollowsARow
    <3>4. rows[i].started + rows[i].duration + rows[i].paused <= rows[i].ended
          /\ rows[i].ended <= now
      BY <1>2, <3>1 DEF Half, NeverLongerThanItLasted
    <3>5. rows' = [rows EXCEPT ![i] = r]
      BY <2>2
    <3> HIDE DEF r
    <3>6. r.started + r.duration + r.paused <= r.ended /\ r.ended <= now
      BY <3>2, <3>4
    <3> QED
      BY <1>1, <1>2, <3>1, <3>2, <3>3, <3>5, <3>6, HalfUnfollowed DEF TypeOK
  <2>3. ASSUME NEW i \in Ids, IsNextId(i),
               rows' = [rows EXCEPT ![i] = Opened(list[s].view)]
        PROVE  Half' /\ rows' \in [Ids -> Row \cup {NoRow}]
    <3> DEFINE r == Opened(list[s].view)
    <3>1. /\ r \in Row /\ r.active /\ r.started = now /\ r.ended = now
          /\ r.duration = 0 /\ r.paused = 0
      BY <1>2 DEF Opened, Row
    <3>2. \A k \in Playing : tracked[k].row # i
      BY <1>2, <2>3 DEF IsNextId, Half, PlaysOwnTheirRows, FollowsARow
    <3>3. rows' = [rows EXCEPT ![i] = r]
      BY <2>3
    <3> HIDE DEF r
    <3>4. r.started + r.duration + r.paused <= r.ended /\ r.ended <= now
      BY <1>2, <3>1
    <3> QED
      BY <1>1, <1>2, <3>1, <3>2, <3>3, <3>4, HalfUnfollowed DEF TypeOK
  <2> QED
    BY <2>1, <2>2, <2>3 DEF NewFails
<1>4. TypeOK'
  BY <1>1, <1>2, <1>3 DEF TypeOK, Empty
<1> QED
  BY <1>1, <1>3, <1>4 DEF Core, Half, DownIsEmpty

(* Letting go of a play keeps Core, closed, thrown away or failed. *)
LEMMA CoreClose ==
  ASSUME Core, NEW k \in Keys, Close(k) \/ CloseFails(k)
  PROVE  Core'
<1>1. /\ k \in Playing /\ pc = "ended" /\ UNCHANGED <<now, live, told, crashes, seenAt>>
      /\ tracked' = [tracked EXCEPT ![k] = NoPlay]
      /\ rows' \in {rows, ClosedRows(k)}
  BY DEF Close, CloseFails, End, Gone
<1>2. TypeOK /\ Half /\ now \in Nat
  BY CoreHalf, Entries
<1>3. Half'
  BY <1>1, <1>2, HalfReleased
<1>4. /\ tracked[k] \in Play /\ tracked[k].row \in Ids /\ rows[tracked[k].row] \in Row
  BY <1>1, <1>2, Entries DEF Half, PlaysOwnTheirRows, FollowsARow
<1>5. rows' \in [Ids -> Row \cup {NoRow}]
  <2>1. Written(rows[tracked[k].row], tracked[k], FALSE) \in Row
    BY <1>4, WrittenFacts
  <2> QED
    BY <1>1, <1>2, <1>4, <2>1 DEF TypeOK, ClosedRows
<1>6. spawned' \subseteq Notice
  <2>1. tracked[k].started \in Nat /\ View(k) \in Views
    BY <1>4, PlayFields DEF Keys, View
  <2>2. Raised("stop", tracked[k].row, View(k), tracked[k].started) \subseteq Notice
    BY <1>4, <2>1 DEF Raised, Notice
  <2>3. /\ spawned \subseteq Notice
        /\ spawned' \subseteq spawned \cup
                      Raised("stop", tracked[k].row, View(k), tracked[k].started)
    BY <1>2 DEF TypeOK, Close, CloseFails, End, Stopped
  <2> QED
    BY <2>2, <2>3
<1>7. /\ pc' \in {"idle", "ended"} /\ fails' \in Nat
      /\ list' \in [Sids -> Slot \cup {Nothing}]
      /\ todo' \subseteq {s \in Sids : list'[s] # Nothing}
  BY <1>1, <1>2 DEF Close, CloseFails, Abandon, TypeOK, Empty
<1>8. TypeOK'
  BY <1>1, <1>2, <1>5, <1>6, <1>7 DEF TypeOK
<1> QED
  BY <1>3, <1>7, <1>8 DEF Core, Half, DownIsEmpty

(* Nothing but the process's own place in the tick, the clock, or the list   *)
(* of notifications changes.                                                 *)
LEMMA CoreQuiet ==
  ASSUME Core,
         \/ \E l \in Lists : TickBegin(l)
         \/ SessionsDone \/ TickEnd \/ DevicesFail
         \/ \E e \in spawned : Tell(e)
         \/ \E d \in Waits : Wait(d)
         \/ UNCHANGED vars
  PROVE  Core'
<1>1. UNCHANGED <<tracked, rows>>
  BY DEF TickBegin, SessionsDone, TickEnd, DevicesFail, Tell, Wait, vars
<1>2. TypeOK /\ Half /\ now \in Nat
  BY CoreHalf, Entries
<1>3. now' \in Nat /\ now' >= now
  BY <1>2, BoundsAssumption
  DEF TickBegin, SessionsDone, TickEnd, DevicesFail, Tell, Wait, vars
<1>4. Half'
  BY <1>1, <1>2, <1>3, HalfQuiet
<1>5. Playing' = Playing
  BY <1>1 DEF Playing
<1>6. TypeOK' /\ DownIsEmpty'
  <2>1. ASSUME NEW l \in Lists, TickBegin(l)
        PROVE  TypeOK' /\ DownIsEmpty'
    <3>1. l \in [Sids -> Slot \cup {Nothing}]
      BY DEF Lists
    <3> QED
      BY <1>2, <2>1, <3>1 DEF TickBegin, TypeOK, DownIsEmpty
  <2>2. CASE SessionsDone
    BY <1>2, <2>2 DEF SessionsDone, TypeOK, DownIsEmpty
  <2>3. CASE TickEnd
    <3>1. /\ pc' = "idle" /\ list' = Empty /\ todo' = {}
          /\ live' \subseteq Keys
      BY <1>2, <2>3, Entries DEF TickEnd, Core
    <3> QED
      BY <1>2, <2>3, <3>1 DEF TickEnd, TypeOK, DownIsEmpty, Empty
  <2>4. CASE DevicesFail
    BY <1>2, <2>4 DEF DevicesFail, Abandon, TypeOK, DownIsEmpty, Empty
  <2>5. ASSUME NEW e \in spawned, Tell(e)
        PROVE  TypeOK' /\ DownIsEmpty'
    <3>1. spawned' \subseteq Notice /\ told' \subseteq Notice
      BY <1>2, <2>5 DEF Tell, TypeOK
    <3>2. UNCHANGED <<now, pc, list, todo, tracked, rows, live, crashes, fails, seenAt>> /\ pc # "down"
      BY <2>5 DEF Tell
    <3> QED
      BY <1>2, <3>1, <3>2 DEF TypeOK, DownIsEmpty
  <2>6. ASSUME NEW d \in Waits, Wait(d)
        PROVE  TypeOK' /\ DownIsEmpty'
    BY <1>2, <1>3, <1>5, <2>6 DEF Wait, TypeOK, Core, DownIsEmpty
  <2>7. CASE UNCHANGED vars
    BY <1>2, <1>5, <2>7 DEF vars, TypeOK, Core, DownIsEmpty
  <2> QED
    BY <2>1, <2>2, <2>3, <2>4, <2>5, <2>6, <2>7
<1> QED
  BY <1>4, <1>6 DEF Core, Half

(* Deleting a finished play keeps Core: nobody follows it. *)
LEMMA CoreDeletePlay ==
  ASSUME Core, NEW i \in Ids, DeletePlay(i)
  PROVE  Core'
<1>1. /\ rows[i] # NoRow /\ ~rows[i].active
      /\ rows' = [rows EXCEPT ![i] = NoRow]
      /\ pc # "down"
      /\ UNCHANGED <<now, pc, list, todo, tracked, live, spawned, told, crashes, fails, seenAt>>
  BY DEF DeletePlay
<1>2. TypeOK /\ Half
  BY CoreHalf
<1>3. \A k \in Playing : tracked[k].row # i
  BY <1>1, <1>2 DEF Half, PlaysOwnTheirRows, FollowsARow
<1>4. Half'
  BY <1>1, <1>2, <1>3, HalfUnfollowed
<1>5. TypeOK'
  BY <1>1, <1>2 DEF TypeOK
<1> QED
  BY <1>1, <1>4, <1>5 DEF Core, Half, DownIsEmpty

(* A process begins or dies: the map is empty, the table settled or as it was. *)
LEMMA CoreProcess ==
  ASSUME Core, Boot \/ BootFails \/ Crash
  PROVE  Core'
<1>1. TypeOK /\ Half /\ UNCHANGED now /\ tracked' = Idle
  BY CoreHalf DEF Boot, BootFails, Crash, Start
<1>2. rows' \in {rows, [i \in Ids |-> Settled(rows[i], TRUE)], [i \in Ids |-> Settled(rows[i], FALSE)]}
  BY DEF Boot, BootFails, Crash
<1>3. rows' \in [Ids -> Row \cup {NoRow}]
  <2>1. \A i \in Ids, b \in BOOLEAN : Settled(rows[i], b) \in Row \cup {NoRow}
    BY <1>1, SettledType DEF TypeOK
  <2> QED
    BY <1>1, <1>2, <2>1 DEF TypeOK
<1>4. \A i \in Ids : rows'[i] \in {rows[i], NoRow, Settled(rows[i], TRUE)}
  <2>1. ASSUME NEW i \in Ids
        PROVE  Settled(rows[i], FALSE) \in {rows[i], NoRow}
    <3>1. rows[i] \in Row \cup {NoRow}
      BY <1>1 DEF TypeOK
    <3>2. CASE rows[i] = NoRow \/ ~rows[i].active
      BY <3>2 DEF Settled
    <3>3. CASE rows[i] # NoRow /\ rows[i].active
      <4>1. rows[i] \in Row /\ rows[i].active = TRUE
        BY <3>1, <3>3, RowFields
      <4>2. [rows[i] EXCEPT !.active = TRUE] = rows[i]
        BY <4>1 DEF Row
      <4> QED
        BY <3>3, <4>2 DEF Settled
    <3> QED
      BY <3>2, <3>3
  <2> QED
    BY <1>2, <2>1
<1>5. Half'
  BY <1>1, <1>3, <1>4, HalfReset
<1>6. Playing' = {}
  BY <1>1 DEF Playing, Idle
<1>7. /\ pc' \in {"idle", "down"} /\ list' = Empty /\ todo' = {}
      /\ live' \subseteq Keys /\ (pc' = "down" => live' = {})
      /\ spawned' \subseteq Notice /\ told' \subseteq Notice
      /\ crashes' \in Nat /\ fails' \in Nat /\ seenAt' \in [Ids -> Nat]
  <2>1. CASE Boot
    BY <1>1, <2>1 DEF Boot, Start, TypeOK
  <2>2. CASE BootFails
    BY <1>1, <2>2 DEF BootFails, Start, TypeOK
  <2>3. CASE Crash
    BY <1>1, <2>3 DEF Crash, TypeOK
  <2> QED
    BY <2>1, <2>2, <2>3
<1>8. TypeOK'
  BY <1>1, <1>3, <1>7 DEF TypeOK, Empty, Idle
<1> QED
  BY <1>5, <1>6, <1>7, <1>8 DEF Core, Half, DownIsEmpty

(* A database that has never been collected into is in order: no rows, no   *)
(* plays (`run` before its first list).                                      *)
THEOREM CoreInit == Init => Core
<1> SUFFICES ASSUME Init PROVE Core
  OBVIOUS
<1>1. Playing = {} /\ \A i \in Ids : rows[i] = NoRow
  BY DEF Init, Playing, Idle
<1> QED
  BY <1>1, TypeInit
  DEF Init, Core, PlaysOwnTheirRows, NeverLongerThanItLasted, FinishedIsKept, DownIsEmpty

(* Every step of the process, a crash, a failed write or somebody's hand     *)
(* keeps what the model's state properties rest on.                          *)
THEOREM CoreStep == Core /\ [Next]_vars => Core'
<1> SUFFICES ASSUME Core, [Next]_vars PROVE Core'
  OBVIOUS
<1>1. CASE Boot \/ BootFails \/ Crash
  BY <1>1, CoreProcess
<1>2. ASSUME NEW s \in Sids, \/ Glance(s) \/ Save(s) \/ SaveFails(s)
                             \/ Resume(s) \/ Insert(s) \/ NewFails(s)
      PROVE  Core'
  BY <1>2, CoreSighted, CoreResume, CoreInsert, CoreNewFails
<1>3. ASSUME NEW k \in Keys, Close(k) \/ CloseFails(k)
      PROVE  Core'
  BY <1>3, CoreClose
<1>4. ASSUME NEW i \in Ids, DeletePlay(i)
      PROVE  Core'
  BY <1>4, CoreDeletePlay
<1>5. CASE \/ \E l \in Lists : TickBegin(l)
           \/ SessionsDone \/ TickEnd \/ DevicesFail
           \/ \E e \in spawned : Tell(e)
           \/ \E d \in Waits : Wait(d)
           \/ UNCHANGED vars
  BY <1>5, CoreQuiet
<1> QED
  BY <1>1, <1>2, <1>3, <1>4, <1>5 DEF Next, Tick

(* So it holds in every state the collector and its table can be in.         *)
THEOREM CoreAlways == Spec => []Core
<1> QED
  BY CoreInit, CoreStep, PTL DEF Spec

-----------------------------------------------------------------------------
(* What a crash can take.                                                    *)

Clocked(k) == LET p == tracked[k] IN
  /\ p.lastPersist <= p.lastTick
  /\ fails = 0 => /\ p.lastTick < p.lastPersist + PersistEvery
                  /\ p.watched + p.lastPersist <= rows[p.row].duration + p.lastTick

(* The save clock, one play at a time. *)
LEMMA SaveClockIs == SaveClock <=> \A k \in Playing : Clocked(k)
  BY DEF SaveClock, Clocked

(* A play that is left alone, in a row that is left alone, stays on the clock. *)
LEMMA ClockedOthers ==
  ASSUME Core, SaveClock, NEW k \in Playing,
         tracked'[k] = tracked[k], fails' \in {fails, fails + 1},
         fails' = fails => rows'[tracked[k].row] = rows[tracked[k].row]
  PROVE  Clocked(k)'
<1>1. Clocked(k) /\ fails \in Nat
  BY SaveClockIs DEF Core, TypeOK
<1> QED
  BY <1>1 DEF Clocked

(* A sighting keeps the save clock: a glance is only one before it is time. *)
LEMMA ClockSighted ==
  ASSUME Core, SaveClock, NEW s \in Sids, Glance(s) \/ Save(s) \/ SaveFails(s)
  PROVE  SaveClock'
<1>0. s \in todo
  BY DEF Glance, Save, SaveFails, Known
<1>k. PICK key \in Keys : key = Key(s)
  BY <1>0, KeyFacts DEF Core
<1> DEFINE p == tracked[key]
           q == Sighted(p, list[s].paused)
           z == Saved(s)
<1>1. /\ s \in todo /\ p # NoPlay /\ UNCHANGED now
      /\ TypeOK /\ PlaysOwnTheirRows /\ now \in Nat /\ fails \in Nat
  BY <1>k, Entries DEF Glance, Save, SaveFails, Known, Core, TypeOK
<1>2. /\ key \in Playing /\ key \in Keys /\ p \in Play /\ q \in Play /\ z \in Play
      /\ z.row = q.row /\ z.watched = q.watched /\ z.lastTick = q.lastTick /\ z.lastPersist = now
  BY <1>k, <1>1, SavedFacts, KeyFacts
<1>3. p.lastTick <= now
  BY <1>2 DEF Core, NeverLongerThanItLasted
<1>4. /\ q.row = p.row /\ q.lastTick = now /\ q.lastPersist = p.lastPersist
      /\ q.watched <= p.watched + (now - p.lastTick)
  BY <1>1, <1>2, <1>3, KeyFacts, SightedFacts
<1>5. Clocked(key) /\ FollowsARow(key)
  BY <1>1, <1>2, SaveClockIs DEF PlaysOwnTheirRows
<1>6. p.row \in Ids /\ rows[p.row] \in Row /\ rows[p.row].duration \in Nat
      /\ p.lastTick \in Nat /\ p.watched \in Nat /\ p.lastPersist \in Nat /\ q.watched \in Nat
  BY <1>1, <1>2, <1>5, Entries, RowFields, PlayFields DEF FollowsARow
<1> HIDE DEF q, z
<1>7. Clocked(key)'
  <2>1. CASE Glance(s)
    <3>1. /\ tracked'[key] = q /\ rows' = rows /\ fails' = fails
          /\ now - p.lastPersist < PersistEvery
      BY <1>k, <1>1, <1>2, <2>1 DEF Glance, TypeOK, q
    <3>2. q.lastPersist <= q.lastTick /\ q.lastTick < q.lastPersist + PersistEvery
      BY <1>1, <1>3, <1>4, <1>5, <1>6, <3>1, ParamsAssumption DEF Clocked
    <3>3. fails = 0 => q.watched + q.lastPersist <= rows[q.row].duration + q.lastTick
      BY <1>1, <1>3, <1>4, <1>5, <1>6 DEF Clocked
    <3> QED
      BY <3>1, <3>2, <3>3 DEF Clocked
  <2>2. CASE Save(s)
    <3>1. tracked'[key] = z /\ rows' = [rows EXCEPT ![z.row] = Written(@, z, TRUE)]
      BY <1>k, <1>1, <1>2, <2>2 DEF Save, SavedRows, TypeOK, z
    <3>2. rows'[z.row] = Written(rows[z.row], z, TRUE)
      BY <1>1, <1>2, <1>4, <1>6, <3>1 DEF TypeOK
    <3>3. rows'[z.row].duration = z.watched
      <4> DEFINE o == rows[z.row]
      <4>1. o \in Row
        BY <1>2, <1>4, <1>6
      <4> HIDE DEF o
      <4>2. Written(o, z, TRUE).duration = z.watched
        BY <1>2, <4>1, WrittenFacts
      <4> QED
        BY <3>2, <4>2 DEF o
    <3>4. z.lastPersist <= z.lastTick /\ z.lastTick < z.lastPersist + PersistEvery
      BY <1>1, <1>2, <1>4, ParamsAssumption
    <3>5. z.watched + z.lastPersist <= rows'[z.row].duration + z.lastTick
      BY <1>1, <1>2, <1>4, <1>6, <3>3
    <3> QED
      BY <3>1, <3>4, <3>5 DEF Clocked
  <2>3. CASE SaveFails(s)
    <3>1. tracked'[key] = z /\ fails' # 0
      BY <1>k, <1>1, <1>2, <2>3 DEF SaveFails, Abandon, TypeOK, z
    <3> QED
      BY <1>1, <1>2, <1>4, <3>1 DEF Clocked
  <2> QED
    BY <2>1, <2>2, <2>3
<1>8. ASSUME NEW k \in Playing, k # key
      PROVE  Clocked(k)'
  <2>1. \E y \in {q, z} : /\ tracked' = [tracked EXCEPT ![key] = y]
                          /\ rows' \in {rows, [rows EXCEPT ![y.row] = Written(@, y, TRUE)]}
    BY <1>k DEF Glance, Save, SaveFails, SavedRows, q, z
  <2>2. tracked[k].row \in Ids /\ tracked[k].row # p.row
    BY <1>1, <1>2, <1>8, Entries DEF PlaysOwnTheirRows
  <2>3. tracked'[k] = tracked[k] /\ rows'[tracked[k].row] = rows[tracked[k].row]
    <3>1. q.row = p.row /\ z.row = p.row
      BY <1>2, <1>4
    <3>2. PICK y \in {q, z} :
             /\ tracked' = [tracked EXCEPT ![key] = y]
             /\ rows' \in {rows, [rows EXCEPT ![y.row] = Written(@, y, TRUE)]}
      BY <2>1
    <3>3. y.row = p.row
      BY <3>1
    <3> QED
      BY <1>1, <1>8, <2>2, <3>2, <3>3, Entries DEF TypeOK
  <2>4. fails' \in {fails, fails + 1}
    BY DEF Glance, Save, SaveFails, Abandon
  <2> QED
    BY <2>3, <2>4, ClockedOthers
<1>9. Playing' = Playing
  <2>1. \E y \in {q, z} : tracked' = [tracked EXCEPT ![key] = y]
    BY <1>k DEF Glance, Save, SaveFails, q, z
  <2>2. q # NoPlay /\ z # NoPlay
    BY <1>2, PlayFields
  <2> QED
    BY <1>1, <1>2, <2>1, <2>2 DEF TypeOK, Playing
<1> QED
  BY <1>7, <1>8, <1>9, SaveClockIs DEF SaveClock, Clocked

(* A new play starts its save clock level with its row. *)
LEMMA ClockNew ==
  ASSUME Core, SaveClock, NEW s \in Sids, Resume(s) \/ Insert(s)
  PROVE  SaveClock'
<1>0. s \in todo
  BY DEF Resume, Insert, New
<1>k. PICK key \in Keys : key = Key(s)
  BY <1>0, KeyFacts DEF Core
<1>1. /\ s \in todo /\ tracked[key] = NoPlay /\ UNCHANGED <<now, fails>>
      /\ TypeOK /\ PlaysOwnTheirRows /\ now \in Nat /\ key \in Keys
  BY <1>k, Entries DEF Resume, Insert, New, Core
<1>2. PICK i \in Ids, r \in Row, q \in Play :
        /\ \A k \in Playing : tracked[k].row # i
        /\ rows' = [rows EXCEPT ![i] = r]
        /\ tracked' = [tracked EXCEPT ![key] = q]
        /\ q.row = i /\ q.watched = r.duration /\ q.lastTick = now /\ q.lastPersist = now
  <2>1. list[s].view \in Views /\ list[s].paused \in BOOLEAN
    BY <1>1, KeyFacts
  <2>2. CASE Resume(s)
    <3>1. PICK i \in Ids :
            /\ Resumed(i, list[s].view)
            /\ rows' = [rows EXCEPT ![i].active = TRUE]
            /\ Follow(s, i, rows[i].started, rows[i].duration, rows[i].paused)
      BY <2>2 DEF Resume
    <3> DEFINE r == [rows[i] EXCEPT !.active = TRUE]
               q == [row |-> i, started |-> rows[i].started, watched |-> rows[i].duration,
                     rested |-> rows[i].paused, paused |-> list[s].paused,
                     lastTick |-> now, lastPersist |-> now]
    <3>2. rows[i] \in Row /\ ~rows[i].active /\ r \in Row
      BY <1>1, <2>1, <3>1, ResumeFacts
    <3>3. r.duration = rows[i].duration
      BY <3>2 DEF Row
    <3>4. q \in Play
      BY <1>1, <2>1, <3>2, RowFields DEF Play
    <3>5. \A k \in Playing : tracked[k].row # i
      BY <1>1, <3>2 DEF PlaysOwnTheirRows, FollowsARow
    <3>6. rows' = [rows EXCEPT ![i] = r] /\ tracked' = [tracked EXCEPT ![key] = q]
      BY <1>k, <3>1 DEF Follow
    <3>7. q.row = i /\ q.watched = rows[i].duration /\ q.lastTick = now /\ q.lastPersist = now
      OBVIOUS
    <3> HIDE DEF r, q
    <3> QED
      BY <3>2, <3>3, <3>4, <3>5, <3>6, <3>7
  <2>3. CASE Insert(s)
    <3>1. PICK i \in Ids :
            /\ IsNextId(i)
            /\ rows' = [rows EXCEPT ![i] = Opened(list[s].view)]
            /\ Follow(s, i, now, 0, 0)
      BY <2>3 DEF Insert
    <3> DEFINE r == Opened(list[s].view)
               q == [row |-> i, started |-> now, watched |-> 0, rested |-> 0,
                     paused |-> list[s].paused, lastTick |-> now, lastPersist |-> now]
    <3>2. r \in Row /\ r.duration = 0
      BY <1>1, <2>1 DEF Opened, Row
    <3>3. q \in Play
      BY <1>1, <2>1 DEF Play
    <3>4. \A k \in Playing : tracked[k].row # i
      BY <1>1, <3>1 DEF IsNextId, PlaysOwnTheirRows, FollowsARow
    <3>5. rows' = [rows EXCEPT ![i] = r] /\ tracked' = [tracked EXCEPT ![key] = q]
      BY <1>k, <3>1 DEF Follow
    <3>6. q.row = i /\ q.watched = 0 /\ q.lastTick = now /\ q.lastPersist = now
      OBVIOUS
    <3> HIDE DEF r, q
    <3> QED
      BY <3>2, <3>3, <3>4, <3>5, <3>6
  <2> QED
    BY <2>2, <2>3
<1>3. /\ Playing' = Playing \cup {key} /\ tracked'[key] = q
      /\ \A k \in Playing : k # key /\ tracked'[k] = tracked[k]
  BY <1>1, <1>2, PlayFields DEF TypeOK, Playing
<1>4. Clocked(key)'
  <2>1. rows'[i] = r
    BY <1>1, <1>2 DEF TypeOK
  <2> QED
    BY <1>1, <1>2, <1>3, <2>1, RowFields, ParamsAssumption DEF Clocked
<1>5. ASSUME NEW k \in Playing
      PROVE  Clocked(k)'
  <2>1. rows'[tracked[k].row] = rows[tracked[k].row]
    BY <1>1, <1>2, Entries DEF TypeOK
  <2> QED
    BY <1>1, <1>3, <2>1, ClockedOthers
<1> QED
  BY <1>3, <1>4, <1>5 DEF SaveClock, Clocked

(* Every step keeps the save clock. *)
LEMMA ClockStep == Core /\ SaveClock /\ [Next]_vars => SaveClock'
<1> SUFFICES ASSUME Core, SaveClock, [Next]_vars PROVE SaveClock'
  OBVIOUS
<1>0. TypeOK /\ PlaysOwnTheirRows
  BY DEF Core
<1>1. CASE Boot \/ BootFails \/ Crash
  <2>1. Playing' = {}
    BY <1>1 DEF Boot, BootFails, Crash, Start, Playing, Idle
  <2> QED
    BY <2>1 DEF SaveClock
<1>2. ASSUME NEW s \in Sids, Glance(s) \/ Save(s) \/ SaveFails(s)
      PROVE  SaveClock'
  BY <1>2, ClockSighted
<1>3. ASSUME NEW s \in Sids, Resume(s) \/ Insert(s)
      PROVE  SaveClock'
  BY <1>3, ClockNew
<1>4. ASSUME NEW s \in Sids, NewFails(s)
      PROVE  SaveClock'
  <2>1. tracked' = tracked /\ fails' = fails + 1 /\ fails' # fails
    BY <1>0, <1>4 DEF NewFails, Abandon, TypeOK
  <2>2. Playing' = Playing
    BY <2>1 DEF Playing
  <2>3. \A k \in Playing : Clocked(k)'
    BY <2>1, ClockedOthers
  <2> QED
    BY <2>2, <2>3 DEF SaveClock, Clocked
<1>5. ASSUME NEW k \in Keys, Close(k) \/ CloseFails(k)
      PROVE  SaveClock'
  <2>1. /\ k \in Playing /\ tracked' = [tracked EXCEPT ![k] = NoPlay]
        /\ rows' \in {rows, ClosedRows(k)} /\ fails' \in {fails, fails + 1}
    BY <1>5 DEF Close, CloseFails, End, Gone, Abandon
  <2>2. \A l \in Playing' : l \in Playing /\ l # k /\ tracked'[l] = tracked[l]
    BY <1>0, <2>1 DEF TypeOK, Playing
  <2>3. ASSUME NEW l \in Playing'
        PROVE  Clocked(l)'
    <3>1. tracked[l].row \in Ids /\ tracked[l].row # tracked[k].row /\ tracked[k].row \in Ids
      BY <1>0, <2>1, <2>2, Entries DEF PlaysOwnTheirRows
    <3>2. rows'[tracked[l].row] = rows[tracked[l].row]
      BY <1>0, <2>1, <3>1 DEF ClosedRows, TypeOK
    <3> QED
      BY <2>1, <2>2, <3>2, ClockedOthers
  <2> QED
    BY <2>3 DEF SaveClock, Clocked
<1>6. ASSUME NEW i \in Ids, DeletePlay(i)
      PROVE  SaveClock'
  <2>1. /\ ~rows[i].active /\ tracked' = tracked /\ fails' = fails
        /\ rows' = [rows EXCEPT ![i] = NoRow]
    BY <1>6 DEF DeletePlay
  <2>2. \A k \in Playing : tracked[k].row # i /\ tracked[k].row \in Ids
    BY <1>0, <2>1, Entries DEF PlaysOwnTheirRows, FollowsARow
  <2>3. \A k \in Playing : Clocked(k)'
    BY <1>0, <2>1, <2>2, ClockedOthers DEF TypeOK
  <2>4. Playing' = Playing
    BY <2>1 DEF Playing
  <2> QED
    BY <2>3, <2>4 DEF SaveClock, Clocked
<1>7. CASE \/ \E l \in Lists : TickBegin(l)
           \/ SessionsDone \/ TickEnd \/ DevicesFail
           \/ \E e \in spawned : Tell(e)
           \/ \E d \in Waits : Wait(d)
           \/ UNCHANGED vars
  <2>1. UNCHANGED <<tracked, rows>> /\ fails' \in {fails, fails + 1}
    BY <1>7 DEF TickBegin, SessionsDone, TickEnd, DevicesFail, Abandon, Tell, Wait, vars
  <2>2. \A k \in Playing : Clocked(k)'
    BY <2>1, ClockedOthers
  <2>3. Playing' = Playing
    BY <2>1 DEF Playing
  <2> QED
    BY <2>2, <2>3 DEF SaveClock, Clocked
<1> QED
  BY <1>1, <1>2, <1>3, <1>4, <1>5, <1>6, <1>7 DEF Next, Tick

-----------------------------------------------------------------------------
(* The three pictures of what is on.                                         *)

Active == {i \in Ids : rows[i] # NoRow /\ rows[i].active}

(* Every step leaves the dashboard and the map equal between ticks. *)
LEMMA LiveStep == Core /\ LiveIsTracked /\ [Next]_vars => LiveIsTracked'
<1> SUFFICES ASSUME Core, LiveIsTracked, [Next]_vars, fails' = 0, pc' = "idle"
             PROVE  live' = Playing'
  BY DEF LiveIsTracked
<1>0. fails \in Nat
  BY DEF Core, TypeOK
<1>1. CASE Boot
  BY <1>1 DEF Boot, Start, Core, DownIsEmpty, Playing, Idle
<1>2. CASE TickEnd
  BY <1>2 DEF TickEnd, Playing
<1>3. CASE \/ \E e \in spawned : Tell(e)
           \/ \E d \in Waits : Wait(d)
           \/ \E i \in Ids : DeletePlay(i)
           \/ UNCHANGED vars
  BY <1>3 DEF Tell, Wait, DeletePlay, vars, LiveIsTracked, Playing
<1>4. CASE \/ \E l \in Lists : TickBegin(l)
           \/ SessionsDone \/ Crash
  BY <1>4 DEF TickBegin, SessionsDone, Crash
<1>5. CASE \/ \E s \in Sids : Glance(s) \/ Save(s) \/ Resume(s) \/ Insert(s)
           \/ \E k \in Keys : Close(k)
  BY <1>5 DEF Glance, Save, Resume, Insert, Known, New, Next1, Close, End
<1>6. CASE \/ BootFails \/ DevicesFail
           \/ \E s \in Sids : SaveFails(s) \/ NewFails(s)
           \/ \E k \in Keys : CloseFails(k)
  <2>1. fails' = fails + 1
    BY <1>6 DEF BootFails, DevicesFail, SaveFails, NewFails, CloseFails, Abandon
  <2> QED
    BY <1>0, <2>1
<1> QED
  BY <1>1, <1>2, <1>3, <1>4, <1>5, <1>6 DEF Next, Tick

(* Every step that does not fail leaves each active row followed. *)
LEMMA ActiveStep == Core /\ Core' /\ ActiveIsFollowed /\ [Next]_vars => ActiveIsFollowed'
<1> SUFFICES ASSUME Core, Core', ActiveIsFollowed, [Next]_vars, fails' = 0, pc' # "down",
                    NEW i \in Ids, rows'[i] # NoRow, rows'[i].active
             PROVE  \E k \in Playing' : tracked'[k].row = i
  BY DEF ActiveIsFollowed
<1>0. fails \in Nat /\ TypeOK /\ PlaysOwnTheirRows
  BY DEF Core, TypeOK
<1>1. ASSUME pc # "down", fails = 0, rows'[i] = rows[i],
             \A k \in Playing : tracked[k].row = i => k \in Playing' /\ tracked'[k].row = i
      PROVE  \E k \in Playing' : tracked'[k].row = i
  BY <1>1 DEF ActiveIsFollowed
<1>2. CASE Boot
  <2>1. rows[i] \in Row \cup {NoRow} /\ rows'[i] = Settled(rows[i], TRUE)
    BY <1>0, <1>2 DEF Boot, TypeOK
  <2>2. CASE rows[i] = NoRow \/ ~rows[i].active
    BY <2>1, <2>2 DEF Settled
  <2>3. CASE rows[i] # NoRow /\ rows[i].active
    <3>1. [rows[i] EXCEPT !.active = ~TRUE].active = FALSE
      BY <2>1, <2>3 DEF Row
    <3> QED
      BY <2>1, <2>3, <3>1 DEF Settled
  <2> QED
    BY <2>2, <2>3
<1>3. CASE \/ \E e \in spawned : Tell(e)
           \/ \E d \in Waits : Wait(d)
           \/ \E l \in Lists : TickBegin(l)
           \/ SessionsDone \/ TickEnd
           \/ UNCHANGED vars
  <2>1. UNCHANGED <<tracked, rows, fails>> /\ pc # "down"
    BY <1>3 DEF Tell, Wait, TickBegin, SessionsDone, TickEnd, vars
  <2> QED
    BY <1>1, <2>1 DEF Playing
<1>4. ASSUME NEW j \in Ids, DeletePlay(j)
      PROVE  \E k \in Playing' : tracked'[k].row = i
  <2>1. /\ UNCHANGED <<tracked, fails>> /\ pc # "down"
        /\ rows' = [rows EXCEPT ![j] = NoRow]
    BY <1>4 DEF DeletePlay
  <2> QED
    BY <1>0, <1>1, <2>1 DEF Playing, TypeOK
<1>5. ASSUME NEW s \in Sids, Glance(s) \/ Save(s)
      PROVE  \E k \in Playing' : tracked'[k].row = i
  <2>1. s \in todo /\ tracked[Key(s)] # NoPlay /\ pc # "down" /\ fails' = fails /\ UNCHANGED now
    BY <1>5 DEF Glance, Save, Known
  <2>2. PICK key \in Keys : key = Key(s)
    BY <1>0, <2>1, KeyFacts
  <2>3. PICK y \in Play :
           /\ y.row = tracked[key].row
           /\ tracked' = [tracked EXCEPT ![key] = y]
           /\ rows' \in {rows, [rows EXCEPT ![y.row] = Written(@, y, TRUE)]}
    <3> DEFINE p == tracked[Key(s)]
               q == Sighted(p, list[s].paused)
    <3>1. /\ q \in Play /\ Saved(s) \in Play /\ Saved(s).row = q.row /\ p \in Play
          /\ Key(s) \in Playing
      BY <2>1, SavedFacts
    <3>2. q.row = p.row
      <4>1. p.lastTick <= now /\ list[s].paused \in BOOLEAN /\ now \in Nat
        BY <1>0, <2>1, <3>1, KeyFacts, Entries DEF Core, NeverLongerThanItLasted
      <4> QED
        BY <3>1, <4>1, SightedFacts
    <3>3. \E y \in {q, Saved(s)} :
             /\ tracked' = [tracked EXCEPT ![Key(s)] = y]
             /\ rows' \in {rows, [rows EXCEPT ![y.row] = Written(@, y, TRUE)]}
      BY <1>5 DEF Glance, Save, SavedRows
    <3> HIDE DEF q
    <3> QED
      BY <2>2, <3>1, <3>2, <3>3
  <2>4. /\ key \in Playing /\ tracked[key].row \in Ids
        /\ rows[tracked[key].row].active /\ rows[tracked[key].row] # NoRow
    BY <1>0, <2>1, <2>2, Entries DEF Playing, PlaysOwnTheirRows, FollowsARow
  <2>5. Playing' = Playing /\ \A k \in Playing : tracked'[k].row = tracked[k].row
    BY <1>0, <2>2, <2>3, <2>4, PlayFields DEF TypeOK, Playing
  <2>6. rows[i] # NoRow /\ rows[i].active
    BY <1>0, <2>3, <2>4 DEF TypeOK
  <2> QED
    BY <2>1, <2>5, <2>6 DEF ActiveIsFollowed
<1>6. ASSUME NEW s \in Sids, Resume(s) \/ Insert(s)
      PROVE  \E k \in Playing' : tracked'[k].row = i
  <2>1. s \in todo /\ tracked[Key(s)] = NoPlay /\ pc # "down" /\ fails' = fails
    BY <1>6 DEF Resume, Insert, New
  <2>2. PICK key \in Keys : key = Key(s)
    BY <1>0, <2>1, KeyFacts
  <2>3. PICK j \in Ids, r \in Row \cup {NoRow}, started \in Nat, watched \in Nat, rested \in Nat :
           /\ rows' = [rows EXCEPT ![j] = r]
           /\ Follow(s, j, started, watched, rested)
    <3>1. CASE Resume(s)
      <4>1. PICK j \in Ids :
              /\ Resumed(j, list[s].view)
              /\ rows' = [rows EXCEPT ![j].active = TRUE]
              /\ Follow(s, j, rows[j].started, rows[j].duration, rows[j].paused)
        BY <3>1 DEF Resume
      <4>2. rows[j] \in Row /\ [rows[j] EXCEPT !.active = TRUE] \in Row
        BY <1>0, <2>1, <4>1, KeyFacts, ResumeFacts
      <4> QED
        BY <4>1, <4>2, RowFields
    <3>2. CASE Insert(s)
      <4>1. PICK j \in Ids : /\ rows' = [rows EXCEPT ![j] = Opened(list[s].view)]
                             /\ Follow(s, j, now, 0, 0)
        BY <3>2 DEF Insert
      <4>2. now \in Nat /\ Opened(list[s].view) \in Row
        BY <1>0, <2>1, KeyFacts DEF Opened, Row, TypeOK
      <4> QED
        BY <4>1, <4>2
    <3> QED
      BY <1>6, <3>1, <3>2
  <2> DEFINE q == [row |-> j, started |-> started, watched |-> watched, rested |-> rested,
                   paused |-> list[s].paused, lastTick |-> now, lastPersist |-> now]
  <2>4. q \in Play /\ q.row = j /\ q # NoPlay
    <3>1. now \in Nat /\ list[s].paused \in BOOLEAN
      BY <1>0, <2>1, KeyFacts DEF TypeOK
    <3>2. q \in Play
      BY <3>1 DEF Play
    <3> QED
      BY <3>2, PlayFields
  <2>5. tracked' = [tracked EXCEPT ![key] = q]
    BY <2>2, <2>3 DEF Follow
  <2> HIDE DEF q
  <2>6. key \in Playing' /\ tracked'[key] = q
        /\ \A k \in Playing : k \in Playing' /\ tracked'[k] = tracked[k]
    BY <1>0, <2>1, <2>2, <2>4, <2>5 DEF TypeOK, Playing
  <2>7. CASE i = j
    BY <2>4, <2>6, <2>7
  <2>8. CASE i # j
    <3>1. rows'[i] = rows[i]
      BY <1>0, <2>3, <2>8 DEF TypeOK
    <3> QED
      BY <1>1, <2>1, <2>6, <3>1
  <2> QED
    BY <2>7, <2>8
<1>7. ASSUME NEW k \in Keys, Close(k)
      PROVE  \E l \in Playing' : tracked'[l].row = i
  <2>1. /\ k \in Playing /\ pc # "down" /\ fails' = fails
        /\ tracked' = [tracked EXCEPT ![k] = NoPlay]
        /\ rows' = ClosedRows(k)
    BY <1>7 DEF Close, End, Gone
  <2>2. tracked[k] \in Play /\ tracked[k].row \in Ids /\ rows[tracked[k].row] \in Row
    BY <1>0, <2>1, Entries DEF PlaysOwnTheirRows, FollowsARow
  <2>3. Written(rows[tracked[k].row], tracked[k], FALSE).active = FALSE
    BY <2>2, WrittenFacts
  <2>4. i # tracked[k].row /\ rows'[i] = rows[i]
    BY <1>0, <2>1, <2>2, <2>3 DEF ClosedRows, TypeOK
  <2>5. \A l \in Playing : l # k => l \in Playing' /\ tracked'[l] = tracked[l]
    BY <1>0, <2>1 DEF TypeOK, Playing
  <2> QED
    BY <1>1, <2>1, <2>4, <2>5
<1>9. CASE Crash
  BY <1>9 DEF Crash
<1>8. CASE \/ BootFails \/ DevicesFail
           \/ \E s \in Sids : SaveFails(s) \/ NewFails(s)
           \/ \E k \in Keys : CloseFails(k)
  <2>1. fails' = fails + 1
    BY <1>8 DEF BootFails, DevicesFail, SaveFails, NewFails, CloseFails, Abandon
  <2> QED
    BY <1>0, <2>1
<1> QED
  BY <1>2, <1>3, <1>4, <1>5, <1>6, <1>7, <1>8, <1>9 DEF Next, Tick

(* With the save clock and the three pictures: the whole inductive           *)
(* invariant holds in every state (`tick`, `run`, `activity_delete`).        *)
THEOREM IInvAlways == Spec => []IInv
<1>1. Init => IInv
  <2> SUFFICES ASSUME Init PROVE IInv
    OBVIOUS
  <2>1. Core /\ Playing = {} /\ pc = "down"
    BY CoreInit DEF Init, Playing, Idle
  <2> QED
    BY <2>1 DEF IInv, SaveClock, ActiveIsFollowed, LiveIsTracked
<1>2. IInv /\ [Next]_vars => IInv'
  BY CoreStep, ClockStep, ActiveStep, LiveStep DEF IInv
<1> QED
  BY <1>1, <1>2, PTL DEF Spec

-----------------------------------------------------------------------------
(* The properties, from the invariant.                                       *)

(* Every variable keeps its type: the collector's map holds plays, the table *)
(* rows, and what is still to do is in the list (`run`, `tick`).             *)
THEOREM TypeCorrect == Spec => []TypeOK
<1>1. IInv => TypeOK
  BY DEF IInv, Core
<1> QED
  BY <1>1, IInvAlways, PTL

(* Whatever fails, crashes, is resumed, deleted or numbered again, a play    *)
(* the collector follows has an active row of its own, of its own viewing.   *)
THEOREM OwnRows == Spec => []PlaysOwnTheirRows
<1>1. IInv => PlaysOwnTheirRows
  BY DEF IInv, Core
<1> QED
  BY <1>1, IInvAlways, PTL

(* No row and no play ever claims more time than there was (`attribute`).    *)
THEOREM HonestTime == Spec => []NeverLongerThanItLasted
<1>1. IInv => NeverLongerThanItLasted
  BY DEF IInv, Core
<1> QED
  BY <1>1, IInvAlways, PTL

(* While no write has failed a crash takes less than PERSIST_EVERY of watch  *)
(* time from a play, however far apart the sightings are.                    *)
THEOREM CrashLosesLittle == Spec => []UnsavedIsBounded
<1>1. IInv => UnsavedIsBounded
  <2> SUFFICES ASSUME IInv, fails = 0, NEW k \in Playing
               PROVE  tracked[k].watched < rows[tracked[k].row].duration + PersistEvery
    BY DEF UnsavedIsBounded
  <2> DEFINE p == tracked[k]
  <2>1. p \in Play /\ rows[p.row] \in Row /\ Clocked(k)
    BY Entries, SaveClockIs DEF IInv, Core, PlaysOwnTheirRows, FollowsARow
  <2>2. /\ p.watched \in Nat /\ p.lastTick \in Nat /\ p.lastPersist \in Nat
        /\ rows[p.row].duration \in Nat
    BY <2>1, PlayFields, RowFields
  <2> QED
    BY <2>1, <2>2, ParamsAssumption DEF Clocked
<1> QED
  BY <1>1, IInvAlways, PTL

(* The time on the books is neither invented nor lost.                       *)
THEOREM TimeKept == Spec => []TimeIsHonest
<1> QED
  BY HonestTime, CrashLosesLittle, PTL DEF TimeIsHonest

(* While no write has failed nothing is left active with nobody following    *)
(* it, and the dashboard shows what is followed.                             *)
THEOREM OnePicture == Spec => []PicturesAgree
<1>1. IInv => PicturesAgree
  <2> SUFFICES ASSUME IInv, pc = "idle", fails = 0
               PROVE  live = Playing /\ Active = {tracked[k].row : k \in Playing}
    BY DEF PicturesAgree, Active
  <2>1. live = Playing
    BY DEF IInv, LiveIsTracked
  <2>2. \A k \in Playing : tracked[k].row \in Active
    BY Entries DEF IInv, Core, PlaysOwnTheirRows, FollowsARow, Active
  <2>3. \A i \in Active : \E k \in Playing : tracked[k].row = i
    BY DEF IInv, ActiveIsFollowed, Active
  <2> QED
    BY <2>1, <2>2, <2>3
<1> QED
  BY <1>1, IInvAlways, PTL

-----------------------------------------------------------------------------
(* The table keeps the promises of PlayLedger.                               *)

(* A row that is written from the play that follows it grows.                *)
LEMMA WrittenContinues ==
  ASSUME Core, NEW k \in Playing, NEW y \in Play, NEW b \in BOOLEAN,
         y.watched >= tracked[k].watched, y.rested >= tracked[k].rested,
         y.lastTick >= tracked[k].lastTick,
         tracked[k].started + y.watched + y.rested <= y.lastTick
  PROVE  LET r == rows[tracked[k].row]
             w == Written(r, y, b) IN
         /\ r # NoRow /\ r.active
         /\ w \in Row
         /\ w.active = b /\ w.duration = y.watched
         /\ Ledger!Continues(r, w)
<1> DEFINE p == tracked[k]
           r == rows[p.row]
           w == Written(r, y, b)
<1>1. p \in Play /\ r \in Row /\ FollowsARow(k)
  BY Entries DEF Core, PlaysOwnTheirRows, FollowsARow
<1>2. /\ r # NoRow /\ r.active /\ r.started = p.started
      /\ r.ended <= p.lastTick /\ r.duration <= p.watched /\ r.paused <= p.rested
  BY <1>1 DEF FollowsARow
<1>3. /\ w \in Row /\ w.view = r.view /\ w.started = r.started /\ w.active = b
      /\ w.ended = y.lastTick /\ w.duration = y.watched /\ w.paused = y.rested
  BY <1>1, WrittenFacts
<1>4. /\ p.lastTick \in Nat /\ p.watched \in Nat /\ p.rested \in Nat
      /\ y.lastTick \in Nat /\ y.watched \in Nat /\ y.rested \in Nat /\ p.started \in Nat
      /\ r.ended \in Nat /\ r.duration \in Nat /\ r.paused \in Nat
  BY <1>1, PlayFields, RowFields
<1> HIDE DEF w, r, p
<1>5. w.started + w.duration + w.paused <= w.ended
  BY <1>2, <1>3 DEF p
<1>6. w.ended >= r.ended /\ w.duration >= r.duration /\ w.paused >= r.paused
  BY <1>2, <1>3, <1>4 DEF p
<1>7. Ledger!Continues(r, w)
  BY <1>3, <1>5, <1>6 DEF Ledger!Continues, Ledger!Honest
<1> QED
  BY <1>2, <1>3, <1>7 DEF w, r, p

(* A saved sighting grows a row of the ledger. *)
LEMMA LedgerSave ==
  ASSUME Core, NEW s \in Sids, Save(s) \/ SaveFails(s), rows' # rows
  PROVE  Ledger!Next
<1> DEFINE q == Sighted(tracked[Key(s)], list[s].paused)
<1>1. s \in todo /\ tracked[Key(s)] # NoPlay /\ rows' = SavedRows(s)
  BY DEF Save, SaveFails, Known
<1>2. PICK k \in Playing, z \in Play :
        /\ k = Key(s) /\ z = Saved(s)
        /\ z.row = q.row /\ z.watched = q.watched /\ z.rested = q.rested
        /\ z.lastTick = q.lastTick
  BY <1>1, SavedFacts
<1>3. /\ tracked[k].lastTick <= now /\ now \in Nat /\ tracked[k] \in Play
      /\ tracked[k].started + tracked[k].watched + tracked[k].rested <= tracked[k].lastTick
      /\ list[s].paused \in BOOLEAN
  BY <1>1, Entries, KeyFacts DEF Core, NeverLongerThanItLasted
<1>4. /\ q.row = tracked[k].row /\ q.lastTick = now /\ q \in Play
      /\ q.watched >= tracked[k].watched /\ q.rested >= tracked[k].rested
      /\ q.watched + q.rested <= tracked[k].watched + tracked[k].rested + (now - tracked[k].lastTick)
  BY <1>2, <1>3, SightedFacts
<1>5. rows' = [rows EXCEPT ![z.row] = Written(@, z, TRUE)]
  BY <1>1, <1>2 DEF SavedRows
<1> HIDE DEF q
<1> DEFINE i == tracked[k].row
           w == Written(rows[i], z, TRUE)
<1>6. tracked[k].started + z.watched + z.rested <= z.lastTick
  BY <1>2, <1>3, <1>4, PlayFields
<1>7. rows[i] # NoRow /\ rows[i].active /\ w \in Row /\ w.active /\ Ledger!Continues(rows[i], w)
  BY <1>2, <1>3, <1>4, <1>6, WrittenContinues
<1>8. i \in Ids /\ rows' = [rows EXCEPT ![i] = w] /\ rows'[i] = w
  BY <1>2, <1>3, <1>4, <1>5, PlayFields DEF Core, TypeOK
<1> HIDE DEF w, i
<1>9. Ledger!Grow(i)
  BY <1>7, <1>8 DEF Ledger!Grow, Ledger!Becomes, Ledger!Row, Row
<1> QED
  BY <1>8, <1>9 DEF Ledger!Next

(* A new play opens or reopens a row of the ledger. *)
LEMMA LedgerNew ==
  ASSUME Core, NEW s \in Sids, Resume(s) \/ Insert(s) \/ NewFails(s), rows' # rows
  PROVE  Ledger!Next
<1>1. s \in todo /\ TypeOK /\ now \in Nat
  BY Entries DEF Resume, Insert, NewFails, New, Core
<1>2. list[s].view \in Views
  BY <1>1, KeyFacts
<1>3. \/ \E i \in Ids : /\ Resumed(i, list[s].view)
                        /\ rows' = [rows EXCEPT ![i].active = TRUE]
      \/ \E i \in Ids : /\ IsNextId(i)
                        /\ rows' = [rows EXCEPT ![i] = Opened(list[s].view)]
  BY DEF Resume, Insert, NewFails
<1>4. ASSUME NEW i \in Ids, Resumed(i, list[s].view),
             rows' = [rows EXCEPT ![i].active = TRUE]
      PROVE  Ledger!Next
  <2>1. rows[i] # NoRow /\ ~rows[i].active
    BY <1>1, <1>2, <1>4, ResumeFacts
  <2>2. Ledger!Reopen(i)
    BY <1>4, <2>1 DEF Ledger!Reopen, Ledger!Becomes
  <2> QED
    BY <2>2 DEF Ledger!Next
<1>5. ASSUME NEW i \in Ids, IsNextId(i),
             rows' = [rows EXCEPT ![i] = Opened(list[s].view)]
      PROVE  Ledger!Next
  <2> DEFINE r == Opened(list[s].view)
  <2>1. /\ r \in Row /\ r.active /\ r.started = now /\ r.ended = now
        /\ r.duration = 0 /\ r.paused = 0
    BY <1>1, <1>2 DEF Opened, Row
  <2>2. rows' = [rows EXCEPT ![i] = r] /\ rows'[i] = r /\ rows[i] = NoRow
    BY <1>1, <1>5 DEF IsNextId, TypeOK
  <2> HIDE DEF r
  <2>3. Ledger!Open(i)
    BY <2>1, <2>2 DEF Ledger!Open, Ledger!Becomes, Ledger!Row, Row
  <2> QED
    BY <2>3 DEF Ledger!Next
<1> QED
  BY <1>3, <1>4, <1>5

(* The end of a play closes or discards a row of the ledger. *)
LEMMA LedgerClose ==
  ASSUME Core, NEW k \in Keys, Close(k) \/ CloseFails(k), rows' # rows
  PROVE  Ledger!Next
<1> DEFINE p == tracked[k]
           i == p.row
           w == Written(rows[i], p, FALSE)
<1>1. k \in Playing /\ rows' = ClosedRows(k) /\ TypeOK
  BY DEF Close, CloseFails, End, Gone, Core
<1>2. /\ p \in Play /\ i \in Ids /\ rows[i] \in Row
      /\ rows[i].duration <= p.watched /\ rows[i] # NoRow /\ rows[i].active
      /\ p.started + p.watched + p.rested <= p.lastTick
  BY <1>1, Entries DEF Core, PlaysOwnTheirRows, FollowsARow, NeverLongerThanItLasted
<1>3. p.watched \in Nat /\ p.rested \in Nat /\ p.lastTick \in Nat /\ rows[i].duration \in Nat
  BY <1>2, PlayFields, RowFields
<1>4. w \in Row /\ ~w.active /\ w.duration = p.watched /\ Ledger!Continues(rows[i], w)
  <2>1. p.watched >= p.watched /\ p.rested >= p.rested /\ p.lastTick >= p.lastTick
    BY <1>3
  <2> QED
    BY <1>1, <1>2, <2>1, WrittenContinues
<1>5. rows' = [rows EXCEPT ![i] = IF p.watched < MinKeep THEN NoRow ELSE w]
  BY <1>1 DEF ClosedRows
<1> HIDE DEF w
<1>6. CASE p.watched < MinKeep
  <2>1. ~(rows[i].duration >= MinKeep)
    BY <1>2, <1>3, <1>6, ParamsAssumption
  <2>2. rows' = [rows EXCEPT ![i] = NoRow]
    BY <1>5, <1>6
  <2>3. Ledger!Discard(i)
    BY <1>2, <2>1, <2>2 DEF Ledger!Discard, Ledger!Becomes, Ledger!Worth
  <2> QED
    BY <1>2, <2>3 DEF Ledger!Next
<1>7. CASE ~(p.watched < MinKeep)
  <2>1. w.duration >= MinKeep
    BY <1>3, <1>4, <1>7, ParamsAssumption
  <2>2. rows' = [rows EXCEPT ![i] = w] /\ rows'[i] = w
    BY <1>1, <1>2, <1>5, <1>7 DEF TypeOK
  <2>3. Ledger!Close(i)
    BY <1>2, <1>4, <2>1, <2>2
    DEF Ledger!Close, Ledger!Becomes, Ledger!Worth, Ledger!Row, Row
  <2> QED
    BY <1>2, <2>3 DEF Ledger!Next
<1> QED
  BY <1>6, <1>7

(* The collector and the ledger settle a row alike. *)
LEMMA SettledIsSettled ==
  ASSUME NEW r \in Row \cup {NoRow}, NEW b \in BOOLEAN
  PROVE  Settled(r, b) = Ledger!Settled(r, b)
<1>1. CASE r = NoRow \/ ~r.active
  BY <1>1 DEF Settled, Ledger!Settled
<1>2. CASE r # NoRow /\ r.active
  <2>1. r.duration \in Nat
    BY <1>2, RowFields
  <2>2. r.duration < MinKeep <=> ~(r.duration >= MinKeep)
    BY <2>1, ParamsAssumption
  <2> QED
    BY <1>2, <2>2 DEF Settled, Ledger!Settled, Ledger!Worth
<1> QED
  BY <1>1, <1>2

(* A process that starts is the ledger's recovery. *)
LEMMA LedgerBoot ==
  ASSUME Core, Boot \/ BootFails, rows' # rows
  PROVE  Ledger!Next
<1>1. PICK b \in BOOLEAN : rows' = [i \in Ids |-> Settled(rows[i], b)]
  BY DEF Boot, BootFails
<1>2. \A i \in Ids : Settled(rows[i], b) = Ledger!Settled(rows[i], b)
  BY SettledIsSettled DEF Core, TypeOK
<1>3. rows' = [i \in Ids |-> Ledger!Settled(rows[i], b)]
  BY <1>1, <1>2
<1> QED
  BY <1>3 DEF Ledger!Next, Ledger!Recover

(* Every step is one of the ledger, or leaves the table alone. *)
LEMMA LedgerStep == Core /\ [Next]_vars => [Ledger!Next]_rows
<1> SUFFICES ASSUME Core, [Next]_vars, rows' # rows PROVE Ledger!Next
  OBVIOUS
<1>1. CASE Boot \/ BootFails
  BY <1>1, LedgerBoot
<1>2. ASSUME NEW s \in Sids, \/ Glance(s) \/ Save(s) \/ SaveFails(s)
                             \/ Resume(s) \/ Insert(s) \/ NewFails(s)
      PROVE  Ledger!Next
  <2>1. ~Glance(s)
    BY DEF Glance
  <2> QED
    BY <1>2, <2>1, LedgerSave, LedgerNew
<1>3. ASSUME NEW k \in Keys, Close(k) \/ CloseFails(k)
      PROVE  Ledger!Next
  BY <1>3, LedgerClose
<1>4. ASSUME NEW i \in Ids, DeletePlay(i)
      PROVE  Ledger!Next
  <2>1. Ledger!Delete(i)
    BY <1>4 DEF DeletePlay, Ledger!Delete, Ledger!Becomes
  <2> QED
    BY <2>1 DEF Ledger!Next
<1>5. ~ \/ \E l \in Lists : TickBegin(l)
        \/ SessionsDone \/ TickEnd \/ DevicesFail
        \/ \E e \in spawned : Tell(e)
        \/ \E d \in Waits : Wait(d)
        \/ Crash
        \/ UNCHANGED vars
  BY DEF TickBegin, SessionsDone, TickEnd, DevicesFail, Tell, Wait, Crash, vars
<1> QED
  BY <1>1, <1>2, <1>3, <1>4, <1>5 DEF Next, Tick

(* Under every crash and every failed write the playback table keeps the     *)
(* promises of PlayLedger: a finished viewing is never lost, shortened or    *)
(* moved by anything but the person who deletes it.                          *)
THEOREM PlaysImplementLedger == Spec => LedgerSpec
<1>1. Init => Ledger!Init
  BY DEF Init, Ledger!Init
<1>2. Core /\ [Next]_vars => [Ledger!Next]_rows
  BY LedgerStep
<1> QED
  BY <1>1, <1>2, CoreAlways, PTL DEF Spec, LedgerSpec, Ledger!Spec

-----------------------------------------------------------------------------
(* What was told and what was seen, next to the table.                       *)

(* A sighting moves one play, its row at most, and when it was last seen. *)
LEMMA SightedMoves ==
  ASSUME Core, NEW s \in Sids, Glance(s) \/ Save(s) \/ SaveFails(s)
  PROVE  \E k \in Playing, z \in Play :
           /\ z.row = tracked[k].row /\ z.started = tracked[k].started
           /\ z.watched >= tracked[k].watched /\ z.lastTick = now
           /\ tracked' = [tracked EXCEPT ![k] = z]
           /\ rows' \in {rows, [rows EXCEPT ![z.row] = Written(@, z, TRUE)]}
           /\ seenAt' = [seenAt EXCEPT ![z.row] = now]
           /\ UNCHANGED <<now, told, spawned, crashes>>
           /\ pc # "down"
<1> DEFINE p == tracked[Key(s)]
           q == Sighted(p, list[s].paused)
<1>1. /\ s \in todo /\ p # NoPlay /\ pc # "down" /\ UNCHANGED <<now, told, spawned, crashes>>
      /\ seenAt' = [seenAt EXCEPT ![p.row] = now]
  BY DEF Glance, Save, SaveFails, Known
<1>2. PICK k \in Playing, z \in Play :
        /\ k = Key(s) /\ z = Saved(s)
        /\ z.row = q.row /\ z.started = q.started
        /\ z.watched = q.watched /\ z.lastTick = q.lastTick
  BY <1>1, SavedFacts
<1>3. p.lastTick <= now /\ now \in Nat /\ p \in Play /\ list[s].paused \in BOOLEAN
  BY <1>1, <1>2, Entries, KeyFacts DEF Core, NeverLongerThanItLasted
<1>4. /\ q \in Play /\ q.row = p.row /\ q.started = p.started
      /\ q.watched >= p.watched /\ q.lastTick = now
  BY <1>3, SightedFacts
<1>5. \E y \in {q, z} : /\ tracked' = [tracked EXCEPT ![k] = y]
                        /\ rows' \in {rows, [rows EXCEPT ![y.row] = Written(@, y, TRUE)]}
  BY <1>2 DEF Glance, Save, SaveFails, SavedRows
<1> HIDE DEF q
<1> QED
  BY <1>1, <1>2, <1>4, <1>5

(* A resumed viewing keeps its row, an inserted one takes an empty one. *)
LEMMA NewMoves ==
  ASSUME Core, NEW s \in Sids, Resume(s) \/ Insert(s)
  PROVE  \E k \in Keys, i \in Ids, r \in Row, z \in Play :
           /\ k \notin Playing /\ z.row = i /\ z.lastTick = now
           /\ \A l \in Playing : tracked[l].row # i
           /\ r.active
           /\ rows[i] # NoRow =>
                ~rows[i].active /\ r.started = rows[i].started /\ r.duration = rows[i].duration
           /\ rows[i] = NoRow => r.started = now
           /\ tracked' = [tracked EXCEPT ![k] = z]
           /\ rows' = [rows EXCEPT ![i] = r]
           /\ seenAt' = [seenAt EXCEPT ![i] = now]
           /\ \E v \in Views, t \in Nat : spawned' = spawned \cup Raised("start", i, v, t)
           /\ UNCHANGED <<now, told, crashes, fails>>
           /\ pc # "down"
<1>0. s \in todo
  BY DEF Resume, Insert, New
<1>k. PICK key \in Keys : key = Key(s)
  BY <1>0, KeyFacts DEF Core
<1>1. /\ s \in todo /\ tracked[key] = NoPlay /\ UNCHANGED <<now, told, crashes, fails>>
      /\ TypeOK /\ PlaysOwnTheirRows /\ now \in Nat /\ key \in Keys /\ pc # "down"
  BY <1>k, Entries DEF Resume, Insert, New, Core
<1>2. list[s].view \in Views /\ list[s].paused \in BOOLEAN
  BY <1>1, KeyFacts
<1>3. key \notin Playing
  BY <1>1 DEF Playing
<1>4. CASE Resume(s)
  <2>1. PICK i \in Ids :
          /\ Resumed(i, list[s].view)
          /\ rows' = [rows EXCEPT ![i].active = TRUE]
          /\ Follow(s, i, rows[i].started, rows[i].duration, rows[i].paused)
          /\ spawned' = spawned \cup Raised("start", i, list[s].view, rows[i].started)
          /\ seenAt' = [seenAt EXCEPT ![i] = now]
    BY <1>4 DEF Resume
  <2> DEFINE r == [rows[i] EXCEPT !.active = TRUE]
             q == [row |-> i, started |-> rows[i].started, watched |-> rows[i].duration,
                   rested |-> rows[i].paused, paused |-> list[s].paused,
                   lastTick |-> now, lastPersist |-> now]
  <2>2. rows[i] \in Row /\ ~rows[i].active /\ r \in Row
    BY <1>1, <1>2, <2>1, ResumeFacts
  <2>3. r.duration = rows[i].duration /\ r.started = rows[i].started /\ r.active
    BY <2>2 DEF Row
  <2>4. q \in Play /\ rows[i].started \in Nat /\ rows[i] # NoRow
    BY <1>1, <1>2, <2>2, RowFields DEF Play
  <2>5. \A k \in Playing : tracked[k].row # i
    BY <1>1, <2>2 DEF PlaysOwnTheirRows, FollowsARow
  <2>6. rows' = [rows EXCEPT ![i] = r] /\ tracked' = [tracked EXCEPT ![key] = q]
    BY <1>k, <2>1 DEF Follow
  <2>7. q.row = i /\ q.lastTick = now
    OBVIOUS
  <2>8. \E v \in Views, t \in Nat : spawned' = spawned \cup Raised("start", i, v, t)
    BY <1>2, <2>1, <2>4
  <2> HIDE DEF r, q
  <2> QED
    BY <1>1, <1>3, <2>1, <2>2, <2>3, <2>4, <2>5, <2>6, <2>7, <2>8
<1>5. CASE Insert(s)
  <2>1. PICK i \in Ids :
          /\ IsNextId(i)
          /\ rows' = [rows EXCEPT ![i] = Opened(list[s].view)]
          /\ Follow(s, i, now, 0, 0)
          /\ spawned' = spawned \cup Raised("start", i, list[s].view, now)
          /\ seenAt' = [seenAt EXCEPT ![i] = now]
    BY <1>5 DEF Insert
  <2> DEFINE r == Opened(list[s].view)
             q == [row |-> i, started |-> now, watched |-> 0, rested |-> 0,
                   paused |-> list[s].paused, lastTick |-> now, lastPersist |-> now]
  <2>2. r \in Row /\ r.started = now /\ r.active
    BY <1>1, <1>2 DEF Opened, Row
  <2>3. q \in Play
    BY <1>1, <1>2 DEF Play
  <2>4. rows[i] = NoRow /\ \A k \in Playing : tracked[k].row # i
    BY <1>1, <2>1 DEF IsNextId, PlaysOwnTheirRows, FollowsARow
  <2>5. rows' = [rows EXCEPT ![i] = r] /\ tracked' = [tracked EXCEPT ![key] = q]
    BY <1>k, <2>1 DEF Follow
  <2>6. q.row = i /\ q.lastTick = now
    OBVIOUS
  <2>7. \E v \in Views, t \in Nat : spawned' = spawned \cup Raised("start", i, v, t)
    BY <1>1, <1>2, <2>1
  <2> HIDE DEF r, q
  <2> QED
    BY <1>1, <1>3, <2>1, <2>2, <2>3, <2>4, <2>5, <2>6, <2>7
<1> QED
  BY <1>4, <1>5

(* A play that has ended leaves the map, and its row is closed, or dropped   *)
(* when there was too little of it to tell.                                  *)
LEMMA CloseMoves ==
  ASSUME Core, NEW k \in Keys, Close(k) \/ CloseFails(k)
  PROVE  /\ k \in Playing /\ tracked[k] \in Play
         /\ rows[tracked[k].row] \in Row /\ FollowsARow(k)
         /\ tracked[k].started + tracked[k].watched + tracked[k].rested <= tracked[k].lastTick
         /\ tracked[k].lastTick <= now
         /\ \A l \in Playing' : /\ l \in Playing /\ tracked'[l] = tracked[l]
                                /\ tracked[l].row # tracked[k].row
         /\ rows' \in {rows, ClosedRows(k)}
         /\ spawned' = spawned \cup Stopped(k)
         /\ UNCHANGED <<now, told, crashes, seenAt>>
         /\ pc # "down"
<1>1. /\ k \in Playing /\ TypeOK /\ PlaysOwnTheirRows /\ NeverLongerThanItLasted
      /\ tracked' = [tracked EXCEPT ![k] = NoPlay]
      /\ rows' \in {rows, ClosedRows(k)}
      /\ spawned' = spawned \cup Stopped(k)
      /\ UNCHANGED <<now, told, crashes, seenAt>> /\ pc # "down"
  BY DEF Close, CloseFails, End, Gone, Core
<1>2. FollowsARow(k) /\ tracked[k] \in Play /\ rows[tracked[k].row] \in Row
  BY <1>1, Entries DEF PlaysOwnTheirRows, FollowsARow
<1>3. /\ tracked[k].started + tracked[k].watched + tracked[k].rested <= tracked[k].lastTick
      /\ tracked[k].lastTick <= now
  BY <1>1 DEF NeverLongerThanItLasted
<1>4. ASSUME NEW l \in Playing'
      PROVE  l \in Playing /\ tracked'[l] = tracked[l] /\ tracked[l].row # tracked[k].row
  <2>1. l # k /\ l \in Playing /\ tracked'[l] = tracked[l]
    BY <1>1, <1>4 DEF TypeOK, Playing
  <2> QED
    BY <1>1, <2>1 DEF PlaysOwnTheirRows
<1> QED
  BY <1>1, <1>2, <1>3, <1>4

(* A notice keeps its promise. *)
KeptEnd(e) ==
  e.kind = "stop" =>
    /\ e.started + MinKeep <= now
    /\ (rows[e.row] # NoRow /\ rows[e.row].started = e.started)
         => rows[e.row].duration >= MinKeep

(* The fields of a notice are what they should be. *)
LEMMA NoticeFields ==
  ASSUME NEW e \in Notice
  PROVE  e.row \in Ids /\ e.started \in Nat
  BY DEF Notice

(* A notice that was there already keeps its promise when no row forgets what *)
(* it has and no new row begins before now.                                   *)
LEMMA KeptEndStays ==
  ASSUME TypeOK, TypeOK', NEW e \in Notice, KeptEnd(e), now' >= now,
         \/ rows'[e.row] = NoRow
         \/ rows'[e.row] = rows[e.row]
         \/ /\ rows[e.row] # NoRow
            /\ rows'[e.row].started = rows[e.row].started
            /\ rows'[e.row].duration >= rows[e.row].duration
         \/ rows'[e.row].started = now
  PROVE  KeptEnd(e)'
<1> SUFFICES ASSUME e.kind = "stop" PROVE KeptEnd(e)'
  BY DEF KeptEnd
<1>1. /\ e.row \in Ids /\ e.started \in Nat /\ now \in Nat /\ now' \in Nat /\ MinKeep \in Nat
      /\ rows[e.row] \in Row \cup {NoRow} /\ rows'[e.row] \in Row \cup {NoRow}
      /\ MinKeep > 0
  BY NoticeFields, ParamsAssumption DEF TypeOK
<1>2. e.started + MinKeep <= now /\ e.started + MinKeep <= now' /\ e.started # now
  BY <1>1 DEF KeptEnd
<1>3. ASSUME rows'[e.row] # NoRow, rows'[e.row].started = e.started
      PROVE  rows'[e.row].duration >= MinKeep
  <2>1. rows[e.row] # NoRow => rows[e.row].duration \in Nat
    BY <1>1, RowFields
  <2>2. rows'[e.row].duration \in Nat
    BY <1>1, <1>3, RowFields
  <2> QED
    BY <1>1, <1>2, <1>3, <2>1, <2>2 DEF KeptEnd
<1> QED
  BY <1>2, <1>3 DEF KeptEnd

(* Every step that does not fail keeps what was told true of the table.      *)
LEMMA EndsStep == Core /\ Core' /\ EndsAreKept /\ [Next]_vars => EndsAreKept'
<1> SUFFICES ASSUME Core, Core', EndsAreKept, [Next]_vars, fails' = 0,
                    NEW e \in told' \cup spawned'
             PROVE  KeptEnd(e)'
  BY DEF EndsAreKept, KeptEnd
<1>0. /\ fails \in Nat /\ fails' \in Nat /\ TypeOK /\ TypeOK' /\ PlaysOwnTheirRows
      /\ now \in Nat /\ now' \in Nat /\ e \in Notice /\ e.row \in Ids /\ e.started \in Nat
  BY NoticeFields DEF Core, TypeOK
<1>1. ASSUME fails = 0, e \in told \cup spawned
      PROVE  KeptEnd(e)
  BY <1>1 DEF EndsAreKept, KeptEnd
<1>2. CASE Boot
  <2>1. /\ e \in told \cup spawned /\ fails = 0 /\ now' = now
        /\ rows'[e.row] = Settled(rows[e.row], TRUE)
    BY <1>0, <1>2 DEF Boot, Start
  <2>2. CASE rows[e.row] = NoRow \/ ~rows[e.row].active
    BY <1>0, <1>1, <2>1, <2>2, KeptEndStays DEF Settled
  <2>3. CASE rows[e.row] # NoRow /\ rows[e.row].active
    <3>1. rows[e.row] \in Row /\ rows[e.row].duration \in Nat
      BY <1>0, <2>3, RowFields DEF TypeOK
    <3>2. \/ rows'[e.row] = NoRow
          \/ rows'[e.row] = [rows[e.row] EXCEPT !.active = FALSE]
      BY <2>1, <2>3 DEF Settled
    <3>3. \/ rows'[e.row] = NoRow
          \/ /\ rows[e.row] # NoRow
             /\ rows'[e.row].started = rows[e.row].started
             /\ rows'[e.row].duration >= rows[e.row].duration
      BY <2>3, <3>1, <3>2 DEF Row
    <3>4. KeptEnd(e) /\ now' >= now
      BY <1>0, <1>1, <2>1
    <3> QED
      BY <1>0, <3>3, <3>4, KeptEndStays
  <2> QED
    BY <2>2, <2>3
<1>3. ASSUME NEW s \in Sids, Glance(s) \/ Save(s)
      PROVE  KeptEnd(e)'
  <2>1. fails = 0
    BY <1>3 DEF Glance, Save
  <2>2. PICK k \in Playing, z \in Play :
          /\ z.row = tracked[k].row /\ z.started = tracked[k].started
          /\ z.watched >= tracked[k].watched /\ z.lastTick = now
          /\ rows' \in {rows, [rows EXCEPT ![z.row] = Written(@, z, TRUE)]}
          /\ UNCHANGED <<now, told, spawned>>
    BY <1>3, SightedMoves
  <2> DEFINE r == rows[z.row]
             w == Written(r, z, TRUE)
  <2>3. /\ z.row \in Ids /\ r \in Row /\ r.duration \in Nat /\ tracked[k].watched \in Nat
        /\ z.watched \in Nat /\ r # NoRow
        /\ r.duration <= tracked[k].watched
    BY <1>0, <2>2, Entries, PlayFields, RowFields DEF PlaysOwnTheirRows, FollowsARow
  <2>4. w.started = r.started /\ w.duration = z.watched /\ w.duration >= r.duration
    <3>1. r \in Row /\ r.duration <= z.watched
      BY <2>2, <2>3
    <3> HIDE DEF r
    <3>2. w.started = r.started /\ w.duration = z.watched
      BY <3>1, WrittenFacts
    <3> QED
      BY <2>3, <3>1, <3>2
  <2>5. rows'[e.row] \in {rows[e.row]} \/ (e.row = z.row /\ rows'[e.row] = w)
    BY <1>0, <2>2, <2>3 DEF TypeOK
  <2> HIDE DEF w
  <2>6. rows'[e.row] = rows[e.row] \/
        /\ rows[e.row] # NoRow
        /\ rows'[e.row].started = rows[e.row].started
        /\ rows'[e.row].duration >= rows[e.row].duration
    BY <2>3, <2>4, <2>5
  <2> QED
    BY <1>0, <1>1, <2>1, <2>2, <2>6, KeptEndStays
<1>4. ASSUME NEW s \in Sids, Resume(s) \/ Insert(s)
      PROVE  KeptEnd(e)'
  <2>1. PICK i \in Ids, r \in Row :
          /\ rows[i] # NoRow => r.started = rows[i].started /\ r.duration = rows[i].duration
          /\ rows[i] = NoRow => r.started = now
          /\ rows' = [rows EXCEPT ![i] = r]
          /\ \E v \in Views, t \in Nat : spawned' = spawned \cup Raised("start", i, v, t)
          /\ UNCHANGED <<now, told, fails>>
    BY <1>4, NewMoves
  <2>2. CASE e \in told \cup spawned
    <3>1. rows'[e.row] = IF e.row = i THEN r ELSE rows[e.row]
      BY <1>0, <2>1 DEF TypeOK
    <3>2. r.duration \in Nat
      BY RowFields
    <3> QED
      BY <1>0, <1>1, <2>1, <2>2, <3>1, <3>2, KeptEndStays
  <2>3. CASE e \notin told \cup spawned
    <3>1. e.kind = "start"
      BY <2>1, <2>3 DEF Raised
    <3> QED
      BY <3>1 DEF KeptEnd
  <2> QED
    BY <2>2, <2>3
<1>5. ASSUME NEW k \in Keys, Close(k)
      PROVE  KeptEnd(e)'
  <2> DEFINE p == tracked[k]
             r == rows[p.row]
             w == Written(r, p, FALSE)
  <2>1. /\ fails = 0 /\ now' = now /\ told' = told
        /\ rows' = ClosedRows(k) /\ spawned' = spawned \cup Stopped(k)
    BY <1>5 DEF Close, End
  <2>2. /\ p \in Play /\ r \in Row /\ r # NoRow
        /\ r.started = p.started /\ r.duration <= p.watched
        /\ p.started + p.watched + p.rested <= p.lastTick /\ p.lastTick <= now
    BY <1>5, CloseMoves DEF FollowsARow
  <2>3. /\ p.row \in Ids /\ p.watched \in Nat /\ p.started \in Nat /\ p.rested \in Nat
        /\ p.lastTick \in Nat /\ r.duration \in Nat
    BY <2>2, PlayFields, RowFields
  <2>4. w.started = r.started /\ w.duration = p.watched
    BY <2>2, WrittenFacts
  <2>5. rows' = [rows EXCEPT ![p.row] = IF p.watched < MinKeep THEN NoRow ELSE w]
    BY <2>1 DEF ClosedRows
  <2> HIDE DEF w
  <2>6. rows'[e.row] = IF e.row # p.row THEN rows[e.row]
                       ELSE IF p.watched < MinKeep THEN NoRow ELSE w
    BY <1>0, <2>3, <2>5 DEF TypeOK
  <2> HIDE DEF p, r
  <2>7. CASE e \in told \cup spawned
    <3>1. KeptEnd(e) /\ now' >= now
      BY <1>0, <1>1, <2>1, <2>7
    <3>2. CASE e.row # p.row
      BY <1>0, <2>6, <3>1, <3>2, KeptEndStays
    <3>3. CASE e.row = p.row /\ p.watched < MinKeep
      BY <1>0, <2>6, <3>1, <3>3, KeptEndStays
    <3>4. CASE e.row = p.row /\ ~(p.watched < MinKeep)
      <4>1. rows[e.row] = r /\ rows'[e.row] = w
        BY <2>6, <3>4 DEF r
      <4>2. /\ rows[e.row] # NoRow
            /\ rows'[e.row].started = rows[e.row].started
            /\ rows'[e.row].duration >= rows[e.row].duration
        BY <2>2, <2>3, <2>4, <4>1
      <4> QED
        BY <1>0, <3>1, <4>2, KeptEndStays
    <3> QED
      BY <3>2, <3>3, <3>4
  <2>8. CASE e \notin told \cup spawned
    <3>1. p.watched >= MinKeep /\ e.row = p.row /\ e.started = p.started
      BY <2>1, <2>8 DEF Stopped, Raised, p
    <3>2. e.started + MinKeep <= now
      BY <1>0, <2>2, <2>3, <3>1, ParamsAssumption
    <3>3. ~(p.watched < MinKeep)
      BY <2>3, <3>1, ParamsAssumption
    <3>4. rows'[e.row] = w /\ w.duration >= MinKeep
      BY <2>4, <2>6, <3>1, <3>3
    <3> QED
      BY <2>1, <3>2, <3>4 DEF KeptEnd
  <2> QED
    BY <2>7, <2>8
<1>6. ASSUME NEW i \in Ids, DeletePlay(i)
      PROVE  KeptEnd(e)'
  <2>1. /\ fails = 0 /\ now' = now /\ e \in told \cup spawned
        /\ rows' = [rows EXCEPT ![i] = NoRow]
    BY <1>6 DEF DeletePlay
  <2>2. rows'[e.row] \in {NoRow, rows[e.row]}
    BY <1>0, <2>1 DEF TypeOK
  <2> QED
    BY <1>0, <1>1, <2>1, <2>2, KeptEndStays
<1>7. CASE \/ \E l \in Lists : TickBegin(l)
           \/ SessionsDone \/ TickEnd
           \/ \E f \in spawned : Tell(f)
           \/ \E d \in Waits : Wait(d)
           \/ Crash
           \/ UNCHANGED vars
  <2>1. rows' = rows /\ fails = 0 /\ e \in told \cup spawned
    BY <1>7 DEF TickBegin, SessionsDone, TickEnd, Tell, Wait, Crash, vars
  <2>2. now' >= now
    BY <1>0, <1>7, BoundsAssumption
    DEF TickBegin, SessionsDone, TickEnd, Tell, Wait, Crash, vars
  <2> QED
    BY <1>0, <1>1, <2>1, <2>2, KeptEndStays
<1>8. CASE \/ BootFails \/ DevicesFail
           \/ \E s \in Sids : SaveFails(s) \/ NewFails(s)
           \/ \E k \in Keys : CloseFails(k)
  <2>1. fails' = fails + 1
    BY <1>8 DEF BootFails, DevicesFail, SaveFails, NewFails, CloseFails, Abandon
  <2> QED
    BY <1>0, <2>1
<1> QED
  BY <1>2, <1>3, <1>4, <1>5, <1>6, <1>7, <1>8 DEF Next, Tick

(* A row that is thrown away has too little in it, and nothing is told of it *)
(* in the same step.                                                         *)
LEMMA ThrownAwayIsShort ==
  ASSUME Core, [Next]_vars, NEW i \in Ids, ThrownAway(i)
  PROVE  /\ rows[i].duration < MinKeep
         /\ \A e \in told' \cup spawned' :
              e \in told \cup spawned \/ ~(e.kind = "stop" /\ e.row = i)
<1>0. TypeOK /\ PlaysOwnTheirRows /\ rows[i] # NoRow /\ rows[i].active /\ rows'[i] = NoRow
      /\ rows[i] \in Row
  BY Entries DEF Core, ThrownAway
<1>1. CASE Boot \/ BootFails
  <2>1. /\ told' = told /\ spawned' = spawned
        /\ \E b \in BOOLEAN : rows'[i] = Settled(rows[i], b)
    BY <1>0, <1>1 DEF Boot, BootFails, Start
  <2>2. \A b \in BOOLEAN : [rows[i] EXCEPT !.active = ~b] \in Row
    BY <1>0 DEF Row
  <2>3. rows[i].duration < MinKeep
    BY <1>0, <2>1, <2>2, RowFields DEF Settled
  <2> QED
    BY <2>1, <2>3
<1>2. CASE \E s \in Sids : Glance(s) \/ Save(s) \/ SaveFails(s)
  <2>1. PICK k \in Playing, z \in Play :
          /\ z.row = tracked[k].row
          /\ rows' \in {rows, [rows EXCEPT ![z.row] = Written(@, z, TRUE)]}
    BY <1>2, SightedMoves
  <2>2. tracked[k].row \in Ids /\ rows[tracked[k].row] \in Row
    BY <1>0, <2>1, Entries DEF PlaysOwnTheirRows, FollowsARow
  <2>3. Written(rows[tracked[k].row], z, TRUE) # NoRow
    BY <2>2, WrittenFacts
  <2> QED
    BY <1>0, <2>1, <2>2, <2>3 DEF TypeOK
<1>3. CASE \E s \in Sids : Resume(s) \/ Insert(s)
  <2>1. PICK j \in Ids, r \in Row : rows' = [rows EXCEPT ![j] = r]
    BY <1>3, NewMoves
  <2> QED
    BY <1>0, <2>1, RowFields DEF TypeOK
<1>4. CASE \E s \in Sids : NewFails(s)
  <2>1. PICK s \in Sids : NewFails(s)
    BY <1>4
  <2>2. /\ list[s].view \in Views /\ now \in Nat
    BY <1>0, <2>1, KeyFacts DEF NewFails, New, TypeOK
  <2>3. \/ rows' = rows
        \/ \E j \in Ids, r \in Row : rows' = [rows EXCEPT ![j] = r]
    <3>1. \A j \in Ids : Resumed(j, list[s].view) => [rows[j] EXCEPT !.active = TRUE] \in Row
      BY <1>0, <2>2, ResumeFacts
    <3>2. Opened(list[s].view) \in Row
      BY <2>2 DEF Opened, Row
    <3> QED
      BY <2>1, <3>1, <3>2 DEF NewFails
  <2> QED
    BY <1>0, <2>3, RowFields DEF TypeOK
<1>5. CASE \E k \in Keys : Close(k) \/ CloseFails(k)
  <2>1. PICK k \in Keys : Close(k) \/ CloseFails(k)
    BY <1>5
  <2> DEFINE p == tracked[k]
             r == rows[p.row]
             w == Written(r, p, FALSE)
  <2>2. /\ p \in Play /\ r \in Row /\ r.duration <= p.watched
        /\ told' = told /\ spawned' = spawned \cup Stopped(k)
        /\ rows' \in {rows, ClosedRows(k)}
    BY <2>1, CloseMoves DEF FollowsARow
  <2>3. p.row \in Ids /\ p.watched \in Nat /\ r.duration \in Nat
    BY <2>2, PlayFields, RowFields
  <2>4. w # NoRow
    BY <2>2, WrittenFacts
  <2>5. rows' = [rows EXCEPT ![p.row] = IF p.watched < MinKeep THEN NoRow ELSE w]
    BY <1>0, <2>2 DEF ClosedRows
  <2> HIDE DEF w
  <2>6. i = p.row /\ p.watched < MinKeep
    BY <1>0, <2>3, <2>4, <2>5 DEF TypeOK
  <2>7. rows[i].duration < MinKeep
    BY <2>2, <2>3, <2>6, ParamsAssumption
  <2>8. Stopped(k) = {}
    BY <2>3, <2>6, ParamsAssumption DEF Stopped
  <2> QED
    BY <2>2, <2>7, <2>8
<1>6. CASE \E j \in Ids : DeletePlay(j)
  <2>1. PICK j \in Ids : ~rows[j].active /\ rows' = [rows EXCEPT ![j] = NoRow]
    BY <1>6 DEF DeletePlay
  <2> QED
    BY <1>0, <2>1 DEF TypeOK
<1>7. CASE \/ \E l \in Lists : TickBegin(l)
           \/ SessionsDone \/ TickEnd \/ DevicesFail
           \/ \E f \in spawned : Tell(f)
           \/ \E d \in Waits : Wait(d)
           \/ Crash
           \/ UNCHANGED vars
  <2>1. rows' = rows
    BY <1>7 DEF TickBegin, SessionsDone, TickEnd, DevicesFail, Tell, Wait, Crash, vars
  <2> QED
    BY <1>0, <2>1
<1> QED
  BY <1>1, <1>2, <1>3, <1>4, <1>5, <1>6, <1>7 DEF Next, Tick

(* What was told of is kept, in every state (`tick`, `collector::run`).      *)
THEOREM TellsOfWhatIsKept == Spec => []EndsAreKept
<1>1. Init => EndsAreKept
  BY DEF Init, EndsAreKept
<1>2. Core /\ Core' /\ EndsAreKept /\ [Next]_vars => EndsAreKept'
  BY EndsStep
<1> QED
  BY <1>1, <1>2, CoreAlways, PTL DEF Spec

(* While no write has failed, nobody is told the end of a play that is then  *)
(* thrown away as an accidental click (MIN_KEEP_S in `tick` and `run`).      *)
THEOREM NobodyIsToldOfAClick == Spec => ThrownAwayUntold
<1>1. Core /\ EndsAreKept /\ [Next]_vars =>
        [fails = 0 =>
           \A i \in Ids : ThrownAway(i) =>
             ~\E e \in told' \cup spawned' : /\ e.kind = "stop"
                                             /\ e.row = i
                                             /\ e.started = rows[i].started]_vars
  <2> SUFFICES ASSUME Core, EndsAreKept, [Next]_vars, fails = 0,
                      NEW i \in Ids, ThrownAway(i),
                      NEW e \in told' \cup spawned',
                      e.kind = "stop", e.row = i, e.started = rows[i].started
               PROVE  FALSE
    OBVIOUS
  <2>1. rows[i].duration < MinKeep /\ e \in told \cup spawned
    BY ThrownAwayIsShort
  <2>2. rows[i] # NoRow
    BY DEF ThrownAway
  <2>3. rows[i].duration >= MinKeep
    BY <2>1, <2>2 DEF EndsAreKept
  <2>4. rows[i].duration \in Nat
    BY <2>2, Entries, RowFields DEF Core
  <2> QED
    BY <2>1, <2>3, <2>4, ParamsAssumption
<1> QED
  BY <1>1, TellsOfWhatIsKept, CoreAlways, PTL DEF Spec, ThrownAwayUntold

(* Until a process is killed every step keeps the end of a finished row at   *)
(* the moment its viewing was last in a list.                                *)
LEMMA LastSeenStep == Core /\ EndIsLastSeen /\ [Next]_vars => EndIsLastSeen'
<1> SUFFICES ASSUME Core, EndIsLastSeen, [Next]_vars, crashes' = 0
             PROVE  /\ pc' = "down" => \A i \in Ids : rows'[i] = NoRow
                    /\ \A k \in Playing' : seenAt'[tracked'[k].row] = tracked'[k].lastTick
                    /\ \A i \in Ids : (rows'[i] # NoRow /\ ~rows'[i].active)
                                        => seenAt'[i] = rows'[i].ended
  BY DEF EndIsLastSeen
<1> DEFINE Bare == pc' = "down" => \A i \in Ids : rows'[i] = NoRow
           Followed == \A k \in Playing' : seenAt'[tracked'[k].row] = tracked'[k].lastTick
           Finished == \A i \in Ids : (rows'[i] # NoRow /\ ~rows'[i].active)
                                        => seenAt'[i] = rows'[i].ended
<1>0. /\ TypeOK /\ PlaysOwnTheirRows /\ crashes \in Nat
      /\ \A k \in Playing : tracked[k] \in Play /\ tracked[k].row \in Ids
  BY Entries DEF Core, TypeOK
<1>1. ASSUME crashes = 0
      PROVE  /\ pc = "down" => \A i \in Ids : rows[i] = NoRow
             /\ \A k \in Playing : seenAt[tracked[k].row] = tracked[k].lastTick
             /\ \A i \in Ids : (rows[i] # NoRow /\ ~rows[i].active) => seenAt[i] = rows[i].ended
  BY <1>1 DEF EndIsLastSeen
<1>2. CASE Boot \/ BootFails
  <2>1. /\ crashes = 0 /\ pc = "down" /\ Playing' = {}
        /\ \A i \in Ids : \/ rows'[i] = rows[i]
                          \/ \E b \in BOOLEAN : rows'[i] = Settled(rows[i], b)
    BY <1>0, <1>2 DEF Boot, BootFails, Start, Playing, Idle
  <2>2. \A i \in Ids : rows'[i] = NoRow
    BY <1>1, <2>1 DEF Settled
  <2> QED
    BY <2>1, <2>2
<1>3. CASE \E s \in Sids : Glance(s) \/ Save(s) \/ SaveFails(s)
  <2>1. PICK k \in Playing, z \in Play :
          /\ z.row = tracked[k].row /\ z.lastTick = now
          /\ tracked' = [tracked EXCEPT ![k] = z]
          /\ rows' \in {rows, [rows EXCEPT ![z.row] = Written(@, z, TRUE)]}
          /\ seenAt' = [seenAt EXCEPT ![z.row] = now]
          /\ crashes' = crashes
    BY <1>3, SightedMoves
  <2>2. pc' # "down"
    BY <1>3 DEF Glance, Save, SaveFails, Known, Next1, Abandon
  <2>3. /\ k \in Keys /\ z.row \in Ids /\ z # NoPlay
        /\ rows[z.row] \in Row /\ rows[z.row] # NoRow /\ rows[z.row].active
        /\ Written(rows[z.row], z, TRUE).active
    <3>1. /\ k \in Keys /\ z.row \in Ids /\ z # NoPlay
          /\ rows[z.row] \in Row /\ rows[z.row] # NoRow /\ rows[z.row].active
      BY <1>0, <2>1, Entries, PlayFields DEF PlaysOwnTheirRows, FollowsARow
    <3> QED
      BY <3>1, WrittenFacts
  <2>4. /\ Playing' = Playing /\ tracked'[k] = z
        /\ \A l \in Playing : l # k => tracked'[l] = tracked[l] /\ tracked[l].row # z.row
    BY <1>0, <2>1, <2>3 DEF TypeOK, Playing, PlaysOwnTheirRows
  <2>5. /\ seenAt'[z.row] = now
        /\ \A i \in Ids : i # z.row => seenAt'[i] = seenAt[i] /\ rows'[i] = rows[i]
    BY <1>0, <2>1, <2>3 DEF TypeOK
  <2>6. Followed
    BY <1>0, <1>1, <2>1, <2>4, <2>5
  <2>7. rows'[z.row].active
    BY <1>0, <2>1, <2>3 DEF TypeOK
  <2>8. Finished
    BY <1>1, <2>1, <2>5, <2>7
  <2> QED
    BY <2>2, <2>6, <2>8
<1>4. CASE \E s \in Sids : Resume(s) \/ Insert(s)
  <2>1. PICK k \in Keys, j \in Ids, r \in Row, z \in Play :
          /\ k \notin Playing /\ z.row = j /\ z.lastTick = now
          /\ \A l \in Playing : tracked[l].row # j
          /\ r.active
          /\ tracked' = [tracked EXCEPT ![k] = z]
          /\ rows' = [rows EXCEPT ![j] = r]
          /\ seenAt' = [seenAt EXCEPT ![j] = now]
          /\ crashes' = crashes
    BY <1>4, NewMoves
  <2>2. pc' # "down"
    BY <1>4 DEF Resume, Insert, New, Next1
  <2>3. /\ Playing' = Playing \cup {k} /\ tracked'[k] = z
        /\ \A l \in Playing : tracked'[l] = tracked[l]
    BY <1>0, <2>1, PlayFields DEF TypeOK, Playing
  <2>4. /\ seenAt'[j] = now /\ rows'[j] = r
        /\ \A i \in Ids : i # j => seenAt'[i] = seenAt[i] /\ rows'[i] = rows[i]
    BY <1>0, <2>1 DEF TypeOK
  <2>5. Followed
    BY <1>0, <1>1, <2>1, <2>3, <2>4
  <2>6. Finished
    BY <1>1, <2>1, <2>4
  <2> QED
    BY <2>2, <2>5, <2>6
<1>5. CASE \E s \in Sids : NewFails(s)
  <2>1. PICK s \in Sids : NewFails(s)
    BY <1>5
  <2>2. /\ list[s].view \in Views /\ now \in Nat /\ pc' # "down"
        /\ crashes' = crashes /\ UNCHANGED <<tracked, seenAt>>
    BY <1>0, <2>1, KeyFacts DEF NewFails, New, Abandon, TypeOK
  <2>3. \/ rows' = rows
        \/ \E j \in Ids, r \in Row : r.active /\ rows' = [rows EXCEPT ![j] = r]
    <3>1. ASSUME NEW j \in Ids, Resumed(j, list[s].view)
          PROVE  [rows[j] EXCEPT !.active = TRUE] \in Row
                 /\ [rows[j] EXCEPT !.active = TRUE].active
      <4>1. rows[j] \in Row
        BY <1>0, <2>2, <3>1, ResumeFacts
      <4> QED
        BY <4>1 DEF Row
    <3>2. Opened(list[s].view) \in Row /\ Opened(list[s].view).active
      BY <2>2 DEF Opened, Row
    <3> QED
      BY <2>1, <3>1, <3>2 DEF NewFails
  <2>4. Playing' = Playing
    BY <2>2 DEF Playing
  <2>5. Followed
    BY <1>1, <2>2, <2>4
  <2>6. \A i \in Ids : rows'[i] = rows[i] \/ rows'[i].active
    BY <1>0, <2>3 DEF TypeOK
  <2>7. Finished
    BY <1>1, <2>2, <2>6
  <2> QED
    BY <2>2, <2>5, <2>7
<1>6. CASE \E k \in Keys : Close(k) \/ CloseFails(k)
  <2>1. PICK k \in Keys : Close(k) \/ CloseFails(k)
    BY <1>6
  <2> DEFINE p == tracked[k]
             w == Written(rows[p.row], p, FALSE)
  <2>2. /\ k \in Playing /\ p \in Play /\ rows[p.row] \in Row
        /\ \A l \in Playing' : /\ l \in Playing /\ tracked'[l] = tracked[l]
        /\ rows' \in {rows, ClosedRows(k)}
        /\ crashes' = crashes /\ seenAt' = seenAt
    BY <2>1, CloseMoves
  <2>3. pc' # "down"
    BY <2>1 DEF Close, CloseFails, End, Abandon
  <2>4. p.row \in Ids /\ w.ended = p.lastTick
    BY <2>2, PlayFields, WrittenFacts
  <2>5. Followed
    BY <1>1, <2>2
  <2>6. \A i \in Ids : \/ rows'[i] \in {rows[i], NoRow}
                       \/ i = p.row /\ rows'[i] = w
    BY <1>0, <2>2, <2>4 DEF ClosedRows, TypeOK
  <2> HIDE DEF w
  <2>7. Finished
    BY <1>1, <2>2, <2>4, <2>6
  <2> QED
    BY <2>3, <2>5, <2>7
<1>7. CASE \E j \in Ids : DeletePlay(j)
  <2>1. PICK j \in Ids : /\ rows' = [rows EXCEPT ![j] = NoRow] /\ pc # "down"
                         /\ UNCHANGED <<pc, tracked, seenAt, crashes>>
    BY <1>7 DEF DeletePlay
  <2>2. Playing' = Playing /\ \A i \in Ids : rows'[i] \in {rows[i], NoRow}
    BY <1>0, <2>1 DEF Playing, TypeOK
  <2> QED
    BY <1>1, <2>1, <2>2
<1>8. CASE \/ \E l \in Lists : TickBegin(l)
           \/ SessionsDone \/ TickEnd \/ DevicesFail
           \/ \E f \in spawned : Tell(f)
           \/ \E d \in Waits : Wait(d)
           \/ UNCHANGED vars
  <2>1. UNCHANGED <<tracked, rows, seenAt, crashes>> /\ (pc' = "down" => pc = "down")
    BY <1>8 DEF TickBegin, SessionsDone, TickEnd, DevicesFail, Abandon, Tell, Wait, vars
  <2>2. Playing' = Playing
    BY <2>1 DEF Playing
  <2> QED
    BY <1>1, <2>1, <2>2
<1>9. CASE Crash
  BY <1>0, <1>9 DEF Crash
<1> QED
  BY <1>2, <1>3, <1>4, <1>5, <1>6, <1>7, <1>8, <1>9 DEF Next, Tick

(* So it does in every state (`tick`: `ended_at` is the second of the tick). *)
THEOREM EndsWhenLastSeen == Spec => []EndIsLastSeen
<1>1. Init => EndIsLastSeen
  BY DEF Init, EndIsLastSeen, Playing, Idle
<1>2. Core /\ EndIsLastSeen /\ [Next]_vars => EndIsLastSeen'
  BY LastSeenStep
<1> QED
  BY <1>1, <1>2, CoreAlways, PTL DEF Spec

(* A row is only ever added for a viewing no finished row can carry on.      *)
LEMMA NewRowIsNeeded ==
  ASSUME Core, [Next]_vars, NEW j \in Ids, rows[j] = NoRow, rows'[j] # NoRow
  PROVE  now' = now /\ crashes' = crashes /\ CannotResume(rows'[j].view)
<1>0. TypeOK /\ PlaysOwnTheirRows
  BY DEF Core
<1>1. ASSUME NEW s \in Sids, Insert(s) \/ NewFails(s)
      PROVE  now' = now /\ crashes' = crashes /\ CannotResume(rows'[j].view)
  <2>1. now' = now /\ crashes' = crashes /\ s \in todo
    BY <1>1 DEF Insert, NewFails, New
  <2>2. CASE \E i \in Ids : /\ CannotResume(list[s].view)
                            /\ rows' = [rows EXCEPT ![i] = Opened(list[s].view)]
    <3>1. rows'[j] = Opened(list[s].view) /\ CannotResume(list[s].view)
      BY <1>0, <2>2 DEF TypeOK
    <3> QED
      BY <2>1, <3>1 DEF Opened
  <2>3. CASE \E i \in Ids : /\ Resumed(i, list[s].view)
                            /\ rows' = [rows EXCEPT ![i].active = TRUE]
    <3>1. PICK i \in Ids : /\ Resumed(i, list[s].view)
                           /\ rows' = [rows EXCEPT ![i].active = TRUE]
      BY <2>3
    <3>2. rows[i] # NoRow
      BY <3>1 DEF Resumed, Resumable
    <3> QED
      BY <1>0, <3>1, <3>2 DEF TypeOK
  <2> QED
    BY <1>1, <2>2, <2>3 DEF Insert, NewFails
<1>2. ~ \E s \in Sids : Resume(s)
  <2> SUFFICES ASSUME NEW s \in Sids, Resume(s) PROVE FALSE
    OBVIOUS
  <2>1. PICK i \in Ids : /\ Resumed(i, list[s].view)
                         /\ rows' = [rows EXCEPT ![i].active = TRUE]
    BY DEF Resume
  <2>2. rows[i] # NoRow
    BY <2>1 DEF Resumed, Resumable
  <2> QED
    BY <1>0, <2>1, <2>2 DEF TypeOK
<1>3. ~ \E s \in Sids : Glance(s) \/ Save(s) \/ SaveFails(s)
  <2> SUFFICES ASSUME NEW s \in Sids, Glance(s) \/ Save(s) \/ SaveFails(s) PROVE FALSE
    OBVIOUS
  <2>1. PICK k \in Playing, z \in Play :
          /\ z.row = tracked[k].row
          /\ rows' \in {rows, [rows EXCEPT ![z.row] = Written(@, z, TRUE)]}
    BY SightedMoves
  <2>2. tracked[k].row \in Ids /\ rows[tracked[k].row] # NoRow
    BY <1>0, Entries DEF PlaysOwnTheirRows, FollowsARow
  <2> QED
    BY <1>0, <2>1, <2>2 DEF TypeOK
<1>4. ~ \E k \in Keys : Close(k) \/ CloseFails(k)
  <2> SUFFICES ASSUME NEW k \in Keys, Close(k) \/ CloseFails(k) PROVE FALSE
    OBVIOUS
  <2>1. /\ tracked[k] \in Play /\ rows[tracked[k].row] \in Row
        /\ rows' \in {rows, ClosedRows(k)}
    BY CloseMoves
  <2>2. tracked[k].row \in Ids /\ rows[tracked[k].row] # NoRow
    BY <2>1, PlayFields, RowFields
  <2> QED
    BY <1>0, <2>1, <2>2 DEF ClosedRows, TypeOK
<1>5. ~(Boot \/ BootFails)
  <2>1. Boot \/ BootFails => rows'[j] = NoRow
    BY DEF Boot, BootFails, Settled
  <2> QED
    BY <2>1
<1>6. ~ \E i \in Ids : DeletePlay(i)
  BY <1>0 DEF DeletePlay, TypeOK
<1>7. ~ \/ \E l \in Lists : TickBegin(l)
        \/ SessionsDone \/ TickEnd \/ DevicesFail
        \/ \E f \in spawned : Tell(f)
        \/ \E d \in Waits : Wait(d)
        \/ Crash
        \/ UNCHANGED vars
  BY DEF TickBegin, SessionsDone, TickEnd, DevicesFail, Tell, Wait, Crash, vars
<1> QED
  BY <1>1, <1>2, <1>3, <1>4, <1>5, <1>6, <1>7 DEF Next, Tick

(* Until a process is killed a finished play that comes back within the      *)
(* merge window never gets a second row, whatever writes have failed         *)
(* ("that's one viewing", `tick`).                                           *)
THEOREM OneRowUntilACrash ==
  Spec => [][crashes = 0 => \A i, j \in Ids : ~SecondRow(i, j)]_vars
<1>1. Core /\ EndIsLastSeen /\ [Next]_vars =>
        [crashes = 0 => \A i, j \in Ids : ~SecondRow(i, j)]_vars
  <2> SUFFICES ASSUME Core, EndIsLastSeen, [Next]_vars, crashes = 0,
                      NEW i \in Ids, NEW j \in Ids, SecondRow(i, j)
               PROVE  FALSE
    OBVIOUS
  <2>1. /\ rows[j] = NoRow /\ rows'[j] # NoRow
        /\ rows[i] # NoRow /\ ~rows[i].active /\ rows[i].view = rows'[j].view
        /\ seenAt[i] + Merge >= now + PersistEvery
    BY DEF SecondRow
  <2>2. CannotResume(rows'[j].view)
    BY <2>1, NewRowIsNeeded
  <2>3. /\ rows[i].ended \in Nat /\ now \in Nat /\ rows[i].ended <= now
        /\ seenAt[i] = rows[i].ended
    BY <2>1, Entries, RowFields DEF Core, NeverLongerThanItLasted, EndIsLastSeen
  <2>4. Merge > 0 /\ rows[i].ended + Merge >= now
    BY <2>1, <2>3, ParamsAssumption
  <2>5. i \in Resumable(rows'[j].view)
    BY <2>1, <2>4 DEF Resumable
  <2> QED
    BY <2>2, <2>4, <2>5 DEF CannotResume
<1> QED
  BY <1>1, EndsWhenLastSeen, CoreAlways, PTL DEF Spec

(* Where no process is ever killed, that is the promise as it stands: a      *)
(* finished play that comes back within the merge window is one viewing.     *)
(* With a crash it is not (see the run MCPlaysCrash).                        *)
THEOREM OneViewingUntilACrash ==
  ASSUME MaxCrashes = 0
  PROVE  Spec => OneViewing
<1>1. Core /\ crashes <= MaxCrashes => crashes = 0
  BY DEF Core, TypeOK
<1>2. Init => crashes <= MaxCrashes
  BY DEF Init
<1>3. crashes <= MaxCrashes /\ Core /\ [Next]_vars => (crashes <= MaxCrashes)'
  <2> SUFFICES ASSUME Core, crashes <= MaxCrashes, [Next]_vars
               PROVE  crashes' <= MaxCrashes
    OBVIOUS
  <2>1. crashes' = crashes \/ Crash
    BY DEF Next, Tick, Boot, BootFails, Start, TickBegin, Glance, Save, SaveFails, Known,
           Resume, Insert, NewFails, New, SessionsDone, Close, CloseFails, End, TickEnd,
           DevicesFail, Tell, DeletePlay, Wait, vars
  <2> QED
    BY <2>1, <1>1 DEF Crash
<1>4. (crashes = 0) /\ [crashes = 0 => \A i, j \in Ids : ~SecondRow(i, j)]_vars
        => [\A i, j \in Ids : ~SecondRow(i, j)]_vars
  OBVIOUS
<1> QED
  BY <1>1, <1>2, <1>3, <1>4, OneRowUntilACrash, CoreAlways, PTL DEF Spec, OneViewing
=============================================================================
