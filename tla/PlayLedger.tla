----------------------------- MODULE PlayLedger -----------------------------
(***************************************************************************)
(* What the playback table promises to everything that reads it, whatever  *)
(* the collector, a crash or a failed write did to get there.              *)
(*                                                                         *)
(* A row is one viewing.  It is opened empty, it only ever grows while it  *)
(* is active, it is closed once it is worth keeping, and it can be picked  *)
(* up again after a short break.  The only rows that may vanish are the    *)
(* accidental click (shorter than MinKeep) and the one somebody deletes by *)
(* hand, which has to be a finished one.                                   *)
(***************************************************************************)
EXTENDS Naturals

CONSTANTS Ids,      \* the row ids the table hands out
          Views,    \* who watches what on which device
          MinKeep,  \* shorter than this is an accidental click
          NoRow     \* an id no row has

VARIABLE rows

Row == [view : Views, active : BOOLEAN,
        started : Nat, ended : Nat, duration : Nat, paused : Nat]

(* The time a row claims was watched or paused fits between its two ends. *)
Honest(r) == r.started + r.duration + r.paused <= r.ended

(* The same viewing, at least as long as it was. *)
Continues(r, s) ==
  /\ s.view = r.view
  /\ s.started = r.started
  /\ s.ended >= r.ended
  /\ s.duration >= r.duration
  /\ s.paused >= r.paused
  /\ Honest(s)

Worth(r) == r.duration >= MinKeep

Init == rows = [i \in Ids |-> NoRow]

(* Only row i changes, and it becomes s. *)
Becomes(i, s) == rows' = [rows EXCEPT ![i] = s]

Open(i) ==
  LET s == rows'[i] IN
  /\ rows[i] = NoRow
  /\ s \in Row
  /\ s.active
  /\ s.ended = s.started
  /\ s.duration = 0 /\ s.paused = 0
  /\ Becomes(i, s)

Grow(i) ==
  LET s == rows'[i] IN
  /\ rows[i] # NoRow /\ rows[i].active
  /\ s \in Row
  /\ Continues(rows[i], s)
  /\ s.active
  /\ Becomes(i, s)

Close(i) ==
  LET s == rows'[i] IN
  /\ rows[i] # NoRow /\ rows[i].active
  /\ s \in Row
  /\ Continues(rows[i], s)
  /\ ~s.active
  /\ Worth(s)
  /\ Becomes(i, s)

Discard(i) ==
  /\ rows[i] # NoRow /\ rows[i].active
  /\ ~Worth(rows[i])
  /\ Becomes(i, NoRow)

Reopen(i) ==
  /\ rows[i] # NoRow /\ ~rows[i].active
  /\ Becomes(i, [rows[i] EXCEPT !.active = TRUE])

Delete(i) ==
  /\ rows[i] # NoRow /\ ~rows[i].active
  /\ Becomes(i, NoRow)

(* A new process settles what the last one left open: all of it, or only   *)
(* the rows that are not worth keeping when it got no further than that.   *)
Settled(r, closing) ==
  IF r = NoRow \/ ~r.active THEN r
  ELSE IF ~Worth(r) THEN NoRow
  ELSE [r EXCEPT !.active = ~closing]

Recover ==
  \E closing \in BOOLEAN : rows' = [i \in Ids |-> Settled(rows[i], closing)]

Next == \/ \E i \in Ids : \/ Open(i)  \/ Grow(i)   \/ Close(i)
                          \/ Discard(i) \/ Reopen(i) \/ Delete(i)
        \/ Recover

Spec == Init /\ [][Next]_rows
=============================================================================
