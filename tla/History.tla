------------------------------ MODULE History ------------------------------
(***************************************************************************)
(* The plays as they are kept over the years: written by the collector,    *)
(* brought in from Jellystat, backed up and merged back, deleted by hand,  *)
(* and attached to the item that is there now when a renamed file has      *)
(* become a new item of Jellyfin.                                          *)
(*                                                                         *)
(* A restore and an import are one transaction each, and SQLite lets one   *)
(* writer in at a time, so each is one step; the library is marked and the *)
(* plays are linked in two.  Items with one title are the same film under  *)
(* another id, or another one of the same name: finstats cannot tell.      *)
(* An evening - who, what title, when it began - is what a row is about.   *)
(*                                                                         *)
(* A definition whose name ends in _slip is the one below it with a        *)
(* mistake in it.  No action uses it: it is there to see that the          *)
(* properties notice.                                                      *)
(***************************************************************************)
EXTENDS Naturals, Sequences, FiniteSets, SequencesExt

CONSTANTS
  Viewers,      \* users.id
  Films,        \* ids Jellyfin gives to files
  TitleOf,      \* the name an item goes by
  Starts,       \* when plays may begin
  Jellystat,    \* the rows of a Jellystat backup, in order
  NoPlayRow, NoSource,
  (* the bounds of the model *)
  MaxRows,
  MaxDeeds      \* renames, restores, imports, exports, deletions and restarts

ASSUME HistoryAssumption ==
  /\ TitleOf \in [Films -> {TitleOf[f] : f \in Films}]
  /\ Starts \subseteq Nat
  /\ MaxRows \in Nat /\ MaxDeeds \in Nat

Slots == 1..MaxRows
Sources == {Jellystat[i].source_id : i \in DOMAIN Jellystat}
PlayRow == [user : Viewers, item : Films, start : Starts, active : BOOLEAN,
            source_id : Sources \cup {NoSource}]

(* What Jellystat has is over, and has an id of Jellystat's. *)
ASSUME RowsAssumption ==
  /\ Jellystat \in Seq({row \in PlayRow : ~row.active /\ row.source_id # NoSource})
  /\ NoSource \notin Sources /\ NoPlayRow \notin PlayRow

VARIABLES
  here,      \* items.removed = 0
  pb,        \* playbacks
  following, \* the rows the collector has in memory
  file,      \* the newest backup, its plays in the order of their ids
  (* what has happened *)
  renamed,   \* titles that have changed their item
  deeds

historyVars == <<here, pb, following, file, renamed, deeds>>

HistoryTypeOK ==
  /\ here \subseteq Films
  /\ pb \in [Slots -> PlayRow \cup {NoPlayRow}]
  /\ following \subseteq Slots
  /\ file \in Seq(PlayRow)
  /\ renamed \subseteq {TitleOf[f] : f \in Films}
  /\ deeds \in 0..MaxDeeds

Kept(t) == {i \in Slots : t[i] # NoPlayRow}

HistoryInit ==
  /\ here \in {h \in SUBSET Films : h # {}}
  /\ pb = [i \in Slots |-> NoPlayRow]
  /\ following = {}
  /\ file = <<>>
  /\ renamed = {} /\ deeds = 0

Deed == deeds < MaxDeeds /\ deeds' = deeds + 1
-----------------------------------------------------------------------------
(* SQLite gives the next row the highest id there is and one. *)
NextSlot(t) == CHOOSE n \in 1..(MaxRows + 1) :
                 /\ \A i \in Kept(t) : i < n
                 /\ n = 1 \/ n - 1 \in Kept(t)
Added(t, row) == [t EXCEPT ![NextSlot(t)] = row]
Fits(t, n) == NextSlot(t) + n <= MaxRows + 1

(* `relink_orphans`, over the whole table: `find_current` gives the one    *)
(* live item the name can mean, if there is exactly one.                   *)
Relinked(t, live) ==
  [i \in Slots |->
     IF i \notin Kept(t) \/ t[i].item \in live THEN t[i]
     ELSE LET hits == {g \in live : TitleOf[g] = TitleOf[t[i].item]} IN
          IF Cardinality(hits) = 1 THEN [t[i] EXCEPT !.item = CHOOSE g \in hits : TRUE] ELSE t[i]]

(* `restore`: is this play here already? *)
Present_slip(t, row) ==
  \E i \in Kept(t) : t[i].user = row.user /\ t[i].item = row.item
Present(t, row) ==
  \E i \in Kept(t) :
    IF row.source_id # NoSource THEN t[i].source_id = row.source_id
    ELSE t[i].user = row.user /\ t[i].item = row.item /\ t[i].start = row.start

(* A restored row is written with an id of its own, and never active. *)
AsRestored_slip(row) == row
AsRestored(row) == [row EXCEPT !.active = FALSE]

Merged(t, rows) ==
  LET upto[n \in 0..Len(rows)] ==
        IF n = 0 THEN t
        ELSE LET acc == upto[n - 1] IN
             IF Present(acc, rows[n]) THEN acc ELSE Added(acc, AsRestored(rows[n])) IN
  upto[Len(rows)]

(* `PlayRecord::insert` with a source_id: INSERT OR IGNORE *)
Imported_slip(t, rows) ==
  LET upto[n \in 0..Len(rows)] == IF n = 0 THEN t ELSE Added(upto[n - 1], rows[n]) IN
  upto[Len(rows)]
Imported(t, rows) ==
  LET upto[n \in 0..Len(rows)] ==
        IF n = 0 THEN t
        ELSE LET acc == upto[n - 1] IN
             IF \E i \in Kept(acc) : acc[i].source_id = rows[n].source_id THEN acc ELSE Added(acc, rows[n]) IN
  upto[Len(rows)]
-----------------------------------------------------------------------------
(* The collector: a play begins, and ends. *)
BeginPlay(v, f, s) ==
  /\ f \in here /\ Fits(pb, 1)
  /\ \A i \in Kept(pb) : ~(pb[i].user = v /\ pb[i].start = s)
  /\ \A i \in DOMAIN file : ~(file[i].user = v /\ file[i].start = s)
  /\ pb' = Added(pb, [user |-> v, item |-> f, start |-> s, active |-> TRUE, source_id |-> NoSource])
  /\ following' = following \cup {NextSlot(pb)}
  /\ UNCHANGED <<here, file, renamed, deeds>>

EndPlay(i) ==
  /\ i \in following
  /\ pb' = [pb EXCEPT ![i].active = FALSE]
  /\ following' = following \ {i}
  /\ UNCHANGED <<here, file, renamed, deeds>>

(* A sync has found one id gone and another one there. *)
Rename(f, g) ==
  /\ Deed
  /\ f \in here /\ g \notin here /\ TitleOf[f] = TitleOf[g]
  /\ here' = (here \ {f}) \cup {g}
  /\ renamed' = renamed \cup {TitleOf[f]}
  /\ UNCHANGED <<pb, following, file>>

(* ... or gone for good, or come again. *)
Appear(f) ==
  /\ Deed
  /\ here' = IF f \in here THEN here \ {f} ELSE here \cup {f}
  /\ renamed' = renamed \cup {TitleOf[f]}
  /\ UNCHANGED <<pb, following, file>>

(* `backfill_playbacks` at the end of a sync *)
Link ==
  /\ Relinked(pb, here) # pb
  /\ pb' = Relinked(pb, here)
  /\ UNCHANGED <<here, following, file, renamed, deeds>>

(* `export`: a snapshot of a single moment, in the order of the ids *)
Rows(t) ==
  LET upto[n \in 0..MaxRows] ==
        IF n = 0 THEN <<>>
        ELSE IF t[n] = NoPlayRow THEN upto[n - 1] ELSE Append(upto[n - 1], t[n]) IN
  upto[MaxRows]

Export ==
  /\ Deed
  /\ file' = Rows(pb)
  /\ UNCHANGED <<here, pb, following, renamed>>

(* `restore` *)
Restore ==
  /\ Deed
  /\ file # <<>> /\ Fits(pb, Len(file))
  /\ pb' = Relinked(Merged(pb, file), here)
  /\ UNCHANGED <<here, following, file, renamed>>

(* `import::run` *)
Import ==
  /\ Deed
  /\ Fits(pb, Len(Jellystat))
  /\ pb' = Relinked(Imported(pb, Jellystat), here)
  /\ UNCHANGED <<here, following, file, renamed>>

(* `activity_delete`: not a play that is running *)
Forget(i) ==
  /\ Deed
  /\ i \in Kept(pb) /\ ~pb[i].active
  /\ pb' = [pb EXCEPT ![i] = NoPlayRow]
  /\ UNCHANGED <<here, following, file, renamed>>

(* A start: nothing is active any more, and the plays are linked. *)
StartAgain ==
  /\ Deed
  /\ pb' = Relinked([i \in Slots |-> IF i \in Kept(pb) THEN [pb[i] EXCEPT !.active = FALSE] ELSE pb[i]], here)
  /\ following' = {}
  /\ UNCHANGED <<here, file, renamed>>

HistoryNext ==
  \/ \E v \in Viewers, f \in Films, s \in Starts : BeginPlay(v, f, s)
  \/ \E i \in Slots : EndPlay(i) \/ Forget(i)
  \/ \E f, g \in Films : Rename(f, g)
  \/ \E f \in Films : Appear(f)
  \/ Link \/ Export \/ Restore \/ Import \/ StartAgain

HistorySpec == HistoryInit /\ [][HistoryNext]_historyVars
-----------------------------------------------------------------------------
Evening(row) == <<row.user, TitleOf[row.item], row.start>>
Evenings(rows) == {Evening(r) : r \in rows}
All(t) == {t[i] : i \in Kept(t)}

(* A play in the table is active while the collector follows it, and only  *)
(* then: a backup written during a play brings back a play that is over.   *)
ActiveWhileFollowed == \A i \in Slots : i \in following <=> i \in Kept(pb) /\ pb[i].active

(* A Jellystat play is there once, whatever is imported and restored in    *)
(* whatever order, and whatever its item is called by then.                *)
ImportedOnce ==
  \A i, j \in Kept(pb) : pb[i].source_id # NoSource /\ pb[i].source_id = pb[j].source_id => i = j

(* A play finstats has recorded itself is there once, as long as its title *)
(* has kept its item.                                                      *)
RecordedOnce ==
  \A i, j \in Kept(pb) :
    /\ i # j /\ pb[i].source_id = NoSource /\ pb[j].source_id = NoSource
    /\ TitleOf[pb[i].item] \notin renamed
    => Evening(pb[i]) # Evening(pb[j])

(* Both: no play is there twice, wherever it comes from.                   *)
EachPlayOnce == ImportedOnce /\ RecordedOnce

(* What has been watched stays: linking, restoring, importing and starting *)
(* again take no evening away, only deleting a play does; and after a      *)
(* restore every evening of the backup is there.                           *)
NothingIsLost ==
  [][ /\ Evenings(All(pb)) \ Evenings(All(pb')) # {} => \E i \in Slots : Forget(i)
      /\ Restore => Evenings(Range(file)) \subseteq Evenings(All(pb')) ]_historyVars
=============================================================================
