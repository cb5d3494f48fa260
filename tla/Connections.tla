---------------------------- MODULE Connections ----------------------------
(***************************************************************************)
(* The connections to other services, and what is read from one of them:   *)
(* the requests of a Seerr.                                                *)
(*                                                                         *)
(* A connection is a row of the database and an entry of the list in       *)
(* memory, which is read again after every change; a reader takes the list *)
(* once and goes on with it, whatever is changed meanwhile.  The listing   *)
(* of requests comes in pages counted by offset, newest change first, and  *)
(* people make, change and delete requests between two pages.              *)
(*                                                                         *)
(* A tick of the clock is a change at some Seerr; `Overlap` is in ticks,   *)
(* and no pass takes longer (OVERLAP_S is ten minutes).  Left out: the     *)
(* test of an address before it is saved, how a connection is doing,       *)
(* connections that are switched off, and titles.                          *)
(*                                                                         *)
(* A definition whose name ends in _slip is the one below it with a        *)
(* mistake in it.  No action uses it: it is there to see that the          *)
(* properties notice.                                                      *)
(***************************************************************************)
EXTENDS Naturals, Sequences, FiniteSets, FiniteSetsExt, SequencesExt

CONSTANTS
  Owners,       \* administrators, with at most one change under way each
  Seerrs,       \* addresses
  Requests,     \* ids of requests
  AtFirst,      \* the requests there are at first: stamps of their last change
  MaxServices,  \* MAX_SERVICES
  Page, SmallPage, MaxPages,   \* PAGE, SMALL_PAGE, MAX_PAGES
  Overlap,      \* OVERLAP_S
  Nowhere, NoRow,
  (* the bounds of the model *)
  MaxIds,       \* connections ever made
  MaxClock,     \* stamps
  MaxChanges    \* what owners do, and what happens at the Seerrs

ASSUME ConnectionsAssumption ==
  /\ AtFirst \in [Seerrs -> [Requests -> 0..MaxClock]]
  /\ MaxServices \in Nat \ {0} /\ MaxIds \in Nat \ {0} /\ MaxChanges \in Nat
  /\ Page \in Nat \ {0} /\ SmallPage \in Nat \ {0} /\ MaxPages \in Nat \ {0}
  /\ Overlap \in Nat \ {0} /\ MaxClock \in Nat
  /\ Nowhere \notin Seerrs /\ IsFiniteSet(Seerrs) /\ IsFiniteSet(Requests)
  /\ \E s \in Seerrs, r \in Requests : AtFirst[s][r] > 0
  /\ \A s \in Seerrs, q, r \in Requests : q # r /\ AtFirst[s][q] > 0 => AtFirst[s][q] # AtFirst[s][r]
  /\ NoRow \notin [upd : 0..MaxClock, open : BOOLEAN, removed : BOOLEAN, from : Seerrs]

VARIABLES
  seerr,     \* at each address: the stamp of each request, 0 when there is none
  pending,   \* at each address: the requests still on their way
  clock,
  services,  \* the table: where each id points
  memory,    \* AppState.services
  issued,    \* ids given out: AUTOINCREMENT
  requests,  \* the table, by connection
  cursor,    \* service:{id}:requests_cursor, 0 when there is none
  owner,     \* the change of each owner
  pass,      \* the task sync_requests
  (* what has happened *)
  spoiled,   \* connections read while they were moved, or the list lost a row
  hurried,   \* connections whose cursor was raised by a pass that listed nothing
  changes

connVars == <<seerr, pending, clock, services, memory, issued, requests, cursor, owner, pass,
              spoiled, hurried, changes>>

Ids == 1..MaxIds
Stamps == 0..MaxClock
RequestRow == [upd : Stamps, open : BOOLEAN, removed : BOOLEAN, from : Seerrs]
Resting == [pc |-> "idle"]

ConnectionsTypeOK ==
  /\ seerr \in [Seerrs -> [Requests -> Stamps]]
  /\ pending \in [Seerrs -> SUBSET Requests]
  /\ clock \in Stamps
  /\ services \in [Ids -> Seerrs \cup {Nowhere}]
  /\ memory \in [Ids -> Seerrs \cup {Nowhere}]
  /\ issued \in 0..MaxIds
  /\ requests \in [Ids -> [Requests -> RequestRow \cup {NoRow}]]
  /\ cursor \in [Ids -> Stamps]
  /\ DOMAIN owner = Owners
  /\ pass.pc \in {"idle", "next", "probe", "list", "recheck", "by_name", "write"}
  /\ spoiled \subseteq Ids /\ hurried \subseteq Ids
  /\ changes \in 0..MaxChanges

Connected(t) == {id \in Ids : t[id] # Nowhere}
NoRows == [r \in Requests |-> NoRow]
Listed(s) == {r \in Requests : seerr[s][r] > 0}

ConnectionsInit ==
  /\ seerr = AtFirst
  /\ pending = [s \in Seerrs |-> Listed(s)]
  /\ clock = Max({seerr[s][r] : s \in Seerrs, r \in Requests})
  /\ services = [id \in Ids |-> IF id = 1 THEN CHOOSE s \in Seerrs : Listed(s) # {} ELSE Nowhere]
  /\ memory = services
  /\ issued = 1
  /\ requests = [id \in Ids |-> NoRows]
  /\ cursor = [id \in Ids |-> 0]
  /\ owner = [o \in Owners |-> Resting]
  /\ pass = Resting
  /\ spoiled = {} /\ hurried = {} /\ changes = 0

tables == <<services, issued, requests, cursor>>
Change == changes < MaxChanges /\ changes' = changes + 1
-----------------------------------------------------------------------------
(* What owners do.  Every change ends with `changed`, which reads the      *)
(* table and then replaces the list in memory.                             *)

(* `create`: the limit is looked at first; the address is tested then. *)
StartCreate(o, s) ==
  /\ Change
  /\ owner[o] = Resting
  /\ Cardinality(Connected(memory)) < MaxServices
  /\ owner' = [owner EXCEPT ![o] = [pc |-> "create", url |-> s]]
  /\ UNCHANGED <<seerr, pending, clock, tables, memory, pass, spoiled, hurried>>

Create(o) ==
  /\ owner[o].pc = "create" /\ issued < MaxIds
  /\ issued' = issued + 1
  /\ services' = [services EXCEPT ![issued + 1] = owner[o].url]
  /\ owner' = [owner EXCEPT ![o] = [pc |-> "reload"]]
  /\ UNCHANGED <<seerr, pending, clock, memory, requests, cursor, pass, spoiled, hurried, changes>>

(* What does not answer is not saved. *)
TestFails(o) ==
  /\ owner[o].pc \in {"create", "update"}
  /\ owner' = [owner EXCEPT ![o] = Resting]
  /\ UNCHANGED <<seerr, pending, clock, tables, memory, pass, spoiled, hurried, changes>>

(* `update` to another instance: what was read goes, and the cursor.  The  *)
(* statement finds no row when somebody has removed the connection.        *)
WipedCursor_slip(id) ==
  /\ requests' = [requests EXCEPT ![id] = NoRows]
  /\ UNCHANGED cursor
Wiped(id) ==
  /\ requests' = [requests EXCEPT ![id] = NoRows]
  /\ cursor' = [cursor EXCEPT ![id] = 0]

Reads(id) == "id" \in DOMAIN pass /\ pass.id = id

StartUpdate(o, id, s) ==
  /\ Change
  /\ owner[o] = Resting
  /\ memory[id] # Nowhere
  /\ owner' = [owner EXCEPT ![o] = [pc |-> "update", id |-> id, url |-> s, was |-> memory[id]]]
  /\ UNCHANGED <<seerr, pending, clock, tables, memory, pass, spoiled, hurried>>

(* Whether it is moved is told by the entry the change was made from; what *)
(* it is written over may be another one's change.                         *)
Update(o) ==
  /\ owner[o].pc = "update"
  /\ LET id == owner[o].id
         url == owner[o].url
         moved == url # owner[o].was
         other == services[id] # url IN
     /\ services' = IF services[id] = Nowhere THEN services ELSE [services EXCEPT ![id] = url]
     /\ IF moved THEN Wiped(id) ELSE UNCHANGED <<requests, cursor>>
     /\ pass' = IF Reads(id) /\ (moved \/ other) THEN [pass EXCEPT !.news = "spoiled"] ELSE pass
     /\ spoiled' = IF moved THEN spoiled \ {id} ELSE IF other THEN spoiled \cup {id} ELSE spoiled
     /\ hurried' = IF moved THEN hurried \ {id} ELSE hurried
  /\ owner' = [owner EXCEPT ![o] = [pc |-> "reload"]]
  /\ UNCHANGED <<seerr, pending, clock, memory, issued, changes>>

(* `remove`: ON DELETE CASCADE. *)
RemoveConnection(o, id) ==
  /\ Change
  /\ owner[o] = Resting
  /\ memory[id] # Nowhere
  /\ services' = [services EXCEPT ![id] = Nowhere]
  /\ requests' = [requests EXCEPT ![id] = NoRows]
  /\ owner' = [owner EXCEPT ![o] = [pc |-> "reload"]]
  /\ UNCHANGED <<seerr, pending, clock, memory, issued, cursor, pass, spoiled, hurried>>

(* `reload`: one read, then the list. *)
ReloadReads(o) ==
  /\ owner[o].pc = "reload"
  /\ owner' = [owner EXCEPT ![o] = [pc |-> "reloaded", list |-> services]]
  /\ UNCHANGED <<seerr, pending, clock, tables, memory, pass, spoiled, hurried, changes>>

ReloadEnds(o) ==
  /\ owner[o].pc = "reloaded"
  /\ memory' = owner[o].list
  /\ owner' = [owner EXCEPT ![o] = Resting]
  /\ UNCHANGED <<seerr, pending, clock, tables, pass, spoiled, hurried, changes>>
-----------------------------------------------------------------------------
(* What people do at a Seerr. *)

Hears(s, news) ==
  pass' = IF "url" \in DOMAIN pass /\ pass.url = s /\ pass.news # "spoiled"
          THEN [pass EXCEPT !.news = news] ELSE pass

(* A request is made, or changes; both touch its updatedAt. *)
Touch(s, r, open) ==
  /\ Change
  /\ clock < MaxClock
  /\ "since" \in DOMAIN pass => clock - pass.since < Overlap
  /\ clock' = clock + 1
  /\ seerr' = [seerr EXCEPT ![s][r] = clock + 1]
  /\ pending' = [pending EXCEPT ![s] = IF open THEN @ \cup {r} ELSE @ \ {r}]
  /\ Hears(s, "touched")
  /\ UNCHANGED <<tables, memory, owner, spoiled, hurried>>

(* Its media arrives; that does not always touch the request. *)
Arrive(s, r) ==
  /\ Change
  /\ r \in pending[s]
  /\ pending' = [pending EXCEPT ![s] = @ \ {r}]
  /\ UNCHANGED <<seerr, clock, tables, memory, owner, pass, spoiled, hurried>>

Delete(s, r) ==
  /\ Change
  /\ r \in Listed(s)
  /\ seerr' = [seerr EXCEPT ![s][r] = 0]
  /\ pending' = [pending EXCEPT ![s] = @ \ {r}]
  /\ Hears(s, "spoiled")
  /\ UNCHANGED <<clock, tables, memory, owner, spoiled, hurried>>
-----------------------------------------------------------------------------
(* `sync_requests`: the connections there are now, one after the other.    *)

StartPass ==
  /\ pass = Resting
  /\ Connected(memory) # {}
  /\ pass' = [pc |-> "next", list |-> {[id |-> id, url |-> memory[id]] : id \in Connected(memory)}]
  /\ UNCHANGED <<seerr, pending, clock, tables, memory, owner, spoiled, hurried, changes>>

(* On to the next one, or the end of the pass. *)
NextOne(list) == IF list = {} THEN Resting ELSE [pc |-> "next", list |-> list]

(* `read` of the first of them: what is known, and whether a day has gone  *)
(* since all was listed.                                                   *)
OpenRows(id) == {r \in Requests : /\ requests[id][r] # NoRow
                                  /\ requests[id][r].open /\ ~requests[id][r].removed}

Reading(svc, full, quarter) ==
  [pc |-> "probe", list |-> pass.list \ {svc}, id |-> svc.id, url |-> svc.url,
   full |-> full, cursor |-> cursor[svc.id], open |-> OpenRows(svc.id),
   recheck |-> ~full /\ OpenRows(svc.id) # {} /\ quarter,
   rows |-> {}, page |-> 0, complete |-> FALSE, since |-> clock,
   news |-> IF services[svc.id] = svc.url THEN "none" ELSE "spoiled"]

BeginRead(day, quarter) ==
  /\ pass.pc = "next"
  /\ \E svc \in pass.list :
       /\ \A other \in pass.list : svc.id <= other.id
       /\ pass' = Reading(svc, cursor[svc.id] = 0 \/ day, quarter)
  /\ UNCHANGED <<seerr, pending, clock, tables, memory, owner, spoiled, hurried, changes>>

(* `newest_change`, `anything_changed` *)
Probe ==
  /\ pass.pc = "probe"
  /\ LET changed == pass.full \/ \E r \in Requests : seerr[pass.url][r] > pass.cursor IN
     pass' = IF changed THEN [pass EXCEPT !.pc = "list"]
             ELSE IF pass.recheck THEN [pass EXCEPT !.pc = "recheck"]
             ELSE NextOne(pass.list)
  /\ UNCHANGED <<seerr, pending, clock, tables, memory, owner, spoiled, hurried, changes>>

(* `list`: one page, by offset in the order of the last change. *)
Place(s, r) == Cardinality({q \in Listed(s) : seerr[s][q] >= seerr[s][r]})
RowOf(s, r) == [r |-> r, upd |-> seerr[s][r], open |-> r \in pending[s]]

Whole(reached, total, first) == ~reached /\ total >= first

ReadPage ==
  /\ pass.pc = "list"
  /\ LET take == IF pass.full THEN Page ELSE SmallPage
         first == pass.page * take
         total == Cardinality(Listed(pass.url))
         new == {RowOf(pass.url, r) : r \in {q \in Listed(pass.url) :
                                              /\ first < Place(pass.url, q)
                                              /\ Place(pass.url, q) <= first + take}}
         reached == ~pass.full /\ \E w \in new : w.upd + Overlap < pass.cursor
         short == total < first + take
         over == short \/ reached \/ pass.page + 1 = MaxPages IN
     pass' = [pass EXCEPT !.rows = @ \cup new, !.page = @ + 1,
                          !.complete = short /\ Whole(reached, total, first),
                          !.pc = IF ~over THEN "list" ELSE IF pass.recheck THEN "recheck" ELSE "write"]
  /\ UNCHANGED <<seerr, pending, clock, tables, memory, owner, spoiled, hurried, changes>>

(* The listings of what is open; a row that is there already stays as it was read. *)
SeenIds == {w.r : w \in pass.rows}

Recheck ==
  /\ pass.pc = "recheck"
  /\ pass' = [pass EXCEPT !.pc = "by_name",
                          !.rows = @ \cup {RowOf(pass.url, r) : r \in pending[pass.url] \ SeenIds}]
  /\ UNCHANGED <<seerr, pending, clock, tables, memory, owner, spoiled, hurried, changes>>

(* What is believed to be open and was not listed is asked for by its id;  *)
(* an answer that does not come is passed over.                            *)
ByName(asked) ==
  /\ pass.pc = "by_name" /\ asked \subseteq pass.open
  /\ pass' = [pass EXCEPT !.pc = "write",
                          !.rows = @ \cup {RowOf(pass.url, r) : r \in (asked \ SeenIds) \cap Listed(pass.url)}]
  /\ UNCHANGED <<seerr, pending, clock, tables, memory, owner, spoiled, hurried, changes>>

(* A row read twice is stored twice, the later reading last. *)
Latest(r) == CHOOSE w \in pass.rows : w.r = r /\ \A v \in pass.rows : v.r = r => v.upd <= w.upd

(* One transaction: the rows, what is gone, the cursor.  A row of a        *)
(* connection that has been removed breaks its foreign key.                *)
NewCursor == Max({w.upd : w \in pass.rows} \cup {pass.cursor})

Stored_slip(r) ==
  IF r \in SeenIds THEN [upd |-> Latest(r).upd, open |-> Latest(r).open, removed |-> FALSE, from |-> pass.url]
  ELSE IF requests[pass.id][r] # NoRow
       THEN [requests[pass.id][r] EXCEPT !.removed = TRUE]
       ELSE requests[pass.id][r]
Stored(r) ==
  IF r \in SeenIds THEN [upd |-> Latest(r).upd, open |-> Latest(r).open, removed |-> FALSE, from |-> pass.url]
  ELSE IF pass.full /\ pass.complete /\ requests[pass.id][r] # NoRow
       THEN [requests[pass.id][r] EXCEPT !.removed = TRUE]
       ELSE requests[pass.id][r]

Write ==
  /\ pass.pc = "write"
  /\ services[pass.id] # Nowhere
  /\ requests' = [requests EXCEPT ![pass.id] = [r \in Requests |-> Stored(r)]]
  /\ cursor' = [cursor EXCEPT ![pass.id] = NewCursor]
  /\ spoiled' = IF pass.news = "spoiled" THEN spoiled \cup {pass.id}
                ELSE IF pass.full /\ pass.complete THEN spoiled \ {pass.id} ELSE spoiled
  /\ hurried' = IF pass.page = 0 /\ NewCursor > pass.cursor THEN hurried \cup {pass.id}
                ELSE IF pass.full /\ pass.complete THEN hurried \ {pass.id} ELSE hurried
  /\ pass' = NextOne(pass.list)
  /\ UNCHANGED <<seerr, pending, clock, services, issued, memory, owner, changes>>

(* An answer that does not come or cannot be read, or a broken key. *)
ReadFails ==
  /\ pass.pc \in {"probe", "list", "recheck", "write"}
  /\ pass.pc = "write" => services[pass.id] = Nowhere
  /\ pass' = NextOne(pass.list)
  /\ UNCHANGED <<seerr, pending, clock, tables, memory, owner, spoiled, hurried, changes>>

ConnectionsNext ==
  \/ \E o \in Owners :
       \/ \E s \in Seerrs : StartCreate(o, s) \/ (\E id \in Ids : StartUpdate(o, id, s))
       \/ \E id \in Ids : RemoveConnection(o, id)
       \/ Create(o) \/ Update(o) \/ TestFails(o) \/ ReloadReads(o) \/ ReloadEnds(o)
  \/ \E s \in Seerrs, r \in Requests :
       \/ \E open \in BOOLEAN : Touch(s, r, open)
       \/ Arrive(s, r) \/ Delete(s, r)
  \/ \E day, quarter \in BOOLEAN : BeginRead(day, quarter)
  \/ \E asked \in SUBSET Requests : ByName(asked)
  \/ StartPass \/ Probe \/ ReadPage \/ Recheck \/ Write \/ ReadFails

ConnectionsSpec == ConnectionsInit /\ [][ConnectionsNext]_connVars
-----------------------------------------------------------------------------
(* A pass that stops at the cursor misses nothing for long: what changed   *)
(* longer ago than the overlap is known as it is.  Exempt until all of it   *)
(* is listed again is a connection that was moved, or whose list lost a     *)
(* row, while it was read, or that was moved back by a change made from an  *)
(* entry that was behind; and one whose cursor a pass that listed nothing   *)
(* has raised, over what changed after its probe and is not open.          *)
NothingOverlooked ==
  \A id \in Connected(services) \ (spoiled \cup hurried) : \A r \in Listed(services[id]) :
    seerr[services[id]][r] + Overlap <= cursor[id] =>
      requests[id][r] # NoRow /\ requests[id][r].upd = seerr[services[id]][r] /\ ~requests[id][r].removed

(* "when these change, it is another instance and its ids mean nothing     *)
(* here": what is kept as current comes from where the connection points.  *)
RowsOfTheInstance ==
  \A id \in Connected(services) \ spoiled : \A r \in Requests :
    requests[id][r] # NoRow /\ ~requests[id][r].removed => requests[id][r].from = services[id]

(* Both: what is shown of a Seerr is what that Seerr had, in full.         *)
RequestsAreTrue == NothingOverlooked /\ RowsOfTheInstance

(* Only a request that is gone, or one in a list that changed while it was *)
(* read, is marked as gone.                                                *)
RemovedForAReason ==
  [][\A id \in Ids, r \in Requests :
       /\ Write /\ pass.id = id /\ pass.news = "none"
       /\ requests'[id][r] # NoRow /\ requests'[id][r].removed
       /\ requests[id][r] # NoRow /\ ~requests[id][r].removed
       => r \notin Listed(pass.url)]_connVars

(* "Only a listing that was whole may say that something is gone."         *)
GoneMeansGone ==
  [][\A id \in Ids, r \in Requests :
       /\ Write /\ pass.id = id
       /\ requests'[id][r] # NoRow /\ requests'[id][r].removed
       /\ requests[id][r] # NoRow /\ ~requests[id][r].removed
       => seerr[pass.url][r] = 0 \/ seerr[pass.url][r] > pass.since]_connVars
=============================================================================
