------------------------------ MODULE Incoming ------------------------------
(***************************************************************************)
(* What is coming in, joined with what was watched: the calendar of Sonarr *)
(* and Radarr, the requests of Seerr, the history of downloads, and how    *)
(* their rows find their title in the library and their person.            *)
(*                                                                         *)
(* A number stands for a TVDB, TMDB or IMDb id of a film or show; a row    *)
(* that has several names them in the order in which they are tried.       *)
(* The tables are written by the passes over those services and by the     *)
(* passes over the library; each pass ends with `link`.  Names, posters    *)
(* and the search box are left out, and no list is at its cap.             *)
(*                                                                         *)
(* A definition whose name ends in _slip is the one below it with a        *)
(* mistake in it.                                                          *)
(***************************************************************************)
EXTENDS Pages

CONSTANTS
  NumbersOf,       \* provider_ids of the films and shows
  Services,
  RequestsToCome, CalendarToCome, GrabsToCome,
  Behind, Ahead,   \* BEHIND_D, AHEAD_D
  FollowDays, SettledDays,   \* FOLLOW_DAYS, and the two weeks after which "never played" counts
  ShortestPlay,    \* shortest_play
  (* the bounds of the model *)
  MaxHeard,        \* plays
  MaxNews          \* changes to what follows

RequestFields == {"service", "id", "asked_by", "media", "numbers", "seasons", "requested_at", "status", "media_status",
                  "media_added_at", "names", "media_id", "removed", "seen_available_at", "available_at", "user_id", "item_id"}
EntryFields == {"service", "kind", "numbers", "episode", "release", "day", "has_file", "media_id", "item_id"}

(* Times are times, and the rows have their columns. *)
ASSUME IncomingAssumption ==
  /\ DOMAIN NumbersOf \subseteq DOMAIN Catalog
  /\ \A i \in DOMAIN Catalog : Catalog[i].created \in Nat
  /\ \A r \in RequestsToCome : /\ DOMAIN r = RequestFields /\ DOMAIN r.numbers \subseteq Nat
                               /\ r.requested_at \in Nat /\ r.media_added_at \in Nat \cup {Null}
                               /\ r.media_id # Null => r.media_id = <<r.media_id[1], r.media_id[2]>>
  /\ \A e \in CalendarToCome : /\ DOMAIN e = EntryFields /\ DOMAIN e.numbers \subseteq Nat
                               /\ e.day \in Nat /\ (e.release = "physical" => e.kind = "movie")
  /\ \A g \in GrabsToCome : g.at \in Nat
  /\ MaxNews \in Nat /\ Ahead \in Nat /\ Null \notin {"open", "arrived", "declined"}

VARIABLES
  enabled,   \* services
  gone,      \* items.removed
  external,  \* item_external
  requests, calendar,
  happened,  \* the history Sonarr or Radarr keeps
  grabs, grabs_since,   \* what is known of it, and service:{}:grabs_since
  reading,   \* the pass over it: what it has still to write
  news

history == <<happened, grabs, grabs_since, reading>>
incomingVars == <<enabled, gone, external, requests, calendar, history, news>>

(* status *)
PENDING == 1
DECLINED == 3
FAILED == 4
(* media_status *)
PROCESSING == 3
PARTIAL == 4
AVAILABLE == 5

AllNumbers == UNION {{i} \X NumbersOf[i] : i \in DOMAIN NumbersOf}

IncomingTypeOK ==
  /\ enabled \subseteq Services /\ gone \subseteq DOMAIN NumbersOf
  /\ external \subseteq AllNumbers
  /\ \A r \in requests : /\ r.item_id \in DOMAIN NumbersOf \cup {Null}
                         /\ r.available_at # Null => r.available_at >= r.requested_at
  /\ \A r, q \in requests : r.service = q.service /\ r.id = q.id => r = q
  /\ \A e \in calendar : e.item_id \in DOMAIN NumbersOf \cup {Null}
  /\ happened \subseteq GrabsToCome /\ grabs \subseteq happened
  /\ grabs_since \in Int \cup {Null}
  /\ reading # Null => reading.left \subseteq happened
  /\ news \in 0..MaxNews

-----------------------------------------------------------------------------
(* Finding the title in the library *)

rebuild_external == {x \in AllNumbers : x[1] \notin gone}

(* One number may have several copies, and one of them is where a click     *)
(* leads, always the same.                                                  *)
Copies(ext, n) == {x[1] : x \in {y \in ext : y[2] = n}}

Landing(ext, numbers) ==
  LET found == {k \in DOMAIN numbers : Copies(ext, numbers[k]) # {}}
  IN  IF found = {} THEN Null ELSE CHOOSE i \in Copies(ext, numbers[Min(found)]) : TRUE

(* When the title came to be there: of a show, an episode that was asked for. *)
Added(i, seasons) ==
  LET E == {e \in Under(i) : ~Catalog[e].removed /\ (Catalog[e].season \in seasons \/ seasons = {})}
      D == IF Catalog[i].type = "Movie" THEN {Catalog[i].created} ELSE {Catalog[e].created : e \in E}
  IN  IF D = {} THEN Null ELSE Min(D)

First(a, b) == IF a # Null THEN a ELSE b

available_at_slip(r, item_added) == IF r.media_status # AVAILABLE THEN Null ELSE First(First(r.media_added_at, item_added), r.seen_available_at)

(* From the best witness there is, and never before it was asked for.       *)
available_at(r, item_added) ==
  LET at == First(First(r.media_added_at, item_added), r.seen_available_at)
  IN  IF r.media_status # AVAILABLE \/ at = Null THEN Null ELSE Max({at, r.requested_at})

Linked(r, ext) ==
  LET i == IF r.names \in DOMAIN NumbersOf \ gone THEN r.names ELSE Landing(ext, r.numbers)
  IN  [r EXCEPT !.user_id = IF r.asked_by \in Accounts THEN r.asked_by ELSE Null,
                !.item_id = i,
                !.available_at = available_at(r, IF i = Null THEN Null ELSE Added(i, r.seasons))]

(* All that is derived, anew: of these requests and this calendar.          *)
link(R, C) ==
  LET ext == rebuild_external
  IN  /\ external' = ext
      /\ requests' = {Linked(r, ext) : r \in R}
      /\ calendar' = {[e EXCEPT !.item_id = Landing(ext, e.numbers)] : e \in C}

-----------------------------------------------------------------------------
(* The calendar *)

EntryKey(e) == <<e.numbers[1], IF e.kind = "episode" THEN e.episode ELSE e.release>>

(* Two services that tell of the same thing; it is on disk if it is anywhere. *)
fold(E) ==
  {LET same == {e \in E : EntryKey(e) = k}
       there == {e \in same : e.item_id # Null}
   IN  [CHOOSE e \in same : \A f \in same : e.day <= f.day EXCEPT !.has_file = \E e \in same : e.has_file,
                                        !.service = Null,
                                        !.item_id = IF there = {} THEN Null ELSE (CHOOSE e \in there : TRUE).item_id]
     : k \in {EntryKey(e) : e \in E}}

still_to_come(e) == ~(e.kind = "movie" /\ e.release = "physical" /\ e.has_file)

entries(days, only) ==
  LET alike == {i \in DOMAIN NumbersOf : \E n \in {x[2] : x \in {y \in external : y[1] = only}} : <<i, n>> \in external}
      E == {e \in calendar : /\ e.service \in enabled
                             /\ today <= e.day /\ e.day < today + days
                             /\ only # Null => e.item_id \in alike}
  IN  {e \in fold(E) : still_to_come(e)}

(* Who played an episode of it lately, of any copy. *)
followers(T, n) ==
  {r.user : r \in {p \in T : p.series \in Copies(external, n) /\ p.end >= Now - FollowDays * DayLength}}

(* "What other people do is not even hinted at." *)
upcoming(T, v, days, asked_for, mine) ==
  LET subject == First(pinned_user(v, asked_for), v.id)
      who(e) == IF e.kind = "episode" THEN followers(T, e.numbers[1]) ELSE {}
  IN  {[entry |-> e, you_follow |-> subject \in who(e), followers |-> IF v.see_everyone THEN who(e) ELSE {}]
         : e \in {x \in entries(days, Null) : mine => subject \in who(x)}}

-----------------------------------------------------------------------------
(* Requests *)

State(r) ==
  CASE r.removed /\ r.media_status # AVAILABLE -> "removed"
    [] r.status = DECLINED -> "declined"
    [] r.status = FAILED -> "failed"
    [] r.media_status = AVAILABLE -> "available"
    [] r.media_status = PARTIAL -> "partial"
    [] r.status = PENDING -> "pending"
    [] r.media_status = PROCESSING -> "processing"
    [] OTHER -> "approved"

Open == {"pending", "approved", "processing", "partial"}
StatesOf(status) == CASE status = "open" -> Open
                      [] status = "arrived" -> {"available"}
                      [] status = "declined" -> {"declined", "failed", "removed"}

CopiesOf(r) == UNION {Copies(external, n) : n \in ToSet(r.numbers)}

(* What was played of it after it was asked for. *)
PlaysOf(T, r) ==
  {p \in T : /\ p.start >= r.requested_at /\ p.duration_s >= ShortestPlay
             /\ IF r.media = "movie" THEN p.item \in CopiesOf(r)
                ELSE p.series \in CopiesOf(r) /\ (r.seasons = {} \/ p.season \in r.seasons)}

Mine(T, r) == {p \in PlaysOf(T, r) : p.user = r.user_id}

(* A request nobody could be linked to matches nobody in particular. *)
SeenBy(v, asked_for) == LET who == pinned_user(v, asked_for) IN {r \in requests : who # Null => r.user_id = who}

request_json(T, r, everyone) ==
  [request |-> r, state |-> State(r), plays |-> Cardinality(Mine(T, r)),
   first |-> IF Mine(T, r) = {} THEN Null ELSE Min({p.start : p \in Mine(T, r)}),
   any |-> IF everyone THEN Cardinality(PlaysOf(T, r)) ELSE Null]

(* The list: latest first, or by when it was first watched. *)
requests_page(T, v, asked_for, status, sort, page) ==
  LET R == {r \in SeenBy(v, asked_for) : status # Null => State(r) \in StatesOf(status)}
      first(r) == request_json(T, r, FALSE).first
      Later(r, q) == r.requested_at > q.requested_at \/ (r.requested_at = q.requested_at /\ r.id > q.id)
      Before(r, q) == IF sort = "when" \/ first(r) = first(q) THEN Later(r, q)
                      ELSE first(q) = Null \/ (first(r) # Null /\ first(r) < first(q))
      place(r) == Cardinality({q \in R : q # r /\ Before(q, r)})
  IN  [total |-> Cardinality(R),
       rows |-> {<<place(r), request_json(T, r, v.see_everyone)>>
                   : r \in {q \in R : (page - 1) * PerPage <= place(q) /\ place(q) < page * PerPage}}]

(* The same title asked for twice is one wish of a person. *)
WishOf(r) == <<IF r.user_id # Null THEN r.user_id ELSE r.asked_by, r.media, r.numbers[1]>>

summary_of(T, v, asked_for, days) ==
  LET R == {r \in SeenBy(v, asked_for) : days > 0 => r.requested_at >= Now - days * DayLength}
      wishes == {WishOf(r) : r \in R}
      Some(w, P(_)) == \E r \in R : WishOf(r) = w /\ P(r)
      Arrived(w) == Some(w, LAMBDA r : State(r) = "available")
      Count(P(_)) == Cardinality({w \in wishes : P(w)})
      watched(r) == Mine(T, r) # {}
      settled == {r \in R : /\ State(r) = "available" /\ r.available_at # Null
                            /\ r.available_at <= Now - SettledDays * DayLength}
      took == {r \in R : r.available_at # Null}
      everyone == v.see_everyone /\ pinned_user(v, asked_for) = Null
  IN  [requests |-> Cardinality(R), titles |-> Cardinality(wishes),
       open |-> Count(LAMBDA w : Some(w, LAMBDA r : State(r) \in Open) /\ ~Arrived(w)),
       arrived |-> Count(Arrived),
       watched |-> Count(LAMBDA w : Arrived(w) /\ Some(w, watched)),
       by_anyone |-> IF v.see_everyone THEN Count(LAMBDA w : Arrived(w) /\ Some(w, LAMBDA r : PlaysOf(T, r) # {})) ELSE Null,
       trend |-> [m \in {Month(Day(r.requested_at)) : r \in took} |-> Cardinality({r \in took : Month(Day(r.requested_at)) = m})],
       never |-> {<<r.media, r.numbers[1]>> : r \in {q \in settled : IF v.see_everyone THEN PlaysOf(T, q) = {} ELSE ~watched(q)}},
       people |-> IF everyone THEN [p \in {w[1] : w \in wishes} |->
                    [titles |-> Count(LAMBDA w : w[1] = p), arrived |-> Count(LAMBDA w : w[1] = p /\ Arrived(w))]] ELSE <<>>]

(* The first that was made for any copy of the title. *)
request_for_item(T, v, i) ==
  LET R == {r \in SeenBy(v, Null) : i \in CopiesOf(r)}
  IN  IF R = {} THEN {} ELSE {request_json(T, CHOOSE r \in R : \A q \in R : r.requested_at <= q.requested_at, v.see_everyone)}

poster_is_listed(v, service, media_id) ==
  \/ \E e \in calendar : e.service = service /\ e.media_id = media_id
  \/ \E r \in requests : r.media_id = <<service, media_id>> /\ MaySee(v, r.user_id)

(* What came in, by day and all together, for whoever may see downloads. *)
download_history(days) ==
  LET since == Midnight(today - (days - 1))
      G == {g \in grabs : g.at >= since}
      Of(S) == [e \in {"imported", "grabbed", "failed"} |-> Cardinality({g \in S : g.event = e})]
  IN  [totals |-> Of(G), daily |-> [d \in Day(since)..today |-> Of({g \in G : Day(g.at) = d})],
       indexers |-> [x \in {g.indexer : g \in G} \ {Null} |-> Cardinality({g \in G : g.event = "imported" /\ g.indexer = x})]]

-----------------------------------------------------------------------------
(* What happens *)

Tells(a) == news < MaxNews /\ news' = news + 1 /\ a

Elsewhere == UNCHANGED <<rows, today>>

(* A pass over Seerr stores what it read and links, in one transaction:      *)
(* seen_available_at is when it was first seen available.                    *)
StoreRequest ==
  \E r \in RequestsToCome :
    LET known == {q \in requests : q.service = r.service /\ q.id = r.id}
        first_seen == IF known = {} THEN Null ELSE (CHOOSE q \in known : TRUE).seen_available_at
    IN  /\ r.requested_at <= Now
        /\ \A q \in known : q.media_status # r.media_status \/ q.removed
        /\ Tells(link((requests \ known) \cup
              {[r EXCEPT !.seen_available_at = IF r.media_status = AVAILABLE THEN First(first_seen, Now) ELSE Null]}, calendar))
        /\ Elsewhere /\ UNCHANGED <<enabled, gone, history>>

(* A whole listing no longer had it. *)
DropRequest ==
  \E r \in requests :
    /\ ~r.removed
    /\ Tells(link((requests \ {r}) \cup {[r EXCEPT !.removed = TRUE]}, calendar))
    /\ Elsewhere /\ UNCHANGED <<enabled, gone, history>>

(* A pass over Sonarr or Radarr replaces what that service announces. *)
StoreCalendar ==
  \E s \in enabled : \E told \in SUBSET {e \in CalendarToCome : e.service = s} :
    /\ Tells(link(requests, {e \in calendar : e.service # s} \cup {e \in told : today - Behind <= e.day /\ e.day <= today + Ahead}))
    /\ Elsewhere /\ UNCHANGED <<enabled, gone, history>>

(* Sonarr or Radarr notes what it does as it does it. *)
GrabHappens ==
  \E g \in GrabsToCome \ happened :
    /\ g.at <= Now /\ \A h \in happened : h.at <= g.at
    /\ Tells(happened' = happened \cup {g})
    /\ Elsewhere /\ UNCHANGED <<enabled, gone, external, requests, calendar, grabs, grabs_since, reading>>

Quiet == Elsewhere /\ UNCHANGED <<enabled, gone, external, requests, calendar, happened, news>>

(* "A second of overlap." *)
NewSince(newest) == newest - 1

(* One answer: all of it, or what happened since. *)
read_history ==
  LET answer == {g \in happened : grabs_since # Null => g.at >= grabs_since}
  IN  /\ reading = Null
      /\ reading' = [left |-> answer, newest |-> IF answer = {} THEN Null ELSE Max({g.at : g \in answer})]
      /\ Quiet /\ UNCHANGED <<grabs, grabs_since>>

(* It is written in pieces, and the cursor moves when all of it is. *)
sync_grabs ==
  /\ reading # Null
  /\ \/ \E g \in reading.left : /\ grabs' = grabs \cup {g}
                                /\ reading' = [reading EXCEPT !.left = @ \ {g}]
                                /\ UNCHANGED grabs_since
     \/ /\ reading.left = {}
        /\ grabs_since' = IF reading.newest = Null THEN grabs_since ELSE NewSince(reading.newest)
        /\ reading' = Null
        /\ UNCHANGED grabs
  /\ Quiet

(* An error or an exit: what is written stays, the cursor too. *)
GrabsFail == reading # Null /\ reading' = Null /\ Quiet /\ UNCHANGED <<grabs, grabs_since>>

(* A pass over the library writes what it sees, and links at its end, which  *)
(* it may not come to.                                                       *)
LibraryChanges ==
  \E i \in DOMAIN NumbersOf :
    /\ Tells(gone' = IF i \in gone THEN gone \ {i} ELSE gone \cup {i})
    /\ Elsewhere /\ UNCHANGED <<enabled, external, requests, calendar, history>>

LibraryLinked == link(requests, calendar) /\ Elsewhere /\ UNCHANGED <<enabled, gone, history, news>>

SwitchService ==
  \E s \in Services :
    /\ Tells(enabled' = IF s \in enabled THEN enabled \ {s} ELSE enabled \cup {s})
    /\ Elsewhere /\ UNCHANGED <<gone, external, requests, calendar, history>>

IncomingInit ==
  /\ enabled = Services /\ gone = {} /\ external = {}
  /\ requests = {} /\ calendar = {} /\ news = 0
  /\ happened = {} /\ grabs = {} /\ grabs_since = Null /\ reading = Null

IncomingNext ==
  \/ StoreRequest \/ DropRequest \/ StoreCalendar \/ GrabHappens \/ read_history \/ sync_grabs \/ GrabsFail
  \/ LibraryChanges \/ LibraryLinked \/ SwitchService
  \/ (Recorded \/ DayPasses) /\ Cardinality(rows') <= MaxHeard /\ UNCHANGED incomingVars

IncomingSpec == PagesInit /\ IncomingInit /\ [][IncomingNext]_<<pagesVars, incomingVars>>

-----------------------------------------------------------------------------
(* Properties *)

Asking == {v \in [id : Accounts, see_everyone : BOOLEAN] : v.see_everyone => v.id = CHOOSE w \in Accounts : TRUE}

(* The figures above the list of requests are those of the list; open,       *)
(* arrived and turned down are all there is; the people's wishes add up; a   *)
(* title's page tells of a request that the list has ("from the same rows    *)
(* the list may show and no others", `summary`); and turning the pages shows *)
(* each of a service's requests once.                                        *)
RequestsAgree ==
  \A v \in Asking, asked_for \in Accounts \cup {Null} :
    LET all == summary_of(rows, v, asked_for, 0)
        Total(status) == requests_page(rows, v, asked_for, status, "when", 1).total
        Pages(sort) == UNION {requests_page(rows, v, asked_for, Null, sort, n).rows : n \in 1..Cardinality(requests)}
    IN  /\ all.requests = Total(Null)
        /\ Total(Null) = Total("open") + Total("arrived") + Total("declined")
        /\ all.open + all.arrived <= all.titles /\ all.watched <= all.arrived
        /\ v.see_everyone => all.watched <= all.by_anyone
        /\ MapThenSumSet(LAMBDA p : all.people[p].titles, DOMAIN all.people) \in {0, all.titles}
        /\ \A m \in DOMAIN all.trend : m <= Month(today)
        /\ \A sort \in {"when", "watched"} : {x[2].request : x \in Pages(sort)} = SeenBy(v, asked_for)
        /\ \A i \in DOMAIN NumbersOf : \A x \in request_for_item(rows, v, i) : x.request \in SeenBy(v, Null)
        /\ \A r \in SeenBy(v, asked_for) :
             /\ r.available_at # Null => r.requested_at <= r.available_at
             /\ r.media_id # Null => poster_is_listed(v, r.media_id[1], r.media_id[2])

(* A thing is on the calendar once, whichever services tell of it, and a     *)
(* film that is on disc anywhere on no disc date; the history's days add up. *)
CalendarAgrees ==
  /\ \A e, f \in entries(Ahead + 1, Null) : EntryKey(e) = EntryKey(f) => e = f
  /\ \A e \in entries(Ahead + 1, Null), f \in calendar :
       (EntryKey(e) = EntryKey(f) /\ f.service \in enabled /\ today <= f.day /\ e.release = "physical") => ~f.has_file
  /\ \A days \in 1..2 :
       LET page == download_history(days)
       IN  \A x \in DOMAIN page.totals : page.totals[x] = MapThenSumSet(LAMBDA d : page.daily[d][x], DOMAIN page.daily)

(* What happened and has not been read is not behind the cursor.             *)
NothingIsPassedOver == \A g \in happened \ grabs : grabs_since # Null => g.at >= grabs_since

IncomingAgrees == RequestsAgree /\ CalendarAgrees /\ NothingIsPassedOver

(* "On a server of five people a number is a name": without "see everyone"   *)
(* the calendar, the requests, their figures and a title's page say what     *)
(* they would if nobody else had played anything, and name nobody else's     *)
(* request, whoever the URL asks for.                                        *)
NothingIsHinted ==
  \A v \in {x \in Asking : ~x.see_everyone}, asked_for \in Accounts \cup {Null} :
    LET mine == {r \in rows : r.user = v.id}
    IN  /\ \A m \in BOOLEAN : upcoming(rows, v, 2, asked_for, m) = upcoming(mine, v, 2, v.id, m)
        /\ summary_of(rows, v, asked_for, 0) = summary_of(mine, v, v.id, 0)
        /\ \A sort \in {"when", "watched"} :
             LET page == requests_page(rows, v, asked_for, Null, sort, 1)
             IN  /\ page = requests_page(mine, v, v.id, Null, sort, 1)
                 /\ \A x \in page.rows : x[2].request.user_id = v.id
        /\ \A i \in DOMAIN NumbersOf : /\ request_for_item(rows, v, i) = request_for_item(mine, v, i)
                                       /\ \A x \in request_for_item(rows, v, i) : x.request.user_id = v.id
=============================================================================
