------------------------------- MODULE Pages -------------------------------
(***************************************************************************)
(* The statistics pages: what each handler answers, as a function of the   *)
(* table of plays T, the caller v and the filter q.  The table itself is   *)
(* filled by the collector and by imports, and here only grows, ends and   *)
(* loses plays; a page is read at one moment.                              *)
(*                                                                         *)
(* Time is counted in instants, DayLength to a local day, WeekLength days  *)
(* to a week; clocks are not put back.  What only names or draws things -  *)
(* titles, labels, images, the order of a list that is not paged - is left *)
(* out, and a list capped at fifty or more is not at its cap.  "Now" is the *)
(* last instant of today.                                                  *)
(*                                                                         *)
(* A definition whose name ends in _slip is the one below it with a        *)
(* mistake in it.  No page uses it: it is there to see that the properties *)
(* notice.                                                                 *)
(***************************************************************************)
EXTENDS Integers, Sequences, FiniteSets, SequencesExt

CONSTANTS
  Accounts, Shelves,
  Catalog,      \* items, with item_people and genres
  PlayedFlags,  \* user_items: <<user, item>> that Jellyfin calls played
  PlaysToCome,  \* the rows that may come to be in playbacks
  Null,
  DayLength, WeekLength,
  MonthLength,  \* days
  LongSpan,     \* days a chart shows before it counts in weeks
  MinPlay,      \* min_play_s
  MostNames,    \* bars of a chart before the rest is "Other"
  DaysAsked,    \* values of ?days=
  PerPage,
  (* the bounds of the model *)
  LastDay, MostPlays

ASSUME PagesAssumption ==
  /\ DayLength \in Nat \ {0} /\ WeekLength \in Nat \ {0} /\ MonthLength \in Nat \ {0}
  /\ DaysAsked \subseteq Nat /\ PerPage \in Nat \ {0} /\ MostNames \in Nat \ {0}
  /\ Null \notin Accounts

(* Everything a play is recorded with, and an id for each. *)
ASSUME PlaysAssumption ==
  /\ \A r \in PlaysToCome :
       r = [id |-> r.id, user |-> r.user, item |-> r.item, series |-> r.series, season |-> r.season,
            type |-> r.type, library |-> r.library, client |-> r.client, ip |-> r.ip, local |-> r.local,
            method |-> r.method, start |-> r.start, end |-> r.end, duration_s |-> r.duration_s,
            position_s |-> r.position_s, runtime_s |-> r.runtime_s, active |-> r.active]
  /\ \A r \in PlaysToCome : r.id \in Nat /\ r.start \in Nat /\ r.end \in Nat /\ r.duration_s \in Nat
  /\ \A r, p \in PlaysToCome : r.id = p.id => r = p
  /\ LastDay \in Nat /\ MostPlays \in Nat

(* A column is a number or empty, where it is one.                           *)
ASSUME ColumnsAssumption ==
  /\ Null \notin Int /\ Null \notin Shelves
  /\ \A r \in PlaysToCome :
       r.position_s \in Int \cup {Null} /\ r.runtime_s \in Int /\ r.ip \in Int \cup {Null}
  /\ IsFiniteSet(DOMAIN Catalog)

VARIABLES
  rows,   \* playbacks
  today

pagesVars == <<rows, today>>

PagesTypeOK ==
  /\ \A r \in rows : \E p \in PlaysToCome : r = [p EXCEPT !.active = r.active]
  /\ \A r, p \in rows : r.id = p.id => r = p
  /\ today \in 0..LastDay

Day(t) == t \div DayLength
Month(d) == d \div MonthLength
Midnight(d) == d * DayLength
Now == Midnight(today + 1) - 1

(* S in the order of `before`, which leaves no ties. *)
InOrder(S, before(_, _)) ==
  [i \in 1..Cardinality(S) |-> CHOOSE x \in S : Cardinality({y \in S : before(y, x)}) = i - 1]

Seconds(R) == MapThenSumSet(LAMBDA r : r.duration_s, R)
Tally(R) == [plays |-> Cardinality(R), watch_s |-> Seconds(R)]
Totals(R) == [tally |-> Tally(R), users |-> Cardinality({r.user : r \in R}), items |-> Cardinality({r.item : r \in R})]
Title(r) == IF r.series # Null THEN r.series ELSE r.item
PerUser(R) == [w \in {r.user : r \in R} |-> Tally({r \in R : r.user = w})]

-----------------------------------------------------------------------------
(* What a request is about *)

pinned_user_slip(v, asked_for) == IF asked_for # Null THEN asked_for ELSE IF v.see_everyone THEN Null ELSE v.id

pinned_user(v, asked_for) == IF v.see_everyone THEN asked_for ELSE v.id

(* "Last 7 days" begins at local midnight six days ago. *)
Scope(v, q) ==
  [user_id    |-> pinned_user(v, q.user_id),
   library_id |-> q.library_id,
   days       |-> q.days,
   since      |-> IF q.days > 0 THEN Midnight(today - (q.days - 1)) ELSE Null]

Base(T, s) ==
  {r \in T : /\ s.user_id # Null => r.user = s.user_id
             /\ s.library_id # Null => r.library = s.library_id
             /\ r.duration_s >= MinPlay}

Cond(T, s) == {r \in Base(T, s) : s.since # Null => r.start >= s.since}

Previous(T, s) ==
  {r \in Base(T, s) : s.since - s.days * DayLength <= r.start /\ r.start < s.since}

-----------------------------------------------------------------------------
(* Charts *)

TYPE_GROUPS == {"Movie", "Episode", "Audio", "Other"}
TypeGroup(r) == IF r.type \in TYPE_GROUPS THEN r.type ELSE "Other"

(* SQLite's 'weekday 0', '-6 days': on to Sunday, unless it is one, and back. *)
SqlMonday(d) == d + ((WeekLength - 1 - d) % WeekLength) - (WeekLength - 1)

FirstDay(R, s) == IF s.since # Null THEN Day(s.since) ELSE Min({Day(r.start) : r \in R})
Weekly(R, s)   == today - FirstDay(R, s) > LongSpan

ChartFrom_slip(R, s) == FirstDay(R, s)

ChartFrom(R, s) == LET first == FirstDay(R, s) IN IF Weekly(R, s) THEN first - (first % WeekLength) ELSE first

ChartDates(R, s) ==
  IF s.since = Null /\ R = {} THEN {}
  ELSE {d \in ChartFrom(R, s)..today : (d - ChartFrom(R, s)) % (IF Weekly(R, s) THEN WeekLength ELSE 1) = 0}

DateOf(R, s, t) == IF Weekly(R, s) THEN SqlMonday(Day(t)) ELSE Day(t)

(* No gaps; days, or weeks once there are too many of them. *)
Daily(R, s) ==
  [d \in ChartDates(R, s) |->
    [g \in TYPE_GROUPS |-> Tally({r \in R : DateOf(R, s, r.start) = d /\ TypeGroup(r) = g})]]

(* SQLite's week begins on Sunday and the page's on Monday. *)
Heatmap(R) ==
  [cell \in (0..WeekLength - 1) \X (0..DayLength - 1) |->
    Tally({r \in R : LET dow == (Day(r.start) + 1) % WeekLength
                     IN (dow + WeekLength - 1) % WeekLength = cell[1] /\ r.start % DayLength = cell[2]})]

(* The first n of S by an order that may leave ties to SQLite. *)
Foremost(S, n, better(_, _)) ==
  IF Cardinality(S) <= n THEN S
  ELSE CHOOSE H \in kSubset(n, S) : \A x \in H, y \in S \ H : ~better(y, x)

Ranks(by_plays, x, y) ==
  IF by_plays THEN x.plays > y.plays \/ (x.plays = y.plays /\ x.watch_s > y.watch_s)
              ELSE x.watch_s > y.watch_s \/ (x.watch_s = y.watch_s /\ x.plays > y.plays)

(* Every play counts under each of its names[play]; past `most` names the    *)
(* rest is folded into "Other".                                              *)
Buckets(names, most) ==
  LET of   == [n \in UNION {names[r] : r \in DOMAIN names} |-> Tally({r \in DOMAIN names : n \in names[r]})]
      head == Foremost(DOMAIN of, most, LAMBDA x, y : Ranks(TRUE, of[x], of[y]))
      rest == DOMAIN of \ head
  IN  [named |-> [n \in head |-> of[n]],
       other |-> [plays   |-> MapThenSumSet(LAMBDA n : of[n].plays, rest),
                  watch_s |-> MapThenSumSet(LAMBDA n : of[n].watch_s, rest)]]

NameOf(x) == IF x = Null THEN {} ELSE {x}
Genres(r) == IF Title(r) \in DOMAIN Catalog THEN Catalog[Title(r)].genres ELSE {}

Top(of, n, by_plays) ==
  LET groups == [x \in UNION {NameOf(of[r]) : r \in DOMAIN of} |-> Tally({r \in DOMAIN of : of[r] = x})]
      head   == Foremost(DOMAIN groups, n, LAMBDA x, y : Ranks(by_plays, groups[x], groups[y]))
  IN  [x \in head |-> groups[x]]

TopKinds(R, n, by_plays) ==
  [movies    |-> Top([r \in {x \in R : x.type = "Movie"} |-> r.item], n, by_plays),
   series    |-> Top([r \in {x \in R : x.type = "Episode"} |-> r.series], n, by_plays),
   users     |-> Top([r \in R |-> r.user], n, by_plays),
   clients   |-> Top([r \in R |-> r.client], n, by_plays),
   libraries |-> Top([r \in R |-> r.library], n, by_plays)]

(* The sweep over starts and ends: ends come first, and a play that took no *)
(* time is not there.                                                       *)
Points(R) ==
  LET real == {r \in R : r.end > r.start}
  IN  {[at |-> r.start, delta |-> 1, row |-> r] : r \in real} \cup {[at |-> r.end, delta |-> -1, row |-> r] : r \in real}

Upto(P, p) == {x \in P : x.at < p.at \/ (x.at = p.at /\ (x.delta < p.delta \/ (x.delta = p.delta /\ x.row.id <= p.row.id)))}

LiveAfter(P, p) == MapThenSumSet(LAMBDA x : x.delta, Upto(P, p))

Concurrency(R, s) ==
  LET P == Points(R)
      starts == {p \in P : p.delta > 0}
      Transcodes(p) == MapThenSumSet(LAMBDA x : IF x.row.method = "Transcode" THEN x.delta ELSE 0, Upto(P, p))
      Most0(S) == Max(S \cup {0})
  IN  [peak            |-> Most0({LiveAfter(P, p) : p \in starts}),
       peak_transcodes |-> Most0({Transcodes(p) : p \in starts}),
       series          |-> [d \in ChartDates(R, s) |->
                             Most0({LiveAfter(P, p) : p \in {x \in starts : DateOf(R, s, x.at) = d}})]]

-----------------------------------------------------------------------------
(* Pages *)

Holdings(library) ==
  [t \in {"Movie", "Series", "Episode", "Audio"} |->
    Cardinality({i \in DOMAIN Catalog : /\ Catalog[i].type = t /\ ~Catalog[i].removed
                                        /\ library # Null => Catalog[i].library = library})]

overview(T, v, q) ==
  LET s == Scope(v, q)  R == Cond(T, s)
  IN  [totals |-> Totals(R), previous |-> IF s.since = Null THEN Null ELSE Totals(Previous(T, s)),
       daily |-> Daily(R, s), library |-> Holdings(s.library_id)]

playback(T, v, q) ==
  LET R == Cond(T, Scope(v, q))
  IN  [methods |-> Buckets([r \in R |-> NameOf(r.method)], MostNames),
       clients |-> Buckets([r \in R |-> NameOf(r.client)], MostNames)]

(* For each user the list shows: the plays of the filter, and the last of all. *)
user_rows(T, s, only) ==
  [w \in {x \in Accounts : only # Null => x = only} |->
    [plays  |-> Tally({r \in Cond(T, s) : r.user = w}),
     latest |-> IF \E r \in T : r.user = w THEN Max({r.end : r \in {x \in T : x.user = w}}) ELSE Null]]

user_list(T, v, q) ==
  LET s == Scope(v, [q EXCEPT !.user_id = Null])
  IN  user_rows(T, [s EXCEPT !.user_id = Null], IF v.see_everyone THEN Null ELSE v.id)

MaySee(v, id) == v.see_everyone \/ v.id = id

user_detail(T, v, q, id) ==
  LET s == Scope([v EXCEPT !.see_everyone = TRUE], [q EXCEPT !.user_id = id])
      R == Cond(T, s)
      address == {r.ip : r \in R} \ {Null}
  IN  [user    |-> user_rows(T, [s EXCEPT !.user_id = Null], id),
       totals  |-> Totals(R), daily |-> Daily(R, s), heatmap |-> Heatmap(R),
       top     |-> TopKinds(R, MostNames, FALSE),
       genres  |-> Buckets([r \in R |-> Genres(r)], MostNames),
       methods |-> Buckets([r \in R |-> NameOf(r.method)], MostNames),
       ips     |-> IF v.see_network THEN [a0 \in address |-> Cardinality({r \in R : r.ip = a0})] ELSE <<>>]

library_rows(T, s) == [l \in Shelves |-> Tally({r \in Cond(T, s) : r.library = l})]

library_list(T, v, q) == library_rows(T, Scope(v, [q EXCEPT !.library_id = Null]))

library_detail(T, v, q, l) ==
  LET s == Scope(v, [q EXCEPT !.library_id = l])  R == Cond(T, s)
  IN  [library |-> library_rows(T, [s EXCEPT !.library_id = Null])[l],
       top |-> Top([r \in R |-> Title(r)], MostNames, FALSE), daily |-> Daily(R, s)]

(* An item Jellyfin no longer has is described from its plays. *)
TypeOf(T, id) ==
  IF id \in DOMAIN Catalog THEN Catalog[id].type
  ELSE IF \E r \in T : r.series = id THEN "Series" ELSE (CHOOSE r \in T : r.item = id).type

ItemIds(T) == DOMAIN Catalog \cup {r.item : r \in T}
Under(id) == {e \in DOMAIN Catalog : Catalog[e].series = id}

item_detail(T, v, q, id) ==
  LET s == Scope(v, q)
      is_series == TypeOf(T, id) = "Series"
      R == {r \in Cond(T, s) : IF is_series THEN r.series = id ELSE r.item = id}
      listed == {e \in Under(id) : ~Catalog[e].removed \/ Catalog[id].removed}
      flagged == {w \in Accounts : \E e \in {id} \cup Under(id) : <<w, e>> \in PlayedFlags}
  IN  [totals   |-> Totals(R), watchers |-> PerUser(R), daily |-> Daily(R, s),
       episodes |-> IF is_series THEN [e \in listed |-> Tally({r \in R : r.item = e})] ELSE <<>>,
       played_by |-> IF v.see_everyone THEN flagged ELSE flagged \cap {s.user_id}]

Credits(person) == {i \in DOMAIN Catalog : \E kind \in {"Actor", "Director"} : <<person, kind>> \in Catalog[i].people}
People == {c[1] : c \in UNION {Catalog[i].people : i \in DOMAIN Catalog}}

(* Acting in a film and directing it counts once. *)
person_detail(T, v, q, person) ==
  LET R == {r \in Cond(T, Scope(v, q)) : Title(r) \in Credits(person)}
  IN  [totals |-> Totals(R), watchers |-> PerUser(R),
       titles |-> [i \in Credits(person) |-> Tally({r \in R : Title(r) = i})]]

summary(T, v) ==
  LET mine == {r \in T : MaySee(v, r.user)}
  IN  [plays_total |-> Cardinality(mine), active_sessions |-> Cardinality({r \in mine : r.active})]

(* How far each play came, as the share `done` of its runtime. *)
Completion(R) ==
  LET timed == {r \in R : r.type \in {"Movie", "Episode"} /\ r.runtime_s > 0}
      done(r) == Min({r.runtime_s, IF r.position_s # Null THEN r.position_s ELSE r.duration_s})
      Of(S) == Cardinality(S)
  IN  <<Of({r \in timed : 10 * done(r) < r.runtime_s}),
        Of({r \in timed : 10 * done(r) >= r.runtime_s /\ 2 * done(r) < r.runtime_s}),
        Of({r \in timed : 2 * done(r) >= r.runtime_s /\ 10 * done(r) < 9 * r.runtime_s}),
        Of({r \in timed : 10 * done(r) >= 9 * r.runtime_s})>>

Whereabouts(r) == {IF r.ip = Null THEN "Unknown" ELSE IF r.local THEN "Local" ELSE "Remote"}

insights(T, v, q) ==
  LET s == Scope(v, q)  R == Cond(T, s)
  IN  [concurrency |-> Concurrency(R, s), completion |-> Completion(R), genres |-> Buckets([r \in R |-> Genres(r)], MostNames),
       network |-> IF v.see_network THEN Buckets([r \in R |-> Whereabouts(r)], 3) ELSE <<>>,
       client_methods |-> [c \in {r.client : r \in R} \ {Null} |->
                            [m \in {"DirectPlay", "Transcode"} |-> Cardinality({r \in R : r.client = c /\ r.method = m})]],
       measured |-> Cardinality({r \in R : ~r.active})]

(* Nobody has played it here, and nobody has it marked as played in Jellyfin. *)
Never(T, t) ==
  /\ ~\E r \in T : r.item = t \/ r.series = t
  /\ ~\E w \in Accounts : \E e \in {t} \cup Under(t) : <<w, e>> \in PlayedFlags

FilmsAndShows == {i \in DOMAIN Catalog : Catalog[i].type \in {"Movie", "Series"} /\ ~Catalog[i].removed}

library_insights(T, library) ==
  LET of == {i \in FilmsAndShows : library # Null => Catalog[i].library = library}
  IN  [totals |-> Holdings(library), unwatched |-> {t \in of : Never(T, t)},
       genres |-> [n \in UNION {Catalog[i].genres : i \in of} |-> Cardinality({i \in of : n \in Catalog[i].genres})]]

-----------------------------------------------------------------------------
(* The list of plays *)

(* What a word of the search box is looked for in. *)
Texts(v, r) == {r.item, r.series, r.user, r.client} \cup (IF v.see_network THEN {r.ip} ELSE {})

Filtered(T, v, q, f) ==
  {r \in Cond(T, Scope(v, q)) :
    /\ f.type # Null => TypeGroup(r) = f.type
    /\ f.word # Null => f.word \in Texts(v, r)}

(* Empty values last whichever way it runs, and a fixed tiebreaker. *)
Precedes(sort, r, p) ==
  LET newer == r.end > p.end \/ (r.end = p.end /\ r.id > p.id)
  IN  CASE sort = "watched" -> r.duration_s > p.duration_s \/ (r.duration_s = p.duration_s /\ newer)
        [] sort = "ip" -> IF r.ip = Null \/ p.ip = Null THEN (r.ip # Null \/ (p.ip = Null /\ newer))
                          ELSE r.ip > p.ip \/ (r.ip = p.ip /\ newer)
        [] OTHER -> newer

Decorated(v, r) == IF v.see_network THEN r ELSE [r EXCEPT !.ip = Null, !.local = Null]

(* Sorting by address is only for those who are shown addresses. *)
Activity(T, v, q, f, page) ==
  LET R == Filtered(T, v, q, f)
      sort == IF f.sort = "ip" /\ ~v.see_network THEN "when" ELSE f.sort
      place(r) == Cardinality({p \in R : p # r /\ Precedes(sort, p, r)})
      shown == {r \in R : (page - 1) * PerPage <= place(r) /\ place(r) < page * PerPage}
  IN  [total |-> Cardinality(R), rows |-> {<<place(r), Decorated(v, r)>> : r \in shown}]

activity_detail(T, v, id) == {Decorated(v, r) : r \in {p \in T : p.id = id /\ MaySee(v, p.user)}}

-----------------------------------------------------------------------------
(* What happens to the table *)

Recorded ==
  \E r \in PlaysToCome :
    /\ Day(r.start) <= today
    /\ Cardinality(rows) < MostPlays
    /\ \A p \in rows : p.id # r.id
    /\ rows' = rows \cup {r}
    /\ UNCHANGED today

Ended ==
  \E r \in rows :
    /\ r.active
    /\ rows' = (rows \ {r}) \cup {[r EXCEPT !.active = FALSE]}
    /\ UNCHANGED today

(* A play that is still going on cannot be deleted. *)
activity_delete ==
  \E r \in rows :
    /\ ~r.active
    /\ rows' = rows \ {r}
    /\ UNCHANGED today

DayPasses ==
  /\ today < LastDay
  /\ today' = today + 1
  /\ UNCHANGED rows

PagesInit == rows = {} /\ today = 0

PagesNext == Recorded \/ Ended \/ activity_delete \/ DayPasses

PagesSpec == PagesInit /\ [][PagesNext]_pagesVars

-----------------------------------------------------------------------------
(* Properties *)

(* Whoever may see everyone sees the same: one of them stands for all. *)
Readers == {v \in [id : Accounts, see_everyone : BOOLEAN, see_network : BOOLEAN] :
              v.see_everyone => v.id = CHOOSE w \in Accounts : TRUE}
Queries == [days : DaysAsked, user_id : Accounts \cup {Null}, library_id : Shelves \cup {Null}]
Filters == [type : {Null, "Movie", "Other"}, word : {Null} \cup {r.user : r \in PlaysToCome} \cup {r.ip : r \in PlaysToCome},
            sort : {"when", "watched", "ip"}]

SumOf(f) == [plays   |-> MapThenSumSet(LAMBDA x : f[x].plays, DOMAIN f),
             watch_s |-> MapThenSumSet(LAMBDA x : f[x].watch_s, DOMAIN f)]
SumOfChart(f) == SumOf([x \in {<<d, g>> : d \in DOMAIN f, g \in TYPE_GROUPS} |-> f[x[1]][x[2]]])
SumOfBuckets(f) == SumOf([x \in DOMAIN f.named \cup {Null} |-> IF x = Null THEN f.other ELSE f.named[x]])

(* "The chart's buckets and the totals always describe exactly the same      *)
(* plays": whether by day or by week, and whatever the filter (`resolve`,    *)
(* `daily`), and the window before adjoins this one.                         *)
ChartsAgree(v, q) ==
  LET s == Scope(v, q)  page == overview(rows, v, q)
  IN  /\ SumOfChart(page.daily) = page.totals.tally
      /\ s.since # Null => LET both == Cond(rows, Scope(v, [q EXCEPT !.days = 2 * q.days]))
                           IN  /\ Cond(rows, s) \cup Previous(rows, s) = both
                               /\ Cond(rows, s) \cap Previous(rows, s) = {}

(* A person's, a library's, a title's and an actor's own page say what the   *)
(* lists and the charts that lead there say.                                 *)
DetailsAgree(v, q) ==
  /\ \A w \in Accounts : MaySee(v, w) =>
       LET page == user_detail(rows, v, q, w)
       IN  /\ user_list(rows, v, q)[w].plays = page.totals.tally
           /\ SumOf(page.heatmap) = page.totals.tally /\ SumOfChart(page.daily) = page.totals.tally
           /\ SumOfBuckets(page.methods) = page.totals.tally
  /\ \A l \in Shelves : LET page == library_detail(rows, v, q, l)
                     IN  library_list(rows, v, q)[l] = page.library /\ SumOfChart(page.daily) = page.library
  /\ \A id \in ItemIds(rows) : LET page == item_detail(rows, v, q, id)
                                IN  /\ SumOf(page.watchers) = page.totals.tally
                                    /\ SumOfChart(page.daily) = page.totals.tally
                                    /\ SumOf(page.episodes).plays <= page.totals.tally.plays
  /\ \A p \in People : LET page == person_detail(rows, v, q, p)
                       IN  SumOf(page.watchers) = page.totals.tally /\ SumOf(page.titles) = page.totals.tally

(* The peak is the most plays that ran at one instant, no chart shows more,  *)
(* and every play with a runtime came to exactly one of the four shares.     *)
InsightsAgree(v, q) ==
  LET page == insights(rows, v, q)
      R == Cond(rows, Scope(v, q))
      Running(t) == Cardinality({r \in R : r.start <= t /\ t < r.end})
      peaks == {page.concurrency.series[d] : d \in DOMAIN page.concurrency.series}
  IN  /\ page.concurrency.peak = Max({0} \cup {Running(r.start) : r \in R})
      /\ page.concurrency.peak = Max({0} \cup peaks)
      /\ page.concurrency.peak_transcodes <= page.concurrency.peak
      /\ MapThenSumSet(LAMBDA i : page.completion[i], 1..4)
            = Cardinality({r \in R : r.type \in {"Movie", "Episode"} /\ r.runtime_s > 0})

(* Turning the pages of the list shows every play once ("a fixed tiebreaker  *)
(* so pages never shuffle", `order_by`).                                     *)
ListIsWhole(v, q, f) ==
  LET pages == {Activity(rows, v, q, f, n) : n \in 1..MostPlays}
      found == UNION {p.rows : p \in pages}
  IN  /\ {x[1] : x \in found} = 0..Cardinality(Filtered(rows, v, q, f)) - 1
      /\ {x[2] : x \in found} = {Decorated(v, r) : r \in Filtered(rows, v, q, f)}

NoFilter == [type |-> Null, word |-> Null, sort |-> "when"]

(* All of it, and what nobody has watched here has an empty page.            *)
PagesAgree ==
  /\ \A v \in Readers, q \in Queries : ChartsAgree(v, q) /\ DetailsAgree(v, q) /\ InsightsAgree(v, q)
  /\ \A v \in Readers, f \in Filters : ListIsWhole(v, [days |-> 0, user_id |-> Null, library_id |-> Null], f)
  /\ \A v \in Readers, t \in library_insights(rows, Null).unwatched :
       LET page == item_detail(rows, v, [days |-> 0, user_id |-> Null, library_id |-> Null], t)
       IN  page.totals.tally.plays = 0 /\ page.played_by = {}

(* Every answer a caller can get from the table T. *)
Answers(T, v, q) ==
  [overview |-> overview(T, v, q), playback |-> playback(T, v, q), users |-> user_list(T, v, q),
   user |-> [w \in {x \in Accounts : MaySee(v, x)} |-> user_detail(T, v, q, w)],
   libraries |-> library_list(T, v, q), library |-> [l \in Shelves |-> library_detail(T, v, q, l)],
   item |-> [id \in DOMAIN Catalog |-> item_detail(T, v, q, id)],
   person |-> [p \in People |-> person_detail(T, v, q, p)],
   summary |-> summary(T, v), insights |-> insights(T, v, q),
   detail |-> [id \in {r.id : r \in PlaysToCome} |-> activity_detail(T, v, id)]]

Lists(T, v, f) == {Activity(T, v, [days |-> 0, user_id |-> Null, library_id |-> Null], f, n) : n \in 1..2}

SameTo(T, v) ==
  /\ \A q \in Queries : Answers(rows, v, q) = Answers(T, v, q)
  /\ \A f \in Filters : Lists(rows, v, f) = Lists(T, v, f)

(* Without "see everyone" every page is the page one's own plays would give, *)
(* whatever the URL asks for (`pinned_user`); and without "see network" no   *)
(* address makes a difference, not even to the order of a list.              *)
OnlyTheirOwn ==
  \A v \in Readers :
    /\ ~v.see_everyone => SameTo({r \in rows : r.user = v.id}, v)
    /\ ~v.see_network => SameTo({[r EXCEPT !.ip = Null, !.local = Null] : r \in rows}, v)
=============================================================================
