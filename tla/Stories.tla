------------------------------ MODULE Stories ------------------------------
(***************************************************************************)
(* What the plays tell about people: the timeline, which is read page by   *)
(* page while the table changes under it; the year in review; progress     *)
(* through shows, with the marks people set by hand; who watched together; *)
(* and the shelf of new arrivals.                                          *)
(*                                                                         *)
(* As in Pages, T is the table, and a definition whose name ends in _slip  *)
(* is the one below it with a mistake in it.                               *)
(***************************************************************************)
EXTENDS Pages

CONSTANTS
  YearLength,    \* months
  StopsPerPage,  \* stops on a page of the timeline
  GroupWindow, MinOverlap,   \* group_window_s, MIN_OVERLAP_S
  BingeFrom, SittingFrom, FinishedTenths, SeenTenths,
  Last12,        \* ?year=last12
  Rowid,         \* of items: which of two that arrived in one second SQLite has first
  LastSpecial,   \* seasons up to this number are specials
  Markers,       \* people who mark episodes as seen
  (* the bounds of the model *)
  MaxPagesTurned

(* An item is of one type, in its plays too, and what is finished is seen.   *)
ASSUME StoriesAssumption ==
  /\ StopsPerPage \in Nat \ {0} /\ MaxPagesTurned \in Nat \ {0} /\ YearLength \in Nat \ {0}
  /\ Null \notin [start : Nat, id : Nat] /\ Last12 \notin Int \cup {Null}
  /\ SeenTenths \in Nat /\ FinishedTenths \in Nat /\ SeenTenths <= FinishedTenths
  /\ \A i \in DOMAIN Catalog : Catalog[i].created \in Nat /\ Rowid[i] \in Nat
  /\ \A i, j \in DOMAIN Catalog : Rowid[i] = Rowid[j] => i = j
  /\ \A r \in PlaysToCome : r.item \in DOMAIN Catalog => r.type = Catalog[r.item].type

VARIABLES
  manual_seen,
  trail    \* the timeline somebody is reading, or Null

storiesVars == <<pagesVars, manual_seen, trail>>

Episodes == {i \in DOMAIN Catalog : Catalog[i].type = "Episode"}

StoriesTypeOK ==
  /\ PagesTypeOK
  /\ manual_seen \subseteq Markers \X Episodes
  /\ trail # Null => /\ trail.told \in Seq(SUBSET {r.id : r \in PlaysToCome})
                     /\ trail.there \subseteq {r.id : r \in rows}

-----------------------------------------------------------------------------
(* The timeline *)

(* Plays with one key that follow each other are one stop. *)
Key(r) == IF r.type = "Episode" /\ r.series # Null THEN <<"season", r.series, r.season>> ELSE <<"item", r.item>>

Older(r, cursor) == r.start < cursor.start \/ (r.start = cursor.start /\ r.id < cursor.id)

Beyond_slip(r, cursor) == cursor # Null => r.start < cursor.start

Beyond(r, cursor) == cursor # Null => Older(r, cursor)

Trodden(T, who, cursor) ==
  InOrder({r \in T : r.user = who /\ r.duration_s >= MinPlay /\ Beyond(r, cursor)}, LAMBDA x, y : Older(y, x))

StopOf(w, i) == Cardinality({j \in 1..i : j = 1 \/ Key(w[j]) # Key(w[j - 1])})

(* A page is whole stops, and the next one begins after its oldest play. *)
TrailPage(T, who, cursor) ==
  LET w == Trodden(T, who, cursor)
      on == {i \in DOMAIN w : StopOf(w, i) <= StopsPerPage}
  IN  [plays |-> {w[i] : i \in on},
       next  |-> IF on = DOMAIN w THEN Null ELSE [start |-> w[Max(on)].start, id |-> w[Max(on)].id]]

Ids(R) == {r.id : r \in R}
Worth(who) == Ids({r \in rows : r.user = who /\ r.duration_s >= MinPlay})

OpenTrail(who) ==
  /\ trail = Null
  /\ LET page == TrailPage(rows, who, Null)
     IN  trail' = [who |-> who, told |-> <<Ids(page.plays)>>, next |-> page.next, there |-> Worth(who), still |-> TRUE]
  /\ UNCHANGED <<pagesVars, manual_seen>>

TurnTrail ==
  /\ trail # Null /\ trail.next # Null
  /\ Len(trail.told) < MaxPagesTurned
  /\ LET page == TrailPage(rows, trail.who, trail.next)
     IN  trail' = [trail EXCEPT !.told = Append(@, Ids(page.plays)), !.next = page.next]
  /\ UNCHANGED <<pagesVars, manual_seen>>

(* What is not there throughout the reading is no longer expected. *)
Unnoticed ==
  trail' = IF trail = Null THEN Null
           ELSE [trail EXCEPT !.there = @ \cap Ids(rows'), !.still = @ /\ Ids(rows') = Ids(rows)]

-----------------------------------------------------------------------------
(* The year in review *)

Year(d) == Month(d) \div YearLength
FirstOf(month) == Midnight(month * MonthLength)

(* Ready in its last month, and the default until the next year's is. *)
default_year(d, years) ==
  LET ready == IF Month(d) % YearLength = YearLength - 1 THEN Year(d) ELSE Year(d) - 1
  IN  IF ready \in years \/ years = {} THEN ready ELSE Max(years)

RecapScope(T, who) == {r \in T : r.user = who /\ r.duration_s >= MinPlay /\ r.type # "TvChannel"}
RecapYears(T, who) == {Year(Day(r.start)) : r \in RecapScope(T, who)}

(* [from, to) in months: a year, or the twelve before this month and this one. *)
Period(T, who, year) ==
  LET y == IF year = Null THEN default_year(today, RecapYears(T, who)) ELSE year
  IN  IF year = Last12 THEN [from |-> FirstOf(Month(today) - YearLength), to |-> Now + 1]
      ELSE [from |-> FirstOf(y * YearLength), to |-> FirstOf((y + 1) * YearLength)]

In(r, period) == period.from <= r.start /\ r.start < period.to

LongestRun(days) == Max({0} \cup {x[1] - x[2] + 1 : x \in {y \in days \X days : y[2] <= y[1] /\ y[2]..y[1] \subseteq days}})

(* A film or an episode that comes back on a later day, for long enough. *)
Sittings(R) == {<<r.item, Day(r.start)>> : r \in {x \in R : x.type \in {"Movie", "Episode"} /\ x.duration_s >= SittingFrom}}

rewatch(R) == Cardinality(Sittings(R)) - Cardinality({x[1] : x \in Sittings(R)})

top_titles(R, type) ==
  Top([r \in {x \in R : x.type = type} |-> IF type = "Episode" THEN r.series ELSE r.item], 5, FALSE)

(* Every month up to this one, the empty ones too. *)
months(R, period) ==
  [m \in Month(Day(period.from))..Month(Min({Day(period.to - 1), today})) |-> Tally({r \in R : Month(Day(r.start)) = m})]

rhythm(R) ==
  [hours    |-> [h \in 0..DayLength - 1 |-> Seconds({r \in R : r.start % DayLength = h})],
   weekdays |-> [d \in 0..WeekLength - 1 |-> Seconds({r \in R : Day(r.start) % WeekLength = d})]]

(* A session left open overnight is not a long play. *)
FitsItsRuntime(r) == 4 * r.duration_s <= 5 * r.runtime_s

records(R) ==
  LET day == {Day(r.start) : r \in R}
      On(d) == Seconds({r \in R : Day(r.start) = d})
      binge == {b \in {[day |-> Day(r.start), series |-> r.series,
                        of |-> {x \in R : x.type = "Episode" /\ x.series = r.series /\ Day(x.start) = Day(r.start)}]
                         : r \in {y \in R : y.type = "Episode"}} : Cardinality({r.item : r \in b.of}) >= BingeFrom}
      EpisodesIn(b) == Cardinality({r.item : r \in b.of})
  IN  [biggest_day    |-> {[day |-> d, watch_s |-> On(d)] : d \in Foremost(day, 1, LAMBDA d, e : On(d) > On(e))},
       biggest_binge  |-> {[b EXCEPT !.of = Tally(@)] : b \in Foremost(binge, 1, LAMBDA b, c : EpisodesIn(b) > EpisodesIn(c))},
       longest_play   |-> Foremost({r \in R : FitsItsRuntime(r)}, 1, LAMBDA r, p : r.duration_s > p.duration_s),
       most_rewatched |-> Foremost({r.item : r \in {y \in R : Cardinality({x \in Sittings(R) : x[1] = y.item}) >= 2}}, 1,
                            LAMBDA x, y : Cardinality({z \in Sittings(R) : z[1] = x}) > Cardinality({z \in Sittings(R) : z[1] = y})),
       longest_streak |-> LongestRun(day)]

(* "'First ever' is judged against the whole history of this scope, not just *)
(* the period."                                                              *)
discovery(whole, R, period) ==
  LET shows == {r.series : r \in {y \in whole : y.type = "Episode"}} \ {Null}
      Of(x) == {r \in whole : r.type = "Episode" /\ r.series = x}
      new == {x \in shows : LET first == Min({r.start : r \in Of(x)}) IN period.from <= first /\ first < period.to}
      Reached(r) == 10 * (IF r.position_s # Null THEN r.position_s ELSE r.duration_s) >= FinishedTenths * r.runtime_s
  IN  [new_series   |-> new,
       one_and_done |-> {x \in new : Cardinality({r.item : r \in Of(x)}) = 1},
       finished     |-> {r.item : r \in {x \in R : x.type \in {"Movie", "Episode"} /\ x.runtime_s > 0 /\ Reached(x)}}]

recap(T, who, year) ==
  LET period == Period(T, who, year)
      R == {r \in RecapScope(T, who) : In(r, period)}
      day == {Day(r.start) : r \in R}
  IN  [totals  |-> Totals(R), active_days |-> Cardinality(day),
       days    |-> [d \in day |-> Tally({r \in R : Day(r.start) = d})],
       months  |-> months(R, period), rhythm |-> rhythm(R), records |-> records(R), rewatches |-> rewatch(R),
       top_series |-> top_titles(R, "Episode"), top_movies |-> top_titles(R, "Movie"),
       discovery |-> discovery(RecapScope(T, who), R, period)]

(* Your own, or anybody's for an administrator; no permission widens that. *)
RecapOf(v, is_admin, asked_for) == IF asked_for # Null /\ is_admin THEN asked_for ELSE v.id

(* Against everybody's year, by the same rules. *)
RecapRank(T, who, year) ==
  LET all == UNION {{r \in RecapScope(T, w) : In(r, Period(T, who, year))} : w \in Accounts}
      of == PerUser(all)
  IN  IF who \notin DOMAIN of THEN Null
      ELSE [mine |-> of[who].watch_s, ahead |-> Cardinality({w \in DOMAIN of : of[w].watch_s > of[who].watch_s}), of |-> Cardinality(DOMAIN of)]

-----------------------------------------------------------------------------
(* Streaks, and how far somebody is through each show *)

DaysOf(T, who) == {Day(r.start) : r \in {x \in T : x.user = who /\ x.duration_s >= MinPlay}}

(* A streak that reached yesterday is still alive. *)
streaks(T, who) ==
  LET days == DaysOf(T, who)
      end == IF today \in days THEN today ELSE today - 1
      run == {d \in days : d <= end /\ d..end \subseteq days}
  IN  [longest |-> LongestRun(days), current |-> Cardinality(run), active_days |-> Cardinality(days)]

(* Played far enough here, flagged by Jellyfin, or marked by hand. *)
Watched(T, who, e) ==
  \E r \in T : /\ r.user = who /\ r.item = e /\ r.type = "Episode" /\ r.runtime_s > 0
               /\ 10 * (IF r.position_s # Null THEN r.position_s ELSE r.duration_s) >= SeenTenths * r.runtime_s

EpisodeState(T, marks, who, e) ==
  IF Watched(T, who, e) \/ <<who, e>> \in PlayedFlags \/ <<who, e>> \in marks THEN "seen"
  ELSE IF \E r \in T : r.user = who /\ r.item = e THEN "started" ELSE "none"

(* Files that are there, and no specials; a show that is gone keeps its own. *)
EpisodesOf(x) ==
  {e \in Under(x) : Catalog[e].season > LastSpecial /\ (~Catalog[e].removed \/ Catalog[x].removed)}

user_shows(T, marks, who) ==
  LET states(x) == [e \in EpisodesOf(x) |-> EpisodeState(T, marks, who, e)]
      shows == {x \in DOMAIN Catalog : Catalog[x].type = "Series"}
      Counted(x, state) == Cardinality({e \in EpisodesOf(x) : states(x)[e] = state})
  IN  [x \in {y \in shows : Counted(y, "seen") + Counted(y, "started") > 0} |->
        [total |-> Cardinality(EpisodesOf(x)), seen |-> Counted(x, "seen"), started |-> Counted(x, "started")]]

mark_seen(who, items, seen) ==
  /\ manual_seen' = IF seen THEN manual_seen \cup ({who} \X (items \cap Episodes)) ELSE manual_seen \ ({who} \X items)
  /\ UNCHANGED <<pagesVars, trail>>

-----------------------------------------------------------------------------
(* Watched together *)

Overlaps(r, p) == Min({r.end, p.end}) - Max({r.start, p.start}) >= MinOverlap

(* A chain of starts, each within the window of the one before. *)
Chained(S, r, p) ==
  LET low == Min({r.start, p.start})  high == Max({r.start, p.start})
  IN  \A t \in low + 1..high : \E x \in S : t - GroupWindow <= x.start /\ x.start < t

Chain(T, r) == LET S == {x \in T : x.item = r.item} IN {p \in S : Chained(S, r, p)}

Company(C) == {x \in C : \E p \in C : p.user # x.user /\ Overlaps(x, p)}

(* The group of r, when it ran alongside somebody else's play. *)
GroupOf(T, r) == IF r \in Company(Chain(T, r)) THEN Min(Ids(Company(Chain(T, r)))) ELSE Null

(* "Without 'see everyone' only groups the caller was part of." *)
groups(T, v, q) ==
  LET s == Scope(v, q)
      grouped == {r \in T : GroupOf(T, r) # Null}
      mine == {GroupOf(T, r) : r \in {x \in grouped : s.user_id # Null => x.user = s.user_id}}
      shown == {r \in grouped : /\ GroupOf(T, r) \in mine
                                /\ s.since # Null => r.start >= s.since
                                /\ s.library_id # Null => r.library = s.library_id}
  IN  [g0 \in {GroupOf(T, r) : r \in shown} |-> PerUser({r \in shown : GroupOf(T, r) = g0})]

(* How long at least two were watching: the second longest stay. *)
Together(session) ==
  LET long(w) == Cardinality({x \in DOMAIN session : session[x].watch_s >= session[w].watch_s})
      second == {w \in DOMAIN session : long(w) >= 2}
  IN  Max({0} \cup {session[w].watch_s : w \in second})

-----------------------------------------------------------------------------
(* What arrived lately *)

Arrivals == {i \in DOMAIN Catalog : Catalog[i].type \in {"Episode", "Movie"} /\ ~Catalog[i].removed}

(* One show, one day, one entry. *)
EntryOf(i) == IF Catalog[i].type = "Episode" THEN <<Catalog[i].series, Day(Catalog[i].created)>> ELSE <<i>>

NewerItem(i, j) ==
  \/ Catalog[i].created > Catalog[j].created
  \/ Catalog[i].created = Catalog[j].created /\ Rowid[i] < Rowid[j]

(* Joins its entry, or makes one while there is room. *)
Fold(so_far, i, limit) ==
  LET at == {n \in DOMAIN so_far : so_far[n].key = EntryOf(i)}
  IN  IF at # {} THEN [so_far EXCEPT ![Min(at)].items = @ \cup {i}]
      ELSE IF Len(so_far) < limit THEN Append(so_far, [key |-> EntryOf(i), items |-> {i}])
      ELSE so_far

(* Reading stops at the first that has no room and is older than the last    *)
(* entry's day.                                                              *)
recent(S, limit) ==
  LET w == InOrder(S, NewerItem)
      f[i \in 0..Len(w)] ==
        IF i = 0 THEN [list |-> <<>>, over |-> FALSE]
        ELSE LET before == f[i - 1]
                 stays == before.over \/ (/\ Len(before.list) = limit
                                          /\ \A n \in DOMAIN before.list : before.list[n].key # EntryOf(w[i])
                                          /\ \A x \in before.list[limit].items : Day(Catalog[w[i]].created) < Day(Catalog[x].created))
             IN  IF stays THEN [before EXCEPT !.over = TRUE] ELSE [before EXCEPT !.list = Fold(@, w[i], limit)]
  IN  f[Len(w)].list

-----------------------------------------------------------------------------

StoriesInit == PagesInit /\ manual_seen = {} /\ trail = Null

StoriesNext ==
  \/ PagesNext /\ Unnoticed /\ UNCHANGED manual_seen
  \/ \E who \in Accounts : OpenTrail(who)
  \/ TurnTrail
  \/ \E who \in Markers, items \in SUBSET Episodes \ {{}}, seen \in BOOLEAN : mark_seen(who, items, seen)

StoriesSpec == StoriesInit /\ [][StoriesNext]_storiesVars

-----------------------------------------------------------------------------
(* Properties *)

(* Whoever reads the timeline to its end has been told of every play that    *)
(* was there all along exactly once, whatever was recorded, brought in or    *)
(* deleted between two pages; and when nothing was, no page ends in the      *)
(* middle of a stop (`fold`, `page`).                                        *)
TimelineIsWhole ==
  trail # Null =>
    LET told == trail.told
        Of(n) == {r \in rows : r.id \in told[n]}
        Oldest(R) == CHOOSE r \in R : \A p \in R : ~Older(p, r)
        Newest(R) == CHOOSE r \in R : \A p \in R : ~Older(r, p)
    IN  /\ \A n, k \in DOMAIN told : n # k => told[n] \cap told[k] = {}
        /\ trail.next = Null => trail.there \subseteq UNION {told[n] : n \in DOMAIN told}
        /\ trail.still => \A n \in 1..Len(told) - 1 : Key(Oldest(Of(n))) # Key(Newest(Of(n + 1)))

(* The months, the days, the hours and the weekdays of a year all tell of    *)
(* the same plays, and its records fit into them; the years add up to the    *)
(* whole story, and a show is new in exactly one; the rank compares by the   *)
(* same rules; and what the year calls finished, the profile has seen.       *)
YearsAgree(who) ==
  LET years == RecapYears(rows, who) \cup {default_year(today, RecapYears(rows, who))}
  IN  /\ \A y \in {Null, Last12} \cup years :
           LET story == recap(rows, who, y)
               rank == RecapRank(rows, who, y)
               best == story.records
           IN  /\ SumOf(story.months) = story.totals.tally /\ SumOf(story.days) = story.totals.tally
               /\ \A chart \in {story.rhythm.hours, story.rhythm.weekdays} :
                    MapThenSumSet(LAMBDA x : chart[x], DOMAIN chart) = story.totals.tally.watch_s
               /\ best.longest_streak <= story.active_days
               /\ \A d \in best.biggest_day : /\ story.days[d.day].watch_s = d.watch_s
                                              /\ \A r \in best.longest_play : r.duration_s <= d.watch_s
               /\ \A b \in best.biggest_binge : b.of.plays <= story.days[b.day].plays
               /\ (best.most_rewatched # {}) = (story.rewatches > 0)
               /\ rank # Null => rank.mine = story.totals.tally.watch_s /\ rank.ahead < rank.of
               /\ \A e \in story.discovery.finished \cap Episodes : EpisodeState(rows, manual_seen, who, e) = "seen"
               /\ story.discovery.one_and_done \subseteq story.discovery.new_series
      /\ MapThenSumSet(LAMBDA y : recap(rows, who, y).totals.tally.plays, years) = Cardinality(RecapScope(rows, who))
      /\ \A y, z \in years : y # z => recap(rows, who, y).discovery.new_series \cap recap(rows, who, z).discovery.new_series = {}

(* A streak never outruns the longest one, and every day of it was active.   *)
StreaksAgree(who) ==
  LET s == streaks(rows, who)
      day == DaysOf(rows, who)
  IN  /\ s.current <= s.longest /\ s.longest <= s.active_days
      /\ s.current > 0 => \E d \in {today, today - 1} : d - s.current + 1..d \subseteq day
      /\ \A x \in DOMAIN user_shows(rows, manual_seen, who) :
           LET show == user_shows(rows, manual_seen, who)[x] IN show.seen + show.started <= show.total

(* An evening is at least two people, nobody is in it without a play of      *)
(* somebody else in it beside one of theirs, and two were there as long as   *)
(* it lasted; who may not see everyone sees only their own.                  *)
EveningsAgree(v) ==
  LET page == groups(rows, v, [days |-> 0, user_id |-> Null, library_id |-> Null])
  IN  \A n \in DOMAIN page :
        /\ Cardinality(DOMAIN page[n]) >= 2
        /\ v.see_everyone \/ v.id \in DOMAIN page[n]
        /\ \A w \in DOMAIN page[n] : \E r, p \in rows :
             /\ r.user = w /\ p.user \in DOMAIN page[n] \ {w} /\ r.item = p.item /\ Overlaps(r, p)
             /\ GroupOf(rows, r) = n /\ GroupOf(rows, p) = n
        /\ Cardinality({w \in DOMAIN page[n] : page[n][w].watch_s >= Together(page[n])}) >= 2

(* Folding while reading, and stopping early, gives as many entries as there *)
(* is room for, all of each, and none older than one that has no room.       *)
ShelfIsWhole(S, limit) ==
  LET list == recent(S, limit)
      shown == {list[n].items : n \in DOMAIN list}
      whole == {{i \in S : EntryOf(i) = e} : e \in {EntryOf(i) : i \in S}}
      newest(E) == Max({Catalog[i].created : i \in E})
  IN  /\ shown \subseteq whole
      /\ Cardinality(shown) = Len(list) /\ Len(list) = Min({limit, Cardinality(whole)})
      /\ \A E \in shown, F \in whole \ shown : newest(E) >= newest(F)

StoriesAgree ==
  /\ \A who \in Accounts : YearsAgree(who) /\ StreaksAgree(who)
  /\ \A v \in Readers : EveningsAgree(v)
  /\ \A S \in SUBSET Arrivals, limit \in 1..2 : ShelfIsWhole(S, limit)

(* Another person's story is for an administrator, or for who may see        *)
(* everyone: to all others a request for it tells their own, and the plays   *)
(* of others change nothing in it but the rank.                              *)
OnlyTheirStories ==
  \A v \in Readers, asked_for \in Accounts \cup {Null} :
    LET mine == {r \in rows : r.user = v.id}
    IN  /\ \A y \in {Null, Last12} :
             recap(rows, RecapOf(v, FALSE, asked_for), y) = recap(mine, v.id, y)
        /\ \A w \in Accounts : (MaySee(v, w) /\ ~v.see_everyone) =>
             /\ streaks(rows, w) = streaks(mine, w)
             /\ user_shows(rows, manual_seen, w) = user_shows(mine, manual_seen, w)
             /\ TrailPage(rows, w, Null) = TrailPage(mine, w, Null)
=============================================================================
