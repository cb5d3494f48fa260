------------------------------- MODULE Alerts -------------------------------
(***************************************************************************)
(* Where people watch from, and what looks wrong about it: sightings from  *)
(* the table of plays and from Jellyfin's activity log, the alerts that a  *)
(* scan derives from them, what a manager does with those, and the bursts  *)
(* of failed sign-ins.                                                     *)
(*                                                                         *)
(* The activity log is read late and in pieces, and plays may be recorded  *)
(* in any order (an import); a check looks at one person or at all, reads  *)
(* what it needs of a person in one go and files what it found bit by bit, *)
(* in no transaction.  One check runs at a time: two of them file the same *)
(* under the same keys.  Somebody listens to notifications.  Words, map    *)
(* coordinates and streams of the moment are left out, and the rules are   *)
(* not changed.                                                            *)
(*                                                                         *)
(* A definition whose name ends in _slip is the one below it with a        *)
(* mistake in it.                                                          *)
(***************************************************************************)
EXTENDS Pages

CONSTANTS
  Log,        \* what Jellyfin's activity log comes to hold, in order: its ids are positions
  PlaceOf,    \* the place of an address, or Null; "home" is where this network is
  Home,       \* home_place, or Null
  CountryOf,
  Km,         \* distance_km of two places
  Speed, MinKm,   \* travel_speed_kmh, travel_min_km
  PairQuiet,  \* PAIR_QUIET_S
  BurstWindow, BurstMin, BurstLookback,
  (* the bounds of the model *)
  MaxPlaced,  \* plays
  MaxAnswers  \* what managers do

(* An entry of the log is kept as it was written, they are in order of time, *)
(* and every play is somebody's.                                             *)
ASSUME AlertsAssumption ==
  /\ Log = [i \in 1..Len(Log) |-> Log[i]] /\ Len(Log) \in Nat
  /\ \A i \in 1..Len(Log) :
       /\ Log[i] = [id |-> Log[i].id, at |-> Log[i].at, type |-> Log[i].type, name |-> Log[i].name,
                    user |-> Log[i].user, ip |-> Log[i].ip, local |-> Log[i].local]
       /\ Log[i].at \in Nat
  /\ \A i, j \in 1..Len(Log) : i < j => Log[i].at <= Log[j].at
  /\ \A r \in PlaysToCome : r.user \in Accounts
  /\ BurstWindow \in Nat /\ BurstMin \in Nat \ {0} /\ BurstLookback \in Nat /\ MaxAnswers \in Nat

VARIABLES
  logged,     \* how much of the log is in server_events
  alerts,     \* security_alerts
  told,       \* notify_events of kind FailedSignIns
  due,        \* people with something that no check has looked at
  check,      \* the running one: whom it has still to look at, what it has still to file
  answers

alertsVars == <<logged, alerts, told, due, check, answers>>

Idle == [todo |-> {}, found |-> {}]

AlertsTypeOK ==
  /\ logged \in 0..Len(Log)
  /\ \A a \in alerts : a.user \in Accounts /\ a.kind \in {"impossible_travel", "new_country"} /\ (a.muted => ~a.open)
  /\ \A a, b \in alerts : a.dedupe = b.dedupe => a = b
  /\ \A b \in told : b.of \subseteq 1..logged
  /\ due \subseteq Accounts /\ check.todo \subseteq Accounts
  /\ answers \in 0..MaxAnswers

-----------------------------------------------------------------------------
(* Sightings *)

SIGN_IN_TYPES == {"AuthenticationSucceeded", "SessionStarted"}

(* The first n entries of the log. *)
server_events(n) == {[Log[i] EXCEPT !.id = i] : i \in 1..n}

Spot(ip, local) == IF local THEN Home ELSE PlaceOf[ip]

(* Plays for as long as they ran, and sign-ins; in the order they began. *)
sightings_of(T, user) ==
  LET plays == {[at |-> r.start, until |-> r.end, spot |-> Spot(r.ip, r.local), id |-> <<1, r.id>>]
                  : r \in {p \in T : p.user = user /\ p.ip # Null}}
      signed == {[at |-> e.at, until |-> e.at, spot |-> Spot(e.ip, e.local), id |-> <<0, e.id>>]
                  : e \in {x \in server_events(logged) : x.user = user /\ x.type \in SIGN_IN_TYPES}}
      Earlier(s, t) == s.at < t.at \/ (s.at = t.at /\ (s.id[1] < t.id[1] \/ (s.id[1] = t.id[1] /\ s.id[2] < t.id[2])))
  IN  InOrder({s \in plays \cup signed : s.spot # Null}, Earlier)

(* No flight connects them, or they overlap. *)
Impossible(s, t) ==
  LET gap == t.at - s.until
  IN  s.spot # t.spot /\ Km[s.spot, t.spot] >= MinKm /\ (gap <= 0 \/ Km[s.spot, t.spot] > Speed * gap)

(* Overlapping beats fast, faster beats fast. *)
Worse(s, r, t) ==
  LET gap(x) == t.at - x.until
  IN  gap(r) > 0 /\ (gap(s) <= 0 \/ Km[s.spot, t.spot] * gap(r) > Km[r.spot, t.spot] * gap(s))

Longest_slip(so_far, s) == {s}
Longest(so_far, s) == IF \A l \in so_far.longest : s.until >= l.until THEN {s} ELSE so_far.longest

(* One step of `detect`: s against the one before it and the one that lasted *)
(* longest.                                                                  *)
Noted(so_far, user, s, muted) ==
  LET now == {e \in so_far.prev : Impossible(e, s)}
      ago == {e \in so_far.longest : Impossible(e, s) /\ \A p \in now : Worse(e, p, s)}
      pair == {{e.spot, s.spot} : e \in IF ago # {} THEN ago ELSE now}
      news == {p \in pair : p \notin muted /\ \A l \in so_far.last : l.pair = p => s.at - l.at >= PairQuiet}
      p0 == CHOOSE p \in news : TRUE
      abroad == CountryOf[s.spot] \notin so_far.countries /\ so_far.countries # {}
  IN  [found |-> so_far.found
                   \cup (IF news = {} THEN {} ELSE {[kind |-> "impossible_travel", user |-> user, at |-> s.at, about |-> p0, dedupe |-> <<"travel", user, s.id>>]})
                   \cup (IF abroad THEN {[kind |-> "new_country", user |-> user, at |-> s.at, about |-> {CountryOf[s.spot]},
                                          dedupe |-> <<"country", user, CountryOf[s.spot]>>]} ELSE {}),
       last |-> IF news = {} THEN so_far.last ELSE {l \in so_far.last : l.pair # p0} \cup {[pair |-> p0, at |-> s.at]},
       countries |-> so_far.countries \cup {CountryOf[s.spot]},
       longest |-> Longest(so_far, s),
       prev |-> {s}]

detect(user, s, muted) ==
  LET f[i \in 0..Len(s)] == IF i = 0 THEN [found |-> {}, last |-> {}, countries |-> {}, longest |-> {}, prev |-> {}]
                            ELSE Noted(f[i - 1], user, s[i], muted)
  IN  f[Len(s)].found

-----------------------------------------------------------------------------
(* Failed sign-ins *)

Failures(n, since) == {e \in server_events(n) : e.type = "AuthenticationFailed" /\ e.at >= since}

Cleared_slip(seen) == seen   \* and it goes on
Cleared(seen) == {}

(* Every run of BurstMin failures inside the window, per account. *)
bursts(n, since) ==
  LET w == InOrder(Failures(n, since), LAMBDA x, y : x.at < y.at \/ (x.at = y.at /\ x.id < y.id))
      f[i \in 0..Len(w)] ==
        IF i = 0 THEN [window |-> [who \in {e.name : e \in server_events(n)} |-> {}], found |-> {}]
        ELSE LET e == w[i]
                 seen == {x \in f[i - 1].window[e.name] : e.at - x.at <= BurstWindow} \cup {e}
                 full == Cardinality(seen) >= BurstMin
             IN  [window |-> [f[i - 1].window EXCEPT ![e.name] = IF full THEN Cleared(seen) ELSE seen],
                  found |-> IF full THEN f[i - 1].found \cup {[dedupe |-> <<e.name, e.id>>, of |-> {x.id : x \in seen}, since |-> since]}
                            ELSE f[i - 1].found]
  IN  f[Len(w)].found

(* raise_in: what is filed under its key is not filed again. *)
scan_sign_ins ==
  told' = told \cup {b \in bursts(logged', Now - BurstLookback) : \A x \in told : x.dedupe # b.dedupe}

-----------------------------------------------------------------------------
(* What happens *)

Same == UNCHANGED <<rows, today>>

(* A play is recorded, and its person is due to be looked at. *)
PlayIsSeen ==
  /\ Recorded /\ Cardinality(rows') <= MaxPlaced
  /\ due' = due \cup {r.user : r \in rows' \ rows}
  /\ UNCHANGED <<logged, alerts, told, check, answers>>

(* The activity log was read: check_sign_ins, and everyone is due. *)
LogIsRead ==
  \E n \in logged..Len(Log) :
    /\ \A i \in 1..n : Log[i].at <= Now
    /\ logged' = n
    /\ scan_sign_ins
    /\ due' = Accounts
    /\ Same /\ UNCHANGED <<alerts, check, answers>>

(* "After a play begins or the log was read: is anything new wrong?" *)
CheckBegins ==
  \E W \in {Accounts} \cup {{w} : w \in due} :
    /\ due # {} /\ check = Idle
    /\ check' = [Idle EXCEPT !.todo = W]
    /\ due' = due \ W
    /\ Same /\ UNCHANGED <<logged, alerts, told, answers>>

Muted(w) == {a.about : a \in {x \in alerts : x.user = w /\ x.muted}}

LookAt ==
  \E w \in check.todo :
    /\ check.found = {}
    /\ check' = [todo |-> check.todo \ {w}, found |-> detect(w, sightings_of(rows, w), Muted(w))]
    /\ Same /\ UNCHANGED <<logged, alerts, told, due, answers>>

file_alerts ==
  \E f \in check.found :
    /\ check' = [check EXCEPT !.found = @ \ {f}]
    /\ alerts' = IF \E a \in alerts : a.dedupe = f.dedupe THEN alerts
                 ELSE alerts \cup {[kind |-> f.kind, user |-> f.user, at |-> f.at, about |-> f.about, dedupe |-> f.dedupe, open |-> TRUE, muted |-> FALSE]}
    /\ Same /\ UNCHANGED <<logged, told, due, answers>>

Answer(A) == answers < MaxAnswers /\ answers' = answers + 1 /\ alerts' = A /\ Same /\ UNCHANGED <<logged, told, due, check>>

(* Muting answers whatever is still open about the same two places. *)
resolve ==
  \E a \in alerts, mute \in BOOLEAN :
    LET mutes == mute /\ a.kind = "impossible_travel"
        Also(x) == mutes /\ x.user = a.user /\ x.kind = a.kind /\ x.about = a.about
    IN  Answer({IF x = a THEN [x EXCEPT !.open = FALSE, !.muted = mutes]
                ELSE IF Also(x) THEN [x EXCEPT !.open = FALSE] ELSE x : x \in alerts})

reopen == \E a \in alerts : Answer((alerts \ {a}) \cup {[a EXCEPT !.open = TRUE, !.muted = FALSE]}) 

resolve_all == Answer({[a EXCEPT !.open = FALSE] : a \in alerts})

AlertsInit == logged = 0 /\ alerts = {} /\ told = {} /\ due = {} /\ check = Idle /\ answers = 0

AlertsNext ==
  \/ PlayIsSeen \/ LogIsRead
  \/ CheckBegins \/ LookAt \/ file_alerts
  \/ resolve \/ reopen \/ resolve_all
  \/ DayPasses /\ UNCHANGED alertsVars

AlertsSpec == PagesInit /\ AlertsInit /\ [][AlertsNext]_<<pagesVars, alertsVars>>

-----------------------------------------------------------------------------
(* The page of places, for who may see everyone and the network *)

places(T, v, q) ==
  LET s == Scope(v, q)
      plays == {r \in T : /\ s.since # Null => r.start >= s.since
                          /\ s.user_id # Null => r.user = s.user_id
                          /\ r.ip # Null}
      Of(R, S) == [plays |-> Tally(R), users |-> {r.user : r \in R} \cup {e.user : e \in S}, sign_ins |-> Cardinality(S)]
      away == {r \in plays : ~r.local /\ PlaceOf[r.ip] # Null}
      signed == {e \in server_events(logged) :
                  /\ e.type = "AuthenticationSucceeded" /\ ~e.local /\ PlaceOf[e.ip] # Null
                  /\ s.since # Null => e.at >= s.since
                  /\ s.user_id # Null => e.user = s.user_id}
      home == IF Home = Null THEN {} ELSE {r \in plays : r.local}
      dots == [p \in {PlaceOf[r.ip] : r \in away} \cup {PlaceOf[e.ip] : e \in signed} |->
                Of({r \in away : PlaceOf[r.ip] = p}, {e \in signed : PlaceOf[e.ip] = p})]
  IN  [away |-> dots, home |-> Of(home, {}),
       countries |-> [c \in {CountryOf[p] : p \in DOMAIN dots} |->
                       UNION {dots[p].users : p \in {x \in DOMAIN dots : CountryOf[x] = c}}],
       open_alerts |-> Cardinality({a \in alerts : a.open /\ (s.user_id # Null => a.user = s.user_id)})]

alert_list(status, user) ==
  LET R == {a \in alerts : /\ status # "all" => a.open = (status = "open")
                           /\ user # Null => a.user = user}
  IN  [total |-> Cardinality(R), open |-> Cardinality({a \in alerts : a.open})]

-----------------------------------------------------------------------------
(* Properties *)

(* Comparing each sighting with the one before it and the one that lasted    *)
(* longest is enough: whoever was in two places that no flight connects has  *)
(* an alert once everything has been looked at, however late and in whatever *)
(* order it came to be known, unless a manager muted something of theirs;    *)
(* and of all countries but the first there is an alert.                     *)
NobodyIsInTwoPlaces ==
  (due = {} /\ check = Idle) =>
    \A w \in Accounts :
      LET s == sightings_of(rows, w)
          Of(kind) == {a \in alerts : a.user = w /\ a.kind = kind}
      IN  /\ (\E i, j \in DOMAIN s : i < j /\ Impossible(s[i], s[j])) => Of("impossible_travel") # {}
          /\ Cardinality({CountryOf[s[i].spot] : i \in DOMAIN s}) <= Cardinality(Of("new_country")) + 1

(* No attempt is told of in two bursts, unless between the two scans an      *)
(* attempt on the same account fell out of the look-back, which makes the    *)
(* later one count from another beginning; and of every run of failures that *)
(* a scan can see, some are told of.                                         *)
BurstsApart ==
  /\ \A b, c \in told : (b # c /\ b.of \cap c.of # {}) =>
       \E i \in 1..logged : /\ Log[i].type = "AuthenticationFailed" /\ Log[i].name = b.dedupe[1]
                           /\ Min({b.since, c.since}) <= Log[i].at /\ Log[i].at < Max({b.since, c.since})
  /\ LET since == Now - BurstLookback
     IN  \A F \in kSubset(BurstMin, Failures(logged, since)) :
           (\A x, y \in F : x.name = y.name /\ x.at - y.at <= BurstWindow)
             => \E b \in bursts(logged, since) : b.of \cap {x.id : x \in F} # {}

(* The dots of the map hold every play that has a place, and the countries   *)
(* everybody who is in one.                                                  *)
PlacesAgree ==
  \A q \in Queries :
    LET v == [id |-> CHOOSE w \in Accounts : TRUE, see_everyone |-> TRUE, see_network |-> TRUE]
        page == places(rows, v, [q EXCEPT !.library_id = Null])
        s == Scope(v, q)
        placed == {r \in rows : /\ r.ip # Null /\ Spot(r.ip, r.local) # Null
                                /\ s.since # Null => r.start >= s.since
                                /\ s.user_id # Null => r.user = s.user_id}
    IN  /\ SumOf([p \in DOMAIN page.away |-> page.away[p].plays]).plays + page.home.plays.plays = Cardinality(placed)
        /\ UNION {page.countries[c] : c \in DOMAIN page.countries} = UNION {page.away[p].users : p \in DOMAIN page.away}
        /\ page.open_alerts <= alert_list("open", q.user_id).total
=============================================================================
