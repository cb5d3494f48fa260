------------------------------ MODULE MCReports -----------------------------
(***************************************************************************)
(* What finstats knows of the library and what it tells from its tables,   *)
(* checked in one run: a behaviour is one of the library being read, of    *)
(* the statistics pages and the stories, of what comes in, or of alerts,   *)
(* while the others stay as they began.                                    *)
(***************************************************************************)
EXTENDS LibrarySync, Stories, Incoming, Alerts

CONSTANTS a, b, u, i1, i2, i3, l1, l2, m, sh, e1, e2, x, c1, c2, ac, s1, s2, nm, ns, hq, mid, far

VARIABLE part

reportsVars == <<vars, storiesVars, incomingVars, alertsVars, part>>

-----------------------------------------------------------------------------
(* A film, a show of two episodes, and one item that is in no library. *)

MCItem(type, series, library, genres, people_, created) ==
  [type |-> type, series |-> series, season |-> 1, library |-> library, genres |-> genres, people |-> people_,
   removed |-> FALSE, created |-> created]

MCCatalog ==
  m :> MCItem("Movie", Null, l1, {"g1", "g2"}, {<<ac, "Actor">>, <<ac, "Director">>}, 2)
  @@ sh :> MCItem("Series", Null, l2, {"g1"}, {<<ac, "Actor">>}, 0)
  @@ e1 :> MCItem("Episode", sh, l2, {}, {}, 1)
  @@ e2 :> MCItem("Episode", sh, l2, {}, {}, 2)
MCRowid == m :> 1 @@ sh :> 0 @@ e1 :> 2 @@ e2 :> 3

MCPlay(id, user, item, client, ip, method, from, to, watched, position, runtime) ==
  [id |-> id, user |-> user, item |-> item, series |-> IF item \in {e1, e2} THEN sh ELSE Null, season |-> 1,
   type |-> IF item = x THEN "Video" ELSE MCCatalog[item].type, library |-> IF item = x THEN Null ELSE MCCatalog[item].library,
   client |-> client, ip |-> ip, local |-> ip = 1, method |-> method, start |-> from, end |-> to,
   duration_s |-> watched, position_s |-> position, runtime_s |-> runtime, active |-> id = 6]

MCPlays ==
  {MCPlay(1, u, m, c1, 1, "DirectPlay", 0, 2, 2, 2, 4), MCPlay(2, a, e1, c2, 2, "Transcode", 1, 4, 3, Null, 3),
   MCPlay(3, u, e2, Null, Null, "Transcode", 3, 4, 1, 0, 5), MCPlay(4, u, e1, c1, 2, "DirectPlay", 1, 4, 3, 3, 3),
   MCPlay(5, u, m, c1, 1, "DirectPlay", 3, 5, 1, 4, 4), MCPlay(6, a, x, c1, 1, "DirectPlay", 7, 8, 1, 1, 2)}

MCFlags == {<<a, e1>>}

-----------------------------------------------------------------------------
(* Two askers and a stranger, a film on two calendars, two downloads. *)

MCNumbers == m :> {nm} @@ sh :> {ns}

MCRequest(id, by, number, seasons, at, status, media_status, added, names, media_id) ==
  [service |-> s2, id |-> id, asked_by |-> by, media |-> IF number = nm THEN "movie" ELSE "tv", numbers |-> <<number>>,
   seasons |-> seasons, requested_at |-> at, status |-> status, media_status |-> media_status, media_added_at |-> added,
   names |-> names, media_id |-> media_id, removed |-> FALSE, seen_available_at |-> Null, available_at |-> Null,
   user_id |-> Null, item_id |-> Null]

MCRequests ==
  {MCRequest(1, u, nm, {}, 1, 2, 3, Null, Null, <<s1, 1>>), MCRequest(1, u, nm, {}, 1, 2, 5, 0, m, <<s1, 1>>),
   MCRequest(2, u, nm, {}, 3, 1, 5, Null, Null, Null), MCRequest(3, a, ns, {1}, 0, 2, 4, Null, Null, Null), MCRequest(4, "stranger", ns, {}, 2, 3, 1, Null, Null, Null)}

MCEntry(service, number, episode, release, day, has_file, media_id) ==
  [service |-> service, kind |-> IF number = nm THEN "movie" ELSE "episode", numbers |-> <<number>>, episode |-> episode,
   release |-> release, day |-> day, has_file |-> has_file, media_id |-> media_id, item_id |-> Null]

MCCalendar == {MCEntry(s1, nm, 0, "physical", 1, FALSE, 1), MCEntry(s2, nm, 0, "physical", 2, TRUE, 7), MCEntry(s1, ns, 3, "air", 1, FALSE, 2)}

MCGrabs == {[at |-> 1, event |-> "grabbed", indexer |-> s1], [at |-> 1, event |-> "imported", indexer |-> s1]}

-----------------------------------------------------------------------------
(* Home, a town on the way and one abroad; knocking, and two sign-ins. *)

MCFailed(at, name) == [id |-> 0, at |-> at, type |-> "AuthenticationFailed", name |-> name, user |-> Null, ip |-> Null, local |-> FALSE]
MCSigned(at, user, ip) == [id |-> 0, at |-> at, type |-> "AuthenticationSucceeded", name |-> user, user |-> user, ip |-> ip, local |-> FALSE]

MCLog == <<MCFailed(0, u), MCFailed(1, u), MCSigned(2, u, 2), MCFailed(2, u), MCFailed(3, u), MCSigned(4, u, 3)>>
MCPlaceOf == 1 :> Null @@ 2 :> mid @@ 3 :> far
MCCountryOf == hq :> l1 @@ mid :> l1 @@ far :> l2
MCKm == [w \in {hq, mid, far} \X {hq, mid, far} |-> IF w[1] = w[2] THEN 0 ELSE IF mid \in {w[1], w[2]} THEN 2 ELSE 3]

-----------------------------------------------------------------------------

ReportsInit ==
  /\ part \in {"sync", "pages", "incoming", "alerts"}
  /\ Init /\ (part # "sync" => jf = [l \in Libs |-> IF l = a THEN SetToSeq(Items) ELSE <<>>])
  /\ StoriesInit /\ IncomingInit /\ AlertsInit

ReportsNext ==
  \/ /\ part = "sync" /\ Next
     /\ UNCHANGED <<storiesVars, incomingVars, alertsVars, part>>
  \/ /\ part = "pages" /\ StoriesNext
     /\ UNCHANGED <<vars, incomingVars, alertsVars, part>>
  \/ /\ part = "incoming" /\ IncomingNext
     /\ UNCHANGED <<vars, manual_seen, trail, alertsVars, part>>
  \/ /\ part = "alerts" /\ AlertsNext
     /\ UNCHANGED <<vars, manual_seen, trail, incomingVars, part>>

(* The library is read as LibrarySync says; nothing else need ever happen. *)
ReportsSpec ==
  /\ ReportsInit /\ [][ReportsNext]_reportsVars
  /\ WF_vars(part = "sync" /\ Begin) /\ WF_vars(part = "sync" /\ Work) /\ WF_vars(part = "sync" /\ pc = "down" /\ Restarted)

-----------------------------------------------------------------------------
(* Properties *)

(* The type invariants of the parts. *)
ReportsTypeOK == TypeOK /\ StoriesTypeOK /\ IncomingTypeOK /\ AlertsTypeOK

AtRest == trail = Null /\ manual_seen = {}

(* What is told of requests is told without the history of downloads, which  *)
(* goes its own way: it need not be told again for each way that can go.     *)
NothingGrabbed == happened = {} /\ reading = Null

(* Whatever tells of the same plays, requests or sightings tells the same:   *)
(* PagesAgree, StoriesAgree, PlacesAgree and what IncomingAgrees is made of.   *)
NumbersAgree ==
  /\ (part = "pages" /\ AtRest) => PagesAgree /\ StoriesAgree
  /\ part = "incoming" => CalendarAgrees /\ NothingIsPassedOver /\ (NothingGrabbed => RequestsAgree)
  /\ (part = "alerts" /\ due = {} /\ check = Idle) => PlacesAgree

(* What somebody may not see makes no difference to what they are shown:     *)
(* OnlyTheirOwn, OnlyTheirStories and NothingIsHinted.                       *)
TheirOwn ==
  /\ (part = "pages" /\ AtRest) => OnlyTheirOwn /\ OnlyTheirStories
  /\ (part = "incoming" /\ NothingGrabbed) => NothingIsHinted

(* NobodyIsInTwoPlaces, of the part in which somebody looks.                 *)
TravelIsNoticed == part = "alerts" => NobodyIsInTwoPlaces

(* EventuallyAgrees, of the part in which the library is read.               *)
LibraryEventuallyAgrees == part = "sync" => EventuallyAgrees
=============================================================================
