# Formal models of finstats

TLA+ models of the parts of finstats where the order of things matters, the TLC runs that check them on small
instances, and TLAPS proofs of the results that should hold for every instance. `PROJECT.json` names, for every
definition, the lines of `src/` it stands for, and lists the runs, the mistakes the properties are known to catch,
the hazards of the code and the findings.

    tlc -workers 2 -config MCPlays.cfg MCPlays       # one run
    tlapm PlaysProofs.tla                            # the proofs about the collector

| Module | Models | Checked by | Proved in |
|---|---|---|---|
| `PlayLedger` | what the playback table promises its readers (abstract) | `MCPlays` | `PlaysProofs` |
| `Plays` | `collector::tick`, the start of a process, deletion by hand, play notifications | `MCPlays`, `MCPlaysTwo`, `MCPlaysCrash`, `MCPlaysReuse` | `PlaysProofs` |
| `ReadBudget` | the gate in front of `/Sessions` and the clocks of the net | `MCServer` | `ServerProofs` |
| `Transport` | `collector::run`, `Decide`, `socket::spawn`/`serve` and the Jellyfin they talk to | `MCTransport`, `MCTransportBlips` | `TransportProofs` |
| `LibrarySync` | `sync::sync_libraries`, its guards and the halt | `MCReports`, `MCLibrarySyncGuard` | `ReportsProofs` |
| `Schedule` | when the library is read: the scheduler, the task, the halt, the restart | `MCServer` | `ServerProofs` |
| `Mailbox` | what the notification queue promises for one message (abstract) | `MCDeliveries` | `DeliveriesProofs` |
| `Deliveries` | `notify.rs`: raising, the queue, the ladder, destinations | `MCDeliveries`, `MCDeliveriesGone` | `DeliveriesProofs` |
| `Access` | `auth.rs` and the settings that decide about access | `MCServer` | `AccessProofs` |
| `History` | restore, import, relinking, deletion | `MCServer` | `ServerProofs` |
| `Connections` | `services.rs` and `seerr::sync_requests` | `MCServer`, `MCServerGone` | `ServerProofs` |
| `Downloads` | the reader of the queues of Sonarr and Radarr in `downloads.rs` | `MCServer` | `ServerProofs` |
| `Pages` | the handlers of `stats.rs` | `MCReports` | `ReportsProofs`, `NumbersProofs` |
| `Stories` | `timeline.rs`, `recap.rs`, `profile.rs`, `groups.rs`, `recent.rs` (extends `Pages`) | `MCReports` | `ReportsProofs`, `NumbersProofs` |
| `Incoming` | calendar, requests and downloads as they are kept and shown (extends `Pages`) | `MCReports` | `ReportsProofs`, `NumbersProofs` |
| `Alerts` | `security.rs` and the page of places (extends `Pages`) | `MCReports` | `ReportsProofs`, `NumbersProofs` |

`MCServer` and `MCReports` put parts side by side that share no state: a behaviour is one of a single part, chosen
in the first state, while the others stay as they began. Each part keeps bounds of its own, and one run checks them
all. `ServerProofs` proves about the parts of `MCServer`, each for itself and then side by side, and `ReportsProofs`
about those of `MCReports`, all but the figures, which are in `NumbersProofs`; `DataInduction` holds what these and
the proofs of `Deliveries` need of numbers, sets, sums and folds.

## Inventory

finstats is one Rust process beside a Jellyfin server: it watches what is played, keeps it in SQLite (a pool of six
connections; `db.call` runs a closure on one of them, statement by statement unless it opens a transaction), reads
Jellyfin's users and libraries, connects to Sonarr, Radarr and Seerr, and serves pages. Everything is a tokio task;
what they share is `App` (`state.rs`): the database, the settings, `live` (what is playing), `tasks` (what is
running), and three wakes.

**Collector** (`collector.rs`, `playback.rs`). State: `tracked`, one entry per session and item; the `playbacks`
rows; `app.live`. Operations: `tick` over a list of sessions, the settling of rows a previous process left active.
Called by its own loop only; the activity page deletes rows next to it, notifications are raised by tasks it spawns.
Hard: every row is written in an `await` of its own, so a crash or a failed write falls between any two; ids,
breaks, pauses and thresholds meet at boundaries. Correct when: a followed play owns its row, watch time is never
invented and hardly ever lost, one viewing is one row, the three pictures of what is on agree, and whatever is
announced is so.

**Read gate and net** (`collector.rs`: `Reads`, `sessions_slot`, `sessions_waiting`, `Net`, `Pass`). State: the
reads of the last minute; two clocks. Called by the loop and by the socket task. Hard: the time is taken before the
lock; every way of reading has to re-arm the clocks that called for it. Correct when: limits hold whoever asks in
whatever order, listening asks for next to nothing, and waiting as told is enough.

**Transport** (`collector.rs`: `run`, `Decide`, `session_mode`; `socket.rs`). State: what is wanted (`watch`), the
channel of events, the mode, the failure count, and the socket's phase. Hard: pushes are lost, late or dropped by a
full channel; the connection dies at any moment; wanted, subscribed and believed change at three moments. Correct
when: the list the loop acts on becomes true, the fallback does not latch, subscriptions end during a play, and an
outage is an outage.

**Synchronisation** (`sync.rs`, `state.rs` tasks, `main.rs` halt). State: the libraries, items, users and events
tables, what each task is doing, the halt reason. Hard: pages while Jellyfin changes, empty answers that are not
true, a pass that ends in the middle, a shutdown asked for from a task. Correct when: nothing that is there is
marked removed, a broken read is refused and a sound one is not, and the next pass repairs what the last one missed.

**Notifications** (`notify.rs`, `channels.rs`, `mail.rs`). State: events (unique by dedupe key), deliveries with
state and next attempt, destinations, the minute each has used. Operations: `raise_in`, `due`, `drain`, `record`,
the destinations API. Hard: sent but not recorded, retries, the minute limit, a destination that goes or changes
while something is queued, a list of destinations in memory that lags behind the table. Correct when: each wanted
event reaches each destination that may be told, at least once, in bounded attempts, and nobody else.

**Authentication and permissions** (`auth.rs`). Sessions, failed attempts per address, first set-up, permissions.
Hard: two set-ups at once, the window of attempts, a session that outlives a change of role, settings that are
copied, changed and written back whole. Correct when: guesses are limited, sessions need a set-up, and no access
arises that no administrator asked for.

**Security alerts** (`security.rs`, `geo.rs`). Sightings per user, impossible travel, bursts of failed sign-ins.
Hard: a sliding look-back over events that arrive late; filing an alert once. Correct when: nobody is in two places
unnoticed, and one run of failures is told of once.

**Connections** (`services.rs`, `arr.rs`, `outbound.rs`), **requests** (`seerr.rs`), **downloads** (`downloads.rs`).
A list in memory over a table, health per connection, requests paged by offset, a queue reader that runs while
somebody looks. Hard: a connection removed or moved while it is read, lists that shift between pages,
check-then-insert limits. Correct when: what is kept of a service comes from where its connection points, and
nothing is overlooked.

**Backup, restore and import** (`backup.rs`, `import.rs`), **relinking** (`relink.rs`), **watching together**
(`groups.rs`), **jobs** (`jobs.rs`). Merges into live tables, a matching that must not guess, a grouping of
intervals, a measured rate. Mostly pure functions over data; restore meets the collector. Correct when: no play is
there twice, and none is lost, in whatever order these are used.

**Database** (`db.rs`): the schema and its migrations; ids of `playbacks` are plain row ids.
**Statistics and pages** (`stats.rs`, `timeline.rs`, `recent.rs`, `profile.rs`, `recap.rs`, `pipeline.rs`,
`fuzzy.rs`, `media.rs`), **API and Jellyfin client** (`api.rs`, `jellyfin.rs`), **network** (`network.rs`),
**change log and licences**, **web interface**: queries, formatting and routing. Hard about the pages: each decides
anew which plays it counts and whose, and several of them tell of the same thing. Correct when: they agree, and none
tells anybody what they may not know.

## Plan

The order was by how much depends on the part, and by what a test would hardly reach:

1. The collector: `PlayLedger`, `Plays`, `ReadBudget`, `Transport`. Done, and proved.
2. `LibrarySync`, `Mailbox`, `Deliveries`. Done; safety and the refinement proved.
3. `Access`, `Schedule`, `Connections`. Done; safety proved.
4. `History`: the merges, and `Downloads`: the reader of the queues. Done; safety proved.
5. The pages as functions of the tables, checked against one another: `Pages`, `Stories`, `Incoming`, `Alerts`.
   Done.
6. Left: the rest of `sync.rs` (`sync_users`, `sync_events`, `sync_userdata`), the progress on requests in
   `downloads.rs`, `jobs.rs` (the measured rate), `fuzzy.rs` and the matching by provider id and year in
   `relink.rs`; proofs about the modules of pages.

## Plays

A tick is a sequence of steps because the code awaits the database between them: `TickBegin` takes a list, `Glance`,
`Save`, `Resume` or `Insert` handles one session of it, `Close` one play that is gone, `TickEnd` publishes
`app.live`. `pc` says where the process is. Each step that writes has a failing twin (`SaveFails`, `NewFails`,
`CloseFails`, `BootFails`, `DevicesFail`), which ends the tick as `run` does and may have executed the first of its
statements, because `db.call` gives a connection that commits each statement by itself. `Crash` may fall between any
two steps; `Boot` settles what it left. `Tell` is the task `raise` runs in: it reaches the table later, in any
order. Sessions of a list are handled in any order, which is more than the code does.

| State | Code |
|---|---|
| `tracked` | `HashMap<String, Tracked>` of `run` |
| `rows`, `IsNextId` | table `playbacks`, `id INTEGER PRIMARY KEY` |
| `live` | `app.live` |
| `spawned`, `told` | tasks in `raise`, table `notify_events` |
| `list`, `todo`, `pc` | the position in `tick` |
| `seenAt` | history only: when the viewing in a row was last in a list |

Simplifications: whole seconds and one clock (`Instant` and wall clock agree, and neither goes back); the key of a
play is session and view, where the code's also contains whatever makes a view; positions, streams and addresses
matter only in that they can be a reason to save, so `Save` may happen at any sighting and must once `PersistEvery`
is over. A tick keeps the second it began in.

*Properties.* `PlaysOwnTheirRows` (no two plays cross, whatever is deleted, reused or resumed), `TimeIsHonest`
(`NeverLongerThanItLasted`: watched and paused time fit between the ends; `UnsavedIsBounded`: a crash costs less
than PERSIST_EVERY), `PicturesAgree` (rows, memory and dashboard), `OneViewing` (a break within the merge window
makes no second row), `ThrownAwayUntold` (a deleted click was never announced as finished) and `LedgerSpec`
(`PlayLedger`, refined with the identity on `rows`).

*Runs.* `MCPlays`: one device, two items, one crash, one failed write, `Horizon` 5 with PERSIST_EVERY and MIN_KEEP
of 2, a cap of 3 and waits of 1 and 4, so that each threshold is met exactly, missed by one and jumped over.
`MCPlaysTwo`: two devices at once and notifications, nothing failing; a merge window of 3 against waits of 2, three
ids and so a row that is deleted and reused. `MCPlaysCrash` and `MCPlaysReuse` are findings, below.

## ReadBudget

`Come` takes the time and `Granted` or `Refused` take the lock: two steps, up to `MaxSkew` apart, because
`sessions_slot(Instant::now(), ..)` samples first. Callers are the loop (polls and the net) and the socket's check
with its four tries. The net asks when `safety_due` says 0 and every attempt re-arms (`take_read`), also one that is
refused.

`ReadsArePaced` is three things. `SecondLimit` and `MinuteLimit` are about every window of the run, kept in the
history `made`. `MinuteLimit` is for a minute less `MaxSkew`: a caller with a later time prunes what still counts
for one with an earlier time, so the exact minute does not hold; the difference is what a thread can stand at a
lock. `ListeningIsQuiet`: two reads made while listening are never closer than the net's clocks. `WaitingIsEnough`:
a caller that waited as told, and was not overtaken by another's read, is refused at most twice, once by each
window, so four tries suffice. `MCServer` has two slots a second (2 units), three a minute (5 units), a skew of 1
and a horizon of 6, which fills both windows and empties them once.

## Transport

Three processes and the channel between them. Jellyfin (external, from how `src/` uses it) has a list that changes,
pushes it to a subscriber, loses pushes, drops connections and goes away. The socket task connects, checks its first
list against `/Sessions`, passes lists on with `try_send`, follows what is wanted and says Down when it is over. The
loop decides (`Top`), reads or waits (`ListenSnapshot`, `ListenOther`, `Safety`, `Wake`), applies, and sleeps with
one push kept for later (`pending`). A list is its version and one of idle, paused, playing. Times are left open: a
timer that is set may fire.

`ListeningIsSound` is the safety of the mode: `BelievedIsCarrying` (a socket taken for live is the connection of
now, unless its Down is still to be read) and `ListeningIsAsking` (while the loop listens it is subscribed, and
nothing has to be watched). `EventuallyTrue`, `NeverLatched`, `GoesQuiet`: once `/Sessions` answers (and playing has
stopped, or goes on) the loop has the true list, listens, or is unsubscribed, for good.

*Fairness.* Weak for each step of a task that stays enabled: the runtime polls its tasks, requests end by their
timeouts. Strong for the branches of a `select!` that other branches keep interrupting: tokio picks among ready
branches at random, and the net's clock is not reset by what wakes the loop. No fairness for what Jellyfin or people
do, except that a subscriber on a working connection is sent a changed list unless the push is lost.

*Bounds.* One change with one drop and one lost push, or one change and one outage (`MCTroubles`); a channel of 1
instead of 16, so that it is full; debounce and failure limits of 2. Counters saturate at their limit. *Prompt*
assumes that the channel has room for the first word of a connection. Without it `NeverLatched` fails: `try_send`
drops `Trusted`, and nothing repeats it until Jellyfin has another list to send. The code makes it unlikely (seconds
between connections, 16 places), not impossible.

Not in it: an unconfigured or changed server, a refusal of the gate (`ReadBudget`), the wait in `settled()`, and the
published state of the connection.

## LibrarySync

`Begin` is `Tasks::try_start`; then one step per request with the transaction that stores its answer: the list of
libraries (`ReadFolders`, `RefuseFolders`), pages of items (`ReadItems`), pages of films and shows with their people
(`ReadPeople`), the mark (`RemoveUnseen`, `RefuseItems`), `Link`. `Fails` ends the pass anywhere and leaves what was
stored, `Killed` ends the process. In between Jellyfin adds, deletes and moves items and libraries, or answers with
an empty list that is not true. `fresh` is `updated_at >= started`: a pass is taken to begin in a later second than
the last one ended. Cast and crew, relinking and backfilling change nothing here and are left out.

`ProofOfRemoval`: what was in a library all the while it was read is never marked, and nothing of another library
is, provided nothing left it meanwhile and no answer was broken. An item that leaves shifts the pages, and the code
does mark the one that slips through; `EventuallyAgrees` shows that it comes back: once Jellyfin is quiet, finstats
has what Jellyfin has or has halted. `NeverAllAtOnce`: an empty list of libraries takes nothing. `MCReports` checks
it as `LibraryEventuallyAgrees`. Fairness: a pass goes on, and there is always another (the scheduler's timer, or
its weekly safety net). A halted process really stops, so deadlock is not checked. Bounds: two libraries, three
items (two films), pages of two, two changes, one broken answer, one error, one stop: enough for a full page, a last
page, an item that goes and returns and one that moves.

## Deliveries

`Mailbox` is what the queue promises for one message to one destination: asked for at most once in all of history,
settled once, and gone for good. `Deliveries` is `notify.rs` and implements it.

Raisers (`raise`, and the scans that call `raise_in`) take the list of destinations from memory (`Gather`), write
the event if its `dedupe` is new (`WriteEvent`) and queue one delivery per destination that wants it (`Queue`):
separate statements. Administrators add (`Count`, `Insert`), change (`Edit`, `Write`) and remove (`Forget`)
destinations, and `reload` is two more steps (`Load`, `Store`). The loop takes a batch in the order it became due
(`Fetch`), looks up the destinations (`Sample`), and per delivery throws it away (`Orphan`), holds it over (`Hold`)
or sends it (`Send`) and then writes down how that went (`Note`); with nothing due it thins out the history
(`Prune`). `Restart` can come between any two. `line`, `late` and `turn` are the queue by `next_at`: due, on the
ladder, and held to the next minute. A clock is not kept: `born < happened` says what happened before a destination
existed, `stale` and `expired` what is older than `HISTORIC_S` and `KEEP_S`. The loop sleeps at most 300 s, so
`notify_wake` decides only how soon, and is left out.

`SentAsPromised`: a message is taken twice only if the process stopped or could not write in between
(`OnceUnlessUnnoted`), and nothing is given up on early (`GivenUpAfterTheLadder`). `MailboxSpec` is why `KEEP_S` may
delete an event: derived again it is history and not queued. `KeptWhileItExists`: nothing is thrown away for a
destination that exists. That one holds with one administrator at a time; with two, an older list can be stored over
a newer one, and the loop then takes a destination that was just added for a deleted one (`Admins` with two members
and two destinations shows it within seconds). `EndsUnlessPutOff`: every delivery ends, unless its destination
answers with `Retry-After` again and again: such an answer is honoured whatever the ladder says, so those are tried
until the event is thinned out after thirty days. Fairness: the loop goes on, minutes turn and waits end; nothing is
assumed of what a destination answers. Bounds: two events, of which bob may hear one, one destination, two raisers,
one message a minute and two tries, and one crash, failed call or change of a destination (`MaxTurns`): each path of
the loop is taken, and a retry meets a full minute. `MCDeliveriesGone` has two destinations.

## Access

A request is a task of its own that waits between its steps, and what it took with it grows stale meanwhile. `Login`
and `Setup` count a guess before Jellyfin is asked and `Recognised` or `TurnedDown` bring the answer; `Verified`,
`StoreUrl`, `StoreKey` and `Connect` are the statements of a set-up. A request of somebody signed in reads the
session (`Go`), the grants (`GrantsRead`) and the settings (`LetIn`, `TurnedAway`) one after the other, and then
does one thing: visit, change the settings, the defaults or a person's permissions, or start a restore. A change of
settings is two steps, the row and then the copy in memory (`StoreSettings`, `ApplySettings`), of a whole that was
copied before. `Restart`, `SyncUsers` and changes of who is an administrator in Jellyfin come between any two. The
window of the limiter is its end (`WindowEnds`).

`AttemptsHold`: however many guesses are under way, no more than the limit are made before one is right or the
window is over. `ServedWhileEntitled`: whoever is served was entitled at some moment of the request, although
session, grants and settings are read at three. `AccessComesFromAdministrators`: what decides about access, in the
row and in memory, was asked for by an administrator or a restored backup at some time; a manager may write the
whole of the settings, and what they write back of access must not be new. `SignedInMeansSetUp`: whatever statement
of a set-up a crash follows, nobody is left signed in on a server that is not set up.

The third leaves one thing open that the code does: a manager's copy may be older than the administrator's latest
decision, and writing it back brings the earlier one to life again. Bounds: two people of whom one is an
administrator, two browsers (interchangeable, `MCSymmetry`), two addresses, two attempts, three requests or events
(`MaxTurns`): enough for two set-ups at once, a grant that changes under a request, and a restore in between.

## Schedule

The scheduler asks how Jellyfin's scan is doing (`RoundBegins`, `RoundAsks`) and decides (`RoundDecides`): the time
a round looks at, the answer and what memory says of the last read are from three moments. The task may be started
by hand (`ByHand`), fail, panic, or refuse what it read and ask for a halt, which the serve loop hears if it waits
already. `StartsOver` reads `library_synced_at` back.

`NoScanStaysUnread`: a scan no read has begun after is due in the next round that sees it, and one no read has been
completed after is due again after a restart. `NobodyWaitsInVain`: a task's name is taken only while somebody has it
or has panicked with it, and a halt ends the serve loop unless it was asked for before anybody waited. Both
exceptions are what the code does: `Tasks::finish` is not reached by a panic, and `notify_waiters` wakes nobody who
comes later. Bounds: four ticks with a safety net of three and an interval of two, two reads by hand: a scan before,
during and after a read, and each timer met and missed.

## Connections

Owners add (`StartCreate`, `Create`), change (`StartUpdate`, `Update`) and remove connections; each tests the
address first and reloads the list in memory afterwards in two steps. Ids are never handed out twice. A pass
(`StartPass`) takes the list once and goes through it, least id first: the whole listing once a day, otherwise down
to the cursor, and not at all when a probe finds nothing changed (`Probe`); pages by offset (`ReadPage`), now and
then the open ones it has not seen by name (`Recheck`, `ByName`), and one transaction (`Write`). Meanwhile requests
are made, changed, answered and deleted.

`RequestsAreTrue`: what changed longer ago than the overlap is known as it is (`NothingOverlooked`), and what is
kept as current comes from where the connection points (`RowsOfTheInstance`). Exempt, until all of it is listed
again, is a connection that was moved while it was read, that an edit made from an older entry moved back, or whose
list lost a row between two pages: the code gets those wrong for a time (`spoiled` marks them). So is, for the first
half, one whose cursor was raised by a pass that listed nothing (`hurried`; see the end). `RemovedForAReason`:
a request that is there is not marked as gone, unless its list changed while it was read; `GoneMeansGone`, which has
no such exemption, is a finding. Bounds: two addresses with three requests and one, two owners, one connection of
three ids, pages of two (one for the probe), an overlap of one tick in five, two changes: a listing of two pages
that shifts in the middle, a moved connection, and one that is removed and made again under a new id.

## Downloads

Sonarr and Radarr grab, replace and drop releases, and bytes come (`Grabbed`, `Comes`, `Replaced`, `PartTurns`,
`Gone`). The loop looks whether anything is connected (`LoopBegins`), asks all at once (`TickBegins`), takes each
answer as it was at its own moment or none in time (`read_queue`), folds them and works out speeds (`TickEnds`),
decides how long to sleep (`Decides`), and sleeps: three moments at which a page may be opened (`AsksLive`) or a
connection switched (`Switched`), and only a loop that sleeps hears of it (`Wake`).

`QueueIsTrue` has four parts. `PageIsFresh`: while somebody looks, the loop never sleeps longer than
WATCHED_EVERY_S, whoever opens the page at whatever moment. `SourcesAreAsked`: what is shown is of all that are
connected, and of nothing else. `NothingIsInvented`: all speeds together never claim more bytes than came, however
answers fail and releases replace each other. `EveryPartOnce`: every part is in one row, every row in one figure.
They leave out what the code does: a wake that is lost (`missed`), what is shown when nothing is connected any more,
and a smaller release under the key of one of which more was left (`swapped`). `ServicesAreTrue` joins them with
`RequestsAreTrue`. Bounds: two services, one of them with a release of two parts and an id and one with a release
without an id; two sizes; a sleep of 1, 3 or 5 against a page that counts as watched for 2, over 4 moments and three
events: a page is opened before, while and after the loop is busy, and a wait that was chosen too long shows.

## History

The table of plays over the years. `BeginPlay` and `EndPlay` are the collector's; `Export`, `Restore` and `Import`
are one transaction each; `Rename` and `Appear` change what is live in the library, and `Link` attaches plays whose
item is gone to the one item of that title. `Merged` and `Imported` fold the rows of a file into the table one by
one, as the code's loops do.

`EachPlayOnce`: a Jellystat play is there once whatever is restored and imported in whatever order; a play finstats
recorded itself is, as long as its title has kept its item (after a rename a restore does bring it a second time: it
is told by item, person and time). `NothingIsLost`: only deleting a play takes an evening away.
`ActiveWhileFollowed`: a row is active while the collector follows it, and only then. Bounds: one viewer, three
films of which two have one title, a Jellystat file of one play, four rows, three deeds.

## Pages and Stories

Each handler is an operator of the table of plays, the caller and the filter: `overview`, `playback`, `user_list`,
`user_detail`, `library_list`, `library_detail`, `item_detail`, `person_detail`, `summary`, `insights`, `Activity`
with its sorts and pages, `recap`, `streaks`, `user_shows`, `groups` and `recent` keep their order of filters, joins
and caps. There is no other description of what a page should say, so they are held against each other, for every
reader and query, over every table that can come to be: `PagesAgree` (totals, charts by day and by week, lists,
detail pages and the peak say the same of the same plays; turning pages shows every row once) and `StoriesAgree` (a
year's months, days, hours and records; the years and the whole; streaks; evenings together; the shelf of new
arrivals, read newest first and left early; SQLite gives items of one second in the order of their rowids).
`NumbersAgree` joins them.

`TheirOwn` (`OnlyTheirOwn`, `OnlyTheirStories`): without the permission to see everyone, each page is what one's own
plays would give, whatever the URL asks for, and without the permission to see the network no address makes a
difference, not even to an order. `TimelineIsWhole`: somebody who turns the pages of the timeline while plays are
recorded, imported and deleted is told of every play that was there all along exactly once. Bounds: two accounts, a
film, a show of two episodes and an item of no library; every set of up to three of six plays over four days of two
instants, so that plays share a start, overlap, touch midnight and lie at either edge of a window; weeks of two
days, months of one, years of two; queries for always and for two days; pages of one, three pages turned.

## Incoming

The tables Sonarr, Radarr and Seerr are read into (`StoreCalendar`, `StoreRequest`, `DropRequest`, `sync_grabs`),
how `link` finds a row's title by the first of its ids that the library has, and what is told: `upcoming`,
`requests_page`, `summary_of`, `request_for_item`, `download_history`. `IncomingAgrees`: the figures above the list
are those of the list, open, arrived and turned down are all there is, a thing is on the calendar once, and no event
of the history falls behind its cursor (`NothingIsPassedOver`: it is kept to the second, written in pieces, and
moved when all are written). `NothingIsHinted`, part of `TheirOwn`: to who may not see everyone these say what they
would if nobody else had played or asked. Bounds: two services, four requests of which one is seen in two states,
three calendar entries, two downloads of one second, one play and three changes. What is said of requests is checked
while no download has happened: neither depends on the other.

## Alerts

Sightings come from plays and from Jellyfin's activity log, late and in any order (`PlayIsSeen`, `LogIsRead`). A
check (`CheckBegins`, `LookAt`) reads one person's sightings in one go and files what it found one alert at a time;
managers mute, resolve and reopen. `detect` compares each sighting with the one before and with the one that lasted
longest.

`TravelIsNoticed`: that is enough among places far enough apart to count; whoever was in two places no flight connects
has an alert once everything has been looked at. It leaves out people of whom something is muted: a scan already under way files what was muted
meanwhile. `BurstsApart`: no failed attempt is told of in two bursts, and of every run a scan can see some are told
of; except between two scans across which an attempt on the same account falls out of the look-back (the code then
counts from another beginning). `PlacesAgree`, part of `NumbersAgree`, is about the map. Bounds: three places, six
entries of the log, one play with a place, one answer, bursts of two within two instants and a look-back of three.

## Findings

1. **A viewing split by a crash** (`MCPlaysCrash`). Continuing a row writes only `active = 1`. Until the next save
   the row has the end it had before the break; a crash there makes it look too old, and the stream gets a second
   row.
2. **A play nobody is told of** (`MCPlaysReuse`). The id of a deleted click comes round again, its notification key
   with it, and `INSERT OR IGNORE` drops the news of the next play.
3. **An outage that was not one** (`MCTransportBlips`). Failed safety reads count, successful ones do not reset the
   count.
4. **A sound library refused** (`MCLibrarySyncGuard`). The guard is given the number of films and shows with cast
   read afterwards and not the number of items: a music library, or a long series, halts finstats with nothing
   wrong.
5. **Told to nobody** (`MCDeliveriesGone`). Between the removal of a destination and the reload of the list, a
   fan-out meets its missing row, stops there, and leaves the event written: the destinations after it are never
   told.
6. **Gone that is not** (`MCServerGone`). A request deleted between two pages of a listing moves one that is there
   out of the page to come; the totals still agree, the listing counts as whole, and that one is marked as gone.

Each is a run that must fail, about one property that quotes what the code says of itself. In `MCPlaysCrash` the
property is the one `MCPlaysTwo` passes without a crash.

## What is proved

`PlaysProofs`, for every set of devices and views, any thresholds, any horizon and any number of crashes and
failures, from `ParamsAssumption`, `BoundsAssumption`, `ShowsAssumption` and `NullsAssumption` (parameters are
numbers and the null values are not records):

- `TypeCorrect`, `OwnRows`, `HonestTime`, `CrashLosesLittle`, `OnePicture`: the invariants named above.
- `PlaysImplementLedger`: every step of `Plays` is a step of `PlayLedger` or leaves the table as it is.

None is inductive by itself. `IInv` is: `Core` joins types, ownership and honest time with two facts they need, that
a finished row is worth keeping (or `Boot` could make a short row finished) and that a process that is down follows
nobody. `SaveClock` bounds what memory is ahead by the time since the save clock was set, which turns
`UnsavedIsBounded` into arithmetic. `ActiveIsFollowed` and `LiveIsTracked` give `PicturesAgree`; both are about runs
in which no write has failed. The proof has one lemma per action, and `CoreStep` is proved first because the other
parts rest on it.

`TimeKept` puts the two about time together, as the run does. Two action properties rest on invariants of their own:

- `NobodyIsToldOfAClick`, from `EndsAreKept`: while no write has failed, the end of a viewing is only told of a row that
  is long enough, and MIN_KEEP_S after it began. The second half is what an id that comes round again needs: the new
  row under it begins now, so no older notice is about it.
- `OneRowUntilACrash`, from `EndIsLastSeen`: until a process is killed a finished row ends in the second in which its
  viewing was last in a list, so the window is counted from there, whichever writes have failed. A crash closes rows
  with the end that was last saved, and the promise goes with it (`MCPlaysCrash`); `OneViewingUntilACrash` is the
  property as `MCPlaysTwo` checks it, for every value of the constants that has no crash.

`ServerProofs`, of `ReadBudget`, for any limits, windows and number of tries:

- `BudgetInvariant` (`IInv`), and from it `NeverTooManyASecond`, `NeverTooManyAMinute`, `TheNetIsNoStorm`;
  `JellyfinIsSpared` is all three. The argument: what the gate has forgotten is older than any caller's minute
  (`Forgotten`), so what it counts is all there is to count; a read that is granted adds one to fewer than the
  limit. For the net, its clocks are never behind a read it was asked for (`ClocksInOrder`), so the next one is at
  least `Apart` away (`NetIsNext`).
- `WaitingAsTold`: a caller that waits as long as it was told needs three tries at most unless others read
  meanwhile. Its invariant `Rested` says what a caller that was refused alone has behind it: after one refusal it
  has outwaited one of the windows, after two both (`Rooms`), and a window that is outwaited has room
  (`ComesWhenTold` and what the code frees when it prunes).

`AccessProofs`, for any people, browsers, addresses, permissions and limits. `AccessInv` joins the types with:
guesses under way plus those refused are no more than were counted (`GuessesAreCounted`, which is `AttemptsHold`
with the counter in between); what a request is about to store of the settings was asked for, like what is stored
(`AskedFor`); the address is stored before the key and the key before any session (`SetUpInOrder`); and a request
that has got so far was entitled when it read what let it (`EntitledIsNoted`). From it `AttemptsAreLimited`,
`AccessIsAsked`, `SessionsNeedASetUp`, `ServedOnlyWhileEntitled`.

`ServerProofs`, of `Schedule`, for any interval, safety net and horizon: `ScansAreRead` and `NobodyIsForgotten`. A round that saw
no scan began no later than the one that is on now (`RoundSawIt`), so what it remembers lies before that scan's end;
nothing that is remembered is later than now (`NothingIsAhead`); a read that a scan has ended under began before
that end, and writes its beginning (`ReadsInTurn`).

`TransportProofs`, for any channel, limits, changes and failures: `TransportTypes` and `ListensSoundly`. A
connection's word, and its Down after it, are in the channel in that order or still to be sent (`WordsAreKept`), so
a socket that is believed and dead has its Down in the channel; and the loop listens only where it asks
(`ListensWhereItAsks`).

`ReportsProofs`, of `LibrarySync`, for any libraries, items and pages: `NotSeenIsRemoved` and `OneLibraryStays`.
While nothing leaves a library and no answer is broken, the first `start` items of its listing are fresh, and after the last page
all that stayed are (`SeenSoFar`, stated as `ReadingKeepsBooks`); what is fresh is never marked. Without
`AllowShrink` an empty list of libraries is refused.

`DeliveriesProofs`, for any events, destinations, raisers and administrators: `AskedForOnce` and
`QueueKeepsPromises`, the refinement of `Mailbox`. What was asked for is of an event that is known or too old to be
raised as news (`AskedOfKnown`), so raising it again asks for nothing; and a raiser has never asked for what it still
has to ask for (`FansOnce`). Then `DeliveriesInvariant`, and from it `DeliveriesTypeCorrect`, `NoMessageTwice` and
`NothingIsThrownAway`. A delivery is in one of the three lines and once in it (`InPlaces`, `TakenOnce`), the batch of
the loop is in front of what is due (`BatchInLine`), and every attempt but the last was refused
(`AttemptsAreRefusals`). `NothingIsThrownAway` has the hypothesis the run has, `OneAdministrator`: then the list in
memory lags behind the table only while the one who changed it is about to load it (`MemoryIsRight`).

`ServerProofs`, of the other parts of `MCServer`:

- `History`, for any viewers, items, titles, Jellystat rows and deeds: `PlaysAreThereOnce`, `ActiveMeansFollowed`
  and `NoEveningIsLost`. That no play is there twice is not inductive, because a backup may hold a row the table no
  longer has: `HistoryInvariant` says that any two copies of a play, in the table or in the backup, agree
  (`CopiesAgree`): a row with an id of Jellystat's tells of the evening of the first of that id, two of finstats' own
  of one person at one time have one title, and one item unless that title has changed its item, and an item that is
  gone is of such a title. What a merge leaves is described once (`Grown`: what was there is as it was, what is new
  is of the first row of its source, nothing is twice that was not, every row of the file is there) and proved along
  the fold by which `restore` adds its rows; an import is the same fold over rows that are over and have an id.
- `Connections`, for any owners, addresses, pages, overlap and requests: `RowsComeFromTheInstance` (a pass knows the
  id it reads and the address it read it from, `PassKnows`, and that is where the connection points or it is spoiled,
  `ReadsWhereItPoints`), `NothingIsOverlooked` and `RemovalsHaveReasons`. The argument for the last two counts:
  a listing in the order of the stamps puts every request at a place, a request that changes only makes the others'
  places larger, so whatever was not on the pages read so far has changed since the reading began, is older than the
  cursor by more than the overlap, or has a place behind those pages (`ReadsWhatIsThere`, with `Accounted` and
  `Place`). `NothingIsOverlooked` has a hypothesis, `RoomForAll`: no Seerr has more requests than the pages of one
  listing hold (10,000 in full, 2,000 of what changed), because the code stops there and moves its cursor.
- `Downloads`, for any services, releases, parts, sizes and waits: `TheQueueIsTrue`. That speeds claim no more than
  came rests on a budget: what has been claimed of a release, with what was left when it was last told, is no more
  than what came and is still to come (`Covers`), for the answer under way too (`Honest`). Each release has one key
  (`OneKey`), so it has one row.
- Side by side: every behaviour of `MCServer` is, for each part, a behaviour of that part (`EachPartIsItself`), hence
  `ServicesTellTheTruth` and `ServerTypesHold`.

`ReportsProofs`, of the other parts of `MCReports`, for any plays, people, requests, logs, limits and pages:

- The timeline: `TimelineTellsAll`. Of whoever is reading it is known (`TrailInv`) that no play was told twice
  (`ToldApart`), that all that was told is at the cursor or before it (`ToldIsBehind`), and that whatever was there
  when they began and still is has been told or lies behind the cursor (`NoneIsLeftOut`). A page takes the rows
  behind the cursor in their order and ends where a stop ends (`PageFacts`), so the next one begins with another
  stop (`StopsAreWhole`, while the table stays). The argument uses ids, because a play that ends is another row.
- Bursts: `BurstsAreToldApart`. Every burst that was told of is one that some scan found, and a later scan saw more of
  the log and looked back less far (`FoundBy`). So two of them overlap only when an attempt on that account fell out
  of the look-back in between (`SharedAttempt`); and a run of failures that a scan can see makes the window full
  before it ends, wherever the windows before it began (`RunIsFound`).
- What makes no difference: `WhatIsNotTheirsIsNotShown`, of every page and every table, so of each state the server is
  in. Two tables are alike when they differ in addresses alone; each filter, count, sum and list says the same of
  both (`AddressesMakeNoDifference`), the order of the activity page too, since who may not see addresses cannot
  sort by them. The other half goes along the conditions: who may not see everyone is answered from
  `playback_where`, and its first condition leaves only their own plays (`OthersMakeNoDifference`,
  `StoriesAreTheirOwn`), or requests (`RequestsAreTheirOwn`).
- What comes in: `RowsStayKnown`, and `NothingIsPassedBy` from it. A pass over the history knows the newest event it
  met and what it has still to write; all that is in neither is at that event or after it (`HistoryInv`), so the
  cursor may move there, and no download happens with an earlier second than one that is there.
- Together: `PartsKeepTheirWord` and `ReportsTyped`, from the invariants of all the parts (`PartsInv`). For the types of
  the library this takes the whole story of an item: that it is in one library and there once at a time.

`NumbersProofs`, of the figures on the pages, for any plays, catalogue, readers and filters: `PagesTellTheSame`, which is
`PagesAgree`. What it rests on is little: each play is one row, the table is finite and nothing in it begins after
today (`TableInv`). Then every page is the same argument. A chart, a heatmap, a ranking, the watchers of a title or
the buckets under a pie divide the rows a filter leaves into classes, each row is in one of them (`DatesHold` for the
days, weeks and months, by division with a remainder; the buckets with "Other" behind the most frequent names), and
what is told of the classes of a finite table adds up to what is told of it all (`TallyOfParts`). Two parts go
another way. The peak comes from a sweep over beginnings and ends in order, which at every beginning has counted the
plays that are on (`SweepCounts`), the most of which ran when the last of them began (`SweepIsRight`). And the pages
of a list are cut from one strict order, whatever the column (`SortIsOrder`), in which every play has a place and
every place is on a page. The theorem supposes that every play has a method: the column is NULL only in rows that
come back from a backup older than the column, and the buckets leave those out.

`ListsTellTheSame` is the same of the map, the calendar and the requests (`PlacesAgree`, `CalendarAgrees`,
`RequestsAgree`), from the invariants of all the parts and one more: nothing is from the future, so every request was
made by now, and nothing is announced for a day beyond those read (`ComingInv`). The dots and home are classes of the
plays that have a place; a wish is one person's and the days of the download history are classes of its events; open,
arrived and turned down are classes of the requests (`StatesPart`); and a place in the list is a number of other
requests, so less than how many there are. That no two requests have the same place is not said and not so: two
Seerrs may give two requests one number and one second.

`StoriesTellTheSame` is `StoriesAgree`, from `TableInv` alone:

- A year holds the times from its first midnight to the next year's (`YearHolds`, by division with a remainder), so
  the years are classes of somebody's plays and add up to them (`YearsTellAll`), and the first time of a show is in
  one of them (`NewOnce`). Within a year months, days, hours and weekdays are classes again. Each record is the
  foremost of finitely many, so it is there when there is something (`FirstExists`, `FirstIs`): the biggest day is as
  long as the day of the longest play, a binge is of a day's plays, and something was returned to just when there are
  fewer titles than sittings (`RewatchesTell`: the map from sittings to titles is not injective).
- A run of days is an interval, so as long as its ends are apart (`RunUpTo`), and the longest is as long as any
  (`LongestRunIs`).
- An evening is a chain of plays. To be chained is an equivalence (`OneChain`: what lies between two starts lies
  between one of them and any third), so who is in a group is in one, beside the play of somebody else
  (`GroupIsShared`), and two of them stay as long as the second longest (`TwoStay`).
- The shelf is read newest first, and left when an item has no room and is older than the last entry's day. Of each
  entry all that has been read is on it (`AllOfEach`), what has no entry came when all entries had begun and there was
  no room (`NoRoom`), and reading stops past the days of all entries (`PastIt`); as an entry is of one day, nothing
  that comes later belongs to one (`NothingIsMissed`). Together (`ShelfSoFar`) they hold after each item
  (`ShelfStep`), so at the end (`ShelfTellsAll`), for any items and any number of entries.

`NumbersTellTheSame` joins the three theorems and `NothingIsPassedBy`: `NumbersAgree`, of all parts of the reports.

`TravelIsToldOf`, in the same module, is `TravelIsNoticed`: for any log, plays, places, speed, checks and answers of
managers. Who is not due, and not still to be looked at by the check under way, has an alert, filed or about to be, of
what is wrong with what is known of them now (`NoticedInv`): a play makes its person due, the log everybody; nothing
that was filed is taken back, whatever managers answer (`NothingIsTakenBack`); and what is not filed because its key is
there says the same of the same person (`OneKeyOneNews`). A look itself is an invariant of the steps of `detect`
(`Noticed`): as long as no travel was found, no two sightings so far are impossible. The one that lasted longest is
enough for that (`LongestIsEnough`): whoever could have come to it from somewhere, and on from it, could have gone
directly, by the triangle inequality; the one just before adds nothing but a better description. This takes a
hypothesis on the places (`OnTheMap`): distances obey that inequality, places anybody is seen in are at least
`travel_min_km` apart, and no play ends before it began. The run's places are such. Without it the property is not so:
hops shorter than `travel_min_km` are not looked at, and enough of them lead anywhere. That of all countries but one
there is an alert each needs none of it.

`DataInduction` proves what these need by induction: that a set of numbers has a least member, that what holds at 0
and from each number to the next holds of all, that a function given by its value at 0 and its steps exists (without
which nothing could be said of a definition by recursion), that finite sets of numbers have bounds, that each member of a
finite set in order has its place, and that what the community modules' folds add up comes out the same whichever
member is taken first and whatever one calls the members. The prover's own theorems of induction take an operator as
a parameter, which its backends cannot be given; here the sets and the steps are data.

Their assumptions, named in each module, are that parameters are numbers, sets are finite, rows have their columns and
null values are no members of what they stand beside; for the alerts also that Jellyfin's log is in order of time
(as Jellyfin writes it) and that every play is somebody's; for the stories that an item is of one type in all its
plays, that no two items have one rowid, and that what is finished is far enough in to be seen.

Only model-checked: everything under fairness (`EventuallyTrue`, `NeverLatched`, `GoesQuiet`,
`LibraryEventuallyAgrees`, `EndsUnlessPutOff`), which is out of the prover's reach. Every other property of a passing
run is also the statement of a theorem.

## Mistakes on purpose

A definition that ends in `_slip` is the one after it with a mistake in it of the kind a change could bring in: a
guard dropped, a clock not re-armed, a column forgotten. No action uses it. `PROJECT.json` pairs every checked
property with one, and putting it in place of the original makes TLC find the property violated.

## Not modelled

- *Jobs* (`jobs.rs`): a rate measured from the progress of tasks, for display.
- *Network classification* (`network.rs`): which prefixes are local; the models take its answer as given.
- *HTTP API and the Jellyfin client*: routing, parsing and requests. What Jellyfin answers is the environment of
  `Transport`, `LibrarySync` and `Schedule`.
- *Change log, licences, web interface*: text, and what a browser does; no state of the server.
- Formatting, names, pictures, and what a message says. Migrations run once before anything else. SQLite itself: a
  `db.call` is atomic per statement, a transaction as a whole, and a page is read at one moment (several of its
  `SELECT`s may straddle a write).

What of a modelled part is left out is in its "note" in `PROJECT.json`.

## Seen on the way

Things the code does that no run is about, because nothing in the repository says otherwise, or because they lie
outside a model:

- An administrator's decision about access can be undone by a manager's patch that was begun before it
  (`api.rs:389`), and two set-ups at once can mix one's address with the other's key (`auth.rs:461`).
- Of two reloads that overlap, the older list of connections or destinations can stay in memory; an edit that keeps
  the address, saved over a move, brings the old address back (`services.rs:514`).
- `MAX_SERVICES` (`services.rs:488`) and the limits on destinations are checked and used in two steps.
- `auth.rs:270` calls the limiter a sliding window; it is a fixed one that begins with the first attempt.
  `notify.rs:667` says "about eight hours" of a ladder that ends after a little over one.
- A rescan finds other bursts than the first scan did once an attempt has left the seven days (`security.rs:281`),
  and a sighting that arrives late, or grows, can give a pair two alerts for one day.
- A title can stand on "never played" while a wish for it counts as watched; two Seerrs can share the tiebreak of
  the list of requests; a sync of the users does not link the requests again.
- A connection switched while the queues are read loses its wake, though the comment at `downloads.rs:446` says that
  connecting one wakes the loop; so does a page opened between the loop's last look and its sleep. Once the last of
  them is gone, what was read last stays on the page (`downloads.rs:466`).
- A pass that finds nothing new may still look at open requests by name (`seerr.rs:286`), and then moves the cursor
  to the newest of those it read (`seerr.rs:310`). The next probe does not see what changed after that pass's own
  probe and is no longer open, though `seerr.rs:7` says that a probe no newer than the cursor means nothing has changed;
  and once such passes have raised the cursor by more than the overlap, no listing but the daily one reads it. It
  came to light because `NothingOverlooked` could not be proved; `hurried` marks such a connection. With an overlap
  of two ticks and four changes TLC finds it too; ten minutes of overlap make it rare.
- `downloads.rs:292` claims no speed "of another size"; one is claimed when a smaller release takes the place of a
  larger one.
- The peak of a bucket leaves out streams that run past midnight; the key of a recently-added message is the day in
  UTC (`recent.rs:149`), the shelf goes by the local one (`recent.rs:84`).
- A play that ends regroups the evening by the `group_window_s` the collector began with (`collector.rs:1211`), and
  deleting a play by hand leaves the group of the others as it was.
