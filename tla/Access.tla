------------------------------- MODULE Access -------------------------------
(***************************************************************************)
(* Who may use finstats: the first set-up, signing in with a Jellyfin      *)
(* account, the sessions, the permissions an administrator hands out and   *)
(* the settings they stand in.                                             *)
(*                                                                         *)
(* A request is a task of its own that waits for Jellyfin and for the      *)
(* database; between its waits anybody else's request runs.  The settings  *)
(* and the connection exist twice, in the database and in memory, and are  *)
(* written there one after the other.                                      *)
(*                                                                         *)
(* A browser holds one cookie, so a session is kept under the browser it   *)
(* belongs to; a session row no cookie names any more is of no use to      *)
(* anybody and is left out.  Of the settings there is what decides about   *)
(* access; a patch of any other setting is an empty patch here, and still  *)
(* writes the whole of the settings.                                       *)
(*                                                                         *)
(* A definition whose name ends in _slip is the one below it with a        *)
(* mistake in it.  No action uses it: it is there to see that the          *)
(* properties notice.                                                      *)
(***************************************************************************)
EXTENDS Naturals, FiniteSets, TLC

CONSTANTS
  Users,        \* accounts of Jellyfin
  Browsers,     \* each with its cookie, and at most one request under way
  Urls,         \* the Jellyfin servers somebody may set finstats up with
  Keys,         \* GRANTABLE
  MaxAttempts,  \* MAX_ATTEMPTS
  Defaults,     \* what default_permissions may be
  Backup,       \* what a restored backup brings: settings and grants
  NoSession, NoUrl,
  (* the bounds of the model *)
  MaxTurns      \* requests, restarts and changes of Jellyfin's administrators

ASSUME AccessAssumption ==
  /\ Users # {} /\ IsFiniteSet(Browsers)
  /\ {"sign_in", "manage"} \subseteq Keys
  /\ {} \in Defaults /\ Defaults \subseteq SUBSET (Keys \ {"sign_in"})
  /\ MaxAttempts \in Nat \ {0} /\ MaxTurns \in Nat
  /\ Urls # {} /\ NoUrl \notin Urls /\ NoUrl \notin [url : Urls, key : Urls]
  /\ Backup.settings \in [allow : BOOLEAN, defaults : Defaults]
  /\ \A u \in DOMAIN Backup.grants : Backup.grants[u] \subseteq Keys

VARIABLES
  admins,    \* the administrators of Jellyfin, as it is now
  known,     \* users.is_admin: the ones the last sync read
  stored,    \* settings: the row
  live,      \* settings: the copy in memory
  grants,    \* user_permissions
  conf,      \* jellyfin_url and jellyfin_api_key in the database
  config,    \* the connection in memory
  attempts,  \* login_attempts: one address
  wrong,     \* passwords refused since the counter was last dropped
  sessions,  \* the row each browser's cookie names
  req,       \* the request of each browser
  restoring, \* the restore task
  (* what has happened *)
  blessed,   \* access settings an administrator or a backup asked for
  since,     \* browsers whose user was entitled at some moment of the request
  served,    \* browsers whose last request was answered
  turns      \* requests and events so far

onDisk == <<stored, grants, conf>>
inMemory == <<live, config>>
limiter == <<attempts, wrong>>
accessVars == <<admins, known, stored, live, grants, conf, config, attempts, wrong,
                sessions, req, restoring, blessed, since, served, turns>>

Settings == [allow : BOOLEAN, defaults : Defaults]
Session == [user : Users, admin : BOOLEAN]
Conf == [url : Urls \cup {NoUrl}, key : Urls \cup {NoUrl}]
Idle == [pc |-> "idle"]
Ops == {"visit", "put_settings", "put_defaults", "put_user", "restore"}

(* A request, by how far it has come. *)
Trying == [pc : {"sign_in"}, user : Users, counted : BOOLEAN]
          \cup [pc : {"set_up"}, user : Users, url : Urls, counted : BOOLEAN]
Entering == [pc : {"known", "in"}, user : Users, admin : BOOLEAN]
            \cup [pc : {"granted"}, user : Users, admin : BOOLEAN, grants : SUBSET Keys]
SettingUp == [pc : {"store_url", "store_key", "connect"}, user : Users, url : Urls]
Asking == [pc : Ops, user : Users, admin : BOOLEAN, grants : SUBSET Keys]
Saving == [pc : {"store", "apply"}, admin : BOOLEAN, next : Settings]
Request == {Idle} \cup Trying \cup Entering \cup SettingUp \cup Asking \cup Saving

AccessTypeOK ==
  /\ admins \subseteq Users /\ known \subseteq Users
  /\ stored \in Settings /\ live \in Settings
  /\ grants \in [Users -> SUBSET Keys]
  /\ conf \in Conf /\ config \in Conf \cup {NoUrl}
  /\ attempts \in 0..MaxAttempts /\ wrong \in Nat
  /\ sessions \in [Browsers -> Session \cup {NoSession}]
  /\ restoring \in {"no", "merging", "loading"}
  /\ req \in [Browsers -> Request]
  /\ since \subseteq Browsers /\ served \subseteq Browsers
  /\ blessed \subseteq Settings
  /\ turns \in 0..MaxTurns
-----------------------------------------------------------------------------
(* `effective`: whether somebody gets in, and what they then hold. *)
MaySignIn_slip(admin, g, s) == admin \/ s.allow \/ g # {}
MaySignIn(admin, g, s) == admin \/ s.allow \/ "sign_in" \in g

Perms(admin, g, s) == IF admin THEN Keys ELSE (g \cup s.defaults) \ {"sign_in"}

(* `Settings::default` *)
Fresh == [allow |-> FALSE, defaults |-> {}]

NewInstall ==
  /\ conf = [url |-> NoUrl, key |-> NoUrl]
  /\ config = NoUrl
  /\ stored = Fresh
  /\ grants = [u \in Users |-> {}]
  /\ sessions = [b \in Browsers |-> NoSession]

(* serve(): what a start reads from the database.  Half a connection is none. *)
Loaded == IF conf.url # NoUrl /\ conf.key # NoUrl THEN conf ELSE NoUrl

(* An install that has been used: everybody is signed in, and there are grants. *)
InUse ==
  /\ conf = LET first == CHOOSE url \in Urls : TRUE IN [url |-> first, key |-> first]
  /\ config = conf
  /\ stored \in Settings
  /\ \E invited \in {{}, Users \ admins} : grants = [u \in Users |-> IF u \in invited THEN Keys ELSE {}]
  /\ sessions \in [Browsers -> {[user |-> u, admin |-> u \in admins] : u \in Users}]

AccessInit ==
  /\ admins = {CHOOSE u \in Users : TRUE}
  /\ known = admins
  /\ NewInstall \/ InUse
  /\ live = stored
  /\ attempts = 0 /\ wrong = 0
  /\ req = [b \in Browsers |-> Idle]
  /\ restoring = "no"
  /\ blessed = {stored} /\ since = {} /\ served = {} /\ turns = 0

(* A request goes on to what it does next, and is over. *)
Go(b, r) == req' = [req EXCEPT ![b] = r]
Over(b) == Go(b, Idle)
-----------------------------------------------------------------------------
(* The limiter.  The window begins with its first attempt; dropping the    *)
(* entry, when the window is over or somebody got in, starts a new one.    *)
(* A request that was counted before is not part of the new one.           *)

Uncounted(r) == [b \in Browsers |-> IF "counted" \in DOMAIN r[b]
                                    THEN [r[b] EXCEPT !.counted = FALSE] ELSE r[b]]

(* `check_rate_limit`: counted before Jellyfin is asked. *)
CountedEver_slip ==
  /\ attempts' = attempts + 1
  /\ UNCHANGED wrong
Counted_slip ==
  /\ attempts < MaxAttempts
  /\ UNCHANGED limiter
Counted ==
  /\ attempts < MaxAttempts
  /\ attempts' = attempts + 1
  /\ UNCHANGED wrong

(* `clear_rate_limit` *)
Cleared == attempts' = 0 /\ wrong' = 0

WindowEnds ==
  /\ attempts > 0
  /\ Cleared
  /\ req' = Uncounted(req)
  /\ UNCHANGED <<admins, known, onDisk, inMemory, sessions, restoring, blessed, served, turns>>

(* Jellyfin does not know the password, or does not answer. *)
TurnedDown(b) ==
  /\ req[b].pc \in {"sign_in", "set_up"}
  /\ wrong' = IF req[b].counted THEN wrong + 1 ELSE wrong
  /\ Over(b)
  /\ UNCHANGED <<admins, known, onDisk, inMemory, attempts, sessions, restoring, blessed, served, turns>>
-----------------------------------------------------------------------------
(* `login` *)

Login(b, u) ==
  /\ req[b] = Idle /\ turns < MaxTurns
  /\ turns' = turns + 1
  /\ config # NoUrl
  /\ Counted
  /\ Go(b, [pc |-> "sign_in", user |-> u, counted |-> TRUE])
  /\ served' = served \ {b}
  /\ UNCHANGED <<admins, known, onDisk, inMemory, sessions, restoring, blessed>>

(* Jellyfin says who it is, and whether they are an administrator. *)
Recognised(b) ==
  /\ req[b].pc = "sign_in"
  /\ Go(b, [pc |-> "known", user |-> req[b].user, admin |-> req[b].user \in admins])
  /\ UNCHANGED <<admins, known, onDisk, inMemory, limiter, sessions, restoring, blessed, served, turns>>

(* Their own grants are read after that, and the settings last. *)
GrantsRead(b) ==
  /\ req[b].pc = "known"
  /\ Go(b, [pc |-> "granted", user |-> req[b].user, admin |-> req[b].admin,
            grants |-> IF req[b].admin THEN {} ELSE grants[req[b].user]])
  /\ UNCHANGED <<admins, known, onDisk, inMemory, limiter, sessions, restoring, blessed, served, turns>>

LetIn(b) ==
  /\ req[b].pc = "granted"
  /\ MaySignIn(req[b].admin, req[b].grants, live)
  /\ Cleared
  /\ req' = [Uncounted(req) EXCEPT ![b] = [pc |-> "in", user |-> req[b].user, admin |-> req[b].admin]]
  /\ UNCHANGED <<admins, known, onDisk, inMemory, sessions, restoring, blessed, served, turns>>

TurnedAway(b) ==
  /\ req[b].pc = "granted"
  /\ ~MaySignIn(req[b].admin, req[b].grants, live)
  /\ Over(b)
  /\ UNCHANGED <<admins, known, onDisk, inMemory, limiter, sessions, restoring, blessed, served, turns>>

(* `start_session` *)
StartSession(b) ==
  /\ req[b].pc = "in"
  /\ sessions' = [sessions EXCEPT ![b] = [user |-> req[b].user, admin |-> req[b].admin]]
  /\ Over(b)
  /\ UNCHANGED <<admins, known, onDisk, inMemory, limiter, restoring, blessed, served, turns>>

(* `logout`, and the end of the 30 days *)
EndSession(b) ==
  /\ req[b] = Idle
  /\ sessions[b] # NoSession
  /\ sessions' = [sessions EXCEPT ![b] = NoSession]
  /\ served' = served \ {b}
  /\ UNCHANGED <<admins, known, onDisk, inMemory, limiter, req, restoring, blessed, turns>>
-----------------------------------------------------------------------------
(* `setup`: the first one, with an administrator's credentials. *)

Setup(b, u, url) ==
  /\ req[b] = Idle /\ turns < MaxTurns
  /\ turns' = turns + 1
  /\ config = NoUrl
  /\ Counted
  /\ Go(b, [pc |-> "set_up", user |-> u, url |-> url, counted |-> TRUE])
  /\ served' = served \ {b}
  /\ UNCHANGED <<admins, known, onDisk, inMemory, sessions, restoring, blessed>>

(* The key is made, and nobody has been faster. *)
Verified_slip(b) ==
  /\ req[b].pc = "set_up"
  /\ req[b].user \in admins
  /\ config = NoUrl
  /\ Go(b, [pc |-> "connect", user |-> req[b].user, url |-> req[b].url])
  /\ UNCHANGED <<admins, known, onDisk, inMemory, limiter, sessions, restoring, blessed, served, turns>>
Verified(b) ==
  /\ req[b].pc = "set_up"
  /\ req[b].user \in admins
  /\ config = NoUrl
  /\ Go(b, [pc |-> "store_url", user |-> req[b].user, url |-> req[b].url])
  /\ UNCHANGED <<admins, known, onDisk, inMemory, limiter, sessions, restoring, blessed, served, turns>>

(* Not an administrator, or somebody has. *)
NotVerified(b) ==
  /\ req[b].pc = "set_up"
  /\ req[b].user \notin admins \/ config # NoUrl
  /\ Over(b)
  /\ UNCHANGED <<admins, known, onDisk, inMemory, limiter, sessions, restoring, blessed, served, turns>>

(* Four statements, each its own transaction: the address, then the key and the names. *)
StoreUrl(b) ==
  /\ req[b].pc = "store_url"
  /\ conf' = [conf EXCEPT !.url = req[b].url]
  /\ Go(b, [req[b] EXCEPT !.pc = "store_key"])
  /\ UNCHANGED <<admins, known, stored, grants, inMemory, limiter, sessions, restoring, blessed, served, turns>>

StoreKey(b) ==
  /\ req[b].pc = "store_key"
  /\ conf' = [conf EXCEPT !.key = req[b].url]
  /\ Go(b, [req[b] EXCEPT !.pc = "connect"])
  /\ UNCHANGED <<admins, known, stored, grants, inMemory, limiter, sessions, restoring, blessed, served, turns>>

Connect(b) ==
  /\ req[b].pc = "connect"
  /\ config' = [url |-> req[b].url, key |-> req[b].url]
  /\ Cleared
  /\ req' = [Uncounted(req) EXCEPT ![b] = [pc |-> "in", user |-> req[b].user, admin |-> TRUE]]
  /\ UNCHANGED <<admins, known, onDisk, live, sessions, restoring, blessed, served, turns>>
-----------------------------------------------------------------------------
(* A request with a cookie.  `from_request_parts` reads the session and    *)
(* the grants in one call, and the settings after it.                      *)

Asks(b, op) ==
  /\ req[b] = Idle /\ turns < MaxTurns
  /\ turns' = turns + 1
  /\ sessions[b] # NoSession
  /\ LET s == sessions[b] IN
     Go(b, [pc |-> op, user |-> s.user, admin |-> s.admin,
            grants |-> IF s.admin THEN {} ELSE grants[s.user]])
  /\ served' = served \ {b}
  /\ UNCHANGED <<admins, known, onDisk, inMemory, limiter, sessions, restoring, blessed>>

Holds(b, key) == /\ MaySignIn(req[b].admin, req[b].grants, live)
                 /\ key \in Perms(req[b].admin, req[b].grants, live)

Visit(b) ==
  /\ req[b].pc = "visit"
  /\ MaySignIn(req[b].admin, req[b].grants, live)
  /\ served' = served \cup {b}
  /\ Over(b)
  /\ UNCHANGED <<admins, known, onDisk, inMemory, limiter, sessions, restoring, blessed, turns>>

(* What may be asked of each operation: the permission, or being an administrator. *)
Allowed(b) ==
  CASE req[b].pc = "visit" -> MaySignIn(req[b].admin, req[b].grants, live)
    [] req[b].pc = "put_settings" -> Holds(b, "manage")
    [] OTHER -> req[b].admin

Forbidden(b) ==
  /\ req[b].pc \in Ops
  /\ ~Allowed(b)
  /\ Over(b)
  /\ UNCHANGED <<admins, known, onDisk, inMemory, limiter, sessions, restoring, blessed, served, turns>>

(* `put_settings`: a patch over the settings in memory.  The access keys   *)
(* are an administrator's alone; a patch without them is the empty one.    *)
Patches == {<<>>} \cup [{"allow"} -> BOOLEAN] \cup [{"defaults"} -> Defaults]

MayPatch_slip(b, patch) == Holds(b, "manage")
MayPatch(b, patch) == Holds(b, "manage") /\ (req[b].admin \/ DOMAIN patch = {})

PutSettings(b, patch) ==
  /\ req[b].pc = "put_settings"
  /\ MayPatch(b, patch)
  /\ LET next == [k \in {"allow", "defaults"} |-> IF k \in DOMAIN patch THEN patch[k] ELSE live[k]] IN
     /\ Go(b, [pc |-> "store", admin |-> req[b].admin, next |-> next])
     /\ blessed' = IF req[b].admin THEN blessed \cup {next} ELSE blessed
  /\ UNCHANGED <<admins, known, onDisk, inMemory, limiter, sessions, restoring, served, turns>>

(* `put_default_permissions`: signing in is one of the keys of the list. *)
PutDefaults(b, keys) ==
  /\ req[b].pc = "put_defaults" /\ req[b].admin
  /\ LET next == [allow |-> "sign_in" \in keys, defaults |-> keys \ {"sign_in"}] IN
     /\ Go(b, [pc |-> "store", admin |-> req[b].admin, next |-> next])
     /\ blessed' = blessed \cup {next}
  /\ UNCHANGED <<admins, known, onDisk, inMemory, limiter, sessions, restoring, served, turns>>

(* The row first, the copy in memory when it is written. *)
StoreSettings(b) ==
  /\ req[b].pc = "store"
  /\ stored' = req[b].next
  /\ Go(b, [req[b] EXCEPT !.pc = "apply"])
  /\ UNCHANGED <<admins, known, grants, conf, inMemory, limiter, sessions, restoring, blessed, served, turns>>

ApplySettings(b) ==
  /\ req[b].pc = "apply"
  /\ live' = req[b].next
  /\ Over(b)
  /\ UNCHANGED <<admins, known, onDisk, config, limiter, sessions, restoring, blessed, served, turns>>

(* `put_user_permissions`: not for an administrator the users table knows. *)
PutUser(b, u, keys) ==
  /\ req[b].pc = "put_user" /\ req[b].admin
  /\ grants' = IF u \in known THEN grants ELSE [grants EXCEPT ![u] = keys]
  /\ Over(b)
  /\ UNCHANGED <<admins, known, stored, conf, inMemory, limiter, sessions, restoring, blessed, served, turns>>
-----------------------------------------------------------------------------
(* A restore with its settings: one at a time, merged in one transaction,  *)
(* then the settings are read back into memory.                            *)

StartRestore(b) ==
  /\ req[b].pc = "restore" /\ req[b].admin
  /\ restoring' = IF restoring = "no" THEN "merging" ELSE restoring
  /\ Over(b)
  /\ UNCHANGED <<admins, known, onDisk, inMemory, limiter, sessions, blessed, served, turns>>

Merge ==
  /\ restoring = "merging"
  /\ stored' = Backup.settings
  /\ grants' = [u \in Users |-> IF u \in DOMAIN Backup.grants THEN Backup.grants[u] ELSE grants[u]]
  /\ restoring' = "loading"
  /\ blessed' = blessed \cup {Backup.settings}
  /\ UNCHANGED <<admins, known, conf, inMemory, limiter, sessions, req, served, turns>>

Load ==
  /\ restoring = "loading"
  /\ live' = stored
  /\ restoring' = "no"
  /\ UNCHANGED <<admins, known, onDisk, config, limiter, sessions, req, blessed, served, turns>>

(* The plays alone, without the settings; the settings are read back all the same. *)
MergePlays ==
  /\ restoring = "merging"
  /\ restoring' = "loading"
  /\ UNCHANGED <<admins, known, onDisk, inMemory, limiter, sessions, req, blessed, served, turns>>

MergeFails ==
  /\ restoring = "merging"
  /\ restoring' = "no"
  /\ UNCHANGED <<admins, known, onDisk, inMemory, limiter, sessions, req, blessed, served, turns>>
-----------------------------------------------------------------------------
(* Jellyfin makes somebody an administrator, or no longer. *)
JellyfinChanges(u) ==
  /\ turns < MaxTurns
  /\ turns' = turns + 1
  /\ admins' = IF u \in admins THEN admins \ {u} ELSE admins \cup {u}
  /\ UNCHANGED <<known, onDisk, inMemory, limiter, sessions, req, restoring, blessed, served>>

(* `sync_users` reads who is. *)
SyncUsers ==
  /\ config # NoUrl /\ known # admins
  /\ known' = admins
  /\ UNCHANGED <<admins, onDisk, inMemory, limiter, sessions, req, restoring, blessed, served, turns>>

(* The process is killed, and starts from what is stored. *)
Restart ==
  /\ turns < MaxTurns
  /\ turns' = turns + 1
  /\ config' = Loaded /\ live' = stored
  /\ Cleared
  /\ req' = [b \in Browsers |-> Idle]
  /\ restoring' = "no"
  /\ UNCHANGED <<admins, known, onDisk, sessions, blessed, served>>

AccessStep ==
  \/ \E b \in Browsers :
       \/ \E u \in Users : Login(b, u) \/ (\E url \in Urls : Setup(b, u, url))
       \/ TurnedDown(b) \/ Recognised(b) \/ GrantsRead(b) \/ LetIn(b) \/ TurnedAway(b)
       \/ StartSession(b) \/ EndSession(b)
       \/ Verified(b) \/ NotVerified(b) \/ StoreUrl(b) \/ StoreKey(b) \/ Connect(b)
       \/ \E op \in Ops : Asks(b, op)
       \/ Visit(b) \/ Forbidden(b) \/ StartRestore(b)
       \/ \E patch \in Patches : PutSettings(b, patch)
       \/ \E d \in Defaults : PutDefaults(b, d) \/ PutDefaults(b, d \cup {"sign_in"})
       \/ \E u \in Users, keys \in SUBSET Keys : PutUser(b, u, keys)
       \/ StoreSettings(b) \/ ApplySettings(b)
  \/ \E u \in Users : JellyfinChanges(u)
  \/ WindowEnds \/ Merge \/ MergePlays \/ Load \/ MergeFails \/ SyncUsers \/ Restart

(* Being entitled, said without the code: an administrator's session, a    *)
(* door open to everybody, or an invitation of one's own.                  *)
EntitledNow(b) == \/ req[b].admin
                  \/ live.allow
                  \/ "sign_in" \in grants[req[b].user]

AccessNext ==
  /\ AccessStep
  /\ since' = {b \in Browsers :
       \/ b \in since /\ (req'[b] # req[b] => req[b] # Idle)
       \/ req'[b].pc \in Ops /\ EntitledNow(b)'}

AccessSpec == AccessInit /\ [][AccessNext]_accessVars
-----------------------------------------------------------------------------
(* The limiter counts a guess before Jellyfin is asked: whatever number of *)
(* them is under way at once, no more than MAX_ATTEMPTS are made before    *)
(* one of them is right or the window is over.                             *)
AttemptsHold ==
  wrong + Cardinality({b \in Browsers : req[b].pc \in {"sign_in", "set_up"} /\ req[b].counted})
    <= MaxAttempts

(* Somebody is only served by a request during which they were entitled at *)
(* some moment: the session is read, then the grants, then the settings,   *)
(* and all three may change in between.                                    *)
ServedWhileEntitled == served \subseteq since

(* Who gets in and what everybody may see is what an administrator, or a   *)
(* backup an administrator restored, asked for at some time.  A manager's  *)
(* patch rewrites the settings as a whole and must not add to that.        *)
AccessComesFromAdministrators == stored \in blessed /\ live \in blessed

(* Nobody has a session before finstats is set up for good: a crash between *)
(* the steps of a set-up leaves no session that survives into a new set-up. *)
SignedInMeansSetUp ==
  (\E b \in Browsers : sessions[b] # NoSession) => Loaded # NoUrl
=============================================================================
