---------------------------- MODULE AccessProofs ----------------------------
(* Proofs about Access, for every value of its constants.                   *)
EXTENDS Access, FiniteSetTheorems, TLAPS

(* What a request carries follows from how far it has come. *)
LEMMA Carried ==
  ASSUME NEW r \in Request
  PROVE  /\ r = Idle <=> r.pc = "idle"
         /\ r.pc \in {"sign_in", "set_up"} => r \in Trying /\ r.user \in Users /\ r.counted \in BOOLEAN
         /\ r.pc = "set_up" => r.url \in Urls
         /\ r.pc \in {"known", "granted", "in"} => r \in Entering /\ r.user \in Users /\ r.admin \in BOOLEAN
         /\ r.pc = "granted" => r.grants \subseteq Keys
         /\ r.pc \in {"store_url", "store_key", "connect"} => r \in SettingUp /\ r.user \in Users /\ r.url \in Urls
         /\ r.pc \in Ops => r \in Asking /\ r.user \in Users /\ r.admin \in BOOLEAN /\ r.grants \subseteq Keys
         /\ r.pc \in {"store", "apply"} => r \in Saving /\ r.admin \in BOOLEAN /\ r.next \in Settings
<1>1. CASE r = Idle
  BY <1>1 DEF Idle, Ops
<1>2. CASE r \in Trying
  BY <1>2 DEF Trying, Idle, Ops
<1>3. CASE r \in Entering
  BY <1>3 DEF Entering, Idle, Ops
<1>4. CASE r \in SettingUp
  BY <1>4 DEF SettingUp, Idle, Ops
<1>5. CASE r \in Asking
  BY <1>5 DEF Asking, Idle, Ops
<1>6. CASE r \in Saving
  BY <1>6 DEF Saving, Idle, Ops
<1> QED
  BY <1>1, <1>2, <1>3, <1>4, <1>5, <1>6 DEF Request

(* Only a guess is counted, and forgetting that leaves it a guess. *)
LEMMA MemoryForgotten ==
  ASSUME req \in [Browsers -> Request]
  PROVE  /\ Uncounted(req) \in [Browsers -> Request]
         /\ \A b \in Browsers :
              /\ Uncounted(req)[b].pc = req[b].pc
              /\ req[b].pc \notin {"sign_in", "set_up"} => Uncounted(req)[b] = req[b]
              /\ req[b].pc \in {"sign_in", "set_up"} => ~Uncounted(req)[b].counted
<1>1. ASSUME NEW b \in Browsers
      PROVE  /\ Uncounted(req)[b] \in Request
             /\ Uncounted(req)[b].pc = req[b].pc
             /\ req[b].pc \notin {"sign_in", "set_up"} => Uncounted(req)[b] = req[b]
             /\ req[b].pc \in {"sign_in", "set_up"} => ~Uncounted(req)[b].counted
  <2> DEFINE r == req[b]
  <2>0. r \in Request /\ Uncounted(req)[b] = IF "counted" \in DOMAIN r THEN [r EXCEPT !.counted = FALSE] ELSE r
    BY DEF Uncounted
  <2>1. CASE r \in Trying
    <3> DEFINE f == [r EXCEPT !.counted = FALSE]
    <3>1. CASE r \in [pc : {"sign_in"}, user : Users, counted : BOOLEAN]
      <4>1. f \in [pc : {"sign_in"}, user : Users, counted : BOOLEAN] /\ f.counted = FALSE /\ f.pc = r.pc
        BY <3>1
      <4>2. "counted" \in DOMAIN r /\ r.pc = "sign_in"
        BY <3>1
      <4> QED
        BY <2>0, <4>1, <4>2 DEF Trying, Request
    <3>2. CASE r \in [pc : {"set_up"}, user : Users, url : Urls, counted : BOOLEAN]
      <4>1. f \in [pc : {"set_up"}, user : Users, url : Urls, counted : BOOLEAN] /\ f.counted = FALSE /\ f.pc = r.pc
        BY <3>2
      <4>2. "counted" \in DOMAIN r /\ r.pc = "set_up"
        BY <3>2
      <4> QED
        BY <2>0, <4>1, <4>2 DEF Trying, Request
    <3> QED
      BY <2>1, <3>1, <3>2 DEF Trying
  <2>2. CASE r \in {Idle} \cup Entering \cup SettingUp \cup Asking \cup Saving
    <3>1. "counted" \notin DOMAIN r
      BY <2>2 DEF Idle, Entering, SettingUp, Asking, Saving
    <3>2. r.pc \notin {"sign_in", "set_up"}
      BY <2>2 DEF Idle, Entering, SettingUp, Asking, Saving, Ops
    <3> QED
      BY <2>0, <3>1, <3>2
  <2> QED
    BY <2>0, <2>1, <2>2 DEF Request
<1> QED
  BY <1>1 DEF Uncounted

(* Every step keeps the types. *)
LEMMA AccessTypeStep == AccessTypeOK /\ AccessNext => AccessTypeOK'
<1> SUFFICES ASSUME AccessTypeOK, AccessNext PROVE AccessTypeOK'
  OBVIOUS
<1> USE DEF AccessTypeOK
<1>0. since' \subseteq Browsers
  BY DEF AccessNext
<1>1. AccessStep
  BY DEF AccessNext
<1>2. \A b \in Browsers, r \in Request : [req EXCEPT ![b] = r] \in [Browsers -> Request]
  OBVIOUS
<1>3. /\ Uncounted(req) \in [Browsers -> Request]
      /\ \A b \in Browsers, r \in Request : [Uncounted(req) EXCEPT ![b] = r] \in [Browsers -> Request]
  BY MemoryForgotten
<1>4. Idle \in Request
  BY DEF Request
<1>5. 0 \in 0..MaxAttempts /\ 0 \in Nat
  BY AccessAssumption
<1>6. \A b \in Browsers : req[b] \in Request
  OBVIOUS
<1>10. ASSUME NEW b \in Browsers, NEW u \in Users, Login(b, u) PROVE AccessTypeOK'
  <2>1. [pc |-> "sign_in", user |-> u, counted |-> TRUE] \in Request
    BY DEF Request, Trying
  <2> QED
    BY <1>0, <1>2, <1>10, <2>1, AccessAssumption DEF Login, Go, Counted, onDisk, inMemory
<1>11. ASSUME NEW b \in Browsers, NEW u \in Users, NEW url \in Urls, Setup(b, u, url) PROVE AccessTypeOK'
  <2>1. [pc |-> "set_up", user |-> u, url |-> url, counted |-> TRUE] \in Request
    BY DEF Request, Trying
  <2> QED
    BY <1>0, <1>2, <1>11, <2>1, AccessAssumption DEF Setup, Go, Counted, onDisk, inMemory
<1>12. ASSUME NEW b \in Browsers, TurnedDown(b) PROVE AccessTypeOK'
  BY <1>0, <1>2, <1>4, <1>12 DEF TurnedDown, Over, Go, onDisk, inMemory
<1>13. ASSUME NEW b \in Browsers, Recognised(b) PROVE AccessTypeOK'
  <2>1. [pc |-> "known", user |-> req[b].user, admin |-> req[b].user \in admins] \in Request
    BY <1>6, <1>13, Carried DEF Recognised, Request, Entering
  <2> QED
    BY <1>0, <1>2, <1>13, <2>1 DEF Recognised, Go, onDisk, inMemory, limiter
<1>14. ASSUME NEW b \in Browsers, GrantsRead(b) PROVE AccessTypeOK'
  <2>1. [pc |-> "granted", user |-> req[b].user, admin |-> req[b].admin,
         grants |-> IF req[b].admin THEN {} ELSE grants[req[b].user]] \in Request
    BY <1>6, <1>14, Carried DEF GrantsRead, Request, Entering
  <2> QED
    BY <1>0, <1>2, <1>14, <2>1 DEF GrantsRead, Go, onDisk, inMemory, limiter
<1>15. ASSUME NEW b \in Browsers, LetIn(b) PROVE AccessTypeOK'
  <2>1. [pc |-> "in", user |-> req[b].user, admin |-> req[b].admin] \in Request
    BY <1>6, <1>15, Carried DEF LetIn, Request, Entering
  <2> QED
    BY <1>0, <1>3, <1>5, <1>15, <2>1 DEF LetIn, Cleared, onDisk, inMemory
<1>16. ASSUME NEW b \in Browsers, TurnedAway(b) \/ NotVerified(b) \/ Forbidden(b) PROVE AccessTypeOK'
  BY <1>0, <1>2, <1>4, <1>16 DEF TurnedAway, NotVerified, Forbidden, Over, Go, onDisk, inMemory, limiter
<1>17. ASSUME NEW b \in Browsers, StartSession(b) PROVE AccessTypeOK'
  <2>1. [user |-> req[b].user, admin |-> req[b].admin] \in Session
    BY <1>6, <1>17, Carried DEF StartSession, Session
  <2> QED
    BY <1>0, <1>2, <1>4, <1>17, <2>1 DEF StartSession, Over, Go, onDisk, inMemory, limiter
<1>18. ASSUME NEW b \in Browsers, EndSession(b) PROVE AccessTypeOK'
  BY <1>0, <1>18 DEF EndSession, onDisk, inMemory, limiter
<1>19. ASSUME NEW b \in Browsers, Verified(b) PROVE AccessTypeOK'
  <2>1. [pc |-> "store_url", user |-> req[b].user, url |-> req[b].url] \in Request
    BY <1>6, <1>19, Carried DEF Verified, Request, SettingUp
  <2> QED
    BY <1>0, <1>2, <1>19, <2>1 DEF Verified, Go, onDisk, inMemory, limiter
<1>20. ASSUME NEW b \in Browsers, StoreUrl(b) \/ StoreKey(b) PROVE AccessTypeOK'
  <2>1. /\ req[b].url \in Urls
        /\ \A x \in {"store_key", "connect"} : [req[b] EXCEPT !.pc = x] \in Request
    BY <1>6, <1>20, Carried DEF StoreUrl, StoreKey, Request, SettingUp
  <2>2. \A x \in Urls : [conf EXCEPT !.url = x] \in Conf /\ [conf EXCEPT !.key = x] \in Conf
    BY DEF Conf
  <2> QED
    BY <1>0, <1>2, <1>20, <2>1, <2>2 DEF StoreUrl, StoreKey, Go, inMemory, limiter
<1>21. ASSUME NEW b \in Browsers, Connect(b) PROVE AccessTypeOK'
  <2>1. /\ [pc |-> "in", user |-> req[b].user, admin |-> TRUE] \in Request
        /\ [url |-> req[b].url, key |-> req[b].url] \in Conf
    BY <1>6, <1>21, Carried DEF Connect, Request, Entering, Conf
  <2> QED
    BY <1>0, <1>3, <1>5, <1>21, <2>1 DEF Connect, Cleared, onDisk
<1>22. ASSUME NEW b \in Browsers, NEW op \in Ops, Asks(b, op) PROVE AccessTypeOK'
  <2>0. sessions[b] \in Session /\ sessions[b].user \in Users /\ sessions[b].admin \in BOOLEAN
    BY <1>22 DEF Asks, Session
  <2>1. [pc |-> op, user |-> sessions[b].user, admin |-> sessions[b].admin,
         grants |-> IF sessions[b].admin THEN {} ELSE grants[sessions[b].user]] \in Request
    BY <2>0 DEF Request, Asking
  <2> QED
    BY <1>0, AccessAssumption, <1>2, <1>22, <2>1 DEF Asks, Go, onDisk, inMemory, limiter
<1>23. ASSUME NEW b \in Browsers, Visit(b) PROVE AccessTypeOK'
  BY <1>0, <1>2, <1>4, <1>23 DEF Visit, Over, Go, onDisk, inMemory, limiter
<1>24. ASSUME NEW b \in Browsers, NEW patch \in Patches, PutSettings(b, patch) PROVE AccessTypeOK'
  <2> DEFINE next == [k \in {"allow", "defaults"} |-> IF k \in DOMAIN patch THEN patch[k] ELSE live[k]]
  <2>1. next \in Settings
    BY DEF Patches, Settings
  <2>2. [pc |-> "store", admin |-> req[b].admin, next |-> next] \in Request
    BY <1>6, <1>24, <2>1, Carried DEF PutSettings, Request, Saving, Ops
  <2> QED
    BY <1>0, <1>2, <1>24, <2>1, <2>2 DEF PutSettings, Go, onDisk, inMemory, limiter
<1>25. ASSUME NEW b \in Browsers, NEW d \in Defaults, PutDefaults(b, d) \/ PutDefaults(b, d \cup {"sign_in"}) PROVE AccessTypeOK'
  <2> DEFINE next(keys) == [allow |-> "sign_in" \in keys, defaults |-> keys \ {"sign_in"}]
  <2>1. d \ {"sign_in"} = d /\ (d \cup {"sign_in"}) \ {"sign_in"} = d
    BY AccessAssumption
  <2>2. next(d) \in Settings /\ next(d \cup {"sign_in"}) \in Settings
    <3>1. \A x \in BOOLEAN, y \in Defaults : [allow |-> x, defaults |-> y] \in Settings
      BY DEF Settings
    <3>2. ("sign_in" \in d) \in BOOLEAN /\ ("sign_in" \in d \cup {"sign_in"}) \in BOOLEAN
      OBVIOUS
    <3>3. [allow |-> "sign_in" \in d, defaults |-> d] \in Settings
      BY <3>1, <3>2
    <3>4. [allow |-> "sign_in" \in d \cup {"sign_in"}, defaults |-> d] \in Settings
      BY <3>1, <3>2
    <3> QED
      BY <2>1, <3>3, <3>4
  <2>3. \A n \in Settings : [pc |-> "store", admin |-> req[b].admin, next |-> n] \in Request
    BY <1>6, <1>25, Carried DEF PutDefaults, Request, Saving, Ops
  <2> QED
    BY <1>0, <1>2, <1>25, <2>2, <2>3 DEF PutDefaults, Go, onDisk, inMemory, limiter
<1>26. ASSUME NEW b \in Browsers, NEW u \in Users, NEW keys \in SUBSET Keys, PutUser(b, u, keys) PROVE AccessTypeOK'
  BY <1>0, <1>2, <1>4, <1>26 DEF PutUser, Over, Go, inMemory, limiter
<1>27. ASSUME NEW b \in Browsers, StoreSettings(b) \/ ApplySettings(b) PROVE AccessTypeOK'
  <2>1. req[b].next \in Settings /\ (req[b].pc = "store" => [req[b] EXCEPT !.pc = "apply"] \in Request)
    BY <1>6, <1>27, Carried DEF StoreSettings, ApplySettings, Request, Saving
  <2> QED
    BY <1>0, <1>2, <1>4, <1>27, <2>1 DEF StoreSettings, ApplySettings, Over, Go, onDisk, inMemory, limiter
<1>28. ASSUME NEW b \in Browsers, StartRestore(b) PROVE AccessTypeOK'
  BY <1>0, <1>2, <1>4, <1>28 DEF StartRestore, Over, Go, onDisk, inMemory, limiter
<1>29. CASE \E u \in Users : JellyfinChanges(u)
  BY <1>0, <1>29, AccessAssumption DEF JellyfinChanges, onDisk, inMemory, limiter
<1>30. CASE WindowEnds
  BY <1>0, <1>3, <1>5, <1>30 DEF WindowEnds, Cleared, onDisk, inMemory
<1>31. CASE Merge
  BY <1>0, <1>31, AccessAssumption DEF Merge, Settings, inMemory, limiter
<1>32. CASE MergePlays \/ Load \/ MergeFails \/ SyncUsers
  BY <1>0, <1>32 DEF MergePlays, Load, MergeFails, SyncUsers, onDisk, inMemory, limiter
<1>33. CASE Restart
  <2>1. Loaded \in Conf \cup {NoUrl}
    BY DEF Loaded
  <2> QED
    BY <1>0, <1>4, <1>5, <1>33, <2>1, AccessAssumption DEF Restart, Cleared, onDisk
<1> QED
  BY <1>1, <1>10, <1>11, <1>12, <1>13, <1>14, <1>15, <1>16, <1>17, <1>18, <1>19, <1>20, <1>21, <1>22, <1>23, <1>24,
     <1>25, <1>26, <1>27, <1>28, <1>29, <1>30, <1>31, <1>32, <1>33 DEF AccessStep

-----------------------------------------------------------------------------
(* The limiter *)

(* The browsers whose guess is on its way and counted. *)
UnderWay == {b \in Browsers : req[b].pc \in {"sign_in", "set_up"} /\ req[b].counted}

(* Whatever was refused or is under way has been counted. *)
GuessesAreCounted == wrong + Cardinality(UnderWay) <= attempts

LEMMA UnderWayIsFinite ==
  /\ IsFiniteSet(UnderWay) /\ Cardinality(UnderWay) \in Nat
  /\ \A S \in SUBSET UnderWay : IsFiniteSet(S) /\ Cardinality(S) \in Nat /\ Cardinality(S) <= Cardinality(UnderWay)
<1>1. IsFiniteSet(UnderWay)
  BY FS_Subset, AccessAssumption DEF UnderWay
<1>2. \A S \in SUBSET UnderWay : IsFiniteSet(S) /\ Cardinality(S) <= Cardinality(UnderWay)
  BY <1>1, FS_Subset
<1> QED
  BY <1>1, <1>2, FS_CardinalityType

LEMMA CountStep == AccessTypeOK /\ GuessesAreCounted /\ AccessStep => GuessesAreCounted'
<1> SUFFICES ASSUME AccessTypeOK, GuessesAreCounted, AccessStep PROVE GuessesAreCounted'
  OBVIOUS
<1>0. /\ req \in [Browsers -> Request] /\ attempts \in Nat /\ wrong \in Nat
      /\ \A b \in Browsers : req[b] \in Request
  BY AccessAssumption DEF AccessTypeOK
<1>1. ASSUME attempts' = attempts, wrong' = wrong, UnderWay' \subseteq UnderWay PROVE GuessesAreCounted'
  <2>1. Cardinality(UnderWay') <= Cardinality(UnderWay) /\ Cardinality(UnderWay') \in Nat /\ Cardinality(UnderWay) \in Nat
    BY <1>1, UnderWayIsFinite
  <2> QED
    BY <1>0, <1>1, <2>1 DEF GuessesAreCounted
<1>2. ASSUME attempts' = 0, wrong' = 0, UnderWay' = {} PROVE GuessesAreCounted'
  BY <1>2, FS_EmptySet DEF GuessesAreCounted
<1>3. ASSUME NEW b \in Browsers, attempts' = attempts + 1, wrong' = wrong, UnderWay' \subseteq UnderWay \cup {b} PROVE GuessesAreCounted'
  <2>1. IsFiniteSet(UnderWay \cup {b}) /\ Cardinality(UnderWay \cup {b}) <= Cardinality(UnderWay) + 1
    BY UnderWayIsFinite, FS_AddElement
  <2>2. Cardinality(UnderWay') <= Cardinality(UnderWay \cup {b}) /\ IsFiniteSet(UnderWay')
    BY <1>3, <2>1, FS_Subset
  <2>3. Cardinality(UnderWay') \in Nat /\ Cardinality(UnderWay \cup {b}) \in Nat /\ Cardinality(UnderWay) \in Nat
    BY <2>1, <2>2, UnderWayIsFinite, FS_CardinalityType
  <2> QED
    BY <1>0, <1>3, <2>1, <2>2, <2>3 DEF GuessesAreCounted
<1>4. ASSUME NEW b \in UnderWay, attempts' = attempts, wrong' = wrong + 1, UnderWay' \subseteq UnderWay \ {b} PROVE GuessesAreCounted'
  <2>1. Cardinality(UnderWay \ {b}) = Cardinality(UnderWay) - 1
    BY UnderWayIsFinite, FS_RemoveElement
  <2>2. IsFiniteSet(UnderWay \ {b})
    BY UnderWayIsFinite
  <2>3. Cardinality(UnderWay') <= Cardinality(UnderWay \ {b}) /\ IsFiniteSet(UnderWay')
    BY <1>4, <2>2, FS_Subset
  <2>4. Cardinality(UnderWay') \in Nat /\ Cardinality(UnderWay) \in Nat
    BY <2>3, UnderWayIsFinite, FS_CardinalityType
  <2> QED
    BY <1>0, <1>4, <2>1, <2>3, <2>4 DEF GuessesAreCounted
(* A request that goes on to anything but a guess. *)
<1>5. ASSUME NEW b \in Browsers, NEW r, r.pc \notin {"sign_in", "set_up"}, req' = [req EXCEPT ![b] = r]
      PROVE  UnderWay' \subseteq UnderWay \ {b}
  BY <1>0, <1>5 DEF UnderWay
<1>6. ASSUME NEW b \in Browsers, NEW r, r.pc \notin {"sign_in", "set_up"}, req' = [Uncounted(req) EXCEPT ![b] = r]
      PROVE  UnderWay' = {}
  BY <1>0, <1>6, MemoryForgotten DEF UnderWay
<1>7. Idle.pc \notin {"sign_in", "set_up"}
  BY DEF Idle
<1>10. ASSUME NEW b \in Browsers, NEW r, Go(b, r), Counted PROVE GuessesAreCounted'
  <2>1. UnderWay' \subseteq UnderWay \cup {b}
    BY <1>0, <1>10 DEF Go, UnderWay
  <2> QED
    BY <1>3, <1>10, <2>1 DEF Counted
<1>11. ASSUME NEW b \in Browsers, TurnedDown(b) PROVE GuessesAreCounted'
  <2>1. UnderWay' \subseteq UnderWay \ {b}
    BY <1>5, <1>7, <1>11 DEF TurnedDown, Over, Go
  <2>2. CASE req[b].counted
    BY <1>4, <1>11, <2>1, <2>2 DEF TurnedDown, UnderWay
  <2>3. CASE ~req[b].counted
    BY <1>1, <1>11, <2>1, <2>3 DEF TurnedDown
  <2> QED
    BY <2>2, <2>3
<1>12. ASSUME NEW b \in Browsers, Recognised(b) \/ GrantsRead(b) \/ TurnedAway(b) \/ StartSession(b)
                                \/ Verified(b) \/ NotVerified(b) \/ Visit(b) \/ Forbidden(b) PROVE GuessesAreCounted'
  BY <1>1, <1>5, <1>7, <1>12 DEF Recognised, GrantsRead, TurnedAway, StartSession, Verified, NotVerified, Visit, Forbidden,
                                 Over, Go, limiter
<1>13. ASSUME NEW b \in Browsers, StoreUrl(b) \/ StoreKey(b) \/ StoreSettings(b) PROVE GuessesAreCounted'
  <2> DEFINE r(x) == [req[b] EXCEPT !.pc = x]
  <2>1. r("store_key").pc = "store_key" /\ r("connect").pc = "connect" /\ r("apply").pc = "apply"
    BY <1>0 DEF Request, Idle, Trying, Entering, SettingUp, Asking, Saving
  <2>2. req' = [req EXCEPT ![b] = r("store_key")] \/ req' = [req EXCEPT ![b] = r("connect")] \/ req' = [req EXCEPT ![b] = r("apply")]
    BY <1>13 DEF StoreUrl, StoreKey, StoreSettings, Go
  <2> HIDE DEF r
  <2>3. UnderWay' \subseteq UnderWay
    BY <1>5, <2>1, <2>2
  <2> QED
    BY <1>1, <1>13, <2>3 DEF StoreUrl, StoreKey, StoreSettings, limiter
<1>14. ASSUME NEW b \in Browsers, LetIn(b) \/ Connect(b) PROVE GuessesAreCounted'
  BY <1>2, <1>6, <1>14 DEF LetIn, Connect, Cleared
<1>15. ASSUME NEW b \in Browsers, EndSession(b) PROVE GuessesAreCounted'
  BY <1>1, <1>15 DEF EndSession, limiter, UnderWay
<1>16. ASSUME NEW b \in Browsers, NEW op \in Ops, Asks(b, op) PROVE GuessesAreCounted'
  <2> DEFINE r == [pc |-> op, user |-> sessions[b].user, admin |-> sessions[b].admin,
                   grants |-> IF sessions[b].admin THEN {} ELSE grants[sessions[b].user]]
  <2>1. r.pc \notin {"sign_in", "set_up"} /\ req' = [req EXCEPT ![b] = r]
    BY <1>16 DEF Asks, Go, Ops
  <2>2. UnderWay' \subseteq UnderWay
    BY <1>5, <2>1
  <2> QED
    BY <1>1, <1>16, <2>2 DEF Asks, limiter
<1>17. ASSUME NEW b \in Browsers, ApplySettings(b) \/ StartRestore(b) PROVE GuessesAreCounted'
  BY <1>1, <1>5, <1>7, <1>17 DEF ApplySettings, StartRestore, Over, Go, limiter
<1>18. ASSUME NEW b \in Browsers, NEW patch, PutSettings(b, patch) PROVE GuessesAreCounted'
  BY <1>1, <1>5, <1>18 DEF PutSettings, Go, limiter
<1>19. ASSUME NEW b \in Browsers, NEW keys, PutDefaults(b, keys) PROVE GuessesAreCounted'
  BY <1>1, <1>5, <1>19 DEF PutDefaults, Go, limiter
<1>20. ASSUME NEW b \in Browsers, NEW u \in Users, NEW keys, PutUser(b, u, keys) PROVE GuessesAreCounted'
  BY <1>1, <1>5, <1>7, <1>20 DEF PutUser, Over, Go, limiter
<1>21. CASE WindowEnds
  BY <1>0, <1>2, <1>21, MemoryForgotten DEF WindowEnds, Cleared, UnderWay
<1>22. CASE Merge \/ MergePlays \/ Load \/ MergeFails \/ SyncUsers \/ \E u \in Users : JellyfinChanges(u)
  BY <1>1, <1>22 DEF Merge, MergePlays, Load, MergeFails, SyncUsers, JellyfinChanges, limiter, UnderWay
<1>23. CASE Restart
  BY <1>2, <1>23 DEF Restart, Cleared, Idle, UnderWay
<1>24. ASSUME NEW b \in Browsers, NEW u \in Users, Login(b, u) \/ \E url \in Urls : Setup(b, u, url) PROVE GuessesAreCounted'
  BY <1>10, <1>24 DEF Login, Setup
<1> QED
  BY <1>11, <1>12, <1>13, <1>14, <1>15, <1>16, <1>17, <1>18, <1>19, <1>20, <1>21, <1>22, <1>23, <1>24 DEF AccessStep

-----------------------------------------------------------------------------
(* Where access comes from *)

(* What is about to be stored has been asked for, too. *)
AskedFor ==
  /\ AccessComesFromAdministrators
  /\ \A b \in Browsers : req[b].pc \in {"store", "apply"} => req[b].next \in blessed

LEMMA AskedForStep == AccessTypeOK /\ AskedFor /\ AccessStep => AskedFor'
<1> SUFFICES ASSUME AccessTypeOK, AskedFor, AccessStep PROVE AskedFor'
  OBVIOUS
<1> USE DEF AskedFor, AccessComesFromAdministrators
<1>0. /\ req \in [Browsers -> Request] /\ \A b \in Browsers : req[b] \in Request
      /\ live \in Settings
  BY DEF AccessTypeOK
<1>1. Idle.pc \notin {"store", "apply"}
  BY DEF Idle
<1>2. \A b \in Browsers : Uncounted(req)[b].pc = req[b].pc /\ (req[b].pc \in {"store", "apply"} => Uncounted(req)[b] = req[b])
  BY <1>0, MemoryForgotten
<1>3. Uncounted(req) \in [Browsers -> Request]
  BY <1>0, MemoryForgotten
(* The address and the key are both in the database. *)
<1>4. ASSUME NEW b \in Browsers, NEW r, r.pc \notin {"store", "apply"}, Go(b, r) \/ req' = [Uncounted(req) EXCEPT ![b] = r],
             UNCHANGED <<stored, live, blessed>>
      PROVE  AskedFor'
  BY <1>0, <1>2, <1>3, <1>4 DEF Go
<1>10. ASSUME NEW b \in Browsers, NEW u \in Users, Login(b, u) \/ \E url \in Urls : Setup(b, u, url) PROVE AskedFor'
  <2>1. CASE Login(b, u)
    BY <1>4, <1>10, <2>1 DEF Login, onDisk, inMemory
  <2>2. CASE \E url \in Urls : Setup(b, u, url)
    BY <1>4, <1>10, <2>2 DEF Setup, onDisk, inMemory
  <2> QED
    BY <1>10, <2>1, <2>2
<1>11. ASSUME NEW b \in Browsers, TurnedDown(b) \/ TurnedAway(b) \/ StartSession(b) \/ NotVerified(b) \/ Visit(b) \/ Forbidden(b)
                                \/ StartRestore(b)
       PROVE AskedFor'
  BY <1>1, <1>4, <1>11 DEF TurnedDown, TurnedAway, StartSession, NotVerified, Visit, Forbidden, StartRestore, Over, onDisk, inMemory
<1>23. ASSUME NEW b \in Browsers, Recognised(b) \/ GrantsRead(b) \/ Verified(b) PROVE AskedFor'
  BY <1>4, <1>23 DEF Recognised, GrantsRead, Verified, onDisk, inMemory
<1>24. ASSUME NEW b \in Browsers, LetIn(b) \/ Connect(b) PROVE AskedFor'
  BY <1>4, <1>24 DEF LetIn, Connect, onDisk, inMemory
<1>12. ASSUME NEW b \in Browsers, StoreUrl(b) \/ StoreKey(b) PROVE AskedFor'
  <2> DEFINE r(x) == [req[b] EXCEPT !.pc = x]
  <2>1. r("store_key").pc = "store_key" /\ r("connect").pc = "connect"
    BY <1>0 DEF Request, Idle, Trying, Entering, SettingUp, Asking, Saving
  <2>2. Go(b, r("store_key")) \/ Go(b, r("connect"))
    BY <1>12 DEF StoreUrl, StoreKey
  <2>3. UNCHANGED <<stored, live, blessed>>
    BY <1>12 DEF StoreUrl, StoreKey, inMemory
  <2> HIDE DEF r
  <2> QED
    BY <1>4, <2>1, <2>2, <2>3
<1>13. ASSUME NEW b \in Browsers, EndSession(b) PROVE AskedFor'
  BY <1>13 DEF EndSession, onDisk, inMemory
<1>14. ASSUME NEW b \in Browsers, NEW op \in Ops, Asks(b, op) PROVE AskedFor'
  <2> DEFINE r == [pc |-> op, user |-> sessions[b].user, admin |-> sessions[b].admin,
                   grants |-> IF sessions[b].admin THEN {} ELSE grants[sessions[b].user]]
  <2>1. r.pc \notin {"store", "apply"} /\ Go(b, r)
    BY <1>14 DEF Asks, Ops
  <2> QED
    BY <1>4, <1>14, <2>1 DEF Asks, onDisk, inMemory
(* A manager's patch is empty and asks for nothing: it is what is in memory. *)
<1>15. ASSUME NEW b \in Browsers, NEW patch \in Patches, PutSettings(b, patch) PROVE AskedFor'
  <2> DEFINE next == [k \in {"allow", "defaults"} |-> IF k \in DOMAIN patch THEN patch[k] ELSE live[k]]
  <2>1. req[b].admin \/ DOMAIN patch = {}
    BY <1>15 DEF PutSettings, MayPatch
  <2>2. DOMAIN patch = {} => next = live
    BY <1>0 DEF Settings
  <2>3. next \in blessed' /\ blessed \subseteq blessed'
    BY <1>15, <2>1, <2>2 DEF PutSettings
  <2>4. req' = [req EXCEPT ![b] = [pc |-> "store", admin |-> req[b].admin, next |-> next]]
    BY <1>15 DEF PutSettings, Go
  <2>5. stored' = stored /\ live' = live
    BY <1>15 DEF PutSettings, onDisk, inMemory
  <2> QED
    BY <1>0, <2>3, <2>4, <2>5
<1>16. ASSUME NEW b \in Browsers, NEW keys, PutDefaults(b, keys) PROVE AskedFor'
  <2> DEFINE next == [allow |-> "sign_in" \in keys, defaults |-> keys \ {"sign_in"}]
  <2>1. /\ req' = [req EXCEPT ![b] = [pc |-> "store", admin |-> req[b].admin, next |-> next]]
        /\ blessed' = blessed \cup {next} /\ stored' = stored /\ live' = live
    BY <1>16 DEF PutDefaults, Go, onDisk, inMemory
  <2> HIDE DEF next
  <2> QED
    BY <1>0, <2>1
<1>17. ASSUME NEW b \in Browsers, NEW u \in Users, NEW keys, PutUser(b, u, keys) PROVE AskedFor'
  BY <1>1, <1>4, <1>17 DEF PutUser, Over, inMemory
<1>18. ASSUME NEW b \in Browsers, StoreSettings(b) PROVE AskedFor'
  <2>1. req[b].next \in blessed /\ [req[b] EXCEPT !.pc = "apply"].next = req[b].next
    BY <1>0, <1>18, Carried DEF StoreSettings, Saving
  <2> QED
    BY <1>0, <1>18, <2>1 DEF StoreSettings, Go, inMemory
<1>19. ASSUME NEW b \in Browsers, ApplySettings(b) PROVE AskedFor'
  BY <1>0, <1>1, <1>19 DEF ApplySettings, Over, Go, onDisk
<1>20. CASE WindowEnds
  BY <1>2, <1>20 DEF WindowEnds, onDisk, inMemory
<1>21. CASE Merge \/ MergePlays \/ Load \/ MergeFails \/ SyncUsers \/ \E u \in Users : JellyfinChanges(u)
  BY <1>21 DEF Merge, MergePlays, Load, MergeFails, SyncUsers, JellyfinChanges, onDisk, inMemory
<1>22. CASE Restart
  BY <1>22 DEF Restart, Idle, onDisk
<1> QED
  BY <1>10, <1>11, <1>12, <1>13, <1>14, <1>15, <1>16, <1>17, <1>18, <1>19, <1>20, <1>21, <1>22, <1>23, <1>24 DEF AccessStep

-----------------------------------------------------------------------------
(* Sessions and the set-up *)

(* A connection that a start will find. *)
StoredWhole == conf.url # NoUrl /\ conf.key # NoUrl

(* A set-up stores the address first, the key second, and gives out the      *)
(* session last; and only where there is a connection does anybody sign in.  *)
SetUpInOrder ==
  /\ (\E b \in Browsers : sessions[b] # NoSession) => StoredWhole
  /\ config # NoUrl => StoredWhole
  /\ \A b \in Browsers :
       /\ req[b].pc \in {"sign_in", "known", "granted", "in", "connect"} => StoredWhole
       /\ req[b].pc = "store_key" => conf.url # NoUrl

LEMMA SetUpStep == AccessTypeOK /\ SetUpInOrder /\ AccessStep => SetUpInOrder'
<1> SUFFICES ASSUME AccessTypeOK, SetUpInOrder, AccessStep PROVE SetUpInOrder'
  OBVIOUS
<1> USE DEF SetUpInOrder, StoredWhole
<1>0. /\ req \in [Browsers -> Request] /\ \A b \in Browsers : req[b] \in Request
      /\ sessions \in [Browsers -> Session \cup {NoSession}] /\ conf \in Conf
  BY DEF AccessTypeOK
<1>1. Idle.pc \notin {"sign_in", "known", "granted", "in", "connect", "store_key"}
  BY DEF Idle
<1>2. Uncounted(req) \in [Browsers -> Request] /\ \A b \in Browsers : Uncounted(req)[b].pc = req[b].pc
  BY <1>0, MemoryForgotten
(* A request that goes no further than it is. *)
<1>3. ASSUME NEW b \in Browsers, NEW r, Go(b, r) \/ req' = [Uncounted(req) EXCEPT ![b] = r], UNCHANGED <<conf, config, sessions>>,
             r.pc \in {"sign_in", "known", "granted", "in", "connect"} => StoredWhole, r.pc = "store_key" => conf.url # NoUrl
      PROVE  SetUpInOrder'
  BY <1>0, <1>2, <1>3 DEF Go
<1>10. ASSUME NEW b \in Browsers, NEW u \in Users, Login(b, u) PROVE SetUpInOrder'
  BY <1>3, <1>10 DEF Login, onDisk, inMemory
<1>11. ASSUME NEW b \in Browsers, NEW u \in Users, NEW url \in Urls, Setup(b, u, url) PROVE SetUpInOrder'
  BY <1>3, <1>11 DEF Setup, onDisk, inMemory
<1>12. ASSUME NEW b \in Browsers, TurnedDown(b) \/ TurnedAway(b) \/ NotVerified(b) \/ Visit(b) \/ Forbidden(b) \/ StartRestore(b)
       PROVE SetUpInOrder'
  BY <1>1, <1>3, <1>12 DEF TurnedDown, TurnedAway, NotVerified, Visit, Forbidden, StartRestore, Over, onDisk, inMemory
<1>13. ASSUME NEW b \in Browsers, Recognised(b) \/ GrantsRead(b) \/ Verified(b) PROVE SetUpInOrder'
  BY <1>3, <1>13 DEF Recognised, GrantsRead, Verified, onDisk, inMemory
<1>14. ASSUME NEW b \in Browsers, LetIn(b) PROVE SetUpInOrder'
  BY <1>3, <1>14 DEF LetIn, onDisk, inMemory
<1>15. ASSUME NEW b \in Browsers, StartSession(b) PROVE SetUpInOrder'
  BY <1>0, <1>1, <1>15 DEF StartSession, Over, Go, onDisk, inMemory
<1>16. ASSUME NEW b \in Browsers, EndSession(b) PROVE SetUpInOrder'
  BY <1>0, <1>16 DEF EndSession, onDisk, inMemory
<1>17. ASSUME NEW b \in Browsers, StoreUrl(b) \/ StoreKey(b) PROVE SetUpInOrder'
  <2> DEFINE r(x) == [req[b] EXCEPT !.pc = x]
  <2>1. r("store_key").pc = "store_key" /\ r("connect").pc = "connect"
    BY <1>0 DEF Request, Idle, Trying, Entering, SettingUp, Asking, Saving
  <2>2. req[b].url \in Urls /\ req[b].url # NoUrl
    BY <1>0, <1>17, Carried, AccessAssumption DEF StoreUrl, StoreKey
  <2>3. sessions' = sessions /\ config' = config
    BY <1>17 DEF StoreUrl, StoreKey, inMemory
  <2>4. CASE StoreUrl(b)
    <3>1. conf'.url = req[b].url /\ conf'.key = conf.key /\ req' = [req EXCEPT ![b] = r("store_key")]
      BY <1>0, <2>4 DEF StoreUrl, Go, Conf
    <3> HIDE DEF r
    <3> QED
      BY <1>0, <2>1, <2>2, <2>3, <3>1
  <2>5. CASE StoreKey(b)
    <3>1. conf'.url = conf.url /\ conf'.key = req[b].url /\ req' = [req EXCEPT ![b] = r("connect")] /\ conf.url # NoUrl
      BY <1>0, <2>5 DEF StoreKey, Go, Conf
    <3> HIDE DEF r
    <3> QED
      BY <1>0, <2>1, <2>2, <2>3, <3>1
  <2> QED
    BY <1>17, <2>4, <2>5
<1>18. ASSUME NEW b \in Browsers, Connect(b) PROVE SetUpInOrder'
  <2>1. StoredWhole /\ conf' = conf /\ sessions' = sessions
    BY <1>18 DEF Connect, onDisk
  <2>2. req' = [Uncounted(req) EXCEPT ![b] = [pc |-> "in", user |-> req[b].user, admin |-> TRUE]]
    BY <1>18 DEF Connect
  <2> QED
    BY <1>0, <1>2, <2>1, <2>2
<1>19. ASSUME NEW b \in Browsers, NEW op \in Ops, Asks(b, op) PROVE SetUpInOrder'
  <2> DEFINE r == [pc |-> op, user |-> sessions[b].user, admin |-> sessions[b].admin,
                   grants |-> IF sessions[b].admin THEN {} ELSE grants[sessions[b].user]]
  <2>1. r.pc \notin {"sign_in", "known", "granted", "in", "connect", "store_key"} /\ Go(b, r)
    BY <1>19 DEF Asks, Ops
  <2>2. UNCHANGED <<conf, config, sessions>>
    BY <1>19 DEF Asks, onDisk, inMemory
  <2> HIDE DEF r
  <2> QED
    BY <1>3, <2>1, <2>2
<1>20. ASSUME NEW b \in Browsers, NEW patch, PutSettings(b, patch) PROVE SetUpInOrder'
  BY <1>3, <1>20 DEF PutSettings, onDisk, inMemory
<1>21. ASSUME NEW b \in Browsers, NEW keys, PutDefaults(b, keys) PROVE SetUpInOrder'
  BY <1>3, <1>21 DEF PutDefaults, onDisk, inMemory
<1>22. ASSUME NEW b \in Browsers, NEW u \in Users, NEW keys, PutUser(b, u, keys) PROVE SetUpInOrder'
  BY <1>1, <1>3, <1>22 DEF PutUser, Over, inMemory
<1>23. ASSUME NEW b \in Browsers, StoreSettings(b) \/ ApplySettings(b) PROVE SetUpInOrder'
  <2>1. [req[b] EXCEPT !.pc = "apply"].pc = "apply"
    BY <1>0 DEF Request, Idle, Trying, Entering, SettingUp, Asking, Saving
  <2>2. UNCHANGED <<conf, config, sessions>> /\ (Go(b, Idle) \/ Go(b, [req[b] EXCEPT !.pc = "apply"]))
    BY <1>23 DEF StoreSettings, ApplySettings, Over, onDisk, inMemory
  <2> QED
    BY <1>1, <1>3, <2>1, <2>2
<1>24. CASE WindowEnds
  BY <1>2, <1>24 DEF WindowEnds, onDisk, inMemory
<1>25. CASE Merge \/ MergePlays \/ Load \/ MergeFails \/ SyncUsers \/ \E u \in Users : JellyfinChanges(u)
  BY <1>25 DEF Merge, MergePlays, Load, MergeFails, SyncUsers, JellyfinChanges, onDisk, inMemory
<1>26. CASE Restart
  BY <1>26 DEF Restart, Idle, Loaded, onDisk
<1> QED
  BY <1>10, <1>11, <1>12, <1>13, <1>14, <1>15, <1>16, <1>17, <1>18, <1>19, <1>20, <1>21, <1>22, <1>23, <1>24, <1>25, <1>26
  DEF AccessStep

-----------------------------------------------------------------------------
(* Who is served *)

(* The session and the grants a request was asked with made its user         *)
(* entitled then, and the settings make them so now.                         *)
EntitledIsNoted ==
  /\ ServedWhileEntitled
  /\ \A b \in Browsers : (req[b].pc \in Ops /\ (EntitledNow(b) \/ "sign_in" \in req[b].grants)) => b \in since

(* What a step may do about the request of c: it leaves the served when it   *)
(* begins, joins them by a visit, and only an asking brings an operation.    *)
Moves(c) ==
  /\ c \in served' => (c \in served /\ (req'[c] # req[c] => req[c] # Idle)) \/ Visit(c)
  /\ req'[c].pc \in Ops => req'[c] = req[c] \/ \E op \in Ops : Asks(c, op)

LEMMA StepMoves == AccessTypeOK /\ AccessStep => \A c \in Browsers : Moves(c)
<1> SUFFICES ASSUME AccessTypeOK, AccessStep PROVE \A c \in Browsers : Moves(c)
  OBVIOUS
<1>0. /\ req \in [Browsers -> Request] /\ \A b \in Browsers : req[b] \in Request
      /\ Idle.pc \notin Ops
  BY DEF AccessTypeOK, Idle, Ops
<1>1. \A b \in Browsers : (req[b] = Idle <=> req[b].pc = "idle")
  BY <1>0, Carried
<1>2. /\ Uncounted(req) \in [Browsers -> Request]
      /\ \A b \in Browsers : /\ Uncounted(req)[b].pc = req[b].pc
                             /\ Uncounted(req)[b] # req[b] => req[b].pc \in {"sign_in", "set_up"}
  BY <1>0, MemoryForgotten
<1>3. ASSUME NEW b \in Browsers, NEW r, r.pc \notin Ops, Go(b, r), served' = served \ {b}
      PROVE  \A c \in Browsers : Moves(c)
  BY <1>0, <1>3 DEF Go, Moves
<1>4. ASSUME NEW b \in Browsers, NEW r, r.pc \notin Ops, Go(b, r), req[b].pc # "idle", served' = served
      PROVE  \A c \in Browsers : Moves(c)
  BY <1>0, <1>1, <1>4 DEF Go, Moves
<1>5. ASSUME NEW b \in Browsers, NEW r, r.pc \notin Ops, req' = [Uncounted(req) EXCEPT ![b] = r], req[b].pc # "idle", served' = served
      PROVE  \A c \in Browsers : Moves(c)
  <2> TAKE c \in Browsers
  <2>1. CASE c = b
    BY <1>1, <1>2, <1>5, <2>1 DEF Moves
  <2>2. CASE c # b
    <3>1. req'[c] = Uncounted(req)[c]
      BY <1>2, <1>5, <2>2
    <3>2. req'[c] # req[c] => req[c] # Idle /\ req'[c].pc \notin Ops
      BY <1>1, <1>2, <3>1 DEF Ops
    <3> QED
      BY <1>5, <3>2 DEF Moves
  <2> QED
    BY <2>1, <2>2
<1>6. ASSUME req' = req, served' \subseteq served PROVE \A c \in Browsers : Moves(c)
  BY <1>6 DEF Moves
<1>10. ASSUME NEW b \in Browsers, NEW u \in Users, Login(b, u) PROVE \A c \in Browsers : Moves(c)
  BY <1>3, <1>10 DEF Login, Ops
<1>11. ASSUME NEW b \in Browsers, NEW u \in Users, NEW url \in Urls, Setup(b, u, url) PROVE \A c \in Browsers : Moves(c)
  BY <1>3, <1>11 DEF Setup, Ops
<1>12. ASSUME NEW b \in Browsers, TurnedDown(b) \/ TurnedAway(b) \/ NotVerified(b) \/ StartSession(b) \/ Forbidden(b)
                                  \/ StartRestore(b) \/ ApplySettings(b)
       PROVE \A c \in Browsers : Moves(c)
  <2>1. req[b].pc # "idle"
    BY <1>12 DEF TurnedDown, TurnedAway, NotVerified, StartSession, Forbidden, StartRestore, ApplySettings, Ops
  <2> QED
    BY <1>0, <1>4, <1>12, <2>1 DEF TurnedDown, TurnedAway, NotVerified, StartSession, Forbidden, StartRestore, ApplySettings, Over
<1>13. ASSUME NEW b \in Browsers, Recognised(b) \/ GrantsRead(b) \/ Verified(b) PROVE \A c \in Browsers : Moves(c)
  BY <1>4, <1>13 DEF Recognised, GrantsRead, Verified, Ops
<1>14. ASSUME NEW b \in Browsers, LetIn(b) \/ Connect(b) PROVE \A c \in Browsers : Moves(c)
  BY <1>5, <1>14 DEF LetIn, Connect, Ops
<1>15. ASSUME NEW b \in Browsers, StoreUrl(b) \/ StoreKey(b) \/ StoreSettings(b) PROVE \A c \in Browsers : Moves(c)
  <2> DEFINE r(x) == [req[b] EXCEPT !.pc = x]
  <2>1. r("store_key").pc \notin Ops /\ r("connect").pc \notin Ops /\ r("apply").pc \notin Ops
    BY <1>0 DEF Request, Idle, Trying, Entering, SettingUp, Asking, Saving, Ops
  <2>2. Go(b, r("store_key")) \/ Go(b, r("connect")) \/ Go(b, r("apply"))
    BY <1>15 DEF StoreUrl, StoreKey, StoreSettings
  <2>3. req[b].pc # "idle" /\ served' = served
    BY <1>15 DEF StoreUrl, StoreKey, StoreSettings
  <2> HIDE DEF r
  <2> QED
    BY <1>4, <2>1, <2>2, <2>3
<1>16. ASSUME NEW b \in Browsers, EndSession(b) PROVE \A c \in Browsers : Moves(c)
  BY <1>6, <1>16 DEF EndSession
<1>17. ASSUME NEW b \in Browsers, NEW op \in Ops, Asks(b, op) PROVE \A c \in Browsers : Moves(c)
  <2> TAKE c \in Browsers
  <2>1. CASE c = b
    <3>1. c \notin served'
      BY <1>17, <2>1 DEF Asks
    <3> QED
      BY <1>17, <2>1, <3>1 DEF Moves
  <2>2. CASE c # b
    <3>1. req'[c] = req[c] /\ served' \subseteq served
      BY <1>0, <1>17, <2>2 DEF Asks, Go
    <3> QED
      BY <3>1 DEF Moves
  <2> QED
    BY <2>1, <2>2
<1>18. ASSUME NEW b \in Browsers, Visit(b) PROVE \A c \in Browsers : Moves(c)
  <2> TAKE c \in Browsers
  <2>1. CASE c = b
    <3>1. Visit(c) /\ req'[c] = Idle
      BY <1>0, <1>18, <2>1 DEF Visit, Over, Go
    <3> QED
      BY <1>0, <3>1 DEF Moves
  <2>2. CASE c # b
    <3>1. req'[c] = req[c] /\ (c \in served' => c \in served)
      BY <1>0, <1>18, <2>2 DEF Visit, Over, Go
    <3> QED
      BY <3>1 DEF Moves
  <2> QED
    BY <2>1, <2>2
<1>19. ASSUME NEW b \in Browsers, NEW patch, PutSettings(b, patch) PROVE \A c \in Browsers : Moves(c)
  BY <1>4, <1>19 DEF PutSettings, Ops
<1>20. ASSUME NEW b \in Browsers, NEW keys, PutDefaults(b, keys) PROVE \A c \in Browsers : Moves(c)
  BY <1>4, <1>20 DEF PutDefaults, Ops
<1>21. ASSUME NEW b \in Browsers, NEW u \in Users, NEW keys, PutUser(b, u, keys) PROVE \A c \in Browsers : Moves(c)
  BY <1>0, <1>4, <1>21 DEF PutUser, Over
<1>22. CASE WindowEnds
  <2>1. req' = Uncounted(req) /\ served' = served
    BY <1>22 DEF WindowEnds
  <2>2. ASSUME NEW c \in Browsers PROVE Moves(c)
    <3>1. req'[c] # req[c] => req[c] # Idle /\ req'[c].pc \notin Ops
      BY <1>1, <1>2, <2>1 DEF Ops
    <3> QED
      BY <2>1, <3>1 DEF Moves
  <2> QED
    BY <2>2
<1>23. CASE Merge \/ MergePlays \/ Load \/ MergeFails \/ SyncUsers \/ \E u \in Users : JellyfinChanges(u)
  BY <1>6, <1>23 DEF Merge, MergePlays, Load, MergeFails, SyncUsers, JellyfinChanges
<1>24. CASE Restart
  BY <1>0, <1>24 DEF Restart, Moves
<1> QED
  BY <1>10, <1>11, <1>12, <1>13, <1>14, <1>15, <1>16, <1>17, <1>18, <1>19, <1>20, <1>21, <1>22, <1>23, <1>24 DEF AccessStep

LEMMA ServedStep == AccessTypeOK /\ EntitledIsNoted /\ AccessNext => EntitledIsNoted'
<1> SUFFICES ASSUME AccessTypeOK, EntitledIsNoted, AccessNext PROVE EntitledIsNoted'
  OBVIOUS
<1>0. /\ \A b \in Browsers : req[b] \in Request
      /\ served' \subseteq Browsers
  BY AccessTypeStep DEF AccessTypeOK
<1>1. \A c \in Browsers : Moves(c)
  BY StepMoves DEF AccessNext
<1>2. \A c \in Browsers : c \in since' <=> \/ c \in since /\ (req'[c] # req[c] => req[c] # Idle)
                                           \/ req'[c].pc \in Ops /\ EntitledNow(c)'
  BY DEF AccessNext
<1>3. ASSUME NEW c \in served' PROVE c \in since'
  <2>0. c \in Browsers
    BY <1>0, <1>3
  <2>1. CASE c \in served /\ (req'[c] # req[c] => req[c] # Idle)
    BY <1>2, <2>0, <2>1 DEF EntitledIsNoted, ServedWhileEntitled
  <2>2. CASE Visit(c)
    <3>1. req[c].pc = "visit" /\ req[c] # Idle
      BY <2>2 DEF Visit, Idle
    <3>2. EntitledNow(c) \/ "sign_in" \in req[c].grants
      BY <2>2 DEF Visit, MaySignIn, EntitledNow
    <3> QED
      BY <1>2, <2>0, <3>1, <3>2 DEF EntitledIsNoted, Ops
  <2> QED
    BY <1>1, <2>0, <2>1, <2>2 DEF Moves
<1>4. ASSUME NEW c \in Browsers, req'[c].pc \in Ops, EntitledNow(c)' \/ "sign_in" \in req'[c].grants PROVE c \in since'
  <2>1. CASE req'[c] = req[c]
    <3>1. CASE EntitledNow(c)'
      BY <1>2, <1>4, <3>1
    <3>2. CASE "sign_in" \in req'[c].grants
      <4>1. c \in since
        BY <1>4, <2>1, <3>2 DEF EntitledIsNoted
      <4> QED
        BY <1>2, <2>1, <4>1
    <3> QED
      BY <1>4, <3>1, <3>2
  <2>2. CASE \E op \in Ops : Asks(c, op)
    <3>1. PICK op \in Ops : Asks(c, op)
      BY <2>2
    <3> DEFINE s == sessions[c]
               r == [pc |-> op, user |-> s.user, admin |-> s.admin, grants |-> IF s.admin THEN {} ELSE grants[s.user]]
    <3>2. req'[c] = r /\ grants' = grants
      BY <3>1 DEF Asks, Go, onDisk, AccessTypeOK
    <3>3. r.grants = (IF s.admin THEN {} ELSE grants[s.user]) /\ r.user = s.user
      OBVIOUS
    <3> HIDE DEF s, r
    <3>4. "sign_in" \in r.grants => "sign_in" \in grants'[req'[c].user]
      BY <3>2, <3>3
    <3>5. EntitledNow(c)'
      BY <1>4, <3>2, <3>4 DEF EntitledNow
    <3> QED
      BY <1>2, <1>4, <3>5
  <2> QED
    BY <1>1, <1>4, <2>1, <2>2 DEF Moves
<1> QED
  BY <1>3, <1>4 DEF EntitledIsNoted, ServedWhileEntitled

-----------------------------------------------------------------------------
(* The beginning, and the theorems *)

AccessInv == AccessTypeOK /\ GuessesAreCounted /\ AskedFor /\ SetUpInOrder /\ EntitledIsNoted

LEMMA AccessStart == AccessInit => AccessInv
<1> SUFFICES ASSUME AccessInit PROVE AccessInv
  OBVIOUS
<1>0. \A b \in Browsers : req[b] = Idle
  BY DEF AccessInit
<1>1. /\ stored \in Settings /\ live \in Settings /\ conf \in Conf /\ config \in Conf \cup {NoUrl}
      /\ grants \in [Users -> SUBSET Keys] /\ sessions \in [Browsers -> Session \cup {NoSession}]
      /\ (\E b \in Browsers : sessions[b] # NoSession) => StoredWhole
      /\ config # NoUrl => StoredWhole
  <2>1. CASE NewInstall
    <3>1. Fresh \in Settings
      BY AccessAssumption DEF Fresh, Settings
    <3> QED
      BY <2>1, <3>1 DEF NewInstall, AccessInit, Conf
  <2>2. CASE InUse
    <3> DEFINE first == CHOOSE url \in Urls : TRUE
    <3>1. first \in Urls /\ first # NoUrl
      BY AccessAssumption
    <3>2. conf = [url |-> first, key |-> first] /\ config = conf
      BY <2>2 DEF InUse
    <3>3. conf \in Conf /\ StoredWhole
      BY <3>1, <3>2 DEF Conf, StoredWhole
    <3>4. sessions \in [Browsers -> Session]
      <4>1. \A u \in Users : [user |-> u, admin |-> u \in admins] \in Session
        BY DEF Session
      <4> QED
        BY <2>2, <4>1 DEF InUse
    <3>5. grants \in [Users -> SUBSET Keys] /\ stored \in Settings
      BY <2>2 DEF InUse
    <3> QED
      BY <3>2, <3>3, <3>4, <3>5 DEF AccessInit
  <2> QED
    BY <2>1, <2>2 DEF AccessInit
<1>2. AccessTypeOK
  <2>1. admins \subseteq Users /\ known \subseteq Users
    BY AccessAssumption DEF AccessInit
  <2>2. Idle \in Request
    BY DEF Request
  <2> QED
    BY <1>1, <2>1, <2>2, AccessAssumption DEF AccessInit, AccessTypeOK
<1>3. GuessesAreCounted
  <2>1. UnderWay = {}
    BY <1>0 DEF UnderWay, Idle
  <2> QED
    BY <2>1, FS_EmptySet DEF AccessInit, GuessesAreCounted
<1>4. AskedFor
  BY <1>0 DEF AccessInit, AskedFor, AccessComesFromAdministrators, Idle
<1>5. SetUpInOrder
  BY <1>0, <1>1 DEF SetUpInOrder, Idle
<1>6. EntitledIsNoted
  BY <1>0 DEF AccessInit, EntitledIsNoted, ServedWhileEntitled, Idle, Ops
<1> QED
  BY <1>2, <1>3, <1>4, <1>5, <1>6 DEF AccessInv

(* The invariant holds in every reachable state: the types, the counted      *)
(* guesses, the settings asked for, the order of a set-up and the noted      *)
(* entitlement, each kept by every step on the strength of the types alone.  *)
THEOREM AccessInvariant == AccessSpec => []AccessInv
<1>1. AccessInv /\ [AccessNext]_accessVars => AccessInv'
  <2> SUFFICES ASSUME AccessInv, [AccessNext]_accessVars PROVE AccessInv'
    OBVIOUS
  <2>1. CASE AccessNext
    BY <2>1, AccessTypeStep, CountStep, AskedForStep, SetUpStep, ServedStep DEF AccessInv, AccessNext
  <2>2. CASE UNCHANGED accessVars
    <3>1. AccessTypeOK'
      BY <2>2 DEF AccessInv, accessVars, AccessTypeOK
    <3>2. GuessesAreCounted'
      BY <2>2 DEF AccessInv, accessVars, GuessesAreCounted, UnderWay
    <3>3. AskedFor'
      BY <2>2 DEF AccessInv, accessVars, AskedFor, AccessComesFromAdministrators
    <3>4. SetUpInOrder'
      BY <2>2 DEF AccessInv, accessVars, SetUpInOrder, StoredWhole
    <3>5. EntitledIsNoted'
      BY <2>2 DEF AccessInv, accessVars, EntitledIsNoted, ServedWhileEntitled, EntitledNow
    <3> QED
      BY <3>1, <3>2, <3>3, <3>4, <3>5 DEF AccessInv
  <2> QED
    BY <2>1, <2>2
<1> QED
  BY <1>1, AccessStart, PTL DEF AccessSpec

(* However many guesses are on their way at once, no more than MAX_ATTEMPTS  *)
(* of them are made before one is right or the window is over.               *)
THEOREM AttemptsAreLimited == AccessSpec => []AttemptsHold
<1>1. AccessInv => AttemptsHold
  <2> SUFFICES ASSUME AccessInv PROVE AttemptsHold
    OBVIOUS
  <2>1. Cardinality(UnderWay) \in Nat
    BY UnderWayIsFinite
  <2>2. wrong + Cardinality(UnderWay) <= attempts /\ attempts \in 0..MaxAttempts /\ wrong \in Nat
    BY DEF AccessInv, GuessesAreCounted, AccessTypeOK
  <2>3. wrong + Cardinality(UnderWay) <= MaxAttempts
    BY <2>1, <2>2, AccessAssumption
  <2> QED
    BY <2>3 DEF AttemptsHold, UnderWay
<1> QED
  BY <1>1, AccessInvariant, PTL

(* What decides about access, in the row and in memory, is what an           *)
(* administrator or a restored backup asked for at some time.                *)
THEOREM AccessIsAsked == AccessSpec => []AccessComesFromAdministrators
<1>1. AccessInv => AccessComesFromAdministrators
  BY DEF AccessInv, AskedFor
<1> QED
  BY <1>1, AccessInvariant, PTL

(* Whoever has a session has it of a server whose connection is stored.      *)
THEOREM SessionsNeedASetUp == AccessSpec => []SignedInMeansSetUp
<1>1. AccessInv => SignedInMeansSetUp
  <2> SUFFICES ASSUME AccessInv, \E b \in Browsers : sessions[b] # NoSession PROVE Loaded # NoUrl
    BY DEF SignedInMeansSetUp
  <2>1. StoredWhole /\ conf \in Conf
    BY DEF AccessInv, SetUpInOrder, AccessTypeOK
  <2>2. conf \in [url : Urls, key : Urls]
    BY <2>1 DEF StoredWhole, Conf
  <2> QED
    BY <2>1, <2>2, AccessAssumption DEF Loaded, StoredWhole
<1> QED
  BY <1>1, AccessInvariant, PTL

(* A request is only served to somebody who was entitled at some moment of   *)
(* it, whatever changes between the three readings.                          *)
THEOREM ServedOnlyWhileEntitled == AccessSpec => []ServedWhileEntitled
<1>1. AccessInv => ServedWhileEntitled
  BY DEF AccessInv, EntitledIsNoted
<1> QED
  BY <1>1, AccessInvariant, PTL

=============================================================================
