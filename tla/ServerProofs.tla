---------------------------- MODULE ServerProofs ----------------------------
(* What holds of the parts of the server, for any users, connections,        *)
(* downloads and plays: the gate in front of /Sessions, the schedule of the  *)
(* library scans, the connections to other services, what is downloaded, the *)
(* plays as they are kept over the years, and the parts side by side.        *)
EXTENDS MCServer, AccessProofs, DataInduction, FiniteSetTheorems, TLAPS

(***************************************************************************)
(* The gate in front of /Sessions and the clocks of the net                *)
(***************************************************************************)

(* Nothing asked and nothing read is of the right type. *)
LEMMA TypeInit == Init => TypeOK
<1>1. IsFiniteSet({})
  BY FS_EmptySet
<1> SUFFICES ASSUME Init PROVE TypeOK
  OBVIOUS
<1>2. /\ asked \in [Callers -> Ask \cup {Nothing}]
      /\ until \in [Callers -> Nat] /\ alone \in [Callers -> Nat]
      /\ tries \in 0..MaxTries
  BY LimitsAssumption DEF Init
<1>3. at \subseteq made /\ made \subseteq Read /\ IsFiniteSet(made)
  BY <1>1 DEF Init
<1> QED
  BY <1>2, <1>3 DEF Init, TypeOK

(* What a caller came with has a time and a kind. *)
LEMMA CallerFields ==
  ASSUME TypeOK, NEW c \in Callers, asked[c] # Nothing
  PROVE  asked[c] \in Ask /\ asked[c].at \in Nat /\ asked[c].kind \in Kinds
  BY DEF TypeOK, Ask

(* A saturating difference is a natural number. *)
LEMMA SinceNat ==
  ASSUME NEW t \in Nat, NEW u0 \in Nat
  PROVE  Since(t, u0) \in Nat
  BY DEF Since

(* What the gate tells a caller is a time. *)
LEMMA HowLongNat ==
  ASSUME TypeOK, NEW t \in Nat, NEW w \in HowLong(t)
  PROVE  w \in Nat
<1>1. \A e \in at : e.at \in Nat
  BY DEF TypeOK, Read
<1>2. PICK e \in at : w = Since(e.at + Second, t) + 1 \/ w = Since(e.at + Minute, t) + 1
  BY DEF HowLong, FreeIn
<1>3. e.at + Second \in Nat /\ e.at + Minute \in Nat
  BY <1>1, LimitsAssumption
<1>4. Since(e.at + Second, t) \in Nat /\ Since(e.at + Minute, t) \in Nat
  BY <1>3, SinceNat
<1> QED
  BY <1>2, <1>4

(* What the gate remembers of a caller is a read. *)
LEMMA EntryType ==
  ASSUME TypeOK, NEW c \in Callers, asked[c] # Nothing
  PROVE  Entry(c) \in Read
  BY CallerFields DEF Entry, Read, TypeOK

(* Every step keeps the types. *)
LEMMA BudgetTypeStep == TypeOK /\ TriesLeft /\ [Next]_vars => TypeOK'
<1> SUFFICES ASSUME TypeOK, TriesLeft, [Next]_vars PROVE TypeOK'
  OBVIOUS
<1> USE DEF TypeOK
<1>1. CASE Pushed
  BY <1>1 DEF Pushed, Hear, gate
<1>2. ASSUME NEW on \in BOOLEAN, Subscription(on) PROVE TypeOK'
  BY <1>2 DEF Subscription, Hear, gate
<1>3. ASSUME NEW c \in Callers, NEW kind \in Kinds, Come(c, kind),
             activity' \in Nat, read' \in Nat
      PROVE  TypeOK'
  <2>1. [at |-> now, kind |-> kind] \in Ask
    BY DEF Ask
  <2> QED
    BY <1>3, <2>1 DEF Come, gate
<1>4. CASE AskPoll
  BY <1>3, <1>4 DEF AskPoll, Rearm, Callers, Kinds
<1>5. CASE AskSafety
  BY <1>3, <1>5 DEF AskSafety, Rearm, Callers, Kinds
<1>6. CASE AskCheck
  BY <1>3, <1>6 DEF AskCheck, Callers, Kinds
<1>7. ASSUME NEW c \in Callers, Granted(c) PROVE TypeOK'
  <2>1. Entry(c) \in Read
    BY <1>7, EntryType DEF Granted, Take
  <2>2. IsFiniteSet(made')
    BY <1>7, FS_AddElement DEF Granted
  <2>3. at' \subseteq made' /\ made' \subseteq Read
    BY <1>7, <2>1 DEF Granted, Pruned
  <2>4. tries' \in 0..MaxTries /\ alone' \in [Callers -> Nat]
    BY <1>7, LimitsAssumption DEF Granted
  <2> QED
    BY <1>7, <2>2, <2>3, <2>4 DEF Granted, Take, net
<1>8. ASSUME NEW c \in Callers, Refused(c) PROVE TypeOK'
  <2>1. asked[c] # Nothing /\ asked[c].at \in Nat
    BY <1>8, CallerFields DEF Refused, Take
  <2>2. until' \in [Callers -> Nat] /\ alone' \in [Callers -> Nat]
    BY <1>8, <2>1, HowLongNat DEF Refused, Sleep
  <2>3. tries' \in 0..MaxTries
    BY <1>8, <2>1, LimitsAssumption DEF Refused, TriesLeft
  <2>4. at' \subseteq made'
    BY <1>8 DEF Refused, Pruned
  <2> QED
    BY <1>8, <2>2, <2>3, <2>4 DEF Refused, Take, net
<1>9. CASE GiveUp
  BY <1>9, LimitsAssumption DEF GiveUp, gate, net
<1>10. CASE Wait
  BY <1>10 DEF Wait, gate, net
<1>11. CASE UNCHANGED vars
  BY <1>11 DEF vars, gate, net
<1> QED
  BY <1>1, <1>2, <1>4, <1>5, <1>6, <1>7, <1>8, <1>9, <1>10, <1>11 DEF Next

-----------------------------------------------------------------------------
(* The bookkeeping the limits rest on. *)

Books == TypeOK /\ Numbered /\ TriesLeft /\ SkewBound /\ Forgotten

(* The books are in order to begin with. *)
LEMMA BooksInit == Init => Books
  BY TypeInit DEF Init, Books, Numbered, TriesLeft, SkewBound, Forgotten, Callers

(* Nothing that is made or remembered changes, and time does not go back. *)
LEMMA BooksQuiet ==
  ASSUME Books, TypeOK', UNCHANGED gate, now' >= now
  PROVE  Numbered' /\ Forgotten'
  BY LimitsAssumption DEF Books, TypeOK, Numbered, Forgotten, gate, Read

(* What the gate forgets on a caller's word is a minute old by the clock. *)
LEMMA ForgottenPrune ==
  ASSUME Books, NEW c \in Callers, asked[c] # Nothing,
         NEW e \in made, e \notin Pruned(asked[c].at)
  PROVE  e.at + Minute <= now
<1>1. asked[c].at \in Nat /\ asked[c].at <= now /\ e.at \in Nat /\ now \in Nat
  BY CallerFields DEF Books, TypeOK, SkewBound, Read
<1>2. CASE e \notin at
  BY <1>2 DEF Books, Forgotten
<1>3. CASE e \in at
  <2>1. ~(Since(asked[c].at, e.at) < Minute)
    BY <1>3 DEF Pruned
  <2> QED
    BY <1>1, <2>1, LimitsAssumption DEF Since
<1> QED
  BY <1>2, <1>3

(* Every step keeps the books. *)
LEMMA BooksStep == Books /\ [Next]_vars => Books'
<1> SUFFICES ASSUME Books, [Next]_vars PROVE Books'
  OBVIOUS
<1>0. TypeOK /\ TypeOK' /\ now \in Nat /\ MaxSkew \in Nat
  BY BudgetTypeStep, SkewAssumption DEF Books, TypeOK
<1>1. ASSUME UNCHANGED <<now, asked, tries, gate>> PROVE Books'
  BY <1>0, <1>1, BooksQuiet DEF Books, TriesLeft, SkewBound
<1>2. ASSUME NEW c \in Callers, NEW kind \in Kinds, Come(c, kind),
             c = "socket" => tries < MaxTries
      PROVE  Books'
  <2>1. Numbered' /\ Forgotten'
    BY <1>0, <1>2, BooksQuiet DEF Come
  <2>2. SkewBound'
    BY <1>0, <1>2, CallerFields DEF Come, SkewBound, Books, TypeOK, Callers
  <2>3. TriesLeft'
    BY <1>0, <1>2 DEF Come, TriesLeft, Books, TypeOK, Callers
  <2> QED
    BY <1>0, <2>1, <2>2, <2>3 DEF Books
<1>3. ASSUME NEW c \in Callers, Granted(c) PROVE Books'
  <2>1. asked[c] # Nothing /\ asked[c].at \in Nat /\ asked[c].at <= now
    BY <1>0, <1>3, CallerFields DEF Granted, Take, Books, SkewBound
  <2>2. Numbered'
    BY <1>0, <1>3, <2>1 DEF Granted, Take, Entry, Books, Numbered, TypeOK, Read
  <2>3. Forgotten'
    BY <1>0, <1>3, <2>1, ForgottenPrune DEF Granted, Take, Forgotten
  <2>4. SkewBound' /\ TriesLeft'
    BY <1>0, <1>3, <2>1, LimitsAssumption
    DEF Granted, Take, SkewBound, TriesLeft, Books, TypeOK, Callers
  <2> QED
    BY <1>0, <2>2, <2>3, <2>4 DEF Books
<1>4. ASSUME NEW c \in Callers, Refused(c) PROVE Books'
  <2>1. asked[c] # Nothing
    BY <1>4 DEF Refused, Take
  <2>2. Numbered'
    BY <1>0, <1>4 DEF Refused, Take, Books, Numbered
  <2>3. Forgotten'
    BY <1>0, <1>4, <2>1, ForgottenPrune DEF Refused, Take, Forgotten
  <2>4. SkewBound' /\ TriesLeft'
    BY <1>0, <1>4, <2>1
    DEF Refused, Take, SkewBound, TriesLeft, Books, TypeOK, Callers
  <2> QED
    BY <1>0, <2>2, <2>3, <2>4 DEF Books
<1>5. CASE GiveUp
  <2>1. Numbered' /\ Forgotten'
    BY <1>0, <1>5, BooksQuiet DEF GiveUp
  <2>2. SkewBound' /\ TriesLeft'
    BY <1>0, <1>5, LimitsAssumption DEF GiveUp, SkewBound, TriesLeft, Books
  <2> QED
    BY <1>0, <2>1, <2>2 DEF Books
<1>6. CASE Wait
  <2>1. Numbered' /\ Forgotten'
    BY <1>0, <1>6, BooksQuiet DEF Wait
  <2>2. SkewBound' /\ TriesLeft'
    BY <1>0, <1>6, CallerFields DEF Wait, SkewBound, TriesLeft, Books
  <2> QED
    BY <1>0, <2>1, <2>2 DEF Books
<1>7. CASE AskPoll \/ AskSafety \/ AskCheck
  BY <1>2, <1>7 DEF AskPoll, AskSafety, AskCheck, Callers, Kinds
<1>8. CASE Pushed \/ (\E on \in BOOLEAN : Subscription(on)) \/ UNCHANGED vars
  BY <1>1, <1>8 DEF Pushed, Subscription, vars
<1> QED
  BY <1>3, <1>4, <1>5, <1>6, <1>7, <1>8 DEF Next
-----------------------------------------------------------------------------
(* A window of the history.  It holds the entry just made, and besides that  *)
(* only what the gate counted before it let the entry in.                    *)

Bounded(length, limit) == \A e \in made : Cardinality(Window(e.at, length)) <= limit

(* A window of reads is finite. *)
LEMMA WindowFinite ==
  ASSUME TypeOK, NEW t, NEW length
  PROVE  IsFiniteSet(Window(t, length)) /\ Cardinality(Window(t, length)) \in Nat
<1>1. Window(t, length) \in SUBSET made
  BY DEF Window
<1> QED
  BY <1>1, FS_Subset, FS_CardinalityType DEF TypeOK

(* What is in the window of a read being let in, the gate has counted. *)
LEMMA WindowIsCounted ==
  ASSUME Books, NEW c \in Callers, Granted(c),
         NEW t \in Nat, NEW length \in Nat, NEW window \in Nat,
         length <= window, length + MaxSkew <= Minute,
         t <= asked[c].at, asked[c].at < t + length
  PROVE  Window(t, length) \subseteq Within(asked[c].at, window)
<1> DEFINE a0 == asked[c].at
<1> SUFFICES ASSUME NEW f \in made, t <= f.at, f.at < t + length
             PROVE  f \in Within(a0, window)
  BY DEF Window
<1>1. /\ a0 \in Nat /\ f.at \in Nat /\ now \in Nat /\ a0 <= now /\ now <= a0 + MaxSkew
      /\ MaxSkew \in Nat /\ Minute \in Nat
  BY CallerFields, LimitsAssumption, SkewAssumption
  DEF Books, TypeOK, SkewBound, Read, Granted, Take
<1> HIDE DEF a0
<1>2. f \in at
  BY <1>1 DEF Books, Forgotten, a0
<1>3. Since(a0, f.at) < window /\ Since(a0, f.at) < Minute
  BY <1>1, LimitsAssumption, SkewAssumption DEF Since, a0
<1> QED
  BY <1>2, <1>3 DEF Within, Pruned

(* A read that is let in leaves no window over its limit. *)
LEMMA BoundedGranted ==
  ASSUME Books, NEW c \in Callers, Granted(c),
         NEW length \in Nat \ {0}, NEW window \in Nat, NEW limit \in Nat,
         length <= window, length + MaxSkew <= Minute,
         ~Full(asked[c].at, window, limit),
         Bounded(length, limit)
  PROVE  Bounded(length, limit)'
<1> DEFINE a0 == asked[c].at
           E == Entry(c)
<1>1. a0 \in Nat /\ E.at = a0 /\ E \in Read /\ made' = made \cup {E}
  BY CallerFields, EntryType DEF Granted, Take, Entry, Books
<1>2. /\ IsFiniteSet(Within(a0, window))
      /\ Cardinality(Within(a0, window)) \in Nat
      /\ Cardinality(Within(a0, window)) < limit
  <2>1. Within(a0, window) \in SUBSET made
    BY DEF Within, Pruned, Books, TypeOK
  <2>2. IsFiniteSet(Within(a0, window)) /\ Cardinality(Within(a0, window)) \in Nat
    BY <2>1, FS_Subset, FS_CardinalityType DEF Books, TypeOK
  <2> QED
    BY <2>2 DEF Full
<1> SUFFICES ASSUME NEW t \in Nat, \E e \in made' : t = e.at
             PROVE  Cardinality(Window(t, length)') <= limit
  <2>1. \A e \in made' : e.at \in Nat
    BY <1>1 DEF Books, TypeOK, Read
  <2> QED
    BY <2>1 DEF Bounded, Window
<1> HIDE DEF a0, E
<1>3. CASE t <= a0 /\ a0 < t + length
  <2>1. Window(t, length) \in SUBSET Within(a0, window)
    BY <1>3, WindowIsCounted DEF a0
  <2>2. /\ IsFiniteSet(Window(t, length)) /\ Cardinality(Window(t, length)) \in Nat
        /\ Cardinality(Window(t, length)) <= Cardinality(Within(a0, window))
    BY <1>2, <2>1, FS_Subset, FS_CardinalityType
  <2>3. Window(t, length)' = Window(t, length) \cup {E}
    BY <1>1, <1>3 DEF Window
  <2>4. Cardinality(Window(t, length)') <= Cardinality(Window(t, length)) + 1
    <3>1. Cardinality(Window(t, length) \cup {E}) =
            IF E \in Window(t, length) THEN Cardinality(Window(t, length))
                                       ELSE Cardinality(Window(t, length)) + 1
      BY <2>2, FS_AddElement
    <3>2. \A m \in Nat : m <= m + 1
      OBVIOUS
    <3> QED
      BY <2>2, <2>3, <3>1, <3>2
  <2>5. Cardinality(Window(t, length)') \in Nat
    BY <2>2, <2>3, FS_AddElement, FS_CardinalityType
  <2> QED
    BY <1>2, <2>2, <2>4, <2>5
<1>4. CASE ~(t <= a0 /\ a0 < t + length)
  <2>1. Window(t, length)' = Window(t, length)
    BY <1>1, <1>4 DEF Window
  <2>2. t # a0
    BY <1>1, <1>4
  <2>3. PICK e \in made : t = e.at
    BY <1>1, <2>2
  <2> QED
    BY <2>1, <2>3 DEF Bounded
<1> QED
  BY <1>3, <1>4

(* Only a read that is let in is made. *)
LEMMA MadeOnlyWhenGranted ==
  ASSUME [Next]_vars, \A c \in Callers : ~Granted(c)
  PROVE  made' = made
  BY DEF Next, Pushed, Subscription, AskPoll, AskSafety, AskCheck, Come, Refused,
         GiveUp, Wait, vars, gate

(* No step leaves a window over its limit. *)
LEMMA BoundedStep ==
  ASSUME Books, [Next]_vars,
         NEW length \in Nat \ {0}, NEW window \in Nat, NEW limit \in Nat,
         length <= window, length + MaxSkew <= Minute,
         \A c \in Callers : Granted(c) => ~Full(asked[c].at, window, limit),
         Bounded(length, limit)
  PROVE  Bounded(length, limit)'
<1>1. CASE \E c \in Callers : Granted(c)
  BY <1>1, BoundedGranted
<1>2. CASE \A c \in Callers : ~Granted(c)
  <2>1. made' = made
    BY <1>2, MadeOnlyWhenGranted
  <2> QED
    BY <2>1 DEF Bounded, Window
<1> QED
  BY <1>1, <1>2

-----------------------------------------------------------------------------
(* The net. *)

Quiet == ListeningIsQuiet /\ ClocksInOrder /\ NetIsNext

(* When the net is due, everything it could crowd is at least Apart away. *)
LEMMA DueIsApart ==
  ASSUME TypeOK, ClocksInOrder, NEW active \in BOOLEAN, Due(active) = 0
  PROVE  read + Apart <= now
<1>1. now \in Nat /\ read \in Nat /\ activity \in Nat /\ read <= activity /\ activity <= now
  BY DEF TypeOK, ClocksInOrder
<1>2. Since(now, read) = now - read /\ Since(now, activity) = now - activity
  BY <1>1 DEF Since
<1>3. SafetyDue(active, now - activity, now - read) = 0
  BY <1>2 DEF Due
<1> DEFINE r == now - read
           y == now - activity
<1>4. r \in Nat /\ y \in Nat /\ y <= r
  BY <1>1
<1> HIDE DEF r, y
<1>5. SafetyDue(active, y, r) = 0
  BY <1>3 DEF r, y
<1>6. Since(MinGap, r) = 0 /\ (Since(Every, r) = 0 \/ Since(Silence, y) = 0)
  <2>1. /\ Since(MinGap, r) \in Nat /\ Since(Every, r) \in Nat /\ Since(Silence, y) \in Nat
    BY <1>4, SinceNat, LimitsAssumption
  <2> QED
    BY <1>5, <2>1 DEF SafetyDue, Most, Least
<1>7. MinGap <= r /\ (Every <= r \/ Silence <= y)
  BY <1>4, <1>6, LimitsAssumption DEF Since
<1>8. Apart \in Nat /\ Apart <= r
  BY <1>4, <1>7, LimitsAssumption DEF Apart, Most, Least
<1> QED
  BY <1>1, <1>8 DEF r

(* The distance the net keeps is a natural number. *)
LEMMA ApartNat == Apart \in Nat
  BY LimitsAssumption DEF Apart, Most, Least

(* No reads are far enough apart. *)
LEMMA QuietInit == Init => Quiet
  BY DEF Init, Quiet, ListeningIsQuiet, ClocksInOrder, NetIsNext, Callers

(* Every step keeps the reads made while listening apart. *)
LEMMA QuietStep == Books /\ Quiet /\ [Next]_vars => Quiet'
<1> SUFFICES ASSUME Books, Quiet, [Next]_vars PROVE Quiet'
  OBVIOUS
<1>0. /\ TypeOK /\ ListeningIsQuiet /\ ClocksInOrder /\ NetIsNext
      /\ now \in Nat /\ read \in Nat /\ activity \in Nat
      /\ \A e \in made : e.at \in Nat
      /\ Apart \in Nat /\ "loop" \in Callers /\ "socket" \in Callers
  BY ApartNat DEF Books, TypeOK, Quiet, Read, Callers
<1>1. ASSUME made' = made, asked' = asked, read' = read, now' \in Nat,
             now' >= now, activity' \in {activity, now}
      PROVE  Quiet'
  BY <1>0, <1>1 DEF Quiet, ListeningIsQuiet, ClocksInOrder, NetIsNext, Apart
<1>2. CASE AskPoll
  <2>1. ListeningIsQuiet'
    BY <1>0, <1>2 DEF AskPoll, Come, gate, ListeningIsQuiet, Apart
  <2>2. asked'["loop"] = [at |-> now, kind |-> "poll"] /\ asked'["socket"] = asked["socket"]
    BY <1>0, <1>2 DEF AskPoll, Come, TypeOK
  <2>3. ClocksInOrder'
    BY <1>0, <1>2, <2>2 DEF AskPoll, Come, Rearm, gate, ClocksInOrder
  <2>4. NetIsNext'
    BY <1>0, <2>2 DEF NetIsNext
  <2> QED
    BY <2>1, <2>3, <2>4 DEF Quiet
<1>3. CASE AskSafety
  <2>1. ListeningIsQuiet'
    BY <1>0, <1>3 DEF AskSafety, Come, gate, ListeningIsQuiet, Apart
  <2>2. asked'["loop"] = [at |-> now, kind |-> "safety"] /\ asked'["socket"] = asked["socket"]
    BY <1>0, <1>3 DEF AskSafety, Come, TypeOK
  <2>3. ClocksInOrder'
    BY <1>0, <1>3, <2>2 DEF AskSafety, Come, Rearm, gate, ClocksInOrder
  <2>4. read + Apart <= now
    BY <1>0, <1>3, DueIsApart DEF AskSafety
  <2>5. \A e \in made : e.listening => e.at + Apart <= now
    BY <1>0, <2>4 DEF ClocksInOrder
  <2>6. NetIsNext'
    BY <1>3, <2>2, <2>5 DEF AskSafety, Come, gate, NetIsNext, Apart
  <2> QED
    BY <2>1, <2>3, <2>6 DEF Quiet
<1>4. CASE AskCheck
  <2>1. asked'["socket"] = [at |-> now, kind |-> "socket_check"] /\ asked'["loop"] = asked["loop"]
    BY <1>0, <1>4 DEF AskCheck, Come, TypeOK
  <2> QED
    BY <1>0, <1>4, <2>1
    DEF AskCheck, Come, gate, Quiet, ListeningIsQuiet, ClocksInOrder, NetIsNext, Apart
<1>5. ASSUME NEW c \in Callers, Granted(c) PROVE Quiet'
  <2> DEFINE E == Entry(c)
  <2>1. /\ asked[c] # Nothing /\ asked[c].at \in Nat
        /\ made' = made \cup {E} /\ E.at = asked[c].at
        /\ E.listening = (asked[c].kind = "safety")
        /\ now' = now /\ read' = read /\ activity' = activity
    BY <1>0, <1>5, CallerFields DEF Granted, Take, Entry, net
  <2>2. asked' = [asked EXCEPT ![c] = Nothing]
    BY <1>5 DEF Granted, Take
  <2>3. E.listening => c = "loop"
    BY <1>0, <2>1 DEF ClocksInOrder, Callers
  <2> HIDE DEF E
  <2>4. E.listening => E.at = read /\ \A e \in made : e.listening => e.at + Apart <= E.at
    BY <1>0, <2>1, <2>3 DEF ClocksInOrder, NetIsNext
  <2>5. ListeningIsQuiet'
    BY <1>0, <2>1, <2>4 DEF ListeningIsQuiet, Apart
  <2>6. \A d \in Callers : asked'[d] # Nothing => d # c /\ asked'[d] = asked[d]
    BY <2>2 DEF Books, TypeOK
  <2>7. ClocksInOrder'
    BY <1>0, <2>1, <2>4, <2>6 DEF ClocksInOrder
  <2>8. NetIsNext'
    BY <1>0, <2>1, <2>3, <2>6 DEF NetIsNext, Apart
  <2> QED
    BY <2>5, <2>7, <2>8 DEF Quiet
<1>6. ASSUME NEW c \in Callers, Refused(c) PROVE Quiet'
  <2>1. /\ asked' = [asked EXCEPT ![c] = Nothing]
        /\ made' = made /\ now' = now /\ read' = read /\ activity' = activity
    BY <1>6 DEF Refused, Take, net
  <2>2. \A d \in Callers : asked'[d] # Nothing => asked'[d] = asked[d]
    BY <2>1 DEF Books, TypeOK
  <2> QED
    BY <1>0, <2>1, <2>2 DEF Quiet, ListeningIsQuiet, ClocksInOrder, NetIsNext, Apart
<1>7. CASE \/ Pushed \/ \E on \in BOOLEAN : Subscription(on)
           \/ GiveUp \/ Wait \/ UNCHANGED vars
  BY <1>0, <1>1, <1>7 DEF Pushed, Subscription, Hear, GiveUp, Wait, vars, gate, net
<1> QED
  BY <1>2, <1>3, <1>4, <1>5, <1>6, <1>7 DEF Next

-----------------------------------------------------------------------------
(* All of it together. *)

(* Every step keeps both limits. *)
LEMMA LimitsStep ==
  Books /\ SecondLimit /\ MinuteLimit /\ [Next]_vars => SecondLimit' /\ MinuteLimit'
<1> SUFFICES ASSUME Books, SecondLimit, MinuteLimit, [Next]_vars
             PROVE  SecondLimit' /\ MinuteLimit'
  OBVIOUS
<1>1. \A c \in Callers : Granted(c) => /\ ~Full(asked[c].at, Second, PerSecond)
                                      /\ ~Full(asked[c].at, Minute, PerMinute)
  BY DEF Granted, Refuses
<1>2. /\ Second \in Nat \ {0} /\ Second + MaxSkew <= Minute
      /\ Minute - MaxSkew \in Nat \ {0} /\ (Minute - MaxSkew) + MaxSkew <= Minute
      /\ Minute - MaxSkew <= Minute /\ Minute \in Nat
      /\ PerSecond \in Nat /\ PerMinute \in Nat
  BY LimitsAssumption, SkewAssumption
<1>3. SecondLimit'
  <2>1. Bounded(Second, PerSecond)
    BY DEF SecondLimit, Bounded
  <2>2. Bounded(Second, PerSecond)'
    BY <1>1, <1>2, <2>1, BoundedStep
  <2> QED
    BY <2>2 DEF SecondLimit, Bounded
<1>4. MinuteLimit'
  <2>1. Bounded(Minute - MaxSkew, PerMinute)
    BY DEF MinuteLimit, Bounded
  <2>2. Bounded(Minute - MaxSkew, PerMinute)'
    BY <1>1, <1>2, <2>1, BoundedStep
  <2> QED
    BY <2>2 DEF MinuteLimit, Bounded
<1> QED
  BY <1>3, <1>4

(* The whole inductive invariant holds. *)
THEOREM BudgetInvariant == Spec => []IInv
<1>1. Init => IInv
  <2>1. Init => SecondLimit /\ MinuteLimit
    BY DEF Init, SecondLimit, MinuteLimit
  <2> QED
    BY <2>1, BooksInit, QuietInit DEF IInv, Books, Quiet
<1>2. IInv /\ [Next]_vars => IInv'
  BY BooksStep, QuietStep, LimitsStep DEF IInv, Books, Quiet
<1> QED
  BY <1>1, <1>2, PTL DEF Spec

(* No second ever holds more than PerSecond reads of /Sessions, whoever      *)
(* makes them and however late they come to the lock.                        *)
THEOREM NeverTooManyASecond == Spec => []SecondLimit
<1>1. IInv => SecondLimit
  BY DEF IInv
<1> QED
  BY <1>1, BudgetInvariant, PTL

(* And no minute, short of the time a caller can stand at the lock, more     *)
(* than PerMinute.                                                           *)
THEOREM NeverTooManyAMinute == Spec => []MinuteLimit
<1>1. IInv => MinuteLimit
  BY DEF IInv
<1> QED
  BY <1>1, BudgetInvariant, PTL

(* The net never becomes a storm: two reads made while listening are Apart.  *)
THEOREM TheNetIsNoStorm == Spec => []ListeningIsQuiet
<1>1. IInv => ListeningIsQuiet
  BY DEF IInv
<1> QED
  BY <1>1, BudgetInvariant, PTL

(* Together: whatever the callers do, Jellyfin is never asked too often.     *)
THEOREM JellyfinIsSpared == Spec => []ReadsArePaced
<1>1. IInv => ReadsArePaced
  BY DEF IInv, ReadsArePaced
<1> QED
  BY <1>1, BudgetInvariant, PTL

-----------------------------------------------------------------------------
(* Waiting as told. *)

(* How many of the reads in A a window that ends at t holds.                 *)
HeldBack(A, t, window) == Cardinality({e \in A : Since(t, e.at) < Minute /\ Since(t, e.at) < window})

(* Nobody comes to the gate before the wait is over.                         *)
ComesWhenTold == \A c \in Callers : asked[c] # Nothing => until[c] <= asked[c].at

RoomInSecond(A, t) == HeldBack(A, t, Second) < PerSecond
RoomInMinute(A, t) == HeldBack(A, t, Minute) < PerMinute

Rooms(c) ==
  /\ alone[c] = 1 => RoomInSecond(at, until[c]) \/ RoomInMinute(at, until[c])
  /\ alone[c] = 2 => RoomInSecond(at, until[c]) /\ RoomInMinute(at, until[c])

(* A caller that was refused alone once has outwaited one of the windows,    *)
(* and one that was refused twice both of them.                              *)
Rested == WaitingIsEnough /\ ComesWhenTold /\ \A c \in Callers : Rooms(c)

(* The gate counts what a window holds.                                      *)
LEMMA FullIsHeld ==
  ASSUME TypeOK, NEW t \in Nat, NEW window \in {Second, Minute}, NEW limit \in {PerSecond, PerMinute}
  PROVE  /\ HeldBack(at, t, window) \in Nat
         /\ ~Full(t, window, limit) <=> HeldBack(at, t, window) < limit
<1> DEFINE W == {e \in at : Since(t, e.at) < Minute /\ Since(t, e.at) < window}
<1>1. Within(t, window) = W
  BY DEF Within, Pruned
<1>2. IsFiniteSet(at) /\ W \subseteq at
  BY FS_Subset DEF TypeOK
<1>3. Cardinality(W) \in Nat
  BY <1>2, FS_Subset, FS_CardinalityType
<1>4. limit \in Nat
  BY LimitsAssumption
<1>5. HeldBack(at, t, window) = Cardinality(W)
  BY DEF HeldBack
<1> HIDE DEF W
<1> QED
  BY <1>1, <1>3, <1>4, <1>5 DEF Full

(* A window holds less later, and when more is forgotten.                    *)
LEMMA RoomStays ==
  ASSUME NEW A, NEW B, B \subseteq A, IsFiniteSet(A), \A e \in A : e.at \in Nat,
         NEW t \in Nat, NEW u0 \in Nat, t <= u0
  PROVE  /\ RoomInSecond(A, t) => RoomInSecond(B, u0)
         /\ RoomInMinute(A, t) => RoomInMinute(B, u0)
<1>1. ASSUME NEW window \in {Second, Minute}
      PROVE  /\ HeldBack(A, t, window) \in Nat /\ HeldBack(B, u0, window) \in Nat
             /\ HeldBack(B, u0, window) <= HeldBack(A, t, window)
  <2> DEFINE W == {e \in A : Since(t, e.at) < Minute /\ Since(t, e.at) < window}
             V == {e \in B : Since(u0, e.at) < Minute /\ Since(u0, e.at) < window}
  <2>1. window \in Nat /\ Minute \in Nat
    BY LimitsAssumption
  <2>2. \A e \in A : Since(t, e.at) <= Since(u0, e.at) /\ Since(t, e.at) \in Nat /\ Since(u0, e.at) \in Nat
    BY DEF Since
  <2>3. V \subseteq W
    BY <2>1, <2>2
  <2>4. IsFiniteSet(W)
    BY FS_Subset
  <2>5. HeldBack(A, t, window) = Cardinality(W) /\ HeldBack(B, u0, window) = Cardinality(V)
    BY DEF HeldBack
  <2> HIDE DEF W, V
  <2> QED
    BY <2>3, <2>4, <2>5, FS_Subset, FS_CardinalityType
<1>2. PerSecond \in Nat /\ PerMinute \in Nat
  BY LimitsAssumption
<1> QED
  BY <1>1, <1>2 DEF RoomInSecond, RoomInMinute

(* Who waits until one more has left a window finds room in it.              *)
LEMMA WaitFrees ==
  ASSUME TypeOK, NEW B, B \subseteq at, NEW t \in Nat, t <= now, NEW window \in {Second, Minute},
         NEW limit \in {PerSecond, PerMinute}, NEW wait \in FreeIn(t, window, limit),
         NEW u0 \in Nat, u0 = now + wait
  PROVE  HeldBack(B, u0, window) < limit
<1>1. PICK e \in at : FreesRoom(e, t, window, limit) /\ wait = Since(e.at + window, t) + 1
  BY DEF FreeIn
<1> DEFINE V == {f \in B : Since(u0, f.at) < Minute /\ Since(u0, f.at) < window}
           L == {f \in Within(t, window) : f.at > e.at}
<1>2. window \in Nat /\ Minute \in Nat /\ limit \in Nat /\ now \in Nat
  BY LimitsAssumption DEF TypeOK
<1>3. \A f \in at : f.at \in Nat
  BY DEF TypeOK, Read
<1>4. t <= u0 /\ e.at + window < u0
  BY <1>1, <1>2, <1>3 DEF Since
<1>6. V \subseteq L
  <2> SUFFICES ASSUME NEW f \in V PROVE f \in L
    OBVIOUS
  <2>1. f \in at /\ f.at \in Nat /\ Since(u0, f.at) < Minute /\ Since(u0, f.at) < window
    BY <1>3
  <2>2. Since(t, f.at) < Minute /\ Since(t, f.at) < window
    BY <1>2, <1>4, <2>1 DEF Since
  <2>3. f \in Within(t, window)
    BY <2>1, <2>2 DEF Within, Pruned
  <2>4. f.at > e.at
    BY <1>2, <1>3, <1>4, <2>1 DEF Since
  <2> QED
    BY <2>3, <2>4
<1>7. L \subseteq at /\ IsFiniteSet(at)
  BY FS_Subset DEF TypeOK, Within, Pruned
<1>8. Cardinality(L) < limit
  BY <1>1 DEF FreesRoom
<1>9. IsFiniteSet(L)
  BY <1>7, FS_Subset
<1>10. HeldBack(B, u0, window) = Cardinality(V)
  BY DEF HeldBack
<1> HIDE DEF V, L
<1>11. Cardinality(V) <= Cardinality(L) /\ Cardinality(V) \in Nat /\ Cardinality(L) \in Nat
  BY <1>6, <1>9, FS_Subset, FS_CardinalityType
<1> QED
  BY <1>2, <1>8, <1>10, <1>11

LEMMA ComesStep == TypeOK /\ ComesWhenTold /\ [Next]_vars => ComesWhenTold'
<1> SUFFICES ASSUME TypeOK, ComesWhenTold, [Next]_vars PROVE ComesWhenTold'
  OBVIOUS
<1> USE DEF ComesWhenTold
<1>1. CASE Pushed \/ GiveUp \/ Wait \/ UNCHANGED vars \/ \E on \in BOOLEAN : Subscription(on)
  BY <1>1 DEF Pushed, GiveUp, Wait, Subscription, vars
<1>2. ASSUME NEW c \in Callers, NEW kind, Come(c, kind) PROVE ComesWhenTold'
  BY <1>2 DEF Come, TypeOK
<1>3. CASE AskPoll \/ AskSafety \/ AskCheck
  BY <1>2, <1>3 DEF AskPoll, AskSafety, AskCheck, Callers
<1>4. ASSUME NEW c \in Callers, Granted(c) PROVE ComesWhenTold'
  BY <1>4 DEF Granted, Take, TypeOK
<1>5. ASSUME NEW c \in Callers, Refused(c) PROVE ComesWhenTold'
  <2>1. asked' = [asked EXCEPT ![c] = Nothing]
    BY <1>5 DEF Refused, Take
  <2>2. \A d \in Callers \ {c} : until'[d] = until[d]
    BY <1>5 DEF Refused, Sleep, TypeOK
  <2> QED
    BY <2>1, <2>2 DEF TypeOK
<1> QED
  BY <1>1, <1>3, <1>4, <1>5 DEF Next

(* What leaves a caller's wait and count alone, and adds no read, leaves it  *)
(* the rooms it has.                                                         *)
LEMMA RoomsAsBefore ==
  ASSUME TypeOK, NEW c \in Callers, Rooms(c), at' \subseteq at, until'[c] = until[c], alone'[c] = alone[c]
  PROVE  Rooms(c)'
<1>1. until[c] \in Nat /\ until[c] <= until[c]
  BY DEF TypeOK
<1>2. IsFiniteSet(at) /\ \A e \in at : e.at \in Nat
  BY FS_Subset DEF TypeOK, Read
<1>3. /\ RoomInSecond(at, until[c]) => RoomInSecond(at', until[c])
      /\ RoomInMinute(at, until[c]) => RoomInMinute(at', until[c])
  BY <1>1, <1>2, RoomStays
<1> QED
  BY <1>3 DEF Rooms

(* A refusal that is waited out: there was no room where there is now.       *)
LEMMA RestedAfterSleep ==
  ASSUME TypeOK, Rested, NEW c \in Callers, Sleep(c), asked[c] # Nothing, Refuses(asked[c].at),
         asked[c].at <= now, at' \subseteq at
  PROVE  alone'[c] <= 2 /\ Rooms(c)'
<1> DEFINE t == asked[c].at
<1>1. asked[c] \in Ask /\ t \in Nat /\ now \in Nat /\ until[c] \in Nat /\ alone[c] \in Nat
  BY DEF TypeOK, Ask
<1>2. until[c] <= t /\ t <= now /\ alone[c] <= 2 /\ Rooms(c)
  BY DEF Rested, ComesWhenTold, WaitingIsEnough
<1>3. IsFiniteSet(at) /\ \A e \in at : e.at \in Nat
  BY FS_Subset DEF TypeOK, Read
<1>4. PICK wait \in HowLong(t) : until' = [until EXCEPT ![c] = now + wait]
  BY DEF Sleep
<1>5. wait \in Nat
  <2>1. \A window, limit : FreeIn(t, window, limit) = {Since(e.at + window, t) + 1 : e \in {f \in at : FreesRoom(f, t, window, limit)}}
    BY DEF FreeIn
  <2>2. \A window \in {Second, Minute} : \A e \in at : Since(e.at + window, t) \in Nat
    BY <1>1, <1>3, LimitsAssumption DEF Since
  <2>3. wait \in FreeIn(t, Second, PerSecond) \/ wait \in FreeIn(t, Minute, PerMinute)
    BY <1>4 DEF HowLong
  <2> QED
    BY <2>1, <2>2, <2>3
<1>6. until'[c] = now + wait /\ alone'[c] = alone[c] + 1
  BY <1>1, <1>4 DEF Sleep, TypeOK
<1>7. PICK u0 \in Nat : u0 = now + wait
  BY <1>1, <1>5
<1>8. t <= u0 /\ u0 = until'[c]
  BY <1>1, <1>2, <1>5, <1>6, <1>7
<1> HIDE DEF t
<1>9. /\ RoomInSecond(at, until[c]) => RoomInSecond(at, t)
      /\ RoomInMinute(at, until[c]) => RoomInMinute(at, t)
      /\ RoomInSecond(at, t) => RoomInSecond(at', u0)
      /\ RoomInMinute(at, t) => RoomInMinute(at', u0)
  BY <1>1, <1>2, <1>3, <1>8, RoomStays
<1>10. /\ ~Full(t, Second, PerSecond) <=> RoomInSecond(at, t)
       /\ ~Full(t, Minute, PerMinute) <=> RoomInMinute(at, t)
  BY <1>1, FullIsHeld DEF RoomInSecond, RoomInMinute
<1>11. ~RoomInSecond(at, t) => RoomInSecond(at', u0)
  <2> SUFFICES ASSUME ~RoomInSecond(at, t) PROVE RoomInSecond(at', u0)
    OBVIOUS
  <2>1. wait \in FreeIn(t, Second, PerSecond)
    BY <1>4, <1>10 DEF HowLong
  <2> QED
    BY <2>1, <1>1, <1>2, <1>7, WaitFrees DEF RoomInSecond
<1>12. RoomInSecond(at, t) => ~RoomInMinute(at, t) /\ RoomInMinute(at', u0)
  <2> SUFFICES ASSUME RoomInSecond(at, t) PROVE ~RoomInMinute(at, t) /\ RoomInMinute(at', u0)
    OBVIOUS
  <2>1. ~RoomInMinute(at, t)
    BY <1>10 DEF Refuses, t
  <2>2. wait \in FreeIn(t, Minute, PerMinute)
    BY <1>4, <1>10 DEF HowLong
  <2> QED
    BY <2>1, <2>2, <1>1, <1>2, <1>7, WaitFrees DEF RoomInMinute
<1>13. alone[c] # 2
  BY <1>2, <1>9, <1>11, <1>12 DEF Rooms
<1>14. alone[c] = 1 => RoomInSecond(at', u0) /\ RoomInMinute(at', u0)
  BY <1>2, <1>9, <1>11, <1>12 DEF Rooms
<1>15. RoomInSecond(at', u0) \/ RoomInMinute(at', u0)
  BY <1>11, <1>12
<1>16. alone'[c] \in {1, 2} /\ (alone'[c] = 2 => alone[c] = 1)
  BY <1>1, <1>2, <1>6, <1>13
<1> QED
  BY <1>8, <1>14, <1>15, <1>16 DEF Rooms

LEMMA RestedInit == Init => Rested
<1> SUFFICES ASSUME Init PROVE Rested
  OBVIOUS
<1> QED
  BY DEF Init, Rested, WaitingIsEnough, ComesWhenTold, Rooms

LEMMA RestedStep == TypeOK /\ SkewBound /\ Rested /\ [Next]_vars => Rested'
<1> SUFFICES ASSUME TypeOK, SkewBound, Rested, [Next]_vars PROVE WaitingIsEnough' /\ \A c \in Callers : Rooms(c)'
  BY ComesStep DEF Rested
<1>1. ASSUME UNCHANGED <<until, alone>>, at' \subseteq at
      PROVE  WaitingIsEnough' /\ \A c \in Callers : Rooms(c)'
  BY <1>1, RoomsAsBefore DEF Rested, WaitingIsEnough
<1>2. CASE Pushed \/ GiveUp \/ Wait \/ UNCHANGED vars \/ \E on \in BOOLEAN : Subscription(on)
  BY <1>1, <1>2 DEF Pushed, GiveUp, Wait, Subscription, vars, gate
<1>3. CASE AskPoll \/ AskSafety \/ AskCheck
  BY <1>1, <1>3 DEF AskPoll, AskSafety, AskCheck, Come, gate
<1>4. ASSUME NEW c \in Callers, Granted(c)
      PROVE  WaitingIsEnough' /\ \A d \in Callers : Rooms(d)'
  <2>1. \A d \in Callers : alone'[d] = 0
    BY <1>4 DEF Granted
  <2> QED
    BY <2>1 DEF WaitingIsEnough, Rooms
<1>5. ASSUME NEW c \in Callers, Refused(c)
      PROVE  WaitingIsEnough' /\ \A d \in Callers : Rooms(d)'
  <2>1. at' \subseteq at
    BY <1>5 DEF Refused, Pruned
  <2>2. CASE asked[c].kind = "safety"
    <3>1. UNCHANGED <<until, alone>>
      BY <1>5, <2>2 DEF Refused
    <3> QED
      BY <1>1, <2>1, <3>1
  <2>3. CASE asked[c].kind # "safety"
    <3>1. Sleep(c) /\ asked[c] # Nothing /\ Refuses(asked[c].at) /\ asked[c].at <= now
      BY <1>5, <2>3 DEF Refused, Take, SkewBound
    <3>2. alone'[c] <= 2 /\ Rooms(c)'
      BY <2>1, <3>1, RestedAfterSleep
    <3>3. \A d \in Callers \ {c} : until'[d] = until[d] /\ alone'[d] = alone[d]
      BY <3>1 DEF Sleep, TypeOK
    <3>4. ASSUME NEW d \in Callers \ {c} PROVE alone'[d] <= 2 /\ Rooms(d)'
      <4>1. Rooms(d) /\ alone[d] <= 2
        BY DEF Rested, WaitingIsEnough
      <4> QED
        BY <2>1, <3>3, <4>1, RoomsAsBefore
    <3> QED
      BY <3>2, <3>4 DEF WaitingIsEnough
  <2> QED
    BY <2>2, <2>3
<1> QED
  BY <1>2, <1>3, <1>4, <1>5 DEF Next

(* Who waits as long as it was told is refused again at most once, for the   *)
(* other window, unless somebody else reads in the meantime: the tries of    *)
(* `sessions_waiting` are never used up by the caller's own reads.           *)
THEOREM WaitingAsTold == Spec => []WaitingIsEnough
<1>1. IInv => TypeOK /\ SkewBound
  BY DEF IInv
<1>2. Rested => WaitingIsEnough
  BY DEF Rested
<1> QED
  BY BudgetInvariant, RestedInit, RestedStep, <1>1, <1>2, PTL DEF Spec

(***************************************************************************)
(* The schedule                                                            *)
(***************************************************************************)

(* Nothing that is remembered is later than now. *)
NothingIsAhead ==
  /\ scan.began <= tick /\ scan.ended <= tick
  /\ lastLibrary <= tick /\ synced <= tick
  /\ round.pc # "rest" => round.now <= tick
  /\ reader.started <= tick

(* A round that saw no scan is as old as the scan that is on, or older. *)
RoundSawIt == round.pc = "decides" /\ ~round.on /\ scan.on => round.now <= scan.began

(* A scan that is on in the second of last_library began no sooner, or a   *)
(* read of this second is complete.                                        *)
LastIsNotAmid == scan.on /\ lastLibrary = tick => scan.began = tick \/ synced = tick

(* Reads are one after the other, and one that a scan has ended under is   *)
(* older than its end.                                                     *)
ReadsInTurn ==
  reader.pc = "reads" =>
    /\ synced <= reader.started
    /\ ~reader.fresh /\ ~scan.on => reader.started < scan.ended

(* A halt that is named for before anybody waits is known to be early. *)
EarlyIsKnown == halted /\ main = "starts" => early

ScheduleInv ==
  /\ ScheduleTypeOK /\ NothingIsAhead /\ RoundSawIt /\ LastIsNotAmid /\ ReadsInTurn
  /\ NoScanStaysUnread /\ NobodyWaitsInVain /\ EarlyIsKnown

LEMMA ScheduleStart == ScheduleInit => ScheduleInv
<1> SUFFICES ASSUME ScheduleInit PROVE ScheduleInv
  OBVIOUS
<1> USE ScheduleAssumption DEF ScheduleInit, NoReader, Ticks
<1>1. ScheduleTypeOK
  <2>1. halted \in BOOLEAN /\ begun \in BOOLEAN /\ done \in BOOLEAN /\ early \in BOOLEAN
    OBVIOUS
  <2>2. scan \in [on : BOOLEAN, began : Ticks, ended : Ticks]
    OBVIOUS
  <2>3. reader \in [pc : {"none", "spawned", "reads", "stuck"}, started : Ticks, fresh : BOOLEAN]
    OBVIOUS
  <2> QED
    BY <2>1, <2>2, <2>3 DEF ScheduleTypeOK
<1>2. NothingIsAhead
  BY DEF NothingIsAhead
<1>3. RoundSawIt /\ LastIsNotAmid /\ ReadsInTurn
  BY DEF RoundSawIt, LastIsNotAmid, ReadsInTurn
<1>4. NobodyWaitsInVain /\ EarlyIsKnown
  BY DEF NobodyWaitsInVain, RunningMeansSomebody, HaltIsHeard, EarlyIsKnown
<1>5. NoScanStaysUnread
  BY DEF NoScanStaysUnread, UnreadIsDue, UnreadSurvivesRestart
<1> QED
  BY <1>1, <1>2, <1>3, <1>4, <1>5 DEF ScheduleInv

(* Every step keeps the types. *)
LEMMA TypesStep == ScheduleTypeOK /\ [ScheduleNext]_scheduleVars => ScheduleTypeOK'
<1> SUFFICES ASSUME ScheduleTypeOK, [ScheduleNext]_scheduleVars PROVE ScheduleTypeOK'
  OBVIOUS
<1> USE ScheduleAssumption DEF ScheduleTypeOK, Ticks
<1>1. CASE Passes
  BY <1>1 DEF Passes, server
<1>2. CASE ScanBegins
  <2>1. scan' \in [on : BOOLEAN, began : Ticks, ended : Ticks]
    BY <1>2 DEF ScanBegins, server
  <2>2. reader' \in [pc : {"none", "spawned", "reads", "stuck"}, started : Ticks, fresh : BOOLEAN]
    BY <1>2 DEF ScanBegins, server
  <2>3. halted' \in BOOLEAN /\ begun' \in BOOLEAN
    BY <1>2 DEF ScanBegins, server
  <2>4. done' \in BOOLEAN /\ early' \in BOOLEAN
    BY <1>2 DEF ScanBegins, server
  <2>5. tick' \in Ticks /\ lastLibrary' \in Ticks /\ synced' \in Ticks /\ byHand' \in 0..MaxByHand
    BY <1>2 DEF ScanBegins, server
  <2>6. round' \in [pc : {"rest"}] \cup [pc : {"asks"}, now : Ticks]
                  \cup [pc : {"decides"}, now : Ticks, on : BOOLEAN, ended : Ticks]
    BY <1>2 DEF ScanBegins, server
  <2>7. task' \in {"idle", "running", "ok", "error"} /\ main' \in {"starts", "serves", "stops"}
    BY <1>2 DEF ScanBegins, server
  <2> QED
    BY <2>1, <2>2, <2>3, <2>4, <2>5, <2>6, <2>7
<1>3. CASE ScanEnds
  <2>1. scan' \in [on : BOOLEAN, began : Ticks, ended : Ticks]
    BY <1>3 DEF ScanEnds
  <2>2. reader' \in [pc : {"none", "spawned", "reads", "stuck"}, started : Ticks, fresh : BOOLEAN]
    BY <1>3 DEF ScanEnds
  <2>3. halted' \in BOOLEAN /\ begun' \in BOOLEAN
    BY <1>3 DEF ScanEnds
  <2>4. done' \in BOOLEAN /\ early' \in BOOLEAN
    BY <1>3 DEF ScanEnds
  <2>5. tick' \in Ticks /\ lastLibrary' \in Ticks /\ synced' \in Ticks /\ byHand' \in 0..MaxByHand
    BY <1>3 DEF ScanEnds
  <2>6. round' \in [pc : {"rest"}] \cup [pc : {"asks"}, now : Ticks]
                  \cup [pc : {"decides"}, now : Ticks, on : BOOLEAN, ended : Ticks]
    BY <1>3 DEF ScanEnds
  <2>7. task' \in {"idle", "running", "ok", "error"} /\ main' \in {"starts", "serves", "stops"}
    BY <1>3 DEF ScanEnds
  <2> QED
    BY <2>1, <2>2, <2>3, <2>4, <2>5, <2>6, <2>7
<1>4. CASE RoundBegins
  BY <1>4 DEF RoundBegins
<1>5. CASE RoundAsks
  BY <1>5 DEF RoundAsks
<1>6. CASE RoundDecides
  <2>1. scan' \in [on : BOOLEAN, began : Ticks, ended : Ticks]
    BY <1>6 DEF RoundDecides, Spawns
  <2>2. reader' \in [pc : {"none", "spawned", "reads", "stuck"}, started : Ticks, fresh : BOOLEAN]
    <3>1. reader' = [pc |-> "spawned", started |-> 0, fresh |-> FALSE] \/ reader' = reader
      BY <1>6 DEF RoundDecides, Spawns
    <3>2. [pc |-> "spawned", started |-> 0, fresh |-> FALSE]
            \in [pc : {"none", "spawned", "reads", "stuck"}, started : Ticks, fresh : BOOLEAN]
      OBVIOUS
    <3> QED
      BY <3>1, <3>2
  <2>3. halted' \in BOOLEAN /\ begun' \in BOOLEAN
    BY <1>6 DEF RoundDecides, Spawns
  <2>4. done' \in BOOLEAN /\ early' \in BOOLEAN
    BY <1>6 DEF RoundDecides, Spawns
  <2>5. tick' \in Ticks /\ lastLibrary' \in Ticks /\ synced' \in Ticks /\ byHand' \in 0..MaxByHand
    BY <1>6 DEF RoundDecides, Spawns
  <2>6. round' \in [pc : {"rest"}] \cup [pc : {"asks"}, now : Ticks]
                  \cup [pc : {"decides"}, now : Ticks, on : BOOLEAN, ended : Ticks]
    BY <1>6 DEF RoundDecides, Spawns
  <2>7. task' \in {"idle", "running", "ok", "error"} /\ main' \in {"starts", "serves", "stops"}
    BY <1>6 DEF RoundDecides, Spawns
  <2> QED
    BY <2>1, <2>2, <2>3, <2>4, <2>5, <2>6, <2>7
<1>7. CASE ByHand
  BY <1>7 DEF ByHand, Spawns
<1>8. CASE LibraryReadBegins
  BY <1>8 DEF LibraryReadBegins
<1>9. CASE LibraryReadEnds
  BY <1>9 DEF LibraryReadEnds, NoReader
<1>10. CASE LibraryReadFails
  BY <1>10 DEF LibraryReadFails, NoReader
<1>11. CASE LibraryReadPanics
  BY <1>11 DEF LibraryReadPanics
<1>12. CASE LibraryReadRefuses
  <2>1. scan' \in [on : BOOLEAN, began : Ticks, ended : Ticks]
    BY <1>12 DEF LibraryReadRefuses, RequestHalt, NoReader
  <2>2. reader' \in [pc : {"none", "spawned", "reads", "stuck"}, started : Ticks, fresh : BOOLEAN]
    BY <1>12 DEF LibraryReadRefuses, RequestHalt, NoReader
  <2>3. halted' \in BOOLEAN /\ begun' \in BOOLEAN
    BY <1>12 DEF LibraryReadRefuses, RequestHalt, NoReader
  <2>4. done' \in BOOLEAN /\ early' \in BOOLEAN
    BY <1>12 DEF LibraryReadRefuses, RequestHalt, NoReader
  <2>5. tick' \in Ticks /\ lastLibrary' \in Ticks /\ synced' \in Ticks /\ byHand' \in 0..MaxByHand
    BY <1>12 DEF LibraryReadRefuses, RequestHalt, NoReader
  <2>6. round' \in [pc : {"rest"}] \cup [pc : {"asks"}, now : Ticks]
                  \cup [pc : {"decides"}, now : Ticks, on : BOOLEAN, ended : Ticks]
    BY <1>12 DEF LibraryReadRefuses, RequestHalt, NoReader
  <2>7. task' \in {"idle", "running", "ok", "error"} /\ main' \in {"starts", "serves", "stops"}
    BY <1>12 DEF LibraryReadRefuses, RequestHalt, NoReader
  <2> QED
    BY <2>1, <2>2, <2>3, <2>4, <2>5, <2>6, <2>7
<1>13. CASE Serves
  BY <1>13 DEF Serves
<1>14. CASE StartsOver
  <2>1. scan' \in [on : BOOLEAN, began : Ticks, ended : Ticks]
    BY <1>14 DEF StartsOver, NoReader
  <2>2. reader' \in [pc : {"none", "spawned", "reads", "stuck"}, started : Ticks, fresh : BOOLEAN]
    BY <1>14 DEF StartsOver, NoReader
  <2>3. halted' \in BOOLEAN /\ begun' \in BOOLEAN
    BY <1>14 DEF StartsOver, NoReader
  <2>4. done' \in BOOLEAN /\ early' \in BOOLEAN
    BY <1>14 DEF StartsOver, NoReader
  <2>5. tick' \in Ticks /\ lastLibrary' \in Ticks /\ synced' \in Ticks /\ byHand' \in 0..MaxByHand
    BY <1>14 DEF StartsOver, NoReader
  <2>6. round' \in [pc : {"rest"}] \cup [pc : {"asks"}, now : Ticks]
                  \cup [pc : {"decides"}, now : Ticks, on : BOOLEAN, ended : Ticks]
    BY <1>14 DEF StartsOver, NoReader
  <2>7. task' \in {"idle", "running", "ok", "error"} /\ main' \in {"starts", "serves", "stops"}
    BY <1>14 DEF StartsOver, NoReader
  <2> QED
    BY <2>1, <2>2, <2>3, <2>4, <2>5, <2>6, <2>7
<1>15. CASE UNCHANGED scheduleVars
  BY <1>15 DEF scheduleVars
<1> QED
  BY <1>1, <1>2, <1>3, <1>4, <1>5, <1>6, <1>7, <1>8, <1>9, <1>10, <1>11, <1>12, <1>13, <1>14, <1>15 DEF ScheduleNext

(* Every step keeps the rest of the invariant. *)
LEMMA ScheduleStep == ScheduleInv /\ [ScheduleNext]_scheduleVars => ScheduleInv'
<1> SUFFICES ASSUME ScheduleInv, [ScheduleNext]_scheduleVars PROVE ScheduleInv'
  OBVIOUS
<1>0. ScheduleTypeOK'
  BY TypesStep DEF ScheduleInv
<1> USE ScheduleAssumption DEF ScheduleInv, ScheduleTypeOK, Ticks
<1>1. CASE Passes
  BY <1>0, <1>1 DEF Passes, server,
     NothingIsAhead, RoundSawIt, LastIsNotAmid, ReadsInTurn, NoScanStaysUnread, UnreadIsDue, UnreadSurvivesRestart,
     NobodyWaitsInVain, RunningMeansSomebody, HaltIsHeard, EarlyIsKnown
<1>2. CASE ScanBegins
  <2>1. NothingIsAhead'
    BY <1>2 DEF ScanBegins, server, NothingIsAhead
  <2>2. RoundSawIt' /\ LastIsNotAmid'
    BY <1>2 DEF ScanBegins, server, NothingIsAhead, RoundSawIt, LastIsNotAmid, ReadsInTurn
  <2>3. ReadsInTurn'
    BY <1>2 DEF ScanBegins, server, NothingIsAhead, ReadsInTurn
  <2>4. NobodyWaitsInVain' /\ EarlyIsKnown'
    BY <1>2 DEF ScanBegins, server, NobodyWaitsInVain, RunningMeansSomebody, HaltIsHeard, EarlyIsKnown
  <2>5. NoScanStaysUnread'
    BY <1>2 DEF ScanBegins, server, NothingIsAhead, LastIsNotAmid, ReadsInTurn, NoScanStaysUnread, UnreadIsDue, UnreadSurvivesRestart
  <2> QED
    BY <1>0, <2>1, <2>2, <2>3, <2>4, <2>5
<1>3. CASE ScanEnds
  <2>1. NothingIsAhead'
    BY <1>3 DEF ScanEnds, NothingIsAhead
  <2>2. RoundSawIt' /\ LastIsNotAmid'
    BY <1>3 DEF ScanEnds, NothingIsAhead, RoundSawIt, LastIsNotAmid, ReadsInTurn
  <2>3. ReadsInTurn'
    BY <1>3 DEF ScanEnds, NothingIsAhead, ReadsInTurn
  <2>4. NobodyWaitsInVain' /\ EarlyIsKnown'
    BY <1>3 DEF ScanEnds, NobodyWaitsInVain, RunningMeansSomebody, HaltIsHeard, EarlyIsKnown
  <2>5. NoScanStaysUnread'
    BY <1>3 DEF ScanEnds, NothingIsAhead, LastIsNotAmid, ReadsInTurn, NoScanStaysUnread, UnreadIsDue, UnreadSurvivesRestart
  <2> QED
    BY <1>0, <2>1, <2>2, <2>3, <2>4, <2>5
<1>4. CASE RoundBegins
  BY <1>0, <1>4 DEF RoundBegins,
     NothingIsAhead, RoundSawIt, LastIsNotAmid, ReadsInTurn, NoScanStaysUnread, UnreadIsDue, UnreadSurvivesRestart,
     NobodyWaitsInVain, RunningMeansSomebody, HaltIsHeard, EarlyIsKnown
<1>5. CASE RoundAsks
  BY <1>0, <1>5 DEF RoundAsks,
     NothingIsAhead, RoundSawIt, LastIsNotAmid, ReadsInTurn, NoScanStaysUnread, UnreadIsDue, UnreadSurvivesRestart,
     NobodyWaitsInVain, RunningMeansSomebody, HaltIsHeard, EarlyIsKnown
<1>6. CASE RoundDecides
  <2>1. NothingIsAhead'
    BY <1>6 DEF RoundDecides, Spawns, NothingIsAhead
  <2>2. RoundSawIt' /\ LastIsNotAmid'
    BY <1>6 DEF RoundDecides, Spawns, LibraryDue, NothingIsAhead, RoundSawIt, LastIsNotAmid, ReadsInTurn
  <2>3. ReadsInTurn'
    BY <1>6 DEF RoundDecides, Spawns, LibraryDue, NothingIsAhead, ReadsInTurn
  <2>4. NobodyWaitsInVain' /\ EarlyIsKnown'
    BY <1>6 DEF RoundDecides, Spawns, LibraryDue, NobodyWaitsInVain, RunningMeansSomebody, HaltIsHeard, EarlyIsKnown
  <2>5. NoScanStaysUnread'
    BY <1>6 DEF RoundDecides, Spawns, LibraryDue, NothingIsAhead, LastIsNotAmid, ReadsInTurn, NoScanStaysUnread, UnreadIsDue, UnreadSurvivesRestart
  <2> QED
    BY <1>0, <2>1, <2>2, <2>3, <2>4, <2>5
<1>7. CASE ByHand
  BY <1>0, <1>7 DEF ByHand, Spawns,
     NothingIsAhead, RoundSawIt, LastIsNotAmid, ReadsInTurn, NoScanStaysUnread, UnreadIsDue, UnreadSurvivesRestart,
     NobodyWaitsInVain, RunningMeansSomebody, HaltIsHeard, EarlyIsKnown
<1>8. CASE LibraryReadBegins
  BY <1>0, <1>8 DEF LibraryReadBegins,
     NothingIsAhead, RoundSawIt, LastIsNotAmid, ReadsInTurn, NoScanStaysUnread, UnreadIsDue, UnreadSurvivesRestart,
     NobodyWaitsInVain, RunningMeansSomebody, HaltIsHeard, EarlyIsKnown
<1>9. CASE LibraryReadEnds
  BY <1>0, <1>9 DEF LibraryReadEnds, NoReader,
     NothingIsAhead, RoundSawIt, LastIsNotAmid, ReadsInTurn, NoScanStaysUnread, UnreadIsDue, UnreadSurvivesRestart,
     NobodyWaitsInVain, RunningMeansSomebody, HaltIsHeard, EarlyIsKnown
<1>10. CASE LibraryReadFails
  BY <1>0, <1>10 DEF LibraryReadFails, NoReader,
     NothingIsAhead, RoundSawIt, LastIsNotAmid, ReadsInTurn, NoScanStaysUnread, UnreadIsDue, UnreadSurvivesRestart,
     NobodyWaitsInVain, RunningMeansSomebody, HaltIsHeard, EarlyIsKnown
<1>11. CASE LibraryReadPanics
  BY <1>0, <1>11 DEF LibraryReadPanics,
     NothingIsAhead, RoundSawIt, LastIsNotAmid, ReadsInTurn, NoScanStaysUnread, UnreadIsDue, UnreadSurvivesRestart,
     NobodyWaitsInVain, RunningMeansSomebody, HaltIsHeard, EarlyIsKnown
<1>12. CASE LibraryReadRefuses
  <2>1. NothingIsAhead'
    BY <1>12 DEF LibraryReadRefuses, RequestHalt, NoReader, NothingIsAhead
  <2>2. RoundSawIt' /\ LastIsNotAmid'
    BY <1>12 DEF LibraryReadRefuses, RequestHalt, NoReader, NothingIsAhead, RoundSawIt, LastIsNotAmid, ReadsInTurn
  <2>3. ReadsInTurn'
    BY <1>12 DEF LibraryReadRefuses, RequestHalt, NoReader, NothingIsAhead, ReadsInTurn
  <2>4. NobodyWaitsInVain' /\ EarlyIsKnown'
    BY <1>12 DEF LibraryReadRefuses, RequestHalt, NoReader, NobodyWaitsInVain, RunningMeansSomebody, HaltIsHeard, EarlyIsKnown
  <2>5. NoScanStaysUnread'
    BY <1>12 DEF LibraryReadRefuses, RequestHalt, NoReader, NothingIsAhead, LastIsNotAmid, ReadsInTurn, NoScanStaysUnread, UnreadIsDue, UnreadSurvivesRestart
  <2> QED
    BY <1>0, <2>1, <2>2, <2>3, <2>4, <2>5
<1>13. CASE Serves
  BY <1>0, <1>13 DEF Serves,
     NothingIsAhead, RoundSawIt, LastIsNotAmid, ReadsInTurn, NoScanStaysUnread, UnreadIsDue, UnreadSurvivesRestart,
     NobodyWaitsInVain, RunningMeansSomebody, HaltIsHeard, EarlyIsKnown
<1>14. CASE StartsOver
  <2>1. NothingIsAhead'
    BY <1>14 DEF StartsOver, NoReader, NothingIsAhead
  <2>2. RoundSawIt' /\ LastIsNotAmid'
    BY <1>14 DEF StartsOver, NoReader, NothingIsAhead, RoundSawIt, LastIsNotAmid, ReadsInTurn
  <2>3. ReadsInTurn'
    BY <1>14 DEF StartsOver, NoReader, NothingIsAhead, ReadsInTurn
  <2>4. NobodyWaitsInVain' /\ EarlyIsKnown'
    BY <1>14 DEF StartsOver, NoReader, NobodyWaitsInVain, RunningMeansSomebody, HaltIsHeard, EarlyIsKnown
  <2>5. NoScanStaysUnread'
    BY <1>14 DEF StartsOver, NoReader, NothingIsAhead, LastIsNotAmid, ReadsInTurn, NoScanStaysUnread, UnreadIsDue, UnreadSurvivesRestart
  <2> QED
    BY <1>0, <2>1, <2>2, <2>3, <2>4, <2>5
<1>15. CASE UNCHANGED scheduleVars
  BY <1>0, <1>15 DEF scheduleVars,
     NothingIsAhead, RoundSawIt, LastIsNotAmid, ReadsInTurn, NoScanStaysUnread, UnreadIsDue, UnreadSurvivesRestart,
     NobodyWaitsInVain, RunningMeansSomebody, HaltIsHeard, EarlyIsKnown
<1> QED
  BY <1>1, <1>2, <1>3, <1>4, <1>5, <1>6, <1>7, <1>8, <1>9, <1>10, <1>11, <1>12, <1>13, <1>14, <1>15 DEF ScheduleNext

(* The invariant holds in every reachable state. *)
THEOREM ScheduleInvariant == ScheduleSpec => []ScheduleInv
  BY ScheduleStart, ScheduleStep, PTL DEF ScheduleSpec

(* Every scan of Jellyfin is read after: one that ended and after which no   *)
(* read has begun is due, and one after which none is complete is due again  *)
(* when finstats starts, however reads by hand, failures and restarts fall.  *)
THEOREM ScansAreRead == ScheduleSpec => []NoScanStaysUnread
<1>1. ScheduleInv => NoScanStaysUnread
  BY DEF ScheduleInv
<1> QED
  BY <1>1, ScheduleInvariant, PTL

(* The task is taken only while somebody has it, or has panicked with it;    *)
(* and the serve loop does not wait on when a halt was named for in its time. *)
THEOREM NobodyIsForgotten == ScheduleSpec => []NobodyWaitsInVain
<1>1. ScheduleInv => NobodyWaitsInVain
  BY DEF ScheduleInv
<1> QED
  BY <1>1, ScheduleInvariant, PTL

-----------------------------------------------------------------------------
(***************************************************************************)
(* The connections                                                         *)
(***************************************************************************)

(* Ids are given out in order and never again: one not given out has no row  *)
(* in either table.                                                          *)
IdsInOrder ==
  /\ issued \in Nat
  /\ DOMAIN services = Ids /\ DOMAIN requests = Ids
  /\ \A id \in Ids : id > issued => services[id] = Nowhere /\ requests[id] = NoRows
  /\ \A id \in Ids, r \in Requests :
       requests[id][r] # NoRow => "removed" \in DOMAIN requests[id][r]

(* A pass that reads a connection. *)
Busy == pass.pc \in {"probe", "list", "recheck", "by_name", "write"}

(* A pass knows what it has still to read, and one that reads, for whom.     *)
PassKnows ==
  /\ pass.pc = "next" \/ Busy =>
       \A svc \in pass.list : svc.id \in Ids /\ svc.url # Nowhere
  /\ Busy => pass.id \in Ids /\ {"pc", "list", "id", "url", "news", "rows", "page", "complete"} \subseteq DOMAIN pass
  /\ ~Busy => "id" \notin DOMAIN pass /\ "url" \notin DOMAIN pass

(* A reading that nothing has spoiled reads from where the connection it     *)
(* reads for points, unless that is no more.                                 *)
ReadsWhereItPoints ==
  Busy /\ pass.news # "spoiled" =>
    pass.id <= issued /\ services[pass.id] \in {pass.url, Nowhere}

(* The inductive invariant of what Seerr a row is from. *)
RowsInv == IdsInOrder /\ PassKnows /\ ReadsWhereItPoints /\ RowsOfTheInstance

LEMMA NoRowsAreNone == \A r \in Requests : NoRows[r] = NoRow
BY DEF NoRows

LEMMA RowsInit == ConnectionsInit => RowsInv
<1> SUFFICES ASSUME ConnectionsInit PROVE RowsInv
  OBVIOUS
<1>1. IdsInOrder
  BY NoRowsAreNone DEF ConnectionsInit, IdsInOrder
<1>2. PassKnows /\ ReadsWhereItPoints
  BY DEF ConnectionsInit, PassKnows, ReadsWhereItPoints, Busy, Resting
<1>3. RowsOfTheInstance
  BY NoRowsAreNone DEF ConnectionsInit, RowsOfTheInstance, Connected
<1> QED
  BY <1>1, <1>2, <1>3 DEF RowsInv

-----------------------------------------------------------------------------
(* The pass *)

(* A pass that goes on reading as it did, or on to the next, reads from      *)
(* where it should.                                                          *)
LEMMA PassGoesOn ==
  ASSUME RowsInv, UNCHANGED <<services, issued, requests, spoiled>>,
         \/ pass' = pass
         \/ Busy /\ pass' = NextOne(pass.list)
         \/ /\ Busy /\ Busy'
            /\ pass'.list = pass.list /\ pass'.id = pass.id /\ pass'.url = pass.url /\ DOMAIN pass' = DOMAIN pass
            /\ pass'.news # "spoiled" => pass.news # "spoiled"
  PROVE  RowsInv'
<1> USE DEF RowsInv
<1>1. IdsInOrder' /\ RowsOfTheInstance'
  BY DEF IdsInOrder, RowsOfTheInstance, Connected
<1>2. CASE pass' = pass
  BY <1>1, <1>2 DEF PassKnows, ReadsWhereItPoints, Busy
<1>3. CASE Busy /\ pass' = NextOne(pass.list)
  <2>1. pass' = Resting \/ pass' = [pc |-> "next", list |-> pass.list]
    BY <1>3 DEF NextOne
  <2>2. ~Busy' /\ "id" \notin DOMAIN pass' /\ "url" \notin DOMAIN pass'
    BY <2>1 DEF Busy, Resting
  <2>3. pass'.pc = "next" => pass'.list = pass.list
    BY <2>1 DEF Resting
  <2> QED
    BY <1>1, <1>3, <2>2, <2>3 DEF PassKnows, ReadsWhereItPoints
<1>4. CASE /\ Busy /\ Busy'
           /\ pass'.list = pass.list /\ pass'.id = pass.id /\ pass'.url = pass.url /\ DOMAIN pass' = DOMAIN pass
           /\ pass'.news # "spoiled" => pass.news # "spoiled"
  BY <1>1, <1>4 DEF PassKnows, ReadsWhereItPoints
<1> QED
  BY <1>2, <1>3, <1>4

(* What is noted on a pass changes neither what it reads nor for whom.       *)
LEMMA NotedPass ==
  ASSUME PassKnows, Busy, NEW n, pass' = [pass EXCEPT !.news = n]
  PROVE  /\ Busy' /\ DOMAIN pass' = DOMAIN pass /\ pass'.news = n
         /\ pass'.list = pass.list /\ pass'.id = pass.id /\ pass'.url = pass.url
BY DEF PassKnows, Busy

LEMMA HearsGoesOn ==
  ASSUME RowsInv, NEW s, NEW n \in {"touched", "spoiled"}, Hears(s, n),
         UNCHANGED <<services, issued, requests, spoiled>>
  PROVE  RowsInv'
<1>1. CASE pass' = pass
  BY <1>1, PassGoesOn
<1>2. CASE pass' # pass
  <2>1. "url" \in DOMAIN pass /\ pass.news # "spoiled" /\ pass' = [pass EXCEPT !.news = n]
    BY <1>2 DEF Hears
  <2>2. Busy
    BY <2>1 DEF RowsInv, PassKnows
  <2> QED
    BY <2>1, <2>2, NotedPass, PassGoesOn DEF RowsInv
<1> QED
  BY <1>1, <1>2

LEMMA StartPassKeeps ==
  ASSUME RowsInv, StartPass
  PROVE  RowsInv'
<1>1. pass' = [pc |-> "next", list |-> {[id |-> id, url |-> memory[id]] : id \in Connected(memory)}]
  BY DEF StartPass
<1>2. UNCHANGED <<services, issued, requests, spoiled>>
  BY DEF StartPass, tables
<1>3. ~Busy' /\ "id" \notin DOMAIN pass' /\ "url" \notin DOMAIN pass'
  BY <1>1 DEF Busy
<1>4. \A svc \in pass'.list : svc.id \in Ids /\ svc.url # Nowhere
  BY <1>1 DEF Connected
<1> QED
  BY <1>2, <1>3, <1>4 DEF RowsInv, IdsInOrder, PassKnows, ReadsWhereItPoints, RowsOfTheInstance, Connected

LEMMA BeginReadKeeps ==
  ASSUME RowsInv, NEW day \in BOOLEAN, NEW quarter \in BOOLEAN, BeginRead(day, quarter)
  PROVE  RowsInv'
<1>1. PICK svc \in pass.list : pass' = Reading(svc, cursor[svc.id] = 0 \/ day, quarter)
  BY DEF BeginRead
<1>2. pass.pc = "next" /\ UNCHANGED <<services, issued, requests, spoiled>>
  BY DEF BeginRead, tables
<1>3. svc.id \in Ids /\ svc.url # Nowhere
  BY <1>2 DEF RowsInv, PassKnows
<1>4. /\ Busy' /\ pass'.id = svc.id /\ pass'.url = svc.url /\ pass'.list = pass.list \ {svc}
      /\ pass'.news = IF services[svc.id] = svc.url THEN "none" ELSE "spoiled"
      /\ {"pc", "list", "id", "url", "news", "rows", "page", "complete"} \subseteq DOMAIN pass'
  BY <1>1 DEF Reading, Busy
<1>5. PassKnows'
  BY <1>2, <1>3, <1>4 DEF RowsInv, PassKnows
<1>6. ReadsWhereItPoints'
  <2>1. svc.id \in Nat /\ issued \in Nat
    BY <1>3, ConnectionsAssumption DEF Ids, RowsInv, IdsInOrder
  <2>2. services[svc.id] = svc.url => svc.id <= issued
    BY <1>3, <2>1 DEF RowsInv, IdsInOrder
  <2> QED
    BY <1>2, <1>4, <2>2 DEF ReadsWhereItPoints
<1> QED
  BY <1>2, <1>5, <1>6 DEF RowsInv, IdsInOrder, RowsOfTheInstance, Connected

LEMMA ReadingKeeps ==
  ASSUME RowsInv, Probe \/ ReadPage \/ Recheck \/ ReadFails \/ \E named \in SUBSET Requests : ByName(named)
  PROVE  RowsInv'
<1>1. Busy /\ UNCHANGED <<services, issued, requests, spoiled>>
  BY DEF Probe, ReadPage, Recheck, ReadFails, ByName, Busy, tables
<1>2. {"pc", "list", "id", "url", "news", "rows", "page", "complete"} \subseteq DOMAIN pass
  BY <1>1 DEF RowsInv, PassKnows
<1>3. ASSUME NEW p \in {"list", "recheck", "by_name", "write"}, NEW rows, NEW page, NEW complete,
             pass' = [pass EXCEPT !.rows = rows, !.page = page, !.complete = complete, !.pc = p]
      PROVE  RowsInv'
  <2>1. /\ pass'.pc = p /\ pass'.list = pass.list /\ pass'.id = pass.id /\ pass'.url = pass.url
        /\ pass'.news = pass.news /\ DOMAIN pass' = DOMAIN pass
    BY <1>2, <1>3
  <2> QED
    BY <1>1, <2>1, PassGoesOn DEF Busy
<1>4. ASSUME NEW p \in {"list", "recheck", "by_name", "write"}, NEW rows,
             pass' = [pass EXCEPT !.pc = p, !.rows = rows]
      PROVE  RowsInv'
  <2>1. /\ pass'.pc = p /\ pass'.list = pass.list /\ pass'.id = pass.id /\ pass'.url = pass.url
        /\ pass'.news = pass.news /\ DOMAIN pass' = DOMAIN pass
    BY <1>2, <1>4
  <2> QED
    BY <1>1, <2>1, PassGoesOn DEF Busy
<1>5. ASSUME NEW p \in {"list", "recheck"}, pass' = [pass EXCEPT !.pc = p]
      PROVE  RowsInv'
  <2>1. /\ pass'.pc = p /\ pass'.list = pass.list /\ pass'.id = pass.id /\ pass'.url = pass.url
        /\ pass'.news = pass.news /\ DOMAIN pass' = DOMAIN pass
    BY <1>2, <1>5
  <2> QED
    BY <1>1, <2>1, PassGoesOn DEF Busy
<1>6. ASSUME pass' = NextOne(pass.list) PROVE RowsInv'
  BY <1>1, <1>6, PassGoesOn
<1>7. CASE Probe
  <2>1. \/ pass' = [pass EXCEPT !.pc = "list"]
        \/ pass' = [pass EXCEPT !.pc = "recheck"]
        \/ pass' = NextOne(pass.list)
    BY <1>7 DEF Probe
  <2> QED
    BY <1>5, <1>6, <2>1
<1>8. CASE ReadPage
  <2>1. \E p \in {"list", "recheck", "by_name", "write"} : \E rows, page, complete :
          pass' = [pass EXCEPT !.rows = rows, !.page = page, !.complete = complete, !.pc = p]
    BY <1>8 DEF ReadPage
  <2> QED
    BY <1>3, <2>1
<1>9. CASE Recheck \/ \E named \in SUBSET Requests : ByName(named)
  BY <1>4, <1>9 DEF Recheck, ByName
<1>10. CASE ReadFails
  BY <1>6, <1>10 DEF ReadFails
<1> QED
  BY <1>7, <1>8, <1>9, <1>10

(* What a reading that nothing has spoiled stores comes from where its       *)
(* connection points; what it leaves did before, or is marked removed.       *)
LEMMA WriteKeeps ==
  ASSUME RowsInv, Write
  PROVE  RowsInv'
<1> USE DEF RowsInv
<1>1. Busy /\ pass.pc = "write" /\ UNCHANGED <<services, issued>> /\ services[pass.id] # Nowhere
  BY DEF Write, Busy
<1>2. pass.id \in Ids /\ pass.id \in Nat /\ issued \in Nat /\ pass.id <= issued
  BY <1>1, ConnectionsAssumption DEF PassKnows, IdsInOrder, Ids
<1>3. requests' = [requests EXCEPT ![pass.id] = [r \in Requests |-> Stored(r)]]
  BY DEF Write
<1>4. \A r \in Requests :
        \/ Stored(r) = [upd |-> Latest(r).upd, open |-> Latest(r).open, removed |-> FALSE, from |-> pass.url]
        \/ /\ pass.full /\ pass.complete /\ requests[pass.id][r] # NoRow
           /\ Stored(r) = [requests[pass.id][r] EXCEPT !.removed = TRUE]
        \/ /\ ~(pass.full /\ pass.complete) \/ requests[pass.id][r] = NoRow
           /\ Stored(r) = requests[pass.id][r]
  BY DEF Stored
<1>5. \A r \in Requests : requests[pass.id][r] # NoRow => "removed" \in DOMAIN requests[pass.id][r]
  BY <1>2 DEF IdsInOrder
<1>6. \A r \in Requests :
        \/ Stored(r).from = pass.url /\ "removed" \in DOMAIN Stored(r)
        \/ Stored(r).removed /\ "removed" \in DOMAIN Stored(r)
        \/ /\ ~(pass.full /\ pass.complete) \/ requests[pass.id][r] = NoRow
           /\ Stored(r) = requests[pass.id][r]
  BY <1>4, <1>5
<1>7. \A r \in Requests : requests'[pass.id][r] = Stored(r)
  BY <1>2, <1>3 DEF IdsInOrder
<1>8. \A id \in Ids \ {pass.id} : requests'[id] = requests[id]
  BY <1>3 DEF IdsInOrder
<1>9. IdsInOrder'
  <2>1. \A id \in Ids : id > issued => id # pass.id
    BY <1>2, ConnectionsAssumption DEF Ids
  <2>2. \A id \in Ids, r \in Requests : requests'[id][r] # NoRow => "removed" \in DOMAIN requests'[id][r]
    BY <1>5, <1>6, <1>7, <1>8 DEF IdsInOrder
  <2>3. DOMAIN requests' = Ids
    BY <1>3 DEF IdsInOrder
  <2> QED
    BY <1>1, <1>8, <2>1, <2>2, <2>3 DEF IdsInOrder
<1>10. PassKnows' /\ ReadsWhereItPoints'
  <2>1. pass' = Resting \/ pass' = [pc |-> "next", list |-> pass.list]
    BY DEF Write, NextOne
  <2>2. ~Busy' /\ "id" \notin DOMAIN pass' /\ "url" \notin DOMAIN pass'
    BY <2>1 DEF Busy, Resting
  <2>3. pass'.pc = "next" => pass'.list = pass.list
    BY <2>1 DEF Resting
  <2> QED
    BY <1>1, <2>2, <2>3 DEF PassKnows, ReadsWhereItPoints
<1>11. \A id \in Ids \ {pass.id} : id \in spoiled' <=> id \in spoiled
  BY DEF Write
<1>12. pass.id \notin spoiled' => /\ pass.news # "spoiled"
                                  /\ \/ pass.full /\ pass.complete
                                     \/ pass.id \notin spoiled
  BY DEF Write
<1>13. ASSUME NEW id \in Connected(services') \ spoiled', NEW r \in Requests,
              requests'[id][r] # NoRow, ~requests'[id][r].removed
       PROVE  requests'[id][r].from = services'[id]
  <2>1. id \in Ids /\ id \in Connected(services)
    BY <1>1, <1>13 DEF Connected
  <2>2. CASE id # pass.id
    BY <1>1, <1>8, <1>11, <1>13, <2>1, <2>2 DEF RowsOfTheInstance
  <2>3. CASE id = pass.id
    <3>1. services[id] = pass.url
      BY <1>1, <1>12, <1>13, <2>3 DEF ReadsWhereItPoints
    <3>2. CASE Stored(r).from = pass.url
      BY <1>1, <1>7, <2>3, <3>1, <3>2
    <3>3. CASE ~(pass.full /\ pass.complete) /\ Stored(r) = requests[pass.id][r]
      BY <1>1, <1>7, <1>12, <1>13, <2>1, <2>3, <3>3 DEF RowsOfTheInstance
    <3>4. Stored(r) # NoRow /\ ~Stored(r).removed
      BY <1>7, <1>13, <2>3
    <3> QED
      BY <1>6, <3>2, <3>3, <3>4
  <2> QED
    BY <2>2, <2>3
<1>14. RowsOfTheInstance'
  BY <1>13 DEF RowsOfTheInstance
<1> QED
  BY <1>9, <1>10, <1>14

-----------------------------------------------------------------------------
(* The owners *)

LEMMA CreateKeeps ==
  ASSUME RowsInv, NEW o \in Owners, Create(o)
  PROVE  RowsInv'
<1> USE DEF RowsInv
<1>1. /\ issued' = issued + 1 /\ services' = [services EXCEPT ![issued + 1] = owner[o].url]
      /\ UNCHANGED <<requests, pass, spoiled>>
  BY DEF Create
<1>2. issued \in Nat /\ \A id \in Ids : id \in Nat
  BY ConnectionsAssumption DEF Ids, IdsInOrder
<1>3. \A id \in Ids : id # issued + 1 => services'[id] = services[id]
  BY <1>1 DEF IdsInOrder
<1>4. IdsInOrder'
  <2>1. \A id \in Ids : id > issued' => id > issued /\ id # issued + 1
    BY <1>1, <1>2
  <2>2. DOMAIN services' = Ids /\ issued' \in Nat
    BY <1>1, <1>2 DEF IdsInOrder
  <2> QED
    BY <1>1, <1>3, <2>1, <2>2 DEF IdsInOrder
<1>5. PassKnows'
  BY <1>1 DEF PassKnows, Busy
<1>6. ReadsWhereItPoints'
  <2> SUFFICES ASSUME Busy, pass.news # "spoiled"
               PROVE  pass.id <= issued' /\ services'[pass.id] \in {pass.url, Nowhere}
    BY <1>1 DEF ReadsWhereItPoints, Busy
  <2>1. pass.id \in Ids /\ pass.id <= issued /\ services[pass.id] \in {pass.url, Nowhere}
    BY DEF PassKnows, ReadsWhereItPoints
  <2>2. pass.id \in Nat /\ pass.id # issued + 1 /\ pass.id <= issued'
    BY <1>1, <1>2, <2>1
  <2> QED
    BY <1>3, <2>1, <2>2
<1>7. RowsOfTheInstance'
  <2>1. \A id \in Ids : id = issued + 1 => \A r \in Requests : requests[id][r] = NoRow
    BY <1>2, NoRowsAreNone DEF IdsInOrder
  <2> QED
    BY <1>1, <1>3, <2>1 DEF RowsOfTheInstance, Connected
<1> QED
  BY <1>4, <1>5, <1>6, <1>7

LEMMA RemoveKeeps ==
  ASSUME RowsInv, NEW o \in Owners, NEW id \in Ids, RemoveConnection(o, id)
  PROVE  RowsInv'
<1> USE DEF RowsInv
<1>1. /\ services' = [services EXCEPT ![id] = Nowhere] /\ requests' = [requests EXCEPT ![id] = NoRows]
      /\ UNCHANGED <<issued, pass, spoiled>>
  BY DEF RemoveConnection
<1>2. /\ services'[id] = Nowhere /\ requests'[id] = NoRows
      /\ \A d \in Ids \ {id} : services'[d] = services[d] /\ requests'[d] = requests[d]
      /\ DOMAIN services' = Ids /\ DOMAIN requests' = Ids
  BY <1>1 DEF IdsInOrder
<1>3. IdsInOrder'
  BY <1>1, <1>2, NoRowsAreNone DEF IdsInOrder
<1>4. PassKnows'
  BY <1>1 DEF PassKnows, Busy
<1>5. ReadsWhereItPoints'
  <2>1. Busy => pass.id \in Ids
    BY DEF PassKnows
  <2> QED
    BY <1>1, <1>2, <2>1 DEF ReadsWhereItPoints, Busy
<1>6. RowsOfTheInstance'
  BY <1>1, <1>2, NoRowsAreNone DEF RowsOfTheInstance, Connected
<1> QED
  BY <1>3, <1>4, <1>5, <1>6

(* A change that moves a connection takes what was read with it; one that    *)
(* puts back where it pointed leaves what was read suspect.                  *)
LEMMA UpdateKeeps ==
  ASSUME RowsInv, NEW o \in Owners, Update(o)
  PROVE  RowsInv'
<1> USE DEF RowsInv
<1> DEFINE id    == owner[o].id
           url   == owner[o].url
           moved == url # owner[o].was
           other == services[id] # url
<1>1. /\ services' = IF services[id] = Nowhere THEN services ELSE [services EXCEPT ![id] = url]
      /\ IF moved THEN requests' = [requests EXCEPT ![id] = NoRows] ELSE requests' = requests
      /\ pass' = IF Reads(id) /\ (moved \/ other) THEN [pass EXCEPT !.news = "spoiled"] ELSE pass
      /\ spoiled' = IF moved THEN spoiled \ {id} ELSE IF other THEN spoiled \cup {id} ELSE spoiled
      /\ issued' = issued
  BY DEF Update, Wiped
<1> HIDE DEF id, url, moved
<1>2. \A d \in Ids \ {id} : services'[d] = services[d] /\ requests'[d] = requests[d] /\ (d \in spoiled' <=> d \in spoiled)
  BY <1>1 DEF IdsInOrder
<1>3. DOMAIN services' = Ids /\ DOMAIN requests' = Ids
  BY <1>1 DEF IdsInOrder
<1>4. id \in Ids => /\ services'[id] = (IF services[id] = Nowhere THEN Nowhere ELSE url)
                    /\ requests'[id] = (IF moved THEN NoRows ELSE requests[id])
  BY <1>1 DEF IdsInOrder
<1>5. IdsInOrder'
  BY <1>1, <1>2, <1>3, <1>4, NoRowsAreNone DEF IdsInOrder
<1>6. /\ Busy' <=> Busy
      /\ Busy => /\ pass'.list = pass.list /\ pass'.id = pass.id /\ pass'.url = pass.url /\ DOMAIN pass' = DOMAIN pass
                 /\ pass'.news # "spoiled" => pass' = pass /\ ~(pass.id = id /\ (moved \/ other))
      /\ ~Busy => pass' = pass
  <2>1. CASE Busy
    <3>1. "id" \in DOMAIN pass
      BY <2>1 DEF PassKnows
    <3>2. CASE pass.id = id /\ (moved \/ other)
      <4>1. pass' = [pass EXCEPT !.news = "spoiled"]
        BY <1>1, <3>1, <3>2 DEF Reads
      <4> QED
        BY <2>1, <4>1, NotedPass
    <3>3. CASE ~(pass.id = id /\ (moved \/ other))
      <4>1. pass' = pass
        BY <1>1, <3>3 DEF Reads
      <4> QED
        BY <2>1, <3>3, <4>1 DEF Busy
    <3> QED
      BY <3>2, <3>3
  <2>2. CASE ~Busy
    <3>1. pass' = pass
      BY <1>1, <2>2 DEF Reads, PassKnows
    <3> QED
      BY <2>2, <3>1 DEF Busy
  <2> QED
    BY <2>1, <2>2
<1>7. PassKnows'
  <2>1. CASE Busy
    BY <1>6, <2>1 DEF PassKnows
  <2>2. CASE ~Busy
    BY <1>6, <2>2 DEF PassKnows
  <2> QED
    BY <2>1, <2>2
<1>8. ReadsWhereItPoints'
  <2> SUFFICES ASSUME Busy', pass'.news # "spoiled"
               PROVE  pass'.id <= issued' /\ services'[pass'.id] \in {pass'.url, Nowhere}
    BY DEF ReadsWhereItPoints
  <2>1. Busy /\ pass' = pass /\ ~(pass.id = id /\ (moved \/ other))
    BY <1>6
  <2>2. pass.id \in Ids /\ pass.id <= issued /\ services[pass.id] \in {pass.url, Nowhere}
    BY <2>1 DEF PassKnows, ReadsWhereItPoints
  <2>3. services'[pass.id] = services[pass.id]
    BY <1>2, <1>4, <2>1, <2>2
  <2> QED
    BY <1>1, <2>1, <2>2, <2>3
<1>9. RowsOfTheInstance'
  <2> SUFFICES ASSUME NEW d \in Ids, services'[d] # Nowhere, d \notin spoiled', NEW r \in Requests,
                      requests'[d][r] # NoRow, ~requests'[d][r].removed
               PROVE  requests'[d][r].from = services'[d]
    BY DEF RowsOfTheInstance, Connected
  <2>1. CASE d # id
    BY <1>2, <2>1 DEF RowsOfTheInstance, Connected
  <2>2. CASE d = id
    <3>1. ~moved
      BY <1>4, <2>2, NoRowsAreNone
    <3>2. ~other /\ d \notin spoiled
      BY <1>1, <2>2, <3>1
    <3>3. services'[d] = services[d] /\ requests'[d] = requests[d]
      BY <1>4, <2>2, <3>1, <3>2
    <3> QED
      BY <3>2, <3>3 DEF RowsOfTheInstance, Connected
  <2> QED
    BY <2>1, <2>2
<1> QED
  BY <1>5, <1>7, <1>8, <1>9

-----------------------------------------------------------------------------
(* Every step *)

LEMMA RowsStep == RowsInv /\ [ConnectionsNext]_connVars => RowsInv'
<1> SUFFICES ASSUME RowsInv, [ConnectionsNext]_connVars PROVE RowsInv'
  OBVIOUS
<1>1. ASSUME NEW o \in Owners, NEW s \in Seerrs, NEW id \in Ids, StartUpdate(o, id, s) PROVE RowsInv'
  BY <1>1, PassGoesOn DEF StartUpdate, tables
<1>2. ASSUME NEW o \in Owners, NEW s \in Seerrs, StartCreate(o, s) PROVE RowsInv'
  BY <1>2, PassGoesOn DEF StartCreate, tables
<1>3. ASSUME NEW o \in Owners, TestFails(o) \/ ReloadReads(o) \/ ReloadEnds(o) PROVE RowsInv'
  BY <1>3, PassGoesOn DEF TestFails, ReloadReads, ReloadEnds, tables
<1>4. ASSUME NEW o \in Owners, Create(o) \/ Update(o) \/ \E id \in Ids : RemoveConnection(o, id) PROVE RowsInv'
  BY <1>4, CreateKeeps, UpdateKeeps, RemoveKeeps
<1>5. ASSUME NEW s \in Seerrs, NEW r \in Requests, (\E open \in BOOLEAN : Touch(s, r, open)) \/ Delete(s, r) PROVE RowsInv'
  BY <1>5, HearsGoesOn DEF Touch, Delete, tables
<1>6. ASSUME NEW s \in Seerrs, NEW r \in Requests, Arrive(s, r) PROVE RowsInv'
  BY <1>6, PassGoesOn DEF Arrive, tables
<1>7. ASSUME NEW day \in BOOLEAN, NEW quarter \in BOOLEAN, BeginRead(day, quarter) PROVE RowsInv'
  BY <1>7, BeginReadKeeps
<1>8. CASE StartPass \/ Write
  BY <1>8, StartPassKeeps, WriteKeeps
<1>9. CASE Probe \/ ReadPage \/ Recheck \/ ReadFails \/ \E named \in SUBSET Requests : ByName(named)
  BY <1>9, ReadingKeeps
<1>10. CASE UNCHANGED connVars
  BY <1>10, PassGoesOn DEF connVars
<1> QED
  BY <1>1, <1>2, <1>3, <1>4, <1>5, <1>6, <1>7, <1>8, <1>9, <1>10 DEF ConnectionsNext

(* What is kept as current of a Seerr comes from where its connection points *)
(* now, whoever moves, removes or makes connections while it is read, unless *)
(* it was moved during a reading or by a change from an entry that was       *)
(* behind.                                                                   *)
THEOREM RowsComeFromTheInstance == ConnectionsSpec => []RowsOfTheInstance
<1>1. RowsInv => RowsOfTheInstance
  BY DEF RowsInv
<1> QED
  BY RowsInit, RowsStep, <1>1, PTL DEF ConnectionsSpec

(* What a pass, the owners and the tables may be. *)
ConnSvc == [id : Ids, url : Seerrs]
ReadRow == [r : Requests, upd : Stamps, open : BOOLEAN]

ReadingPass ==
  [pc : {"probe", "list", "recheck", "by_name", "write"}, list : SUBSET ConnSvc, id : Ids, url : Seerrs,
   full : BOOLEAN, cursor : Stamps, open : SUBSET Requests, recheck : BOOLEAN, rows : SUBSET ReadRow,
   page : Nat, complete : BOOLEAN, since : Stamps, news : {"none", "touched", "spoiled"}]

PassFits ==
  \/ pass = Resting
  \/ pass \in [pc : {"next"}, list : SUBSET ConnSvc]
  \/ pass \in ReadingPass

Entries == [Ids -> Seerrs \cup {Nowhere}]

OwnerChange ==
  {Resting} \cup [pc : {"create"}, url : Seerrs] \cup [pc : {"update"}, id : Ids, url : Seerrs, was : Seerrs]
  \cup [pc : {"reload"}] \cup [pc : {"reloaded"}, list : Entries]

TablesFit ==
  /\ services \in Entries /\ memory \in Entries
  /\ issued \in 0..MaxIds
  /\ requests \in [Ids -> [Requests -> RequestRow \cup {NoRow}]]
  /\ cursor \in [Ids -> Stamps]

SeerrsFit ==
  /\ seerr \in [Seerrs -> [Requests -> Stamps]]
  /\ pending \in [Seerrs -> SUBSET Requests]
  /\ clock \in Stamps

ConnFits ==
  /\ SeerrsFit /\ TablesFit /\ PassFits
  /\ owner \in [Owners -> OwnerChange]
  /\ spoiled \subseteq Ids /\ hurried \subseteq Ids
  /\ changes \in 0..MaxChanges

LEMMA StampsAreNaturals == Stamps \subseteq Nat /\ Ids \subseteq Nat /\ 0 \in Stamps /\ 1 \in Ids
BY ConnectionsAssumption DEF Stamps, Ids

LEMMA FirstClock ==
  ConnectionsInit => /\ clock \in Stamps
                     /\ \A s \in Seerrs, r \in Requests : seerr[s][r] <= clock
<1> SUFFICES ASSUME ConnectionsInit
             PROVE  /\ clock \in Stamps
                    /\ \A s \in Seerrs, r \in Requests : seerr[s][r] <= clock
  OBVIOUS
<1> DEFINE S == {seerr[s][r] : s \in Seerrs, r \in Requests}
<1>1. clock = Max(S) /\ seerr = AtFirst
  BY DEF ConnectionsInit
<1>2. S \subseteq Stamps /\ S # {}
  <2>1. \A s \in Seerrs, r \in Requests : seerr[s][r] \in Stamps
    BY <1>1, ConnectionsAssumption DEF Stamps
  <2>2. PICK s \in Seerrs : \E r \in Requests : AtFirst[s][r] > 0
    BY ConnectionsAssumption
  <2>3. PICK r \in Requests : AtFirst[s][r] > 0
    BY <2>2
  <2>4. seerr[s][r] \in S
    OBVIOUS
  <2>5. S \subseteq Stamps
    BY <2>1
  <2> HIDE DEF S
  <2> QED
    BY <2>4, <2>5
<1>3. S \in SUBSET Nat /\ MaxClock \in Nat /\ \A x \in S : x <= MaxClock
  BY <1>2, StampsAreNaturals, ConnectionsAssumption DEF Stamps
<1>4. \A s \in Seerrs, r \in Requests : seerr[s][r] \in S
  OBVIOUS
<1> HIDE DEF S
<1>5. Max(S) \in S /\ \A x \in S : Max(S) >= x
  BY <1>2, <1>3, GreatestOf
<1> QED
  BY <1>1, <1>2, <1>3, <1>4, <1>5, StampsAreNaturals

LEMMA ConnFitsInit == ConnectionsInit => ConnFits
<1> SUFFICES ASSUME ConnectionsInit PROVE ConnFits
  OBVIOUS
<1> USE DEF ConnectionsInit
<1>1. SeerrsFit
  BY FirstClock, ConnectionsAssumption DEF SeerrsFit, Listed, Stamps
<1>2. (CHOOSE s \in Seerrs : Listed(s) # {}) \in Seerrs
  <2>1. \E s \in Seerrs : Listed(s) # {}
    BY ConnectionsAssumption DEF Listed
  <2> QED
    BY <2>1
<1>3. TablesFit
  BY <1>2, StampsAreNaturals, ConnectionsAssumption DEF TablesFit, Entries, NoRows, Ids
<1>4. PassFits
  BY DEF PassFits
<1>5. owner \in [Owners -> OwnerChange]
  BY DEF OwnerChange
<1> QED
  BY <1>1, <1>3, <1>4, <1>5, ConnectionsAssumption DEF ConnFits

(* What has been read of the rows of a pass. *)
LEMMA LatestIsRead ==
  ASSUME pass \in ReadingPass, NEW r \in SeenIds
  PROVE  Latest(r) \in pass.rows /\ Latest(r).r = r /\ \A v \in pass.rows : v.r = r => v.upd <= Latest(r).upd
<1> DEFINE S == {w.upd : w \in {v \in pass.rows : v.r = r}}
<1>1. pass.rows \subseteq ReadRow
  BY DEF ReadingPass
<1>2. S # {} /\ S \subseteq Stamps
  BY <1>1 DEF SeenIds, ReadRow
<1>3. S \in SUBSET Nat /\ MaxClock \in Nat /\ \A x \in S : x <= MaxClock
  BY <1>2, StampsAreNaturals, ConnectionsAssumption DEF Stamps
<1>4. \A v \in pass.rows : v.r = r => v.upd \in S
  OBVIOUS
<1>5. \A x \in S : \E w \in pass.rows : w.r = r /\ w.upd = x
  OBVIOUS
<1> HIDE DEF S
<1>6. Max(S) \in S /\ \A x \in S : Max(S) >= x
  BY <1>2, <1>3, GreatestOf
<1>7. PICK w \in pass.rows : w.r = r /\ w.upd = Max(S)
  BY <1>5, <1>6
<1>8. \A v \in pass.rows : v.r = r => v.upd <= w.upd
  <2> TAKE v \in pass.rows
  <2> HAVE v.r = r
  <2>1. v.upd \in S
    BY <1>4
  <2>2. Max(S) >= v.upd /\ Max(S) \in Nat /\ v.upd \in Nat
    BY <1>3, <1>6, <2>1
  <2> QED
    BY <1>7, <2>2
<1>9. \E x \in pass.rows : x.r = r /\ \A v \in pass.rows : v.r = r => v.upd <= x.upd
  BY <1>7, <1>8
<1> QED
  BY <1>9 DEF Latest

LEMMA StoredFits ==
  ASSUME ConnFits, pass \in ReadingPass, NEW r \in Requests
  PROVE  Stored(r) \in RequestRow \cup {NoRow}
<1>1. requests[pass.id][r] \in RequestRow \cup {NoRow}
  BY DEF ConnFits, TablesFit, ReadingPass
<1>2. CASE r \in SeenIds
  <2>1. Latest(r) \in ReadRow
    BY <1>2, LatestIsRead DEF ReadingPass
  <2>2. pass.url \in Seerrs
    BY DEF ReadingPass
  <2> QED
    BY <1>2, <2>1, <2>2 DEF Stored, RequestRow, ReadRow
<1>3. CASE r \notin SeenIds
  <2>1. requests[pass.id][r] # NoRow => [requests[pass.id][r] EXCEPT !.removed = TRUE] \in RequestRow
    BY <1>1 DEF RequestRow
  <2> QED
    BY <1>1, <1>3, <2>1 DEF Stored
<1> QED
  BY <1>2, <1>3

(* The cursor moves on to the newest row read. *)
LEMMA NewCursorIs ==
  ASSUME pass \in ReadingPass
  PROVE  /\ NewCursor \in Stamps /\ NewCursor >= pass.cursor
         /\ NewCursor = pass.cursor \/ \E w \in pass.rows : NewCursor = w.upd
<1> DEFINE S == {w.upd : w \in pass.rows} \cup {pass.cursor}
<1>1. S \subseteq Stamps /\ S # {}
  BY DEF ReadingPass, ReadRow
<1>2. S \in SUBSET Nat /\ MaxClock \in Nat /\ \A x \in S : x <= MaxClock
  BY <1>1, StampsAreNaturals, ConnectionsAssumption DEF Stamps
<1>3. pass.cursor \in S /\ \A x \in S : x = pass.cursor \/ \E w \in pass.rows : x = w.upd
  OBVIOUS
<1>4. NewCursor = Max(S)
  BY DEF NewCursor
<1> HIDE DEF S
<1>5. Max(S) \in S /\ \A x \in S : Max(S) >= x
  BY <1>1, <1>2, GreatestOf
<1> QED
  BY <1>1, <1>3, <1>4, <1>5

LEMMA WhichPass ==
  ASSUME PassFits
  PROVE  /\ pass.pc \in {"probe", "list", "recheck", "by_name", "write"} => pass \in ReadingPass
         /\ pass.pc = "next" => pass \in [pc : {"next"}, list : SUBSET ConnSvc]
         /\ "url" \in DOMAIN pass \/ "id" \in DOMAIN pass \/ "since" \in DOMAIN pass => pass \in ReadingPass
<1>1. CASE pass = Resting
  BY <1>1 DEF Resting
<1>2. CASE pass \in [pc : {"next"}, list : SUBSET ConnSvc]
  BY <1>2
<1>3. CASE pass \in ReadingPass
  BY <1>3 DEF ReadingPass
<1> QED
  BY <1>1, <1>2, <1>3 DEF PassFits

LEMMA NotedFits ==
  ASSUME pass \in ReadingPass, NEW n \in {"none", "touched", "spoiled"}, pass' = [pass EXCEPT !.news = n]
  PROVE  PassFits' /\ pass' \in ReadingPass
<1>1. pass' \in ReadingPass
  BY DEF ReadingPass
<1> QED
  BY <1>1 DEF PassFits

LEMMA HearsFits ==
  ASSUME PassFits, NEW s, NEW n \in {"touched", "spoiled"}, Hears(s, n)
  PROVE  PassFits'
<1>1. CASE pass' = pass
  BY <1>1 DEF PassFits
<1>2. CASE pass' # pass
  <2>1. "url" \in DOMAIN pass /\ pass' = [pass EXCEPT !.news = n]
    BY <1>2 DEF Hears
  <2> QED
    BY <2>1, WhichPass, NotedFits
<1> QED
  BY <1>1, <1>2

LEMMA NextOneFits ==
  ASSUME NEW svcs \in SUBSET ConnSvc, pass' = NextOne(svcs)
  PROVE  PassFits'
<1>1. pass' = Resting \/ pass' = [pc |-> "next", list |-> svcs]
  BY DEF NextOne
<1>2. CASE pass' = Resting
  BY <1>2 DEF PassFits, Resting
<1>3. CASE pass' = [pc |-> "next", list |-> svcs]
  BY <1>3 DEF PassFits
<1> QED
  BY <1>1, <1>2, <1>3

LEMMA OwnersFit ==
  ASSUME ConnFits, NEW o \in Owners
  PROVE  /\ owner[o] \in OwnerChange
         /\ owner[o].pc = "create" => owner[o] \in [pc : {"create"}, url : Seerrs]
         /\ owner[o].pc = "update" => owner[o] \in [pc : {"update"}, id : Ids, url : Seerrs, was : Seerrs]
         /\ owner[o].pc = "reloaded" => owner[o] \in [pc : {"reloaded"}, list : Entries]
<1>1. owner[o] \in OwnerChange
  BY DEF ConnFits
<1> QED
  BY <1>1 DEF OwnerChange, Resting

(* What an owner does leaves the pass and the Seerrs, but for the reading    *)
(* it moves.                                                                 *)
LEMMA OwnersKeepFits ==
  ASSUME ConnFits, NEW o \in Owners,
         \/ \E s \in Seerrs : StartCreate(o, s) \/ (\E id \in Ids : StartUpdate(o, id, s))
         \/ \E id \in Ids : RemoveConnection(o, id)
         \/ Create(o) \/ Update(o) \/ TestFails(o) \/ ReloadReads(o) \/ ReloadEnds(o)
  PROVE  ConnFits'
<1>1. ASSUME NEW v \in OwnerChange, owner' = [owner EXCEPT ![o] = v] PROVE owner' \in [Owners -> OwnerChange]
  BY <1>1 DEF ConnFits
<1>2. /\ Resting \in OwnerChange /\ [pc |-> "reload"] \in OwnerChange
      /\ [pc |-> "reloaded", list |-> services] \in OwnerChange
      /\ \A s \in Seerrs : [pc |-> "create", url |-> s] \in OwnerChange
  BY DEF OwnerChange, ConnFits, TablesFit
<1>3. Change => changes' \in 0..MaxChanges
  BY ConnectionsAssumption DEF Change, ConnFits
<1>4. UNCHANGED <<seerr, pending, clock>> => SeerrsFit'
  BY DEF ConnFits, SeerrsFit
<1>5. UNCHANGED <<services, issued, requests, cursor, memory>> => TablesFit'
  BY DEF ConnFits, TablesFit
<1>6. UNCHANGED pass => PassFits'
  BY DEF ConnFits, PassFits
<1>7. ASSUME NEW s \in Seerrs, StartCreate(o, s) PROVE ConnFits'
  <2>1. owner' \in [Owners -> OwnerChange]
    BY <1>1, <1>2, <1>7 DEF StartCreate
  <2> QED
    BY <1>3, <1>4, <1>5, <1>6, <1>7, <2>1 DEF StartCreate, ConnFits, tables
<1>8. ASSUME NEW s \in Seerrs, NEW id \in Ids, StartUpdate(o, id, s) PROVE ConnFits'
  <2>1. memory[id] \in Seerrs
    BY <1>8 DEF StartUpdate, ConnFits, TablesFit, Entries
  <2>2. [pc |-> "update", id |-> id, url |-> s, was |-> memory[id]] \in OwnerChange
    BY <2>1 DEF OwnerChange
  <2>3. owner' \in [Owners -> OwnerChange]
    BY <1>1, <1>8, <2>2 DEF StartUpdate
  <2> QED
    BY <1>3, <1>4, <1>5, <1>6, <1>8, <2>3 DEF StartUpdate, ConnFits, tables
<1>9. ASSUME NEW id \in Ids, RemoveConnection(o, id) PROVE ConnFits'
  <2>1. owner' \in [Owners -> OwnerChange]
    BY <1>1, <1>2, <1>9 DEF RemoveConnection
  <2>2. NoRows \in [Requests -> RequestRow \cup {NoRow}]
    BY DEF NoRows
  <2>3. /\ services' = [services EXCEPT ![id] = Nowhere] /\ requests' = [requests EXCEPT ![id] = NoRows]
        /\ UNCHANGED <<memory, issued, cursor>>
    BY <1>9 DEF RemoveConnection
  <2>4. services' \in Entries
    BY <2>3 DEF ConnFits, TablesFit, Entries
  <2>5. requests' \in [Ids -> [Requests -> RequestRow \cup {NoRow}]]
    BY <2>2, <2>3 DEF ConnFits, TablesFit
  <2>6. TablesFit'
    BY <2>3, <2>4, <2>5 DEF ConnFits, TablesFit
  <2> QED
    BY <1>3, <1>4, <1>6, <1>9, <2>1, <2>6 DEF RemoveConnection, ConnFits
<1>10. CASE Create(o)
  <2>1. owner' \in [Owners -> OwnerChange]
    BY <1>1, <1>2, <1>10 DEF Create
  <2>2. owner[o].url \in Seerrs
    BY <1>10, OwnersFit DEF Create
  <2>3. /\ services' = [services EXCEPT ![issued + 1] = owner[o].url] /\ issued' = issued + 1 /\ issued < MaxIds
        /\ UNCHANGED <<memory, requests, cursor>>
    BY <1>10 DEF Create
  <2>4. services' \in Entries
    BY <2>2, <2>3 DEF ConnFits, TablesFit, Entries
  <2>5. issued' \in 0..MaxIds
    BY <2>3, ConnectionsAssumption DEF ConnFits, TablesFit
  <2>6. TablesFit'
    BY <2>3, <2>4, <2>5 DEF ConnFits, TablesFit
  <2> QED
    BY <1>4, <1>6, <1>10, <2>1, <2>6 DEF Create, ConnFits
<1>11. CASE Update(o)
  <2> DEFINE id    == owner[o].id
             url   == owner[o].url
             moved == url # owner[o].was
             other == services[id] # url
  <2>1. owner' \in [Owners -> OwnerChange]
    BY <1>1, <1>2, <1>11 DEF Update
  <2>2. id \in Ids /\ url \in Seerrs
    BY <1>11, OwnersFit DEF Update
  <2>3. /\ services' = IF services[id] = Nowhere THEN services ELSE [services EXCEPT ![id] = url]
        /\ IF moved THEN requests' = [requests EXCEPT ![id] = NoRows] /\ cursor' = [cursor EXCEPT ![id] = 0]
                    ELSE requests' = requests /\ cursor' = cursor
        /\ pass' = IF Reads(id) /\ (moved \/ other) THEN [pass EXCEPT !.news = "spoiled"] ELSE pass
        /\ spoiled' = IF moved THEN spoiled \ {id} ELSE IF other THEN spoiled \cup {id} ELSE spoiled
        /\ hurried' = IF moved THEN hurried \ {id} ELSE hurried
        /\ UNCHANGED <<seerr, pending, clock, memory, issued, changes>>
    BY <1>11 DEF Update, Wiped
  <2> HIDE DEF id, url, moved, other
  <2>4. services' \in Entries
    BY <2>2, <2>3 DEF ConnFits, TablesFit, Entries
  <2>5. NoRows \in [Requests -> RequestRow \cup {NoRow}] /\ 0 \in Stamps
    BY StampsAreNaturals DEF NoRows
  <2>6. requests' \in [Ids -> [Requests -> RequestRow \cup {NoRow}]] /\ cursor' \in [Ids -> Stamps]
    BY <2>2, <2>3, <2>5 DEF ConnFits, TablesFit
  <2>7. TablesFit'
    BY <2>3, <2>4, <2>6 DEF ConnFits, TablesFit
  <2>8. PassFits'
    <3>1. CASE pass' = pass
      BY <1>6, <3>1
    <3>2. CASE pass' # pass
      <4>1. "id" \in DOMAIN pass /\ pass' = [pass EXCEPT !.news = "spoiled"]
        BY <2>3, <3>2 DEF Reads
      <4>2. pass \in ReadingPass
        BY <4>1, WhichPass DEF ConnFits
      <4> QED
        BY <4>1, <4>2, NotedFits
    <3> QED
      BY <3>1, <3>2
  <2>9. spoiled' \subseteq Ids /\ hurried' \subseteq Ids
    BY <2>2, <2>3 DEF ConnFits
  <2> QED
    BY <1>4, <2>1, <2>3, <2>7, <2>8, <2>9 DEF ConnFits
<1>12. CASE TestFails(o)
  <2>1. owner' \in [Owners -> OwnerChange]
    BY <1>1, <1>2, <1>12 DEF TestFails
  <2> QED
    BY <1>4, <1>5, <1>6, <1>12, <2>1 DEF TestFails, ConnFits, tables
<1>13. CASE ReloadReads(o)
  <2>1. owner' \in [Owners -> OwnerChange]
    BY <1>1, <1>2, <1>13 DEF ReloadReads
  <2> QED
    BY <1>4, <1>5, <1>6, <1>13, <2>1 DEF ReloadReads, ConnFits, tables
<1>14. CASE ReloadEnds(o)
  <2>1. owner' \in [Owners -> OwnerChange]
    BY <1>1, <1>2, <1>14 DEF ReloadEnds
  <2>2. memory' \in Entries
    BY <1>14, OwnersFit DEF ReloadEnds
  <2>3. TablesFit'
    BY <1>14, <2>2 DEF ReloadEnds, ConnFits, TablesFit, tables
  <2> QED
    BY <1>4, <1>6, <1>14, <2>1, <2>3 DEF ReloadEnds, ConnFits, tables
<1> QED
  BY <1>7, <1>8, <1>9, <1>10, <1>11, <1>12, <1>13, <1>14

LEMMA PeopleKeepFits ==
  ASSUME ConnFits, NEW s \in Seerrs, NEW r \in Requests,
         (\E open \in BOOLEAN : Touch(s, r, open)) \/ Arrive(s, r) \/ Delete(s, r)
  PROVE  ConnFits'
<1>1. UNCHANGED <<services, issued, requests, cursor, memory, owner, spoiled, hurried>>
  BY DEF Touch, Arrive, Delete, tables
<1>2. TablesFit'
  BY <1>1 DEF ConnFits, TablesFit
<1>3. changes' \in 0..MaxChanges
  BY ConnectionsAssumption DEF Change, ConnFits, Touch, Arrive, Delete
<1>4. PassFits'
  <2>1. CASE Arrive(s, r)
    BY <2>1 DEF Arrive, ConnFits, PassFits
  <2>2. CASE (\E open \in BOOLEAN : Touch(s, r, open)) \/ Delete(s, r)
    BY <2>2, HearsFits DEF Touch, Delete, ConnFits
  <2> QED
    BY <2>1, <2>2
<1>5. SeerrsFit'
  <2>1. CASE Arrive(s, r)
    BY <2>1 DEF Arrive, ConnFits, SeerrsFit
  <2>2. CASE Delete(s, r)
    BY <2>2, StampsAreNaturals DEF Delete, ConnFits, SeerrsFit
  <2>3. ASSUME NEW open \in BOOLEAN, Touch(s, r, open) PROVE SeerrsFit'
    <3>1. clock' = clock + 1 /\ clock + 1 \in Stamps
      BY <2>3, ConnectionsAssumption DEF Touch, ConnFits, SeerrsFit, Stamps
    <3>2. seerr' \in [Seerrs -> [Requests -> Stamps]]
      BY <2>3, <3>1 DEF Touch, ConnFits, SeerrsFit
    <3>3. pending' \in [Seerrs -> SUBSET Requests]
      BY <2>3 DEF Touch, ConnFits, SeerrsFit
    <3> QED
      BY <3>1, <3>2, <3>3 DEF SeerrsFit
  <2> QED
    BY <2>1, <2>2, <2>3
<1> QED
  BY <1>1, <1>2, <1>3, <1>4, <1>5 DEF ConnFits

LEMMA RowOfFits ==
  ASSUME SeerrsFit, NEW s \in Seerrs, NEW r \in Requests
  PROVE  RowOf(s, r) \in ReadRow
BY DEF SeerrsFit, RowOf, ReadRow

LEMMA PassKeepsFits ==
  ASSUME ConnFits,
         \/ \E day, quarter \in BOOLEAN : BeginRead(day, quarter)
         \/ \E named \in SUBSET Requests : ByName(named)
         \/ StartPass \/ Probe \/ ReadPage \/ Recheck \/ ReadFails
  PROVE  ConnFits'
<1>1. UNCHANGED <<seerr, pending, clock, services, issued, requests, cursor, memory, owner, spoiled, hurried, changes>>
  BY DEF BeginRead, ByName, StartPass, Probe, ReadPage, Recheck, ReadFails, tables
<1>2. SeerrsFit /\ TablesFit /\ PassFits
  BY DEF ConnFits
<1>3. PassFits'
  <2>1. ASSUME NEW day \in BOOLEAN, NEW quarter \in BOOLEAN, BeginRead(day, quarter) PROVE PassFits'
    <3>1. pass \in [pc : {"next"}, list : SUBSET ConnSvc]
      BY <1>2, <2>1, WhichPass DEF BeginRead
    <3>2. PICK svc \in pass.list : pass' = Reading(svc, cursor[svc.id] = 0 \/ day, quarter)
      BY <2>1 DEF BeginRead
    <3>3. svc \in ConnSvc
      BY <3>1
    <3>4. svc.id \in Ids /\ svc.url \in Seerrs /\ pass.list \ {svc} \in SUBSET ConnSvc
      BY <3>1, <3>3 DEF ConnSvc
    <3>5. cursor[svc.id] \in Stamps /\ OpenRows(svc.id) \in SUBSET Requests /\ clock \in Stamps
      BY <1>2, <3>4 DEF TablesFit, SeerrsFit, OpenRows
    <3>6. pass' \in ReadingPass
      BY <3>2, <3>4, <3>5 DEF Reading, ReadingPass
    <3> QED
      BY <3>6 DEF PassFits
  <2>2. ASSUME NEW named \in SUBSET Requests, ByName(named) PROVE PassFits'
    <3>1. pass \in ReadingPass
      BY <1>2, <2>2, WhichPass DEF ByName
    <3>2. {RowOf(pass.url, r) : r \in (named \ SeenIds) \cap Listed(pass.url)} \subseteq ReadRow
      BY <1>2, <3>1, RowOfFits DEF ReadingPass, Listed
    <3>3. pass' \in ReadingPass
      BY <2>2, <3>1, <3>2 DEF ByName, ReadingPass
    <3> QED
      BY <3>3 DEF PassFits
  <2>3. CASE StartPass
    <3>1. {[id |-> id, url |-> memory[id]] : id \in Connected(memory)} \in SUBSET ConnSvc
      BY <1>2 DEF Connected, TablesFit, Entries, ConnSvc
    <3> QED
      BY <2>3, <3>1 DEF StartPass, PassFits
  <2>4. CASE Probe
    <3>1. pass \in ReadingPass
      BY <1>2, <2>4, WhichPass DEF Probe
    <3>2. pass.list \in SUBSET ConnSvc
      BY <3>1 DEF ReadingPass
    <3>3. \/ pass' = NextOne(pass.list)
          \/ pass' = [pass EXCEPT !.pc = "list"]
          \/ pass' = [pass EXCEPT !.pc = "recheck"]
      BY <2>4 DEF Probe
    <3>4. pass' = NextOne(pass.list) \/ pass' \in ReadingPass
      BY <3>1, <3>3 DEF ReadingPass
    <3> QED
      BY <3>2, <3>4, NextOneFits DEF PassFits
  <2>5. CASE ReadPage
    <3>1. pass \in ReadingPass
      BY <1>2, <2>5, WhichPass DEF ReadPage
    <3>2. \A T \in SUBSET Requests : {RowOf(pass.url, r) : r \in T} \subseteq ReadRow
      BY <1>2, <3>1, RowOfFits DEF ReadingPass
    <3>3. PICK T \in SUBSET Requests, c \in BOOLEAN, p \in {"list", "recheck", "write"} :
            pass' = [pass EXCEPT !.rows = @ \cup {RowOf(pass.url, r) : r \in T}, !.page = @ + 1, !.complete = c, !.pc = p]
      <4> DEFINE take == IF pass.full THEN Page ELSE SmallPage
                 first == pass.page * take
                 total == Cardinality(Listed(pass.url))
                 T == {q \in Listed(pass.url) : first < Place(pass.url, q) /\ Place(pass.url, q) <= first + take}
                 new == {RowOf(pass.url, r) : r \in T}
                 reached == ~pass.full /\ \E w \in new : w.upd + Overlap < pass.cursor
                 short == total < first + take
                 over == short \/ reached \/ pass.page + 1 = MaxPages
                 c == short /\ Whole(reached, total, first)
                 p == IF ~over THEN "list" ELSE IF pass.recheck THEN "recheck" ELSE "write"
      <4>1. pass' = [pass EXCEPT !.rows = @ \cup new, !.page = @ + 1, !.complete = c, !.pc = p]
        BY <2>5 DEF ReadPage
      <4>2. T \in SUBSET Requests /\ c \in BOOLEAN /\ p \in {"list", "recheck", "write"}
        BY DEF Listed, Whole
      <4> HIDE DEF T, c, p
      <4> QED
        BY <4>1, <4>2
    <3>4. PICK rows \in SUBSET ReadRow : pass' = [pass EXCEPT !.rows = @ \cup rows, !.page = @ + 1, !.complete = c, !.pc = p]
      <4>1. {RowOf(pass.url, r) : r \in T} \in SUBSET ReadRow
        BY <3>2
      <4> QED
        BY <3>3, <4>1
    <3>5. PICK all \in SUBSET ReadRow, n \in Nat : pass' = [pass EXCEPT !.rows = all, !.page = n, !.complete = c, !.pc = p]
      <4>1. pass.rows \cup rows \in SUBSET ReadRow /\ pass.page + 1 \in Nat
        BY <3>1 DEF ReadingPass
      <4>2. pass' = [pass EXCEPT !.rows = pass.rows \cup rows, !.page = pass.page + 1, !.complete = c, !.pc = p]
        BY <3>4
      <4> QED
        BY <4>1, <4>2
    <3>6. pass' \in ReadingPass
      BY <3>1, <3>5 DEF ReadingPass
    <3> QED
      BY <3>6 DEF PassFits
  <2>6. CASE Recheck
    <3>1. pass \in ReadingPass
      BY <1>2, <2>6, WhichPass DEF Recheck
    <3>2. pending[pass.url] \subseteq Requests
      BY <1>2, <3>1 DEF SeerrsFit, ReadingPass
    <3>3. {RowOf(pass.url, r) : r \in pending[pass.url] \ SeenIds} \subseteq ReadRow
      BY <1>2, <3>1, <3>2, RowOfFits DEF ReadingPass
    <3>4. pass' \in ReadingPass
      BY <2>6, <3>1, <3>3 DEF Recheck, ReadingPass
    <3> QED
      BY <3>4 DEF PassFits
  <2>7. CASE ReadFails
    <3>1. pass \in ReadingPass
      BY <1>2, <2>7, WhichPass DEF ReadFails
    <3>2. pass.list \in SUBSET ConnSvc
      BY <3>1 DEF ReadingPass
    <3> QED
      BY <2>7, <3>2, NextOneFits DEF ReadFails
  <2> QED
    BY <2>1, <2>2, <2>3, <2>4, <2>5, <2>6, <2>7
<1> QED
  BY <1>1, <1>3 DEF ConnFits, SeerrsFit, TablesFit

LEMMA WriteKeepsFits ==
  ASSUME ConnFits, Write
  PROVE  ConnFits'
<1>1. pass \in ReadingPass
  BY WhichPass DEF Write, ConnFits
<1>2. pass.id \in Ids /\ pass.list \in SUBSET ConnSvc
  BY <1>1 DEF ReadingPass
<1>3. PassFits'
  BY <1>2, NextOneFits DEF Write
<1>4. [r \in Requests |-> Stored(r)] \in [Requests -> RequestRow \cup {NoRow}]
  BY <1>1, StoredFits
<1>5. NewCursor \in Stamps
  BY <1>1, NewCursorIs
<1>6. requests' \in [Ids -> [Requests -> RequestRow \cup {NoRow}]]
  BY <1>2, <1>4 DEF Write, ConnFits, TablesFit
<1>7. cursor' \in [Ids -> Stamps]
  BY <1>2, <1>5 DEF Write, ConnFits, TablesFit
<1>8. TablesFit'
  BY <1>6, <1>7 DEF Write, ConnFits, TablesFit
<1>9. spoiled' \subseteq Ids /\ hurried' \subseteq Ids
  BY <1>2 DEF Write, ConnFits
<1> QED
  BY <1>3, <1>8, <1>9 DEF Write, ConnFits, SeerrsFit

LEMMA ConnFitsStep == ConnFits /\ [ConnectionsNext]_connVars => ConnFits'
<1> SUFFICES ASSUME ConnFits, [ConnectionsNext]_connVars PROVE ConnFits'
  OBVIOUS
<1>1. CASE UNCHANGED connVars
  BY <1>1 DEF connVars, ConnFits, SeerrsFit, TablesFit, PassFits
<1>2. CASE ConnectionsNext
  BY <1>2, OwnersKeepFits, PeopleKeepFits, PassKeepsFits, WriteKeepsFits DEF ConnectionsNext
<1> QED
  BY <1>1, <1>2

LEMMA ConnFitsIsEnough == ConnFits => ConnectionsTypeOK
<1> SUFFICES ASSUME ConnFits PROVE ConnectionsTypeOK
  OBVIOUS
<1>1. pass.pc \in {"idle", "next", "probe", "list", "recheck", "by_name", "write"}
  BY DEF ConnFits, PassFits, ReadingPass, Resting
<1> QED
  BY <1>1 DEF ConnFits, SeerrsFit, TablesFit, Entries, ConnectionsTypeOK

(* How many requests a page of this reading has. *)
PageSize == IF pass.full THEN Page ELSE SmallPage

(* Nothing Seerr says, and no cursor, is later than Seerr's clock; an id     *)
(* that was not given out has read nothing.                                  *)
InTime ==
  /\ \A s \in Seerrs, r \in Requests : seerr[s][r] <= clock
  /\ \A id \in Ids : cursor[id] <= clock
  /\ \A id \in Ids : id > issued => cursor[id] = 0

(* A reading has begun no longer ago than the overlap, and what it has read  *)
(* is not of the future; before its first page it has not read the list.     *)
PassInTime ==
  Busy =>
    /\ pass.since <= clock /\ clock <= pass.since + Overlap /\ pass.cursor <= clock
    /\ \A w \in pass.rows : w.upd <= clock
    /\ pass.pc = "probe" => pass.page = 0
    /\ pass.page = 0 => ~pass.complete /\ (pass.pc \in {"probe", "list"} \/ ~pass.full)

(* Request r of Seerr s is accounted for by a reading: it is among the rows  *)
(* read, or has changed since the reading began, or has not changed since    *)
(* the last one, or stands behind the pages read so far, and those that may  *)
(* be read are not over or the room of a listing was not enough.             *)
Accounted(s, r) ==
  \/ \E w \in pass.rows : w.r = r
  \/ seerr[s][r] > pass.since
  \/ ~pass.full /\ seerr[s][r] + Overlap < pass.cursor
  \/ /\ Place(s, r) > pass.page * PageSize
     /\ pass.pc = "list" \/ (pass.page >= MaxPages /\ ~pass.complete)

(* What a reading that nothing has spoiled has read is what Seerr has,       *)
(* unless that has changed since; all of the list is accounted for; and if   *)
(* Seerr has said nothing new meanwhile, nothing has changed meanwhile.      *)
ReadsWhatIsThere ==
  Busy /\ pass.news # "spoiled" =>
    /\ pass.cursor = cursor[pass.id]
    /\ \A s \in Seerrs : s = pass.url =>
         /\ \A w \in pass.rows : w.upd = seerr[s][w.r] \/ seerr[s][w.r] > pass.since
         /\ pass.pc = "list" \/ pass.page > 0 => \A r \in Listed(s) : Accounted(s, r)
         /\ pass.news = "none" => \A r \in Requests : seerr[s][r] <= pass.since

(* The inductive invariant of the reading of requests. *)
ReadInv == RowsInv /\ ConnFits /\ InTime /\ PassInTime /\ ReadsWhatIsThere

LEMMA PlacesFit ==
  ASSUME NEW s \in Seerrs, NEW r \in Listed(s), SeerrsFit
  PROVE  /\ IsFiniteSet(Listed(s)) /\ Cardinality(Listed(s)) \in Nat
         /\ Cardinality(Listed(s)) <= Cardinality(Requests) /\ Cardinality(Requests) \in Nat
         /\ Place(s, r) \in Nat /\ Place(s, r) > 0 /\ Place(s, r) <= Cardinality(Listed(s))
<1> DEFINE S == {q \in Listed(s) : seerr[s][q] >= seerr[s][r]}
<1>1. IsFiniteSet(Requests) /\ Listed(s) \subseteq Requests
  BY ConnectionsAssumption DEF Listed
<1>2. IsFiniteSet(Listed(s)) /\ Cardinality(Listed(s)) <= Cardinality(Requests)
  BY <1>1, FS_Subset
<1>3. S \subseteq Listed(s)
  OBVIOUS
<1>4. IsFiniteSet(S) /\ Cardinality(S) <= Cardinality(Listed(s))
  BY <1>2, <1>3, FS_Subset
<1>5. r \in S
  <2>1. seerr[s][r] \in Nat
    BY <1>1, StampsAreNaturals DEF SeerrsFit
  <2> QED
    BY <2>1
<1>6. Cardinality(S) # 0
  BY <1>4, <1>5, FS_EmptySet
<1>7. Place(s, r) = Cardinality(S)
  BY DEF Place
<1> HIDE DEF S
<1> QED
  BY <1>1, <1>2, <1>4, <1>6, <1>7, FS_CardinalityType

(* The further down the listing, the longer ago it was changed. *)
LEMMA FurtherIsOlder ==
  ASSUME NEW s \in Seerrs, NEW q \in Listed(s), NEW r \in Listed(s), SeerrsFit, Place(s, q) < Place(s, r)
  PROVE  seerr[s][r] < seerr[s][q]
<1> DEFINE S(x) == {y \in Listed(s) : seerr[s][y] >= seerr[s][x]}
<1>1. seerr[s][q] \in Nat /\ seerr[s][r] \in Nat /\ \A y \in Listed(s) : seerr[s][y] \in Nat
  BY StampsAreNaturals DEF SeerrsFit, Listed
<1> SUFFICES ASSUME seerr[s][r] >= seerr[s][q] PROVE FALSE
  BY <1>1
<1>2. S(r) \subseteq S(q) /\ S(q) \subseteq Listed(s)
  BY <1>1
<1>3. IsFiniteSet(S(q))
  BY <1>2, PlacesFit, FS_Subset
<1>4. Cardinality(S(r)) <= Cardinality(S(q))
  BY <1>2, <1>3, FS_Subset
<1>5. Place(s, q) \in Nat /\ Place(s, r) \in Nat
  BY PlacesFit
<1> QED
  BY <1>4, <1>5 DEF Place

(* A request that changes comes before the others: none of them moves up.    *)
LEMMA NobodyMovesUp ==
  ASSUME SeerrsFit, SeerrsFit', InTime, NEW s \in Seerrs, NEW q \in Requests, NEW r \in Listed(s), q # r,
         seerr'[s] = [seerr[s] EXCEPT ![q] = clock + 1]
  PROVE  r \in Listed(s)' /\ Place(s, r)' >= Place(s, r)
<1> DEFINE S == {y \in Listed(s) : seerr[s][y] >= seerr[s][r]}
           T == {y \in Listed(s)' : seerr'[s][y] >= seerr'[s][r]}
<1>0. r \in Requests /\ \A y \in Requests : seerr[s][y] \in Stamps /\ seerr[s][y] <= clock
  BY DEF SeerrsFit, InTime, Listed
<1>1. r \in Requests /\ clock \in Nat /\ \A y \in Requests : seerr[s][y] \in Nat /\ seerr[s][y] <= clock
  BY <1>0, StampsAreNaturals DEF SeerrsFit
<1>2. \A y \in Requests : seerr'[s][y] = IF y = q THEN clock + 1 ELSE seerr[s][y]
  BY DEF SeerrsFit
<1>3. r \in Listed(s)'
  BY <1>1, <1>2 DEF Listed
<1>4. S \subseteq T
  BY <1>1, <1>2 DEF Listed
<1>5. IsFiniteSet(Requests) /\ T \subseteq Requests
  BY ConnectionsAssumption DEF Listed
<1>6. IsFiniteSet(T)
  BY <1>5, FS_Subset
<1>7. Cardinality(S) <= Cardinality(T) /\ Cardinality(S) \in Nat /\ Cardinality(T) \in Nat
  BY <1>4, <1>6, FS_Subset, FS_CardinalityType
<1>8. Place(s, r) = Cardinality(S) /\ Place(s, r)' = Cardinality(T)
  BY DEF Place
<1> HIDE DEF S, T
<1> QED
  BY <1>3, <1>7, <1>8

LEMMA ReadInit == ConnectionsInit => ReadInv
<1> SUFFICES ASSUME ConnectionsInit PROVE ReadInv
  OBVIOUS
<1>1. RowsInv /\ ConnFits
  BY RowsInit, ConnFitsInit
<1>2. InTime
  <2>0. clock \in Nat
    BY FirstClock, StampsAreNaturals
  <2>1. clock \in Nat /\ \A id \in Ids : cursor[id] = 0
    BY <2>0 DEF ConnectionsInit
  <2> QED
    BY <2>1, FirstClock DEF InTime
<1>3. ~Busy
  BY DEF ConnectionsInit, Busy, Resting
<1> QED
  BY <1>1, <1>2, <1>3 DEF ReadInv, PassInTime, ReadsWhatIsThere

LEMMA BusyReads ==
  ASSUME ConnFits, Busy
  PROVE  /\ pass \in ReadingPass /\ pass.id \in Ids /\ pass.url \in Seerrs /\ pass.since \in Nat /\ pass.cursor \in Nat
         /\ pass.page \in Nat /\ clock \in Nat /\ PageSize \in Nat \ {0} /\ pass.page * PageSize \in Nat
         /\ \A w \in pass.rows : w.r \in Requests /\ w.upd \in Nat
         /\ \A s \in Seerrs, r \in Requests : seerr[s][r] \in Nat
<1>1. pass \in ReadingPass
  BY WhichPass DEF ConnFits, Busy
<1>2. \A w \in pass.rows : w.r \in Requests /\ w.upd \in Nat
  BY <1>1, StampsAreNaturals DEF ReadingPass, ReadRow
<1>3. PageSize \in Nat \ {0} /\ pass.page \in Nat
  BY <1>1, ConnectionsAssumption DEF PageSize, ReadingPass
<1>4. pass.page * PageSize \in Nat
  BY <1>3
<1>5. pass.id \in Ids /\ pass.url \in Seerrs /\ pass.since \in Nat /\ pass.cursor \in Nat
  BY <1>1, StampsAreNaturals DEF ReadingPass
<1>6. clock \in Nat /\ \A s \in Seerrs, r \in Requests : seerr[s][r] \in Nat
  BY StampsAreNaturals DEF ConnFits, SeerrsFit
<1> QED
  BY <1>1, <1>2, <1>3, <1>4, <1>5, <1>6

(* A step that leaves the Seerrs and the pass, and every cursor that matters *)
(* to it, leaves what the pass says of them. *)
LEMMA PassUndisturbed ==
  ASSUME PassInTime, ReadsWhatIsThere, UNCHANGED <<seerr, clock, pass>>,
         Busy /\ pass.news # "spoiled" => cursor'[pass.id] = cursor[pass.id]
  PROVE  PassInTime' /\ ReadsWhatIsThere'
<1>1. PassInTime'
  BY DEF PassInTime, Busy
<1>2. \A s, r : Accounted(s, r)' <=> Accounted(s, r)
  BY DEF Accounted, Place, Listed, PageSize
<1>3. \A s : Listed(s)' = Listed(s)
  BY DEF Listed
<1>4. ReadsWhatIsThere'
  BY <1>2, <1>3 DEF ReadsWhatIsThere, Busy
<1> QED
  BY <1>1, <1>4

LEMMA SpoiledSaysNothing ==
  ASSUME PassInTime, ConnFits, Busy, UNCHANGED clock, pass' = [pass EXCEPT !.news = "spoiled"]
  PROVE  PassInTime' /\ ReadsWhatIsThere'
<1>1. pass \in ReadingPass
  BY BusyReads
<1>2. /\ pass'.news = "spoiled" /\ pass'.pc = pass.pc /\ pass'.since = pass.since /\ pass'.cursor = pass.cursor
      /\ pass'.rows = pass.rows /\ pass'.page = pass.page /\ pass'.full = pass.full /\ pass'.complete = pass.complete
  BY <1>1 DEF ReadingPass
<1>3. PassInTime'
  BY <1>2 DEF PassInTime, Busy
<1>4. ReadsWhatIsThere'
  BY <1>2 DEF ReadsWhatIsThere
<1> QED
  BY <1>3, <1>4

LEMMA OwnersKeepRead ==
  ASSUME ReadInv, RowsInv', ConnFits', NEW o \in Owners,
         \/ \E s \in Seerrs : StartCreate(o, s) \/ (\E id \in Ids : StartUpdate(o, id, s))
         \/ \E id \in Ids : RemoveConnection(o, id)
         \/ Create(o) \/ Update(o) \/ TestFails(o) \/ ReloadReads(o) \/ ReloadEnds(o)
  PROVE  ReadInv'
<1> USE DEF ReadInv
<1>1. CASE \/ \E s \in Seerrs : StartCreate(o, s) \/ (\E id \in Ids : StartUpdate(o, id, s))
           \/ \E id \in Ids : RemoveConnection(o, id)
           \/ Create(o) \/ TestFails(o) \/ ReloadReads(o) \/ ReloadEnds(o)
  <2>1. UNCHANGED <<seerr, clock, pass, cursor>>
    BY <1>1 DEF StartCreate, StartUpdate, RemoveConnection, Create, TestFails, ReloadReads, ReloadEnds, tables
  <2>2. issued' = issued \/ issued' = issued + 1
    BY <1>1 DEF StartCreate, StartUpdate, RemoveConnection, Create, TestFails, ReloadReads, ReloadEnds, tables
  <2>3. \A id \in Ids : id > issued' => id > issued
    BY <2>2, StampsAreNaturals DEF RowsInv, IdsInOrder
  <2>4. InTime'
    BY <2>1, <2>3 DEF InTime
  <2> QED
    BY <2>1, <2>4, PassUndisturbed
<1>2. CASE Update(o)
  <2> DEFINE id    == owner[o].id
             url   == owner[o].url
             moved == url # owner[o].was
             other == services[id] # url
  <2>1. /\ cursor' = IF moved THEN [cursor EXCEPT ![id] = 0] ELSE cursor
        /\ pass' = IF Reads(id) /\ (moved \/ other) THEN [pass EXCEPT !.news = "spoiled"] ELSE pass
        /\ UNCHANGED <<seerr, clock, issued>>
    BY <1>2 DEF Update, Wiped
  <2> HIDE DEF id, url, moved, other
  <2>2. \A d \in Ids : cursor'[d] = cursor[d] \/ (d = id /\ cursor'[d] = 0 /\ moved)
    BY <2>1 DEF ConnFits, TablesFit
  <2>3. \A d \in Ids : cursor[d] \in Nat /\ clock \in Nat
    BY StampsAreNaturals DEF ConnFits, TablesFit, SeerrsFit
  <2>4. InTime'
    BY <2>1, <2>2, <2>3 DEF InTime
  <2>5. CASE pass' = pass
    <3>1. Busy /\ pass.news # "spoiled" => cursor'[pass.id] = cursor[pass.id]
      <4> SUFFICES ASSUME Busy, pass.news # "spoiled", cursor'[pass.id] # cursor[pass.id] PROVE FALSE
        OBVIOUS
      <4>1. pass \in ReadingPass /\ pass.id \in Ids
        BY BusyReads
      <4>2. pass.id = id /\ moved
        BY <2>2, <4>1
      <4>3. Reads(id)
        BY <4>1, <4>2 DEF Reads, ReadingPass
      <4>4. pass'.news = "spoiled"
        BY <2>1, <4>1, <4>2, <4>3 DEF ReadingPass
      <4> QED
        BY <2>5, <4>4
    <3> QED
      BY <2>1, <2>4, <2>5, <3>1, PassUndisturbed
  <2>6. CASE pass' # pass
    <3>1. "id" \in DOMAIN pass /\ pass' = [pass EXCEPT !.news = "spoiled"]
      BY <2>1, <2>6 DEF Reads
    <3>2. Busy
      BY <3>1 DEF RowsInv, PassKnows
    <3> QED
      BY <2>1, <2>4, <3>1, <3>2, SpoiledSaysNothing
  <2> QED
    BY <2>5, <2>6
<1> QED
  BY <1>1, <1>2

LEMMA TouchKeepsRead ==
  ASSUME ReadInv, RowsInv', ConnFits', NEW t \in Seerrs, NEW q \in Requests, NEW open \in BOOLEAN, Touch(t, q, open)
  PROVE  ReadInv'
<1> USE DEF ReadInv
<1>1. /\ clock' = clock + 1 /\ seerr' = [seerr EXCEPT ![t] = [seerr[t] EXCEPT ![q] = clock + 1]]
      /\ UNCHANGED <<cursor, issued>> /\ Hears(t, "touched")
      /\ "since" \in DOMAIN pass => clock - pass.since < Overlap
  BY DEF Touch, tables
<1>2. clock \in Nat /\ SeerrsFit /\ SeerrsFit'
  BY StampsAreNaturals DEF ConnFits, SeerrsFit
<1>3. \A s \in Seerrs, r \in Requests :
        /\ seerr[s][r] \in Nat /\ seerr[s][r] <= clock
        /\ seerr'[s][r] = IF s = t /\ r = q THEN clock + 1 ELSE seerr[s][r]
  <2>1. \A s \in Seerrs, r \in Requests : seerr[s][r] \in Stamps /\ seerr[s][r] <= clock
    BY <1>2 DEF SeerrsFit, InTime
  <2>2. \A s \in Seerrs, r \in Requests : seerr'[s][r] = IF s = t /\ r = q THEN clock + 1 ELSE seerr[s][r]
    BY <1>1, <1>2 DEF SeerrsFit
  <2> QED
    BY <2>1, <2>2, StampsAreNaturals
<1>4. InTime'
  <2>1. \A id \in Ids : cursor[id] \in Nat /\ cursor[id] <= clock
    BY StampsAreNaturals DEF InTime, ConnFits, TablesFit
  <2>2. \A s \in Seerrs, r \in Requests : seerr'[s][r] <= clock'
    BY <1>1, <1>2, <1>3
  <2>3. \A id \in Ids : cursor'[id] <= clock'
    BY <1>1, <1>2, <2>1
  <2> QED
    BY <1>1, <2>2, <2>3 DEF InTime
<1>5. CASE ~Busy
  <2>1. pass' = pass
    BY <1>1, <1>5 DEF Hears, RowsInv, PassKnows
  <2> QED
    BY <1>4, <1>5, <2>1 DEF PassInTime, ReadsWhatIsThere, Busy
<1>6. CASE Busy
  <2>1. pass \in ReadingPass
    BY <1>6, BusyReads
  <2>2. /\ pass'.pc = pass.pc /\ pass'.since = pass.since /\ pass'.cursor = pass.cursor /\ pass'.id = pass.id /\ pass'.url = pass.url
        /\ pass'.rows = pass.rows /\ pass'.page = pass.page /\ pass'.full = pass.full /\ pass'.complete = pass.complete
        /\ pass'.news = (IF pass.url = t /\ pass.news # "spoiled" THEN "touched" ELSE pass.news)
    BY <1>1, <2>1 DEF Hears, ReadingPass
  <2>3. Busy' /\ PageSize' = PageSize
    BY <1>6, <2>2 DEF Busy, PageSize
  <2>4. clock < pass.since + Overlap
    <3>1. clock - pass.since < Overlap /\ Overlap \in Nat /\ pass.since \in Nat
      BY <1>1, <1>6, <2>1, BusyReads, ConnectionsAssumption DEF ReadingPass
    <3> QED
      BY <1>2, <3>1
  <2>5. PassInTime'
    <3>1. /\ pass.since \in Nat /\ Overlap \in Nat /\ pass.cursor \in Nat
          /\ \A w \in pass.rows : w.upd \in Nat
      BY <1>6, BusyReads, ConnectionsAssumption
    <3>2. /\ pass.since <= clock /\ pass.cursor <= clock /\ \A w \in pass.rows : w.upd <= clock
          /\ pass.pc = "probe" => pass.page = 0
          /\ pass.page = 0 => ~pass.complete /\ (pass.pc \in {"probe", "list"} \/ ~pass.full)
      BY <1>6 DEF PassInTime
    <3>3. /\ pass.since <= clock + 1 /\ pass.cursor <= clock + 1 /\ \A w \in pass.rows : w.upd <= clock + 1
          /\ clock + 1 <= pass.since + Overlap
      BY <1>2, <2>4, <3>1, <3>2
    <3>4. /\ pass'.since <= clock' /\ clock' <= pass'.since + Overlap /\ pass'.cursor <= clock'
          /\ \A w \in pass'.rows : w.upd <= clock'
      BY <1>1, <2>2, <3>3
    <3>5. pass'.page = 0 => ~pass'.complete /\ (pass'.pc \in {"probe", "list"} \/ ~pass'.full)
      <4> HAVE pass'.page = 0
      <4>1. pass.page = 0
        BY <2>2
      <4>2. ~pass.complete /\ (pass.pc \in {"probe", "list"} \/ ~pass.full)
        BY <3>2, <4>1
      <4> QED
        BY <2>2, <4>2
    <3>6. pass'.pc = "probe" => pass'.page = 0
      BY <2>2, <3>2
    <3> QED
      BY <3>4, <3>5, <3>6 DEF PassInTime
  <2>6. ReadsWhatIsThere'
    <3> SUFFICES ASSUME pass.news # "spoiled",
                        NEW s \in Seerrs, s = pass.url
                 PROVE  /\ pass'.cursor = cursor'[pass'.id]
                        /\ \A w \in pass'.rows : w.upd = seerr'[s][w.r] \/ seerr'[s][w.r] > pass'.since
                        /\ pass'.pc = "list" \/ pass'.page > 0 => \A r \in Listed(s)' : Accounted(s, r)'
                        /\ pass'.news = "none" => \A r \in Requests : seerr'[s][r] <= pass'.since
      <4>1. pass'.news # "spoiled" => pass.news # "spoiled"
        BY <2>2
      <4>2. pass'.url = pass.url /\ pass.url \in Seerrs
        BY <2>1, <2>2 DEF ReadingPass
      <4> QED
        BY <4>1, <4>2 DEF ReadsWhatIsThere
    <3>1. /\ pass.cursor = cursor[pass.id]
          /\ \A w \in pass.rows : w.upd = seerr[s][w.r] \/ seerr[s][w.r] > pass.since
          /\ pass.pc = "list" \/ pass.page > 0 => \A r \in Listed(s) : Accounted(s, r)
          /\ pass.news = "none" => \A r \in Requests : seerr[s][r] <= pass.since
      BY <1>6 DEF ReadsWhatIsThere
    <3>2. clock + 1 > pass.since /\ pass.since \in Nat
      <4>1. pass.since \in Nat /\ pass.since <= clock
        BY <1>6, BusyReads DEF PassInTime
      <4> QED
        BY <1>2, <4>1
    <3>3. \A w \in pass.rows : w.r \in Requests
      BY <1>6, BusyReads
    <3>4. \A w \in pass'.rows : w.upd = seerr'[s][w.r] \/ seerr'[s][w.r] > pass'.since
      BY <1>3, <2>2, <3>1, <3>2, <3>3
    <3>5. pass'.news = "none" => \A r \in Requests : seerr'[s][r] <= pass'.since
      BY <1>3, <2>2, <3>1
    <3>6. ASSUME pass.pc = "list" \/ pass.page > 0, NEW r \in Listed(s)'
          PROVE  Accounted(s, r)'
      <4>1. r \in Requests
        BY DEF Listed
      <4>2. CASE s = t /\ r = q
        BY <1>3, <2>2, <3>2, <4>2 DEF Accounted
      <4>3. CASE ~(s = t /\ r = q)
        <5>1. r \in Listed(s) /\ seerr'[s][r] = seerr[s][r]
          BY <1>3, <4>1, <4>3 DEF Listed
        <5>2. Place(s, r)' \in Nat /\ Place(s, r) \in Nat /\ Place(s, r)' >= Place(s, r)
          <6>1. CASE s = t
            <7>1. seerr'[s] = [seerr[s] EXCEPT ![q] = clock + 1] /\ r # q
              BY <1>1, <1>2, <4>3, <6>1 DEF SeerrsFit
            <7>2. Place(s, r)' >= Place(s, r)
              BY <1>2, <5>1, <7>1, NobodyMovesUp
            <7>3. Place(s, r)' \in Nat
              <8>1. IsFiniteSet({y \in Listed(s)' : seerr'[s][y] >= seerr'[s][r]})
                <9>1. {y \in Listed(s)' : seerr'[s][y] >= seerr'[s][r]} \subseteq Requests
                  BY DEF Listed
                <9> QED
                  BY <9>1, FS_Subset, ConnectionsAssumption
              <8> QED
                BY <8>1, FS_CardinalityType DEF Place
            <7> QED
              BY <1>2, <5>1, <7>2, <7>3, PlacesFit
          <6>2. CASE s # t
            <7>1. seerr'[s] = seerr[s]
              BY <1>1, <1>2, <6>2 DEF SeerrsFit
            <7>2. Place(s, r)' = Place(s, r)
              BY <7>1 DEF Place, Listed
            <7>3. Place(s, r) \in Nat
              BY <1>2, <5>1, PlacesFit
            <7> QED
              BY <7>2, <7>3
          <6> QED
            BY <6>1, <6>2
        <5>3. Accounted(s, r)
          BY <3>1, <3>6, <5>1
        <5>4. pass.page * PageSize \in Nat
          BY <1>6, BusyReads
        <5>5. Place(s, r) > pass.page * PageSize => Place(s, r)' > pass.page * PageSize
          BY <5>2, <5>4
        <5> QED
          BY <2>2, <2>3, <5>1, <5>3, <5>5 DEF Accounted
      <4> QED
        BY <4>2, <4>3
    <3> QED
      BY <1>1, <2>2, <3>1, <3>4, <3>5, <3>6
  <2> QED
    BY <1>4, <2>5, <2>6
<1> QED
  BY <1>5, <1>6

LEMMA PeopleKeepRead ==
  ASSUME ReadInv, RowsInv', ConnFits', NEW t \in Seerrs, NEW q \in Requests,
         (\E open \in BOOLEAN : Touch(t, q, open)) \/ Arrive(t, q) \/ Delete(t, q)
  PROVE  ReadInv'
<1>1. CASE \E open \in BOOLEAN : Touch(t, q, open)
  BY <1>1, TouchKeepsRead
<1>2. CASE Arrive(t, q)
  <2>1. UNCHANGED <<seerr, clock, pass, cursor, issued>>
    BY <1>2 DEF Arrive, tables
  <2>2. InTime'
    BY <2>1 DEF ReadInv, InTime
  <2> QED
    BY <2>1, <2>2, PassUndisturbed DEF ReadInv
<1>3. CASE Delete(t, q)
  <2> USE DEF ReadInv
  <2>1. seerr' = [seerr EXCEPT ![t] = [seerr[t] EXCEPT ![q] = 0]] /\ UNCHANGED <<clock, cursor, issued>> /\ Hears(t, "spoiled")
    BY <1>3 DEF Delete, tables
  <2>2. \A s \in Seerrs, r \in Requests : seerr'[s][r] = seerr[s][r] \/ seerr'[s][r] = 0
    BY <2>1 DEF ConnFits, SeerrsFit
  <2>3. clock \in Nat
    BY StampsAreNaturals DEF ConnFits, SeerrsFit
  <2>4. InTime'
    BY <2>1, <2>2, <2>3 DEF InTime
  <2>5. CASE pass' # pass
    <3>1. "url" \in DOMAIN pass /\ pass' = [pass EXCEPT !.news = "spoiled"]
      BY <2>1, <2>5 DEF Hears
    <3>2. Busy
      BY <3>1 DEF RowsInv, PassKnows
    <3> QED
      BY <2>1, <2>4, <3>1, <3>2, SpoiledSaysNothing
  <2>6. CASE pass' = pass
    <3>1. PassInTime'
      BY <2>1, <2>6 DEF PassInTime, Busy
    <3>2. ReadsWhatIsThere'
      <4> SUFFICES ASSUME Busy, pass.news # "spoiled" PROVE ReadsWhatIsThere'
        BY <2>6 DEF ReadsWhatIsThere, Busy
      <4>1. pass \in ReadingPass
        BY BusyReads
      <4>2. pass.url # t
        <5> SUFFICES ASSUME pass.url = t PROVE FALSE
          OBVIOUS
        <5>1. pass'.news = "spoiled"
          BY <2>1, <4>1 DEF Hears, ReadingPass
        <5> QED
          BY <2>6, <5>1
      <4>3. \A s \in Seerrs : s = pass.url => seerr'[s] = seerr[s]
        BY <2>1, <4>2 DEF ConnFits, SeerrsFit
      <4>4. \A s \in Seerrs : s = pass.url => Listed(s)' = Listed(s) /\ \A r : Accounted(s, r)' <=> Accounted(s, r)
        BY <2>6, <4>3 DEF Accounted, Place, Listed, PageSize
      <4> QED
        BY <2>1, <2>6, <4>3, <4>4 DEF ReadsWhatIsThere, Busy
    <3> QED
      BY <2>4, <3>1, <3>2
  <2> QED
    BY <2>5, <2>6
<1> QED
  BY <1>1, <1>2, <1>3

(* A pass that ends, or goes on to the next connection, says nothing.        *)
LEMMA NothingRead ==
  ASSUME ReadInv, RowsInv', ConnFits', ~Busy', UNCHANGED <<seerr, clock, cursor, issued>>
  PROVE  ReadInv'
<1>1. InTime'
  BY DEF ReadInv, InTime
<1> QED
  BY <1>1 DEF ReadInv, PassInTime, ReadsWhatIsThere

LEMMA NextIsNotBusy ==
  ASSUME NEW svcs, pass' = NextOne(svcs)
  PROVE  ~Busy'
<1>1. pass' = Resting \/ pass' = [pc |-> "next", list |-> svcs]
  BY DEF NextOne
<1> QED
  BY <1>1 DEF Busy, Resting

LEMMA BeginReadIsRead ==
  ASSUME ReadInv, RowsInv', ConnFits', NEW day \in BOOLEAN, NEW quarter \in BOOLEAN, BeginRead(day, quarter)
  PROVE  ReadInv'
<1> USE DEF ReadInv
<1>1. UNCHANGED <<seerr, clock, cursor, issued>>
  BY DEF BeginRead, tables
<1>2. PICK svc \in pass.list : pass' = Reading(svc, cursor[svc.id] = 0 \/ day, quarter)
  BY DEF BeginRead
<1>3. svc.id \in Ids
  BY DEF BeginRead, RowsInv, PassKnows
<1>4. /\ pass'.pc = "probe" /\ pass'.since = clock /\ pass'.cursor = cursor[svc.id] /\ pass'.id = svc.id
      /\ pass'.rows = {} /\ pass'.page = 0 /\ pass'.complete = FALSE
  BY <1>2 DEF Reading
<1>5. clock \in Nat /\ Overlap \in Nat /\ cursor[svc.id] <= clock
  BY <1>3, StampsAreNaturals, ConnectionsAssumption DEF ConnFits, SeerrsFit, InTime
<1>6. InTime'
  BY <1>1 DEF InTime
<1>7. PassInTime'
  BY <1>1, <1>4, <1>5 DEF PassInTime
<1>8. ReadsWhatIsThere'
  BY <1>1, <1>4 DEF ReadsWhatIsThere, InTime
<1> QED
  BY <1>6, <1>7, <1>8

LEMMA ProbeIsRead ==
  ASSUME ReadInv, RowsInv', ConnFits', Probe
  PROVE  ReadInv'
<1> USE DEF ReadInv
<1>1. UNCHANGED <<seerr, clock, cursor, issued>> /\ Busy /\ pass.pc = "probe"
  BY DEF Probe, tables, Busy
<1>2. pass \in ReadingPass
  BY <1>1, BusyReads
<1>3. \/ pass' = [pass EXCEPT !.pc = "list"]
      \/ pass' = [pass EXCEPT !.pc = "recheck"] /\ ~pass.full
      \/ pass' = NextOne(pass.list)
  BY DEF Probe
<1>4. CASE pass' = NextOne(pass.list)
  BY <1>1, <1>4, NextIsNotBusy, NothingRead
<1>5. CASE pass' = [pass EXCEPT !.pc = "list"] \/ (pass' = [pass EXCEPT !.pc = "recheck"] /\ ~pass.full)
  <2>1. /\ pass'.since = pass.since /\ pass'.cursor = pass.cursor /\ pass'.id = pass.id /\ pass'.url = pass.url
        /\ pass'.rows = pass.rows /\ pass'.page = pass.page /\ pass'.full = pass.full /\ pass'.complete = pass.complete
        /\ pass'.news = pass.news
        /\ pass'.pc \in {"list", "recheck"} /\ (pass'.pc = "list" \/ ~pass.full)
    BY <1>2, <1>5 DEF ReadingPass
  <2>2. pass.page = 0 /\ PageSize' = PageSize
    BY <1>1, <2>1 DEF PassInTime, PageSize
  <2>3. InTime'
    BY <1>1 DEF InTime
  <2>4. PassInTime'
    BY <1>1, <2>1, <2>2 DEF PassInTime, Busy
  <2>5. ReadsWhatIsThere'
    <3> SUFFICES ASSUME pass.news # "spoiled", NEW s \in Seerrs, s = pass.url,
                        pass'.pc = "list", NEW r \in Listed(s)'
                 PROVE  Accounted(s, r)'
      BY <1>1, <2>1, <2>2 DEF ReadsWhatIsThere
    <3>1. r \in Listed(s) /\ Place(s, r)' = Place(s, r)
      BY <1>1 DEF Place, Listed
    <3>2. Place(s, r) > 0
      BY <3>1, PlacesFit DEF ConnFits
    <3>3. PageSize \in Nat
      BY <1>1, BusyReads
    <3>4. pass.page * PageSize = 0
      BY <2>2, <3>3
    <3>5. Place(s, r)' > pass'.page * PageSize' /\ pass'.pc = "list"
      BY <2>1, <2>2, <3>1, <3>2, <3>4
    <3> QED
      BY <3>5 DEF Accounted
  <2> QED
    BY <2>3, <2>4, <2>5
<1> QED
  BY <1>3, <1>4, <1>5

LEMMA ReadPageIsRead ==
  ASSUME ReadInv, RowsInv', ConnFits', ReadPage
  PROVE  ReadInv'
<1> USE DEF ReadInv
<1> DEFINE first == pass.page * PageSize
           total == Cardinality(Listed(pass.url))
           T == {q \in Listed(pass.url) : first < Place(pass.url, q) /\ Place(pass.url, q) <= first + PageSize}
           new == {RowOf(pass.url, r) : r \in T}
           reached == ~pass.full /\ \E w \in new : w.upd + Overlap < pass.cursor
           short == total < first + PageSize
           over == short \/ reached \/ pass.page + 1 = MaxPages
           c == short /\ Whole(reached, total, first)
           p == IF ~over THEN "list" ELSE IF pass.recheck THEN "recheck" ELSE "write"
<1>1. UNCHANGED <<seerr, clock, cursor, issued>> /\ Busy /\ pass.pc = "list"
  BY DEF ReadPage, tables, Busy
<1>2. pass' = [pass EXCEPT !.rows = @ \cup new, !.page = @ + 1, !.complete = c, !.pc = p]
  BY DEF ReadPage, PageSize
<1>3. /\ pass \in ReadingPass /\ first \in Nat /\ PageSize \in Nat \ {0} /\ pass.page \in Nat /\ pass.url \in Seerrs
      /\ pass.since \in Nat /\ pass.cursor \in Nat /\ clock \in Nat
  BY <1>1, BusyReads
<1>4. /\ p \in {"list", "recheck", "write"} /\ (p = "list" <=> ~over)
      /\ c => short /\ ~reached
  <2>1. c => short /\ ~reached
    BY DEF Whole
  <2> HIDE DEF over, c
  <2>2. p \in {"list", "recheck", "write"} /\ (p = "list" <=> ~over)
    OBVIOUS
  <2> QED
    BY <2>1, <2>2
<1>5. /\ \A r \in T : \E w \in new : w.r = r /\ w.upd = seerr[pass.url][r]
      /\ \A w \in new : w.r \in T /\ w.upd = seerr[pass.url][w.r]
      /\ T \subseteq Listed(pass.url)
  <2>1. T \subseteq Listed(pass.url)
    OBVIOUS
  <2> HIDE DEF T
  <2>2. \A r : RowOf(pass.url, r).r = r /\ RowOf(pass.url, r).upd = seerr[pass.url][r]
    BY DEF RowOf
  <2>3. \A r \in T : RowOf(pass.url, r) \in new
    OBVIOUS
  <2>4. \A w \in new : \E r \in T : w = RowOf(pass.url, r)
    OBVIOUS
  <2> HIDE DEF new
  <2> QED
    BY <2>1, <2>2, <2>3, <2>4
<1>6. (pass.page + 1) * PageSize = first + PageSize
  BY <1>3
<1>7. \A r \in Listed(pass.url) : r \in T <=> first < Place(pass.url, r) /\ Place(pass.url, r) <= first + PageSize
  OBVIOUS
<1>8. reached => ~pass.full /\ \E q \in T : seerr[pass.url][q] + Overlap < pass.cursor
  BY <1>5
<1>9. \A r \in Listed(pass.url) : Place(pass.url, r) \in Nat /\ Place(pass.url, r) <= total /\ total \in Nat
  BY <1>3, PlacesFit DEF ConnFits
<1> HIDE DEF T, new, reached, c, p, first, total
<1>10. /\ pass'.pc = p /\ pass'.since = pass.since /\ pass'.cursor = pass.cursor /\ pass'.id = pass.id /\ pass'.url = pass.url
       /\ pass'.rows = pass.rows \cup new /\ pass'.page = pass.page + 1 /\ pass'.full = pass.full /\ pass'.complete = c
       /\ pass'.news = pass.news
  BY <1>2, <1>3 DEF ReadingPass
<1>11. PageSize' = PageSize /\ pass'.page > 0 /\ pass'.page * PageSize = first + PageSize
  BY <1>3, <1>6, <1>10 DEF PageSize
<1>12. InTime'
  BY <1>1 DEF InTime
<1>13. PassInTime'
  <2>1. \A w \in new : w.upd <= clock
    BY <1>3, <1>5 DEF InTime, Listed
  <2> QED
    BY <1>1, <1>3, <1>4, <1>10, <1>11, <2>1 DEF PassInTime
<1>14. ReadsWhatIsThere'
  <2> SUFFICES ASSUME pass.news # "spoiled", NEW s \in Seerrs, s = pass.url
               PROVE  /\ pass.cursor = cursor[pass.id]
                      /\ \A w \in pass.rows \cup new : w.upd = seerr[s][w.r] \/ seerr[s][w.r] > pass.since
                      /\ \A r \in Listed(s)' : Accounted(s, r)'
                      /\ pass.news = "none" => \A r \in Requests : seerr[s][r] <= pass.since
    BY <1>1, <1>3, <1>10, <1>11 DEF ReadsWhatIsThere
  <2>1. /\ pass.cursor = cursor[pass.id]
        /\ \A w \in pass.rows : w.upd = seerr[s][w.r] \/ seerr[s][w.r] > pass.since
        /\ \A r \in Listed(s) : Accounted(s, r)
        /\ pass.news = "none" => \A r \in Requests : seerr[s][r] <= pass.since
    BY <1>1 DEF ReadsWhatIsThere
  <2>2. ASSUME NEW r \in Listed(s)' PROVE Accounted(s, r)'
    <3>1. r \in Listed(s) /\ Place(s, r)' = Place(s, r) /\ seerr'[s][r] = seerr[s][r] /\ seerr[s][r] \in Nat
      BY <1>1, BusyReads DEF Place, Listed
    <3>2. Accounted(s, r)
      BY <2>1, <3>1
    <3>3. CASE r \in T
      <4>1. \E w \in pass'.rows : w.r = r
        BY <1>5, <1>10, <3>3
      <4> QED
        BY <4>1 DEF Accounted
    <3>4. CASE (\E w \in pass.rows : w.r = r) \/ seerr[s][r] > pass.since \/ (~pass.full /\ seerr[s][r] + Overlap < pass.cursor)
      BY <1>10, <3>1, <3>4 DEF Accounted
    <3>5. CASE Place(s, r) > first /\ r \notin T
      <4>1. Place(s, r) > first + PageSize /\ Place(s, r) <= total
        BY <1>3, <1>7, <1>9, <3>1, <3>5
      <4>2. ~short
        BY <1>3, <1>9, <3>1, <4>1
      <4>3. CASE reached
        <5>1. PICK q \in T : ~pass.full /\ seerr[s][q] + Overlap < pass.cursor
          BY <1>8, <4>3
        <5>2. q \in Listed(s) /\ Place(s, q) <= first + PageSize /\ Place(s, q) \in Nat
          BY <1>5, <1>7, <1>9, <5>1
        <5>3. Place(s, q) < Place(s, r)
          BY <1>3, <1>9, <3>1, <4>1, <5>2
        <5>4. seerr[s][r] < seerr[s][q]
          BY <3>1, <5>2, <5>3, FurtherIsOlder DEF ConnFits
        <5>5. seerr[s][q] \in Nat /\ Overlap \in Nat
          BY <1>1, <5>2, BusyReads, ConnectionsAssumption DEF Listed
        <5>6. seerr[s][r] + Overlap < pass.cursor
          BY <1>3, <3>1, <5>1, <5>4, <5>5
        <5> QED
          BY <1>10, <3>1, <5>1, <5>6 DEF Accounted
      <4>4. CASE ~reached
        <5>1. ~c
          BY <1>4, <4>2
        <5>2. p = "list" \/ pass.page + 1 = MaxPages
          BY <1>4, <4>2, <4>4
        <5>3. MaxPages \in Nat
          BY ConnectionsAssumption
        <5>4. Place(s, r)' > pass'.page * PageSize'
          BY <1>11, <3>1, <4>1
        <5>5. pass'.pc = "list" \/ (pass'.page >= MaxPages /\ ~pass'.complete)
          BY <1>3, <1>10, <5>1, <5>2, <5>3
        <5> QED
          BY <5>4, <5>5 DEF Accounted
      <4> QED
        BY <4>3, <4>4
    <3> QED
      BY <3>2, <3>3, <3>4, <3>5 DEF Accounted, first
  <2>3. \A w \in new : w.upd = seerr[s][w.r]
    BY <1>5
  <2> QED
    BY <2>1, <2>2, <2>3
<1> QED
  BY <1>12, <1>13, <1>14

(* A reading of open requests adds rows as they are now. *)
LEMMA MoreRowsAreRead ==
  ASSUME ReadInv, RowsInv', ConnFits', NEW T \in SUBSET Requests, NEW p \in {"by_name", "write"},
         pass.pc \in {"recheck", "by_name"}, UNCHANGED <<seerr, clock, cursor, issued>>,
         pass' = [pass EXCEPT !.pc = p, !.rows = @ \cup {RowOf(pass.url, r) : r \in T}]
  PROVE  ReadInv'
<1> USE DEF ReadInv
<1> DEFINE new == {RowOf(pass.url, r) : r \in T}
<1>1. Busy
  BY DEF Busy
<1>2. pass \in ReadingPass /\ pass.url \in Seerrs /\ clock \in Nat
  BY <1>1, BusyReads
<1>3. \A w \in new : w.r \in Requests /\ w.upd = seerr[pass.url][w.r]
  BY DEF RowOf
<1> HIDE DEF new
<1>4. /\ pass'.pc = p /\ pass'.since = pass.since /\ pass'.cursor = pass.cursor /\ pass'.id = pass.id /\ pass'.url = pass.url
      /\ pass'.rows = pass.rows \cup new /\ pass'.page = pass.page /\ pass'.full = pass.full /\ pass'.complete = pass.complete
      /\ pass'.news = pass.news
  BY <1>2 DEF ReadingPass, new
<1>5. InTime'
  BY DEF InTime
<1>6. PassInTime'
  <2>1. \A w \in new : w.upd <= clock
    BY <1>2, <1>3 DEF InTime
  <2> QED
    BY <1>1, <1>4, <2>1 DEF PassInTime
<1>7. ReadsWhatIsThere'
  <2> SUFFICES ASSUME pass.news # "spoiled", NEW s \in Seerrs, s = pass.url
               PROVE  /\ pass.cursor = cursor[pass.id]
                      /\ \A w \in pass.rows \cup new : w.upd = seerr[s][w.r] \/ seerr[s][w.r] > pass.since
                      /\ pass.page > 0 => \A r \in Listed(s)' : Accounted(s, r)'
                      /\ pass.news = "none" => \A r \in Requests : seerr[s][r] <= pass.since
    BY <1>1, <1>2, <1>4 DEF ReadsWhatIsThere
  <2>1. /\ pass.cursor = cursor[pass.id]
        /\ \A w \in pass.rows : w.upd = seerr[s][w.r] \/ seerr[s][w.r] > pass.since
        /\ pass.page > 0 => \A r \in Listed(s) : Accounted(s, r)
        /\ pass.news = "none" => \A r \in Requests : seerr[s][r] <= pass.since
    BY <1>1 DEF ReadsWhatIsThere
  <2>2. ASSUME pass.page > 0, NEW r \in Listed(s)' PROVE Accounted(s, r)'
    <3>1. r \in Listed(s) /\ Place(s, r)' = Place(s, r) /\ PageSize' = PageSize
      BY <1>4 DEF Place, Listed, PageSize
    <3>2. Accounted(s, r)
      BY <2>1, <2>2, <3>1
    <3> QED
      BY <1>4, <3>1, <3>2 DEF Accounted
  <2> QED
    BY <1>3, <2>1, <2>2
<1> QED
  BY <1>5, <1>6, <1>7

LEMMA PassIsRead ==
  ASSUME ReadInv, RowsInv', ConnFits',
         \/ \E day, quarter \in BOOLEAN : BeginRead(day, quarter)
         \/ \E named \in SUBSET Requests : ByName(named)
         \/ StartPass \/ Probe \/ ReadPage \/ Recheck \/ ReadFails
  PROVE  ReadInv'
<1>1. CASE StartPass
  <2>1. ~Busy' /\ UNCHANGED <<seerr, clock, cursor, issued>>
    BY <1>1 DEF StartPass, Busy, tables
  <2> QED
    BY <2>1, NothingRead
<1>2. CASE ReadFails
  <2>1. pass' = NextOne(pass.list) /\ UNCHANGED <<seerr, clock, cursor, issued>>
    BY <1>2 DEF ReadFails, tables
  <2> QED
    BY <2>1, NextIsNotBusy, NothingRead
<1>3. CASE Recheck
  <2>1. pass \in ReadingPass
    BY <1>3, WhichPass DEF Recheck, ReadInv, ConnFits
  <2>2. pending[pass.url] \ SeenIds \in SUBSET Requests
    BY <2>1 DEF ReadingPass, ReadInv, ConnFits, SeerrsFit
  <2> DEFINE T == pending[pass.url] \ SeenIds
  <2>3. /\ pass' = [pass EXCEPT !.pc = "by_name", !.rows = @ \cup {RowOf(pass.url, r) : r \in T}]
        /\ pass.pc = "recheck" /\ UNCHANGED <<seerr, clock, cursor, issued>>
    BY <1>3 DEF Recheck, tables
  <2> HIDE DEF T
  <2> QED
    BY <2>2, <2>3, MoreRowsAreRead DEF T
<1>4. ASSUME NEW named \in SUBSET Requests, ByName(named) PROVE ReadInv'
  <2> DEFINE T == (named \ SeenIds) \cap Listed(pass.url)
  <2>1. T \in SUBSET Requests
    OBVIOUS
  <2>2. /\ pass' = [pass EXCEPT !.pc = "write", !.rows = @ \cup {RowOf(pass.url, r) : r \in T}]
        /\ pass.pc = "by_name" /\ UNCHANGED <<seerr, clock, cursor, issued>>
    BY <1>4 DEF ByName, tables
  <2> HIDE DEF T
  <2> QED
    BY <2>1, <2>2, MoreRowsAreRead
<1> QED
  BY <1>1, <1>2, <1>3, <1>4, BeginReadIsRead, ProbeIsRead, ReadPageIsRead

(* No cursor comes to lie ahead of the clock. *)
LEMMA WriteIsRead ==
  ASSUME ReadInv, RowsInv', ConnFits', Write
  PROVE  ReadInv'
<1> USE DEF ReadInv
<1>1. Busy /\ UNCHANGED <<seerr, clock, issued>> /\ pass' = NextOne(pass.list) /\ services[pass.id] # Nowhere
  BY DEF Write, Busy
<1>2. pass \in ReadingPass /\ pass.id \in Ids /\ clock \in Nat
  BY <1>1, BusyReads
<1>3. NewCursor <= clock
  BY <1>1, <1>2, NewCursorIs DEF PassInTime
<1>4. \A id \in Ids : cursor'[id] = IF id = pass.id THEN NewCursor ELSE cursor[id]
  BY <1>2 DEF Write, ConnFits, TablesFit
<1>5. ~(pass.id > issued)
  BY <1>1, <1>2 DEF RowsInv, IdsInOrder
<1>6. InTime'
  BY <1>1, <1>3, <1>4, <1>5 DEF InTime
<1>7. ~Busy'
  BY <1>1, NextIsNotBusy
<1> QED
  BY <1>6, <1>7 DEF PassInTime, ReadsWhatIsThere

LEMMA ReadStep == ReadInv /\ [ConnectionsNext]_connVars => ReadInv'
<1> SUFFICES ASSUME ReadInv, [ConnectionsNext]_connVars PROVE ReadInv'
  OBVIOUS
<1>1. RowsInv' /\ ConnFits'
  BY RowsStep, ConnFitsStep DEF ReadInv
<1>2. CASE UNCHANGED connVars
  <2>1. UNCHANGED <<seerr, clock, pass, cursor, issued>>
    BY <1>2 DEF connVars
  <2>2. InTime'
    BY <2>1 DEF ReadInv, InTime
  <2> QED
    BY <1>1, <2>1, <2>2, PassUndisturbed DEF ReadInv
<1>3. CASE ConnectionsNext
  BY <1>1, <1>3, OwnersKeepRead, PeopleKeepRead, PassIsRead, WriteIsRead DEF ConnectionsNext
<1> QED
  BY <1>2, <1>3

(* No Seerr has more requests than a listing has room for: ten thousand read *)
(* in full, two thousand read for what has changed.                          *)
RoomForAll == Cardinality(Requests) <= MaxPages * Page /\ Cardinality(Requests) <= MaxPages * SmallPage

(* ... with what it is for, when a listing has room for all requests. *)
OverlookInv == ReadInv /\ NothingOverlooked

LEMMA OverlapIs == Overlap \in Nat \ {0}
BY ConnectionsAssumption

LEMMA NothingListed ==
  ASSUME ConnFits, InTime, NEW id \in Ids, cursor[id] = 0, NEW s \in Seerrs, NEW r \in Requests
  PROVE  ~(seerr[s][r] + Overlap <= cursor[id])
<1>1. seerr[s][r] \in Nat /\ Overlap \in Nat \ {0}
  BY StampsAreNaturals, OverlapIs DEF ConnFits, SeerrsFit
<1> QED
  BY <1>1

LEMMA OverlookInit == ConnectionsInit => OverlookInv
<1> SUFFICES ASSUME ConnectionsInit PROVE OverlookInv
  OBVIOUS
<1>1. ReadInv
  BY ReadInit
<1>2. \A id \in Ids : cursor[id] = 0
  BY DEF ConnectionsInit
<1>3. ASSUME NEW id \in Connected(services), NEW r \in Listed(services[id])
      PROVE  ~(seerr[services[id]][r] + Overlap <= cursor[id])
  <2>1. id \in Ids /\ services[id] \in Seerrs /\ r \in Requests
    BY <1>1 DEF Connected, Listed, ReadInv, ConnFits, TablesFit, Entries
  <2> QED
    BY <1>1, <1>2, <2>1, NothingListed DEF ReadInv
<1> QED
  BY <1>1, <1>3 DEF OverlookInv, NothingOverlooked

(* A step that neither writes nor moves a connection overlooks nothing: what *)
(* changes is newer than every cursor.                                       *)
LEMMA StillKnown ==
  ASSUME OverlookInv, ReadInv', UNCHANGED <<requests, cursor, spoiled, hurried>>,
         \A id \in Ids : \/ services'[id] \in {services[id], Nowhere}
                         \/ cursor[id] = 0,
         \A s \in Seerrs, r \in Requests : seerr'[s][r] \in {seerr[s][r], 0, clock + 1}
  PROVE  NothingOverlooked'
<1> USE DEF OverlookInv, ReadInv
<1> SUFFICES ASSUME NEW id \in Connected(services'), id \notin spoiled \cup hurried, NEW s \in Seerrs, s = services'[id],
                    NEW r \in Requests, seerr'[s][r] > 0, seerr'[s][r] + Overlap <= cursor[id]
             PROVE  requests[id][r] # NoRow /\ requests[id][r].upd = seerr'[s][r] /\ ~requests[id][r].removed
  <2>1. \A id \in Ids : services'[id] \in Seerrs \cup {Nowhere}
    BY DEF ConnFits, TablesFit, Entries
  <2> QED
    BY <2>1 DEF NothingOverlooked, Connected, Listed
<1>1. id \in Ids /\ services'[id] # Nowhere
  BY DEF Connected
<1>2. clock \in Nat /\ cursor[id] \in Nat /\ cursor[id] <= clock /\ Overlap \in Nat \ {0} /\ seerr'[s][r] \in Nat
  <2>1. clock \in Stamps /\ cursor[id] \in Stamps /\ cursor[id] <= clock
    BY <1>1 DEF ConnFits, TablesFit, SeerrsFit, InTime
  <2>2. seerr'[s][r] \in Stamps
    BY DEF ConnFits, SeerrsFit
  <2> QED
    BY <2>1, <2>2, StampsAreNaturals, OverlapIs
<1>3. cursor[id] # 0
  BY <1>2
<1>4. services[id] = s
  BY <1>1, <1>3
<1>5. seerr'[s][r] = seerr[s][r]
  <2>1. seerr'[s][r] # clock + 1
    BY <1>2
  <2> QED
    BY <2>1
<1>6. id \in Connected(services) \ (spoiled \cup hurried) /\ r \in Listed(services[id])
  BY <1>1, <1>4, <1>5 DEF Connected, Listed
<1> QED
  BY <1>4, <1>5, <1>6 DEF NothingOverlooked

LEMMA UpdateOverlooks ==
  ASSUME OverlookInv, ReadInv', NEW o \in Owners, Update(o)
  PROVE  NothingOverlooked'
<1> USE DEF OverlookInv, ReadInv
<1> DEFINE id    == owner[o].id
           url   == owner[o].url
           moved == url # owner[o].was
           other == services[id] # url
<1>1. /\ services' = IF services[id] = Nowhere THEN services ELSE [services EXCEPT ![id] = url]
      /\ IF moved THEN requests' = [requests EXCEPT ![id] = NoRows] /\ cursor' = [cursor EXCEPT ![id] = 0]
                  ELSE requests' = requests /\ cursor' = cursor
      /\ spoiled' = IF moved THEN spoiled \ {id} ELSE IF other THEN spoiled \cup {id} ELSE spoiled
      /\ hurried' = IF moved THEN hurried \ {id} ELSE hurried
      /\ seerr' = seerr
  BY DEF Update, Wiped
<1> HIDE DEF id, url, moved
<1>2. \A d \in Ids \ {id} : services'[d] = services[d] /\ requests'[d] = requests[d] /\ cursor'[d] = cursor[d]
                            /\ (d \in spoiled' <=> d \in spoiled) /\ (d \in hurried' <=> d \in hurried)
  BY <1>1 DEF ConnFits, TablesFit, Entries
<1>3. \A s : Listed(s)' = Listed(s)
  BY <1>1 DEF Listed
<1> SUFFICES ASSUME NEW d \in Ids, NEW s \in Seerrs, s = services'[d], d \notin spoiled' \cup hurried',
                    NEW r \in Listed(s), seerr[s][r] + Overlap <= cursor'[d]
             PROVE  requests'[d][r] # NoRow /\ requests'[d][r].upd = seerr[s][r] /\ ~requests'[d][r].removed
  <2>1. \A d \in Ids : services'[d] \in Seerrs \cup {Nowhere}
    BY DEF ConnFits, TablesFit, Entries
  <2>2. \A d, s, r : s = services'[d] => seerr'[s][r] = seerr[s][r]
    BY <1>1
  <2>3. \A d \in Connected(services)' : d \in Ids /\ services'[d] \in Seerrs
    BY <2>1 DEF Connected
  <2> QED
    BY <1>1, <1>3, <2>3 DEF NothingOverlooked, Listed
<1>4. s # Nowhere
  BY ConnectionsAssumption
<1>5. CASE d # id
  BY <1>2, <1>4, <1>5 DEF NothingOverlooked, Connected
<1>6. CASE d = id
  <2>1. ~moved
    <3> SUFFICES ASSUME moved PROVE FALSE
      OBVIOUS
    <3>1. cursor'[d] = 0
      BY <1>1, <1>6 DEF ConnFits, TablesFit
    <3>2. r \in Requests /\ seerr'[s][r] = seerr[s][r]
      BY <1>1 DEF Listed
    <3>3. seerr[s][r] \in Nat /\ Overlap \in Nat \ {0}
      <4>1. seerr \in [Seerrs -> [Requests -> Stamps]]
        BY DEF ConnFits, SeerrsFit
      <4>2. seerr[s][r] \in Stamps
        BY <3>2, <4>1
      <4> QED
        BY <4>2, StampsAreNaturals, OverlapIs
    <3> QED
      BY <3>1, <3>3
  <2>2. ~other /\ d \notin spoiled \cup hurried
    BY <1>1, <1>6, <2>1
  <2>3. services'[d] = services[d] /\ requests' = requests /\ cursor' = cursor
    BY <1>1, <1>6, <2>1, <2>2 DEF ConnFits, TablesFit, Entries
  <2> QED
    BY <1>4, <2>2, <2>3 DEF NothingOverlooked, Connected
<1> QED
  BY <1>5, <1>6

(* What was not read of a pass that nothing spoiled is not there, or changed *)
(* while it read, or was older than the cursor when it began.                *)
LEMMA WhatWasNotRead ==
  ASSUME ReadInv, Write, pass.news # "spoiled", NEW s \in Seerrs, s = pass.url, NEW r \in Listed(s), r \notin SeenIds,
         pass.page > 0, pass.complete \/ RoomForAll
  PROVE  seerr[s][r] > pass.since \/ (~pass.full /\ seerr[s][r] + Overlap < pass.cursor)
<1> USE DEF ReadInv
<1>1. Busy /\ pass.pc = "write"
  BY DEF Write, Busy
<1>2. Accounted(s, r)
  BY <1>1 DEF ReadsWhatIsThere
<1>3. \A w \in pass.rows : w.r # r
  BY DEF SeenIds
<1>4. ~(Place(s, r) > pass.page * PageSize /\ pass.page >= MaxPages /\ ~pass.complete)
  <2> SUFFICES ASSUME Place(s, r) > pass.page * PageSize, pass.page >= MaxPages, RoomForAll
               PROVE  FALSE
    OBVIOUS
  <2>1. Place(s, r) <= Cardinality(Requests) /\ Cardinality(Requests) \in Nat /\ Place(s, r) \in Nat
    <3>1. /\ Place(s, r) \in Nat /\ Place(s, r) <= Cardinality(Listed(s)) /\ Cardinality(Listed(s)) \in Nat
          /\ Cardinality(Listed(s)) <= Cardinality(Requests) /\ Cardinality(Requests) \in Nat
      BY PlacesFit DEF ConnFits
    <3> QED
      BY <3>1
  <2>2. PageSize \in Nat /\ pass.page \in Nat /\ MaxPages \in Nat /\ pass.page * PageSize \in Nat /\ MaxPages * PageSize \in Nat
    <3>1. PageSize \in Nat /\ pass.page \in Nat /\ MaxPages \in Nat
      BY <1>1, BusyReads, ConnectionsAssumption
    <3> QED
      BY <3>1
  <2>3. Cardinality(Requests) <= MaxPages * PageSize
    BY DEF RoomForAll, PageSize
  <2>4. MaxPages * PageSize <= pass.page * PageSize
    <3>1. PICK k \in Nat : pass.page = MaxPages + k
      <4>1. pass.page - MaxPages \in Nat /\ pass.page = MaxPages + (pass.page - MaxPages)
        BY <2>2
      <4> QED
        BY <4>1
    <3>2. pass.page * PageSize = MaxPages * PageSize + k * PageSize /\ k * PageSize \in Nat
      BY <2>2, <3>1
    <3> QED
      BY <2>2, <3>2
  <2> QED
    BY <2>1, <2>2, <2>3, <2>4
<1> QED
  BY <1>1, <1>2, <1>3, <1>4 DEF Accounted

LEMMA WriteOverlooks ==
  ASSUME OverlookInv, ReadInv', Write, RoomForAll
  PROVE  NothingOverlooked'
<1> USE DEF OverlookInv, ReadInv
<1>1. Busy /\ pass.pc = "write" /\ UNCHANGED <<services, seerr>> /\ services[pass.id] # Nowhere
  BY DEF Write, Busy
<1>2. pass \in ReadingPass /\ pass.id \in Ids /\ pass.since \in Nat /\ pass.cursor \in Nat /\ clock \in Nat /\ pass.page \in Nat
  BY <1>1, BusyReads
<1>3. /\ \A id \in Ids \ {pass.id} : requests'[id] = requests[id] /\ cursor'[id] = cursor[id]
      /\ \A r \in Requests : requests'[pass.id][r] = Stored(r)
      /\ cursor'[pass.id] = NewCursor
  BY <1>2 DEF Write, ConnFits, TablesFit
<1>4. /\ \A id \in Ids \ {pass.id} : (id \in spoiled' <=> id \in spoiled) /\ (id \in hurried' <=> id \in hurried)
      /\ pass.id \notin spoiled' => pass.news # "spoiled" /\ ((pass.full /\ pass.complete) \/ pass.id \notin spoiled)
      /\ pass.id \notin hurried' => /\ ~(pass.page = 0 /\ NewCursor > pass.cursor)
                                    /\ (pass.full /\ pass.complete) \/ pass.id \notin hurried
  BY DEF Write
<1>5. NewCursor \in Nat /\ NewCursor >= pass.cursor /\ NewCursor <= clock
  BY <1>1, <1>2, NewCursorIs, StampsAreNaturals DEF PassInTime
<1> SUFFICES ASSUME NEW id \in Ids, NEW s \in Seerrs, s = services[id], id \notin spoiled' \cup hurried',
                    NEW r \in Listed(s), seerr[s][r] + Overlap <= cursor'[id]
             PROVE  requests'[id][r] # NoRow /\ requests'[id][r].upd = seerr[s][r] /\ ~requests'[id][r].removed
  <2>1. \A id \in Ids : services[id] \in Seerrs \cup {Nowhere}
    BY DEF ConnFits, TablesFit, Entries
  <2>2. \A s : Listed(s)' = Listed(s)
    BY <1>1 DEF Listed
  <2>3. \A id \in Connected(services)' : id \in Ids /\ services[id] \in Seerrs
    BY <1>1, <2>1 DEF Connected
  <2> QED
    BY <1>1, <2>2, <2>3 DEF NothingOverlooked, Listed
<1>6. s # Nowhere /\ r \in Requests
  BY ConnectionsAssumption DEF Listed
<1>7. CASE id # pass.id
  BY <1>3, <1>4, <1>6, <1>7 DEF NothingOverlooked, Connected
<1>8. CASE id = pass.id
  <2>1. pass.news # "spoiled" /\ s = pass.url
    BY <1>1, <1>4, <1>6, <1>8 DEF RowsInv, ReadsWhereItPoints
  <2>2. /\ pass.cursor = cursor[id]
        /\ \A w \in pass.rows : w.upd = seerr[s][w.r] \/ seerr[s][w.r] > pass.since
    BY <1>1, <1>8, <2>1 DEF ReadsWhatIsThere
  <2>3. seerr[s][r] \in Nat /\ Overlap \in Nat /\ seerr[s][r] + Overlap <= NewCursor /\ clock <= pass.since + Overlap
    BY <1>1, <1>3, <1>6, <1>8, BusyReads, ConnectionsAssumption DEF PassInTime
  <2>4. ~(seerr[s][r] > pass.since)
    BY <1>2, <1>5, <2>3
  <2>5. CASE r \in SeenIds
    <3>1. Latest(r) \in pass.rows /\ Latest(r).r = r
      BY <1>2, <2>5, LatestIsRead
    <3>2. Latest(r).upd = seerr[s][r]
      BY <2>2, <2>4, <3>1
    <3>3. Stored(r) = [upd |-> seerr[s][r], open |-> Latest(r).open, removed |-> FALSE, from |-> pass.url]
      BY <2>5, <3>2 DEF Stored
    <3>4. requests'[id][r] = [upd |-> seerr[s][r], open |-> Latest(r).open, removed |-> FALSE, from |-> pass.url]
      BY <1>3, <1>6, <1>8, <3>3
    <3>5. requests'[id][r] # NoRow
      <4>1. Latest(r) \in ReadRow
        BY <1>2, <3>1 DEF ReadingPass
      <4>2. seerr[s][r] \in 0..MaxClock
        BY <1>6 DEF ConnFits, SeerrsFit, Stamps
      <4>3. requests'[id][r] \in [upd : 0..MaxClock, open : BOOLEAN, removed : BOOLEAN, from : Seerrs]
        BY <2>1, <3>4, <4>1, <4>2 DEF ReadRow
      <4> QED
        BY <4>3, ConnectionsAssumption
    <3> QED
      BY <3>4, <3>5
  <2>6. CASE r \notin SeenIds
    <3>1. seerr[s][r] + Overlap <= cursor[id] /\ ~(pass.full /\ pass.complete) /\ ~pass.full
      <4>1. CASE pass.page = 0
        <5>1. NewCursor = pass.cursor
          BY <1>2, <1>4, <1>5, <1>8, <4>1
        <5>2. ~pass.complete /\ ~pass.full
          BY <1>1, <4>1 DEF PassInTime
        <5> QED
          BY <2>2, <2>3, <5>1, <5>2
      <4>2. CASE pass.page # 0
        <5>1. pass.page > 0
          BY <1>2, <4>2
        <5>2. ~pass.full /\ seerr[s][r] + Overlap < pass.cursor
          BY <2>1, <2>4, <2>6, <5>1, WhatWasNotRead
        <5> QED
          BY <1>2, <2>2, <2>3, <5>2
      <4> QED
        BY <4>1, <4>2
    <3>2. id \notin spoiled \cup hurried
      BY <1>4, <1>8, <3>1
    <3>3. requests[id][r] # NoRow /\ requests[id][r].upd = seerr[s][r] /\ ~requests[id][r].removed
      BY <1>6, <3>1, <3>2 DEF NothingOverlooked, Connected
    <3>4. requests'[id][r] = requests[id][r]
      BY <1>3, <1>6, <1>8, <2>6, <3>1 DEF Stored
    <3> QED
      BY <3>3, <3>4
  <2> QED
    BY <2>5, <2>6
<1> QED
  BY <1>7, <1>8

LEMMA OverlookStep ==
  ASSUME RoomForAll, OverlookInv, [ConnectionsNext]_connVars
  PROVE  OverlookInv'
<1>1. ReadInv'
  BY ReadStep DEF OverlookInv
<1> USE DEF OverlookInv
<1>2. \A s \in Seerrs, r \in Requests : seerr' = seerr => seerr'[s][r] \in {seerr[s][r], 0, clock + 1}
  OBVIOUS
<1>3. CASE UNCHANGED connVars
  BY <1>1, <1>2, <1>3, StillKnown DEF connVars
<1>4. ASSUME NEW s \in Seerrs, NEW r \in Requests, (\E open \in BOOLEAN : Touch(s, r, open)) \/ Arrive(s, r) \/ Delete(s, r)
      PROVE  OverlookInv'
  <2>1. UNCHANGED <<requests, cursor, spoiled, hurried, services>>
    BY <1>4 DEF Touch, Arrive, Delete, tables
  <2>2. \A t \in Seerrs, q \in Requests : seerr'[t][q] \in {seerr[t][q], 0, clock + 1}
    <3>1. seerr \in [Seerrs -> [Requests -> Stamps]]
      BY DEF ReadInv, ConnFits, SeerrsFit
    <3>2. seerr' = seerr \/ seerr' = [seerr EXCEPT ![s][r] = clock + 1] \/ seerr' = [seerr EXCEPT ![s][r] = 0]
      BY <1>4 DEF Touch, Arrive, Delete
    <3> QED
      BY <3>1, <3>2
  <2> QED
    BY <1>1, <2>1, <2>2, StillKnown
<1>5. ASSUME NEW o \in Owners,
             \/ \E s \in Seerrs : StartCreate(o, s) \/ (\E id \in Ids : StartUpdate(o, id, s))
             \/ TestFails(o) \/ ReloadReads(o) \/ ReloadEnds(o)
      PROVE  OverlookInv'
  <2>1. UNCHANGED <<requests, cursor, spoiled, hurried, services, seerr>>
    BY <1>5 DEF StartCreate, StartUpdate, TestFails, ReloadReads, ReloadEnds, tables
  <2> QED
    BY <1>1, <1>2, <2>1, StillKnown
<1>6. CASE \/ \E day, quarter \in BOOLEAN : BeginRead(day, quarter)
           \/ \E named \in SUBSET Requests : ByName(named)
           \/ StartPass \/ Probe \/ ReadPage \/ Recheck \/ ReadFails
  <2>1. UNCHANGED <<requests, cursor, spoiled, hurried, services, seerr>>
    BY <1>6 DEF BeginRead, ByName, StartPass, Probe, ReadPage, Recheck, ReadFails, tables
  <2> QED
    BY <1>1, <1>2, <2>1, StillKnown
<1>7. ASSUME NEW o \in Owners, Create(o) PROVE OverlookInv'
  <2>1. UNCHANGED <<requests, cursor, spoiled, hurried, seerr>> /\ services' = [services EXCEPT ![issued + 1] = owner[o].url]
    BY <1>7 DEF Create
  <2>2. issued \in Nat /\ services \in Entries
    BY DEF ReadInv, ConnFits, TablesFit
  <2>3. \A id \in Ids : services'[id] \in {services[id], Nowhere} \/ cursor[id] = 0
    <3> TAKE id \in Ids
    <3>1. CASE id = issued + 1
      <4>1. id > issued
        BY <2>2, <3>1
      <4> QED
        BY <4>1 DEF ReadInv, InTime
    <3>2. CASE id # issued + 1
      BY <2>1, <2>2, <3>2 DEF Entries
    <3> QED
      BY <3>1, <3>2
  <2> QED
    BY <1>1, <1>2, <2>1, <2>3, StillKnown
<1>8. ASSUME NEW o \in Owners, NEW id \in Ids, RemoveConnection(o, id) PROVE OverlookInv'
  <2>1. /\ services' = [services EXCEPT ![id] = Nowhere] /\ requests' = [requests EXCEPT ![id] = NoRows]
        /\ UNCHANGED <<cursor, spoiled, hurried, seerr>>
    BY <1>8 DEF RemoveConnection, tables
  <2>2. \A d \in Ids \ {id} : services'[d] = services[d] /\ requests'[d] = requests[d]
    BY <2>1 DEF ReadInv, ConnFits, TablesFit, Entries
  <2>3. services'[id] = Nowhere
    BY <2>1 DEF ReadInv, ConnFits, TablesFit, Entries
  <2>4. NothingOverlooked'
    BY <2>1, <2>2, <2>3 DEF NothingOverlooked, Connected, Listed
  <2> QED
    BY <1>1, <2>4
<1>9. ASSUME NEW o \in Owners, Update(o) PROVE OverlookInv'
  BY <1>1, <1>9, UpdateOverlooks
<1>10. CASE Write
  BY <1>1, <1>10, WriteOverlooks
<1> QED
  BY <1>3, <1>4, <1>5, <1>6, <1>7, <1>8, <1>9, <1>10 DEF ConnectionsNext

(* Whatever the owners, the people at Seerr and the passes do in any order,  *)
(* the tables and the pass are of their types, and what a pass has read is   *)
(* what Seerr has said, in Seerr's time.                                     *)
THEOREM ConnectionsInvariant == ConnectionsSpec => []ReadInv
BY ReadInit, ReadStep, PTL DEF ConnectionsSpec

(* What a Seerr lists and changed longer ago than the overlap before the     *)
(* cursor is in the table as it is there, and not marked as removed: for any *)
(* pages, any overlap and any requests, when a listing has room for them     *)
(* all.  Exempt are only the connections the property names.                 *)
THEOREM NothingIsOverlooked ==
  ASSUME RoomForAll
  PROVE  ConnectionsSpec => []NothingOverlooked
<1>1. OverlookInv /\ [ConnectionsNext]_connVars => OverlookInv'
  BY OverlookStep
<1>2. OverlookInv => NothingOverlooked
  BY DEF OverlookInv
<1> QED
  BY OverlookInit, <1>1, <1>2, PTL DEF ConnectionsSpec

LEMMA OnlyTheGoneAreRemoved ==
  ASSUME ReadInv, NEW id \in Ids, NEW r \in Requests,
         Write, pass.id = id, pass.news = "none",
         requests'[id][r] # NoRow, requests'[id][r].removed,
         requests[id][r] # NoRow, ~requests[id][r].removed
  PROVE  r \notin Listed(pass.url)
<1> USE DEF ReadInv
<1>1. Busy /\ pass.pc = "write"
  BY DEF Write, Busy
<1>2. pass \in ReadingPass /\ pass.url \in Seerrs /\ pass.page \in Nat
  BY <1>1, BusyReads
<1>3. requests'[id][r] = Stored(r)
  BY DEF Write, ConnFits, TablesFit
<1>4. r \notin SeenIds
  <2> SUFFICES ASSUME r \in SeenIds PROVE FALSE
    OBVIOUS
  <2>1. Stored(r) = [upd |-> Latest(r).upd, open |-> Latest(r).open, removed |-> FALSE, from |-> pass.url]
    BY DEF Stored
  <2> QED
    BY <1>3, <2>1
<1>5. pass.full /\ pass.complete
  BY <1>3, <1>4 DEF Stored
<1>6. pass.page > 0
  BY <1>1, <1>2, <1>5 DEF PassInTime
<1> SUFFICES ASSUME r \in Listed(pass.url) PROVE FALSE
  OBVIOUS
<1>7. PICK s \in Seerrs : s = pass.url
  BY <1>2
<1>8. seerr[s][r] > pass.since
  BY <1>4, <1>5, <1>6, <1>7, WhatWasNotRead
<1>9. seerr[s][r] <= pass.since
  BY <1>1, <1>7 DEF ReadsWhatIsThere
<1>10. seerr[s][r] \in Nat /\ pass.since \in Nat
  BY <1>1, BusyReads
<1> QED
  BY <1>8, <1>9, <1>10

(* A pass marks a request as removed only when Seerr does not list it, for   *)
(* any number of requests: a listing that was cut short removes nothing.     *)
THEOREM RemovalsHaveReasons == ConnectionsSpec => RemovedForAReason
<1>1. ReadInv /\ [ConnectionsNext]_connVars =>
        [\A id \in Ids, r \in Requests :
           /\ Write /\ pass.id = id /\ pass.news = "none"
           /\ requests'[id][r] # NoRow /\ requests'[id][r].removed
           /\ requests[id][r] # NoRow /\ ~requests[id][r].removed
           => r \notin Listed(pass.url)]_connVars
  BY OnlyTheGoneAreRemoved
<1> QED
  BY ConnectionsInvariant, <1>1, PTL DEF ConnectionsSpec, RemovedForAReason

-----------------------------------------------------------------------------
(***************************************************************************)
(* The downloads                                                           *)
(***************************************************************************)

(* A sum over nothing, and over one. *)
LEMMA SumOfNone ==
  ASSUME NEW f
  PROVE  SumOf(f, {}) = 0
<1> DEFINE D(sums) == [R \in SUBSET {} |-> IF R = {} THEN 0 ELSE f[CHOOSE y \in R : TRUE] + sums[R \ {CHOOSE y \in R : TRUE}]]
           h    == [R \in SUBSET {} |-> 0]
           sum  == CHOOSE sums : sums = D(sums)
<1>1. h = D(h)
  OBVIOUS
<1>2. ASSUME NEW sums, sums = D(sums)
      PROVE  sums[{}] = 0
  BY <1>2
<1> HIDE DEF D, h
<1>3. sum = D(sum)
  BY <1>1
<1>4. SumOf(f, {}) = sum[{}]
  BY DEF SumOf, D
<1> QED
  BY <1>2, <1>3, <1>4

LEMMA SumOfOne ==
  ASSUME NEW f, NEW x, f[x] \in Int
  PROVE  SumOf(f, {x}) = f[x]
<1> DEFINE D(sums) == [R \in SUBSET {x} |-> IF R = {} THEN 0 ELSE f[CHOOSE y \in R : TRUE] + sums[R \ {CHOOSE y \in R : TRUE}]]
           h    == [R \in SUBSET {x} |-> IF R = {} THEN 0 ELSE f[x]]
           sum  == CHOOSE sums : sums = D(sums)
<1>1. \A R \in SUBSET {x} : R # {} => R = {x} /\ (CHOOSE y \in R : TRUE) = x /\ R \ {x} = {}
  <2>1. (CHOOSE y \in {x} : TRUE) = x
    OBVIOUS
  <2> QED
    BY <2>1
<1>2. h = D(h)
  BY <1>1
<1>3. ASSUME NEW sums, sums = D(sums)
      PROVE  sums[{x}] = f[x]
  <2>1. sums[{}] = 0 /\ sums[{x}] = f[x] + sums[{}]
    BY <1>1, <1>3
  <2> QED
    BY <2>1
<1> HIDE DEF D, h
<1>4. sum = D(sum)
  BY <1>2
<1>5. SumOf(f, {x}) = sum[{x}]
  BY DEF SumOf, D
<1> QED
  BY <1>3, <1>4, <1>5

(* A speed says no more than what has come in its time. *)
LEMMA RoundedDown ==
  ASSUME NEW m \in Nat, NEW s \in Nat \ {0}
  PROVE  m \div s \in 0..m /\ (m \div s) * s <= m
OBVIOUS

(* The largest a download may be. *)
Largest == Max(Sizes)

(* Under which one key each download is known. *)
Own(h) == KeyOf(<<h[1], h[2], CHOOSE p \in PartsOf[h[2]] : TRUE>>)

LEMMA SizesHaveAMost == Largest \in Nat /\ \A n \in Sizes : n \in 0..Largest
<1>1. \E n \in Nat : \A x \in Sizes : x <= n
  BY BoundOf, DownloadsAssumption
<1>2. Sizes \in SUBSET Nat /\ Sizes # {}
  BY DownloadsAssumption
<1>3. Max(Sizes) \in Sizes /\ \A n \in Sizes : Max(Sizes) >= n
  BY <1>1, <1>2, GreatestOf
<1>4. Largest \in Sizes /\ \A n \in Sizes : Largest >= n
  BY <1>3 DEF Largest
<1> QED
  BY <1>2, <1>4

LEMMA OfHeld ==
  ASSUME NEW h \in Held
  PROVE  /\ h[1] \in Instances /\ h[2] \in Awaits[h[1]] /\ h = <<h[1], h[2]>>
         /\ IsFiniteSet(PartsOf[h[2]]) /\ PartsOf[h[2]] # {} /\ NotThere \notin Loads(h[2])
BY DownloadsAssumption DEF Held

LEMMA HeldIsOfIts ==
  ASSUME NEW s \in Instances, NEW d \in Awaits[s]
  PROVE  <<s, d>> \in Held
BY DEF Held

LEMMA OneKey ==
  ASSUME NEW h \in Held, NEW p \in PartsOf[h[2]]
  PROVE  KeyOf(<<h[1], h[2], p>>) = Own(h) /\ Own(h)[1] = h[1] /\ Own(h)[2] = h[2]
BY DownloadsAssumption DEF KeyOf, Own

(* The rows there can be, and the answers they are made from. *)
RowFits(r) ==
  /\ DOMAIN r = {"key", "of", "parts", "seasons", "size", "left", "down_bps", "state"}
  /\ r.of \in Held /\ r.key = Own(r.of)
  /\ r.left \in 0..Largest /\ r.size \in 0..Largest /\ r.down_bps \in 0..Largest
  /\ r.parts \in 1..Cardinality(PartsOf[r.of[2]])
  /\ r.state \in Range(STATES)

(* Answers of the services: what is in a queue, or nothing. *)
Answered(answers) ==
  \A s \in DOMAIN answers : s \in Instances /\ (answers[s] = NoAnswer \/ answers[s] \in Queues(s))

(* A row is made from what its service has answered of its download. *)
FromAnswer(r, answers) ==
  /\ r.of[1] \in DOMAIN answers /\ answers[r.of[1]] # NoAnswer /\ answers[r.of[1]][r.of[2]] # NotThere
  /\ r.left = answers[r.of[1]][r.of[2]].left

LEMMA RankIs ==
  ASSUME NEW state \in Range(STATES)
  PROVE  Rank(state) \in 1..5
<1>1. STATES \in [1..5 -> Range(STATES)] /\ DOMAIN STATES = 1..5
  BY DEF STATES, Range
<1>2. \E i \in DOMAIN STATES : STATES[i] = state
  BY DEF Range
<1> QED
  BY <1>1, <1>2 DEF Rank

LEMMA FoldIs ==
  ASSUME NEW answers, Answered(answers), NEW r \in fold(answers)
  PROVE  RowFits(r) /\ FromAnswer(r, answers) /\ r.down_bps = 0
<1> DEFINE records == UNION {Parts(s, answers[s]) : s \in {t \in DOMAIN answers : answers[t] # NoAnswer}}
<1>1. PICK x \in records : r = DownloadOf(records, KeyOf(x), answers)
  BY DEF fold
<1>2. ASSUME NEW y \in records
      PROVE  /\ y = <<y[1], y[2], y[3]>> /\ y[1] \in DOMAIN answers /\ answers[y[1]] # NoAnswer
             /\ y[2] \in Awaits[y[1]] /\ answers[y[1]][y[2]] # NotThere /\ y[3] \in PartsOf[y[2]]
             /\ <<y[1], y[2]>> \in Held
  BY <1>2 DEF Parts, Answered, Held
<1> DEFINE h   == <<x[1], x[2]>>
           own == {y \in records : KeyOf(y) = KeyOf(x)}
           load == answers[x[1]][x[2]]
<1>3. /\ h \in Held /\ x = <<h[1], h[2], x[3]>> /\ x[3] \in PartsOf[h[2]] /\ x[2] = h[2] /\ x[1] = h[1]
  BY <1>2
<1>4. KeyOf(x) = Own(h) /\ Own(h)[1] = x[1] /\ Own(h)[2] = x[2]
  BY <1>3, OneKey
<1>5. load \in Loads(x[2])
  <2>1. answers[x[1]] \in Queues(x[1])
    BY <1>2 DEF Answered
  <2> QED
    BY <1>2, <2>1 DEF Queues
<1>6. load.left \in 0..Largest /\ load.size \in 0..Largest /\ load.state \in [PartsOf[x[2]] -> Range(STATES)]
  BY <1>5, SizesHaveAMost DEF Loads, Largest
<1>7. \A y \in own : y = <<x[1], x[2], y[3]>> /\ y[3] \in PartsOf[x[2]]
  <2> SUFFICES ASSUME NEW y \in own PROVE y = <<x[1], x[2], y[3]>> /\ y[3] \in PartsOf[x[2]]
    OBVIOUS
  <2>1. /\ y = <<y[1], y[2], y[3]>> /\ y[3] \in PartsOf[y[2]] /\ <<y[1], y[2]>> \in Held /\ KeyOf(y) = KeyOf(x)
    BY <1>2
  <2>2. KeyOf(y)[1] = y[1] /\ KeyOf(y)[2] = y[2]
    BY <2>1 DEF KeyOf
  <2> QED
    BY <1>4, <2>1, <2>2
<1>8. Cardinality(own) \in 1..Cardinality(PartsOf[h[2]])
  <2> DEFINE f == [y \in own |-> y[3]]
  <2>1. f \in Injection(own, PartsOf[h[2]])
    <3>1. f \in [own -> PartsOf[h[2]]]
      BY <1>3, <1>7
    <3>2. \A y, z \in own : f[y] = f[z] => y = z
      BY <1>7
    <3> QED
      BY <3>1, <3>2 DEF Injection, IsInjective
  <2>2. IsFiniteSet(PartsOf[h[2]])
    BY <1>3, OfHeld
  <2>3. IsFiniteSet(own) /\ Cardinality(own) <= Cardinality(PartsOf[h[2]])
    BY <2>1, <2>2, FS_Injection
  <2>4. x \in own
    OBVIOUS
  <2>5. Cardinality(own) \in Nat /\ Cardinality(own) # 0 /\ Cardinality(PartsOf[h[2]]) \in Nat
    BY <2>2, <2>3, <2>4, FS_CardinalityType, FS_EmptySet
  <2> QED
    BY <2>3, <2>5
<1>9. STATES[Min({Rank(load.state[y[3]]) : y \in own})] \in Range(STATES)
  <2> DEFINE ranks == {Rank(load.state[y[3]]) : y \in own}
  <2>1. ranks \subseteq 1..5
    BY <1>6, <1>7, RankIs
  <2>2. x \in own
    OBVIOUS
  <2>3. ranks # {}
    BY <2>2
  <2> HIDE DEF ranks
  <2>4. Min(ranks) \in ranks
    <3>1. ranks \in SUBSET Nat
      BY <2>1
    <3> QED
      BY <2>3, <3>1, SmallestOf
  <2>5. \A i \in 1..5 : STATES[i] \in Range(STATES)
    BY DEF STATES, Range
  <2>6. STATES[Min(ranks)] \in Range(STATES)
    BY <2>1, <2>4, <2>5
  <2> QED
    BY <2>6 DEF ranks
<1>10. r = [key |-> Own(h), of |-> h, parts |-> Cardinality(own), seasons |-> {y[3] : y \in own},
            size |-> load.size, left |-> load.left, down_bps |-> 0,
            state |-> STATES[Min({Rank(load.state[y[3]]) : y \in own})]]
  BY <1>1, <1>4 DEF DownloadOf
<1>11. answers[h[1]] # NoAnswer /\ answers[h[1]][h[2]] # NotThere /\ h[1] \in DOMAIN answers
  BY <1>2, <1>3
<1> HIDE DEF own, load, records
<1>12. FromAnswer(r, answers)
  BY <1>3, <1>10, <1>11 DEF FromAnswer, load
<1>13. RowFits(r)
  BY <1>3, <1>6, <1>8, <1>9, <1>10, SizesHaveAMost DEF RowFits
<1> QED
  BY <1>10, <1>12, <1>13

LEMMA FoldOnce ==
  ASSUME NEW answers, Answered(answers), NEW r \in fold(answers), NEW q \in fold(answers), r.of = q.of
  PROVE  r = q
<1> DEFINE records == UNION {Parts(s, answers[s]) : s \in {t \in DOMAIN answers : answers[t] # NoAnswer}}
<1>1. r.key = q.key
  BY FoldIs DEF RowFits
<1>2. PICK x \in records : r = DownloadOf(records, KeyOf(x), answers)
  BY DEF fold
<1>3. PICK y \in records : q = DownloadOf(records, KeyOf(y), answers)
  BY DEF fold
<1>4. r.key = KeyOf(x) /\ q.key = KeyOf(y)
  BY <1>2, <1>3 DEF DownloadOf
<1> QED
  BY <1>1, <1>2, <1>3, <1>4

(* What was left when, of each download once. *)
Of(b) == <<b.key[1], b.key[2]>>

(* The notes of what was left are of downloads there may be, in their time, *)
(* one under each key.                                                      *)
SeenFits(before, when) ==
  /\ \A b \in before : Of(b) \in Held /\ b.key = Own(Of(b)) /\ b.left \in 0..Largest /\ b.at \in 0..when
  /\ \A b, c \in before : b.key = c.key => b = c

(* A speed is no more than what came since the note, over the time since. *)
SpeedIsTrue(r, before, when) ==
  r.down_bps > 0 =>
    \E b \in before : b.key = r.key /\ b.left > r.left /\ r.down_bps * (when - b.at) <= b.left - r.left

LEMMA SpeedsAre ==
  ASSUME NEW answers, Answered(answers), NEW before, NEW when \in Nat, SeenFits(before, when),
         NEW r \in speeds(fold(answers), before, when)
  PROVE  RowFits(r) /\ FromAnswer(r, answers) /\ SpeedIsTrue(r, before, when)
<1> DEFINE Known(q) == {b \in before : b.key = q.key}
           First(q) == CHOOSE x \in Known(q) : TRUE
           Moved(q) == First(q).left - q.left
           Seconds(q) == when - First(q).at
           Told(q) == Known(q) # {} /\ Seconds(q) \in Nearest..Furthest /\ Moved(q) > 0 /\ Moved(q) <= Max({q.size, First(q).left})
<1>1. PICK q \in fold(answers) :
        r = IF Told(q) THEN [q EXCEPT !.down_bps = Moved(q) \div Seconds(q)] ELSE q
  BY DEF speeds
<1> HIDE DEF Told
<1>2. RowFits(q) /\ FromAnswer(q, answers) /\ q.down_bps = 0
  BY FoldIs
<1>3. CASE ~Told(q)
  BY <1>1, <1>2, <1>3 DEF SpeedIsTrue
<1>4. CASE Told(q)
  <2>1. r = [q EXCEPT !.down_bps = Moved(q) \div Seconds(q)]
    BY <1>1, <1>4
  <2>2. First(q) \in before /\ First(q).key = q.key
    <3>1. Known(q) # {}
      BY <1>4 DEF Told
    <3>2. First(q) \in Known(q)
      BY <3>1
    <3> QED
      BY <3>2
  <2>3. First(q).left \in 0..Largest /\ First(q).at \in 0..when /\ q.left \in 0..Largest /\ Largest \in Nat
    BY <1>2, <2>2, SizesHaveAMost DEF SeenFits, RowFits
  <2>4. Seconds(q) \in Nat \ {0} /\ Moved(q) \in Nat \ {0} /\ Moved(q) <= Largest
    BY <1>4, <2>3, DownloadsAssumption DEF Told
  <2> DEFINE m == Moved(q)
             s == Seconds(q)
  <2> HIDE DEF m, s
  <2>5. m \div s \in 0..m /\ (m \div s) * s <= m
    BY <2>4, RoundedDown DEF m, s
  <2>6. /\ r.of = q.of /\ r.key = q.key /\ r.left = q.left /\ r.size = q.size /\ r.parts = q.parts
        /\ r.state = q.state /\ r.down_bps = m \div s /\ DOMAIN r = DOMAIN q
    BY <1>2, <2>1 DEF RowFits, m, s
  <2>7. m \div s \in 0..Largest
    BY <2>3, <2>4, <2>5 DEF m
  <2>8. RowFits(r) /\ FromAnswer(r, answers)
    BY <1>2, <2>6, <2>7 DEF RowFits, FromAnswer
  <2>9. SpeedIsTrue(r, before, when)
    <3>1. r.down_bps * (when - First(q).at) <= First(q).left - r.left /\ First(q).left > r.left
      BY <2>3, <2>4, <2>5, <2>6 DEF m, s
    <3> QED
      BY <2>2, <2>6, <3>1 DEF SpeedIsTrue
  <2> QED
    BY <2>8, <2>9
<1> QED
  BY <1>3, <1>4

LEMMA SpeedsOnce ==
  ASSUME NEW answers, Answered(answers), NEW before, NEW when,
         NEW r \in speeds(fold(answers), before, when), NEW q \in speeds(fold(answers), before, when), r.of = q.of
  PROVE  r = q
<1> DEFINE Known(x) == {b \in before : b.key = x.key}
           First(x) == CHOOSE y \in Known(x) : TRUE
           Moved(x) == First(x).left - x.left
           Seconds(x) == when - First(x).at
           Told(x) == Known(x) # {} /\ Seconds(x) \in Nearest..Furthest /\ Moved(x) > 0 /\ Moved(x) <= Max({x.size, First(x).left})
           Timed(x) == IF Told(x) THEN [x EXCEPT !.down_bps = Moved(x) \div Seconds(x)] ELSE x
<1>1. PICK x \in fold(answers) : r = Timed(x)
  BY DEF speeds
<1>2. PICK y \in fold(answers) : q = Timed(y)
  BY DEF speeds
<1>3. \A z \in fold(answers) : RowFits(z)
  BY FoldIs
<1>4. \A z \in fold(answers) : Timed(z).of = z.of
  <2> HIDE DEF Told, Moved, Seconds
  <2> QED
    BY <1>3 DEF RowFits
<1> HIDE DEF Timed
<1>5. x.of = y.of
  BY <1>1, <1>2, <1>4
<1> QED
  BY <1>1, <1>2, <1>5, FoldOnce

(* The queues at the services, the rows shown, and the loop that reads. *)
QueueFits == DOMAIN queue = Instances /\ \A s \in Instances : queue[s] \in Queues(s)

RowsFit ==
  /\ \A r \in downloads.rows : RowFits(r) /\ r.of[1] \in downloads.asked
  /\ \A r, q \in downloads.rows : r.of = q.of => r = q

LoopFits ==
  /\ loop.pc = "reads" =>
       /\ DOMAIN loop = {"pc", "since", "answers", "asked"} /\ loop.asked \subseteq Instances
       /\ Answered(loop.answers) /\ DOMAIN loop.answers \subseteq loop.asked
  /\ loop.pc = "decided" => loop.wait \in Nat
  /\ loop.pc = "sleeps" => loop.due \in Nat
  /\ downloads_watched \in Int

(* A loop that nobody has woken in vain knows who is connected, and whether  *)
(* somebody looks.                                                           *)
NobodyUnheard ==
  /\ "source" \notin missed =>
       /\ loop.pc = "reads" => loop.asked = arrs
       /\ loop.pc = "decides" => loop.anything \/ arrs = {}
       /\ loop.pc \in {"decides", "decided", "sleeps"} => arrs = {} \/ downloads.asked = arrs
  /\ loop.pc = "decided" /\ missed = {} /\ arrs # {} /\ Watching(moment, downloads_watched)
       => loop.wait <= WATCHED_EVERY_S

(* If so much was left of a download when its speed was last told, then what *)
(* has been said of it and what may yet be said is no more than came and     *)
(* is still to come.                                                         *)
Covers(h, n) ==
  IF queue[h[1]][h[2]] = NotThere
  THEN \A m \in Sizes : claimed[h] + n <= arrived[h] + m
  ELSE claimed[h] + n <= arrived[h] + queue[h[1]][h[2]].left

(* n was left of download h when its speed was last told; and n is left of  *)
(* it by an answer that has come.                                           *)
WasLeft(h, n) == \E b \in seen : Of(b) = h /\ b.left = n

IsTold(h, n) ==
  /\ loop.pc = "reads" /\ h[1] \in DOMAIN loop.answers
  /\ loop.answers[h[1]] # NoAnswer /\ loop.answers[h[1]][h[2]] # NotThere
  /\ loop.answers[h[1]][h[2]].left = n

(* No more has been said to have come of h than came, nor will be. *)
Honest(h) ==
  /\ claimed[h] <= arrived[h]
  /\ \A n \in Nat : WasLeft(h, n) \/ IsTold(h, n) => Covers(h, n)
  /\ \A n, m \in Nat : IsTold(h, n) /\ WasLeft(h, m) => claimed[h] + m <= arrived[h] + n

SpeedsAreHonest ==
  /\ arrived \in [Held -> Nat] /\ claimed \in [Held -> Nat]
  /\ \A h \in Held \ swapped : Honest(h)

(* The inductive invariant of the downloads. *)
DownloadsInv ==
  /\ DownloadsTypeOK /\ QueueFits /\ RowsFit /\ SeenFits(seen, moment) /\ LoopFits
  /\ NobodyUnheard /\ PageIsFresh /\ SpeedsAreHonest

LEMMA QueueHas ==
  ASSUME QueueFits, NEW h \in Held
  PROVE  /\ queue[h[1]][h[2]] = NotThere \/ queue[h[1]][h[2]] \in Loads(h[2])
         /\ queue[h[1]][h[2]] # NotThere =>
              queue[h[1]][h[2]].left \in 0..Largest /\ queue[h[1]][h[2]].left \in Nat
<1>1. h[1] \in Instances /\ h[2] \in Awaits[h[1]]
  BY OfHeld
<1>2. queue[h[1]][h[2]] = NotThere \/ queue[h[1]][h[2]] \in Loads(h[2])
  BY <1>1 DEF QueueFits, Queues
<1> QED
  BY <1>2, SizesHaveAMost DEF Loads, Largest

-----------------------------------------------------------------------------

LEMMA DownloadsStart == DownloadsInit => DownloadsInv
<1> SUFFICES ASSUME DownloadsInit PROVE DownloadsInv
  OBVIOUS
<1> USE DEF DownloadsInit
<1>1. QueueFits
  <2>1. ASSUME NEW s \in Instances
        PROVE  queue[s] \in Queues(s)
    <3> DEFINE all == {NotThere} \cup UNION {Loads(d) : d \in Awaits[s]}
    <3> HIDE DEF all
    <3>1. queue[s] = [d \in Awaits[s] |-> NotThere] /\ NotThere \in all
      BY DEF all
    <3>2. queue[s] \in [Awaits[s] -> all] /\ \A d \in Awaits[s] : queue[s][d] = NotThere
      BY <3>1
    <3> QED
      BY <3>2 DEF Queues, all
  <2> QED
    BY <2>1 DEF QueueFits
<1>2. DownloadsTypeOK
  <2>1. \A h \in Held : queue[h[1]][h[2]] = NotThere
    BY OfHeld
  <2> QED
    BY <2>1, DownloadsAssumption DEF DownloadsTypeOK
<1>3. RowsFit /\ SeenFits(seen, moment)
  BY DEF RowsFit, SeenFits
<1>4. LoopFits /\ NobodyUnheard /\ PageIsFresh
  BY DownloadsAssumption DEF LoopFits, NobodyUnheard, PageIsFresh
<1>5. SpeedsAreHonest
  BY DEF SpeedsAreHonest, Honest, WasLeft, IsTold
<1> QED
  BY <1>1, <1>2, <1>3, <1>4, <1>5 DEF DownloadsInv

(* What comes, or starts again with no less, takes nothing from what is      *)
(* covered; and what is read or forgotten meanwhile neither.                 *)
LEMMA HonestStays ==
  ASSUME SpeedsAreHonest, claimed' = claimed, arrived' \in [Held -> Nat],
         \A h \in Held : arrived[h] <= arrived'[h],
         swapped \subseteq swapped', seen' \subseteq seen,
         \A h \in Held \ swapped' : \A n \in Nat : Covers(h, n) => Covers(h, n)',
         loop'.pc = "reads" => loop' = loop \/ DOMAIN loop'.answers = {}
  PROVE  SpeedsAreHonest'
<1>1. ASSUME NEW h \in Held \ swapped'
      PROVE  Honest(h)'
  <2>1. Honest(h) /\ claimed[h] \in Nat /\ arrived[h] \in Nat /\ arrived'[h] \in Nat /\ arrived[h] <= arrived'[h]
    BY DEF SpeedsAreHonest
  <2>2. \A n \in Nat : (WasLeft(h, n)' => WasLeft(h, n)) /\ (IsTold(h, n)' => IsTold(h, n))
    BY DEF WasLeft, IsTold, Of
  <2>3. claimed'[h] <= arrived'[h]
    BY <2>1 DEF Honest
  <2>4. \A n \in Nat : WasLeft(h, n)' \/ IsTold(h, n)' => Covers(h, n)'
    BY <2>1, <2>2 DEF Honest
  <2>5. ASSUME NEW n \in Nat, NEW m \in Nat, IsTold(h, n)', WasLeft(h, m)'
        PROVE  claimed'[h] + m <= arrived'[h] + n
    <3>1. claimed[h] + m <= arrived[h] + n
      BY <2>1, <2>2, <2>5 DEF Honest
    <3> QED
      BY <2>1, <3>1
  <2> QED
    BY <2>3, <2>4, <2>5 DEF Honest
<1>2. claimed' \in [Held -> Nat]
  BY DEF SpeedsAreHonest
<1> QED
  BY <1>1, <1>2 DEF SpeedsAreHonest

(* A queue changes at one download. *)
LEMMA QueueKeeps ==
  ASSUME DownloadsInv, NEW s \in Instances, NEW d \in Awaits[s], NEW load, load = NotThere \/ load \in Loads(d),
         Becomes(s, d, load), arrived' \in [Held -> Nat], swapped \subseteq swapped',
         \A h \in Held : IF h = <<s, d>> THEN arrived[h] <= arrived'[h] ELSE arrived'[h] = arrived[h],
         <<s, d>> \notin swapped' => \A n \in Nat : Covers(<<s, d>>, n) => Covers(<<s, d>>, n)'
  PROVE  DownloadsInv'
<1> USE DEF DownloadsInv
<1>1. /\ queue' = [queue EXCEPT ![s][d] = load] /\ doings < MaxDoings /\ doings' = doings + 1
      /\ UNCHANGED <<moment, arrs, downloads, seen, loop, downloads_watched, claimed, missed>>
  BY DEF Becomes, Doing
<1>2. queue[s] \in Queues(s) /\ DOMAIN queue = Instances /\ DOMAIN queue[s] = Awaits[s]
  BY DEF QueueFits, Queues
<1>3. /\ DOMAIN queue' = Instances /\ queue'[s] = [queue[s] EXCEPT ![d] = load]
      /\ \A t \in Instances : t # s => queue'[t] = queue[t]
  BY <1>1, <1>2
<1>4. QueueFits'
  <2> DEFINE all == {NotThere} \cup UNION {Loads(e) : e \in Awaits[s]}
  <2>1. load \in all
    OBVIOUS
  <2> HIDE DEF all
  <2>2. queue[s] \in [Awaits[s] -> all] /\ \A e \in Awaits[s] : queue[s][e] = NotThere \/ queue[s][e] \in Loads(e)
    BY <1>2 DEF Queues, all
  <2>3. queue'[s] \in [Awaits[s] -> all] /\ \A e \in Awaits[s] : queue'[s][e] = NotThere \/ queue'[s][e] \in Loads(e)
    BY <1>3, <2>1, <2>2
  <2>4. queue'[s] \in Queues(s)
    BY <2>3 DEF Queues, all
  <2> QED
    BY <1>3, <2>4 DEF QueueFits
<1>5. DownloadsTypeOK'
  <2>1. \A h \in Held : LET was == queue'[h[1]][h[2]] IN was # NotThere => was \in Loads(h[2])
    BY <1>4, OfHeld DEF QueueFits, Queues
  <2>2. doings' \in 0..MaxDoings
    BY <1>1, DownloadsAssumption DEF DownloadsTypeOK
  <2> QED
    BY <1>1, <2>1, <2>2 DEF DownloadsTypeOK
<1>6. RowsFit' /\ SeenFits(seen, moment)' /\ LoopFits' /\ NobodyUnheard' /\ PageIsFresh'
  BY <1>1 DEF RowsFit, SeenFits, Of, LoopFits, NobodyUnheard, Watching, PageIsFresh
<1>7. SpeedsAreHonest'
  <2>1. \A h \in Held : arrived[h] <= arrived'[h]
    BY DEF SpeedsAreHonest
  <2>2. ASSUME NEW h \in Held \ swapped', NEW n \in Nat, Covers(h, n)
        PROVE  Covers(h, n)'
    <3>1. CASE h = <<s, d>>
      BY <2>2, <3>1
    <3>2. CASE h # <<s, d>>
      <4>1. h[1] \in Instances /\ h[2] \in Awaits[h[1]] /\ (h[1] # s \/ h[2] # d)
        BY <3>2, OfHeld
      <4>2. queue'[h[1]][h[2]] = queue[h[1]][h[2]]
        BY <1>2, <1>3, <4>1
      <4> QED
        BY <1>1, <2>2, <3>2, <4>2 DEF Covers
    <3> QED
      BY <3>1, <3>2
  <2> QED
    BY <1>1, <2>1, <2>2, HonestStays
<1> QED
  BY <1>4, <1>5, <1>6, <1>7

LEMMA QueueSteps ==
  ASSUME DownloadsInv, NEW s \in Instances, NEW d \in Awaits[s],
         Grabbed(s, d) \/ Comes(s, d) \/ Replaced(s, d) \/ PartTurns(s, d) \/ Gone(s, d)
  PROVE  DownloadsInv'
<1> DEFINE h == <<s, d>>
           was == queue[s][d]
<1>0. h \in Held /\ h[1] = s /\ h[2] = d /\ DOMAIN queue = Instances /\ d \in DOMAIN queue[s]
  BY HeldIsOfIts DEF DownloadsInv, QueueFits, Queues
<1>1. /\ arrived \in [Held -> Nat] /\ claimed \in [Held -> Nat]
      /\ was = NotThere \/ was \in Loads(d)
      /\ was # NotThere => was.left \in 0..Largest /\ was.left \in Nat
  BY <1>0, QueueHas DEF DownloadsInv, SpeedsAreHonest
<1>2. Largest \in Nat /\ \A n \in Sizes : n \in 0..Largest /\ n \in Nat
  BY SizesHaveAMost
<1>3. ASSUME NEW load, Becomes(s, d, load)
      PROVE  queue'[s][d] = load /\ claimed' = claimed
  BY <1>0, <1>3 DEF Becomes
<1>4. CASE Grabbed(s, d)
  <2>1. PICK n \in Sizes : Becomes(s, d, [size |-> n, left |-> n, state |-> [p \in PartsOf[d] |-> "downloading"]])
    BY <1>4 DEF Grabbed
  <2> DEFINE load == [size |-> n, left |-> n, state |-> [p \in PartsOf[d] |-> "downloading"]]
  <2>2. load \in Loads(d) /\ load # NotThere
    <3>1. "downloading" \in Range(STATES)
      BY DEF STATES, Range
    <3>2. load \in Loads(d)
      BY <1>2, <3>1 DEF Loads, Largest
    <3> QED
      BY <1>0, <3>2, OfHeld
  <2>3. load.left = n
    OBVIOUS
  <2> HIDE DEF load
  <2>4. was = NotThere /\ queue'[s][d] = load /\ UNCHANGED <<arrived, swapped, claimed>>
    BY <1>3, <1>4, <2>1 DEF Grabbed, load
  <2>5. \A m \in Nat : Covers(h, m) => Covers(h, m)'
    BY <1>0, <1>2, <2>2, <2>3, <2>4 DEF Covers
  <2>6. arrived' \in [Held -> Nat] /\ \A e \in Held : arrived'[e] = arrived[e] /\ arrived[e] <= arrived'[e]
    BY <1>1, <2>4
  <2> QED
    BY <2>1, <2>2, <2>4, <2>5, <2>6, QueueKeeps DEF load
<1>5. CASE Comes(s, d)
  <2>1. PICK n \in 1..was.left :
          /\ Becomes(s, d, [was EXCEPT !.left = @ - n])
          /\ arrived' = [arrived EXCEPT ![h] = @ + n]
    BY <1>5 DEF Comes
  <2>2. was # NotThere /\ swapped' = swapped
    BY <1>5 DEF Comes
  <2> DEFINE load == [was EXCEPT !.left = @ - n]
  <2>3. load \in Loads(d) /\ load # NotThere /\ load.left = was.left - n
    <3>1. load \in Loads(d) /\ load.left = was.left - n
      BY <1>1, <1>2, <2>1, <2>2 DEF Loads, Largest
    <3> QED
      BY <1>0, <3>1, OfHeld
  <2> HIDE DEF load
  <2>4. queue'[s][d] = load /\ claimed' = claimed
    BY <1>3, <2>1 DEF load
  <2>5. arrived' \in [Held -> Nat] /\ arrived'[h] = arrived[h] + n /\ \A e \in Held : e # h => arrived'[e] = arrived[e]
    BY <1>0, <1>1, <2>1, <2>2
  <2>6. \A m \in Nat : Covers(h, m) => Covers(h, m)'
    BY <1>0, <1>1, <2>1, <2>2, <2>3, <2>4, <2>5 DEF Covers
  <2>7. arrived[h] <= arrived'[h]
    BY <1>0, <1>1, <2>1, <2>5
  <2> QED
    BY <2>1, <2>2, <2>3, <2>5, <2>6, <2>7, QueueKeeps DEF load
<1>6. CASE Replaced(s, d)
  <2>1. PICK n \in Sizes :
          /\ Becomes(s, d, [was EXCEPT !.size = n, !.left = n])
          /\ swapped' = IF n < was.left THEN swapped \cup {h} ELSE swapped
    BY <1>6 DEF Replaced
  <2>2. was # NotThere /\ arrived' = arrived
    BY <1>6 DEF Replaced
  <2> DEFINE load == [was EXCEPT !.size = n, !.left = n]
  <2>3. load \in Loads(d) /\ load # NotThere /\ load.left = n
    <3>1. load \in Loads(d) /\ load.left = n
      BY <1>1, <1>2, <2>2 DEF Loads, Largest
    <3> QED
      BY <1>0, <3>1, OfHeld
  <2> HIDE DEF load
  <2>4. queue'[s][d] = load /\ claimed' = claimed
    BY <1>3, <2>1 DEF load
  <2>5. h \notin swapped' => \A m \in Nat : Covers(h, m) => Covers(h, m)'
    BY <1>0, <1>1, <1>2, <2>1, <2>2, <2>3, <2>4 DEF Covers
  <2>6. arrived' \in [Held -> Nat] /\ \A e \in Held : arrived'[e] = arrived[e] /\ arrived[e] <= arrived'[e]
    BY <1>1, <2>2
  <2> QED
    BY <2>1, <2>3, <2>5, <2>6, QueueKeeps DEF load
<1>7. CASE PartTurns(s, d)
  <2>1. PICK p \in PartsOf[d], state \in {"importing", "failed"} : Becomes(s, d, [was EXCEPT !.state[p] = state])
    BY <1>7 DEF PartTurns
  <2>2. was # NotThere /\ UNCHANGED <<arrived, swapped>>
    BY <1>7 DEF PartTurns
  <2> DEFINE load == [was EXCEPT !.state[p] = state]
  <2>3. load \in Loads(d) /\ load # NotThere /\ load.left = was.left
    <3>1. state \in Range(STATES)
      BY DEF STATES, Range
    <3>2. load \in Loads(d) /\ load.left = was.left
      BY <1>1, <2>2, <3>1 DEF Loads
    <3> QED
      BY <1>0, <3>2, OfHeld
  <2> HIDE DEF load
  <2>4. queue'[s][d] = load /\ claimed' = claimed
    BY <1>3, <2>1 DEF load
  <2>5. \A m \in Nat : Covers(h, m) => Covers(h, m)'
    BY <1>0, <2>2, <2>3, <2>4 DEF Covers
  <2>6. arrived' \in [Held -> Nat] /\ \A e \in Held : arrived'[e] = arrived[e] /\ arrived[e] <= arrived'[e]
    BY <1>1, <2>2
  <2> QED
    BY <2>1, <2>2, <2>3, <2>5, <2>6, QueueKeeps DEF load
<1>8. CASE Gone(s, d)
  <2>1. /\ Becomes(s, d, NotThere) /\ was # NotThere /\ arrived' = arrived
        /\ swapped' = IF \E n \in Sizes : n < was.left THEN swapped \cup {h} ELSE swapped
    BY <1>8 DEF Gone
  <2>2. queue'[s][d] = NotThere /\ claimed' = claimed
    BY <1>3, <2>1
  <2>3. h \notin swapped' => \A m \in Nat : Covers(h, m) => Covers(h, m)'
    <3> SUFFICES ASSUME h \notin swapped', NEW m \in Nat, Covers(h, m), NEW n \in Sizes
                 PROVE  claimed'[h] + m <= arrived'[h] + n
      BY <1>0, <2>2 DEF Covers
    <3>1. was.left <= n
      BY <1>1, <1>2, <2>1
    <3>2. claimed[h] + m <= arrived[h] + was.left
      BY <1>0, <2>1 DEF Covers
    <3> QED
      BY <1>0, <1>1, <1>2, <2>1, <2>2, <3>1, <3>2
  <2>4. arrived' \in [Held -> Nat] /\ \A e \in Held : arrived'[e] = arrived[e] /\ arrived[e] <= arrived'[e]
    BY <1>1, <2>1
  <2> QED
    BY <2>1, <2>3, <2>4, QueueKeeps
<1> QED
  BY <1>4, <1>5, <1>6, <1>7, <1>8

(* The loop turns, or is woken, and nothing is read or told.                 *)
LEMMA LoopTurns ==
  ASSUME DownloadsInv, UNCHANGED <<queue, seen, claimed, arrived, swapped>>, LoopFits',
         loop'.pc = "reads" => loop' = loop \/ DOMAIN loop'.answers = {}
  PROVE  SpeedsAreHonest'
<1>1. SpeedsAreHonest
  BY DEF DownloadsInv
<1>2. arrived' \in [Held -> Nat] /\ \A h \in Held : arrived[h] <= arrived'[h]
  BY <1>1 DEF SpeedsAreHonest
<1>3. \A h \in Held, n \in Nat : Covers(h, n) => Covers(h, n)'
  BY DEF Covers
<1> QED
  BY <1>1, <1>2, <1>3, HonestStays

LEMMA DoingsStay ==
  ASSUME DownloadsInv, doings' = doings \/ Doing
  PROVE  doings' \in 0..MaxDoings
BY DownloadsAssumption DEF DownloadsInv, DownloadsTypeOK, Doing

LEMMA AsksLiveKeeps ==
  ASSUME DownloadsInv, AsksLive
  PROVE  DownloadsInv'
<1> USE DEF DownloadsInv
<1>1. /\ downloads_watched' = moment /\ UNCHANGED <<moment, arrs, queue, downloads, seen, arrived, claimed, swapped>>
      /\ moment \in 0..MaxMoment /\ moment \in Nat
  BY DownloadsAssumption DEF AsksLive, DownloadsTypeOK
<1>2. doings' \in 0..MaxDoings
  BY DoingsStay DEF AsksLive
<1>3. CASE Watching(moment, downloads_watched) /\ loop' = loop /\ missed' = missed
  <2>1. LoopFits'
    BY <1>1, <1>3 DEF LoopFits
  <2>2. SpeedsAreHonest'
    BY <1>1, <1>3, <2>1, LoopTurns
  <2>3. DownloadsTypeOK' /\ QueueFits' /\ RowsFit' /\ SeenFits(seen, moment)'
    BY <1>1, <1>2, <1>3 DEF DownloadsTypeOK, QueueFits, RowsFit, SeenFits, Of
  <2>4. NobodyUnheard' /\ PageIsFresh'
    BY <1>1, <1>3 DEF NobodyUnheard, PageIsFresh
  <2> QED
    BY <2>1, <2>2, <2>3, <2>4
<1>4. CASE loop.pc = "sleeps" /\ loop' = [pc |-> "top"] /\ missed' = {}
  <2>1. LoopFits'
    BY <1>1, <1>4 DEF LoopFits
  <2>2. SpeedsAreHonest'
    BY <1>1, <1>4, <2>1, LoopTurns
  <2>3. DownloadsTypeOK' /\ QueueFits' /\ RowsFit' /\ SeenFits(seen, moment)'
    BY <1>1, <1>2, <1>4 DEF DownloadsTypeOK, QueueFits, RowsFit, SeenFits, Of
  <2>4. NobodyUnheard' /\ PageIsFresh'
    BY <1>1, <1>4 DEF NobodyUnheard, PageIsFresh
  <2> QED
    BY <2>1, <2>2, <2>3, <2>4
<1>5. CASE /\ loop.pc # "sleeps" /\ loop' = loop
           /\ missed' = IF loop.pc = "decided" THEN missed \cup {"page"} ELSE missed
  <2>1. LoopFits'
    BY <1>1, <1>5 DEF LoopFits
  <2>2. SpeedsAreHonest'
    BY <1>1, <1>5, <2>1, LoopTurns
  <2>3. DownloadsTypeOK' /\ QueueFits' /\ RowsFit' /\ SeenFits(seen, moment)'
    BY <1>1, <1>2, <1>5 DEF DownloadsTypeOK, QueueFits, RowsFit, SeenFits, Of
  <2>4. NobodyUnheard' /\ PageIsFresh'
    BY <1>1, <1>5 DEF NobodyUnheard, PageIsFresh
  <2> QED
    BY <2>1, <2>2, <2>3, <2>4
<1>6. Watching(moment, downloads_watched) <=> ~(moment - downloads_watched > WATCHING_FOR_S)
  BY <1>1, DownloadsAssumption DEF Watching, LoopFits
<1> QED
  BY <1>3, <1>4, <1>5, <1>6 DEF AsksLive, Wake

LEMMA SwitchedKeeps ==
  ASSUME DownloadsInv, NEW s \in Instances, Switched(s)
  PROVE  DownloadsInv'
<1> USE DEF DownloadsInv
<1>1. /\ UNCHANGED <<moment, queue, downloads, seen, downloads_watched, arrived, claimed, swapped>>
      /\ arrs' \subseteq Instances
  BY DEF Switched, DownloadsTypeOK
<1>2. doings' \in 0..MaxDoings
  BY DoingsStay DEF Switched
<1>3. \/ loop.pc = "sleeps" /\ loop' = [pc |-> "top"] /\ missed' = {}
      \/ loop.pc \notin {"sleeps", "reads", "decides", "decided"} /\ loop' = loop /\ missed' = missed
      \/ loop.pc \in {"reads", "decides", "decided"} /\ loop' = loop /\ missed' = missed \cup {"source"}
  BY DEF Switched, Wake
<1>4. LoopFits'
  BY <1>1, <1>3 DEF LoopFits
<1>5. SpeedsAreHonest'
  BY <1>1, <1>3, <1>4, LoopTurns
<1>6. DownloadsTypeOK'
  <2>1. missed' \subseteq {"page", "source"}
    BY <1>3 DEF DownloadsTypeOK
  <2>2. loop'.pc \in {"top", "asks", "reads", "decides", "decided", "sleeps"}
    BY <1>3 DEF DownloadsTypeOK
  <2> QED
    BY <1>1, <1>2, <2>1, <2>2 DEF DownloadsTypeOK
<1>7. QueueFits' /\ RowsFit' /\ SeenFits(seen, moment)'
  BY <1>1 DEF QueueFits, RowsFit, SeenFits, Of
<1>8. NobodyUnheard' /\ PageIsFresh'
  BY <1>1, <1>3 DEF NobodyUnheard, PageIsFresh
<1> QED
  BY <1>4, <1>5, <1>6, <1>7, <1>8

LEMMA LoopKeeps ==
  ASSUME DownloadsInv, LoopBegins \/ TickBegins \/ Decides \/ Sleeps \/ TimeIsUp
  PROVE  DownloadsInv'
<1> USE DEF DownloadsInv
<1>1. UNCHANGED <<moment, arrs, queue, downloads_watched, arrived, swapped, doings, claimed>> /\ moment \in Nat /\ moment \in 0..MaxMoment
  BY DownloadsAssumption DEF LoopBegins, TickBegins, Decides, Sleeps, TimeIsUp, External, DownloadsTypeOK
<1>2. LoopFits' /\ (loop'.pc = "reads" => DOMAIN loop'.answers = {})
  <2>1. CASE LoopBegins
    BY <1>1, <2>1 DEF LoopBegins, LoopFits
  <2>2. CASE TickBegins
    <3>1. CASE arrs = {}
      <4>1. loop' = [pc |-> "decides", anything |-> TRUE]
        BY <2>2, <3>1 DEF TickBegins
      <4> QED
        BY <1>1, <4>1 DEF LoopFits
    <3>2. CASE arrs # {}
      <4>1. loop' = [pc |-> "reads", since |-> moment, answers |-> <<>>, asked |-> arrs]
        BY <2>2, <3>2 DEF TickBegins
      <4>2. DOMAIN loop'.answers = {} /\ loop'.asked \subseteq Instances
        BY <4>1 DEF DownloadsTypeOK
      <4> QED
        BY <1>1, <4>1, <4>2 DEF LoopFits, Answered
    <3> QED
      BY <3>1, <3>2
  <2>3. CASE Decides
    <3>1. PICK w \in Nat : w = wait_s(Watching(moment, downloads_watched), loop.anything, downloads.rows # {})
      BY DownloadsAssumption DEF wait_s
    <3>2. loop' = [pc |-> "decided", wait |-> w]
      BY <2>3, <3>1 DEF Decides
    <3> QED
      BY <1>1, <3>2 DEF LoopFits
  <2>4. CASE Sleeps
    <3>1. loop.wait \in Nat /\ loop' = [pc |-> "sleeps", due |-> moment + loop.wait]
      BY <2>4 DEF Sleeps, LoopFits
    <3>2. PICK n \in Nat : n = moment + loop.wait
      BY <1>1, <3>1
    <3>3. loop' = [pc |-> "sleeps", due |-> n]
      BY <3>1, <3>2
    <3> QED
      BY <1>1, <3>3 DEF LoopFits
  <2>5. CASE TimeIsUp
    BY <1>1, <2>5 DEF TimeIsUp, LoopFits
  <2> QED
    BY <2>1, <2>2, <2>3, <2>4, <2>5
<1>3. \/ UNCHANGED <<downloads, seen>>
      \/ downloads' = [rows |-> {}, at |-> moment, asked |-> {}] /\ seen' = {} /\ arrs = {} /\ TickBegins
  BY DEF LoopBegins, TickBegins, Decides, Sleeps, TimeIsUp
<1>4. missed' \subseteq missed /\ loop'.pc \in {"top", "asks", "reads", "decides", "decided", "sleeps"}
  <2>1. missed' \subseteq missed
    BY DEF LoopBegins, TickBegins, Decides, Sleeps, TimeIsUp
  <2>2. loop'.pc \in {"top", "asks", "reads", "decides", "decided", "sleeps"}
    BY DEF LoopBegins, TickBegins, Decides, Sleeps, TimeIsUp
  <2> QED
    BY <2>1, <2>2
<1>5. DownloadsTypeOK' /\ RowsFit' /\ SeenFits(seen, moment)'
  <2>1. CASE UNCHANGED <<downloads, seen>>
    BY <1>1, <1>4, <2>1 DEF DownloadsTypeOK, RowsFit, SeenFits, Of
  <2>2. CASE downloads' = [rows |-> {}, at |-> moment, asked |-> {}] /\ seen' = {}
    BY <1>1, <1>4, <2>2 DEF DownloadsTypeOK, RowsFit, SeenFits, Of
  <2> QED
    BY <1>3, <2>1, <2>2
<1>6. QueueFits'
  BY <1>1 DEF QueueFits
<1>7. SpeedsAreHonest'
  <2>1. \A h \in Held, n \in Nat : Covers(h, n) => Covers(h, n)'
    BY <1>1 DEF Covers
  <2>2. seen' \subseteq seen /\ swapped \subseteq swapped'
    BY <1>1, <1>3
  <2>3. arrived' \in [Held -> Nat] /\ \A h \in Held : arrived[h] <= arrived'[h]
    BY <1>1 DEF SpeedsAreHonest
  <2> QED
    BY <1>1, <1>2, <2>1, <2>2, <2>3, HonestStays
<1>8. NobodyUnheard' /\ PageIsFresh'
  <2>1. CASE LoopBegins
    BY <1>1, <2>1 DEF LoopBegins, NobodyUnheard, PageIsFresh
  <2>2. CASE TickBegins
    BY <1>1, <2>2 DEF TickBegins, NobodyUnheard, PageIsFresh
  <2>3. CASE Decides
    <3>1. /\ loop'.pc = "decided"
          /\ loop'.wait = wait_s(Watching(moment, downloads_watched), loop.anything, downloads.rows # {})
          /\ UNCHANGED <<downloads, missed>> /\ loop.pc = "decides"
      BY <2>3 DEF Decides
    <3>2. missed = {} /\ arrs # {} /\ Watching(moment, downloads_watched) => loop'.wait = WATCHED_EVERY_S
      BY <3>1 DEF NobodyUnheard, wait_s
    <3>3. missed = {} /\ arrs # {} /\ Watching(moment, downloads_watched) => loop'.wait <= WATCHED_EVERY_S
      BY <3>2, DownloadsAssumption
    <3> QED
      BY <1>1, <3>1, <3>3 DEF NobodyUnheard, PageIsFresh, Watching
  <2>4. CASE Sleeps
    <3>1. /\ loop'.pc = "sleeps" /\ loop'.due = moment + loop.wait
          /\ UNCHANGED <<downloads, missed>> /\ loop.pc = "decided" /\ loop.wait \in Nat
      BY <2>4 DEF Sleeps, LoopFits
    <3>2. loop'.due - moment = loop.wait
      BY <1>1, <3>1
    <3> QED
      BY <1>1, <3>1, <3>2 DEF NobodyUnheard, PageIsFresh, Watching
  <2>5. CASE TimeIsUp
    BY <1>1, <2>5 DEF TimeIsUp, NobodyUnheard, PageIsFresh
  <2> QED
    BY <2>1, <2>2, <2>3, <2>4, <2>5
<1> QED
  BY <1>2, <1>5, <1>6, <1>7, <1>8

LEMMA TimeKeeps ==
  ASSUME DownloadsInv, TimePasses
  PROVE  DownloadsInv'
<1> USE DEF DownloadsInv
<1>1. /\ UNCHANGED <<arrs, queue, downloads, seen, loop, downloads_watched, arrived, claimed, swapped, missed, doings>>
      /\ moment' = moment + 1 /\ moment < MaxMoment /\ moment \in Nat /\ moment' \in 0..MaxMoment
      /\ loop.pc \in {"sleeps", "reads"}
  BY DownloadsAssumption DEF TimePasses, DownloadsTypeOK
<1>2. LoopFits'
  BY <1>1 DEF LoopFits
<1>3. SpeedsAreHonest'
  BY <1>1, <1>2, LoopTurns
<1>4. DownloadsTypeOK' /\ QueueFits' /\ RowsFit'
  BY <1>1 DEF DownloadsTypeOK, QueueFits, RowsFit
<1>5. SeenFits(seen, moment)'
  <2>1. ASSUME NEW b \in seen
        PROVE  b.at \in 0..moment'
    BY <1>1 DEF SeenFits
  <2> QED
    BY <1>1, <2>1 DEF SeenFits, Of
<1>6. Watching(moment', downloads_watched) => Watching(moment, downloads_watched)
  BY <1>1, DownloadsAssumption DEF Watching, LoopFits
<1>7. NobodyUnheard'
  BY <1>1, <1>6 DEF NobodyUnheard
<1>8. PageIsFresh'
  <2> SUFFICES ASSUME loop.pc = "sleeps", Watching(moment', downloads_watched), missed = {}, arrs # {}
               PROVE  loop.due - moment' <= WATCHED_EVERY_S
    BY <1>1 DEF PageIsFresh
  <2>1. loop.due - moment <= WATCHED_EVERY_S /\ loop.due \in Nat
    BY <1>6 DEF PageIsFresh, LoopFits
  <2> QED
    BY <1>1, <2>1, DownloadsAssumption
<1> QED
  BY <1>2, <1>3, <1>4, <1>5, <1>7, <1>8

LEMMA ReadQueueKeeps ==
  ASSUME DownloadsInv, NEW s \in Instances, read_queue(s)
  PROVE  DownloadsInv'
<1> USE DEF DownloadsInv
<1>1. UNCHANGED <<downloads, seen, claimed, missed, moment, arrs, queue, downloads_watched, arrived, swapped, doings>>
  BY DEF read_queue, External
<1>2. PICK answer \in {queue[s], NoAnswer} :
        loop' = [loop EXCEPT !.answers = [t \in DOMAIN loop.answers \cup {s} |-> IF t = s THEN answer ELSE loop.answers[t]]]
  BY DEF read_queue
<1>3. /\ loop.pc = "reads" /\ s \in loop.asked /\ DOMAIN loop = {"pc", "since", "answers", "asked"}
      /\ loop.asked \subseteq Instances /\ Answered(loop.answers) /\ DOMAIN loop.answers \subseteq loop.asked
  BY DEF read_queue, LoopFits
<1>4. /\ DOMAIN loop' = DOMAIN loop /\ loop'.pc = "reads" /\ loop'.asked = loop.asked
      /\ DOMAIN loop'.answers = DOMAIN loop.answers \cup {s} /\ loop'.answers[s] = answer
      /\ \A t \in DOMAIN loop.answers : t # s => loop'.answers[t] = loop.answers[t]
  BY <1>2, <1>3
<1>5. LoopFits'
  <2>1. answer = NoAnswer \/ answer \in Queues(s)
    BY DEF QueueFits
  <2>2. Answered(loop.answers)'
    BY <1>3, <1>4, <2>1 DEF Answered
  <2> QED
    BY <1>1, <1>3, <1>4, <2>2 DEF LoopFits
<1>6. DownloadsTypeOK' /\ QueueFits' /\ RowsFit' /\ SeenFits(seen, moment)'
  BY <1>1, <1>4 DEF DownloadsTypeOK, QueueFits, RowsFit, SeenFits, Of
<1>7. NobodyUnheard' /\ PageIsFresh'
  BY <1>1, <1>3, <1>4 DEF NobodyUnheard, PageIsFresh
<1>8. ASSUME NEW h \in Held \ swapped
      PROVE  Honest(h)'
  <2>1. Honest(h) /\ claimed[h] \in Nat /\ arrived[h] \in Nat
    BY DEF SpeedsAreHonest
  <2>2. \A n \in Nat : (WasLeft(h, n)' <=> WasLeft(h, n)) /\ (Covers(h, n)' <=> Covers(h, n))
    BY <1>1 DEF WasLeft, Of, Covers
  <2>3. ASSUME NEW n \in Nat, IsTold(h, n)'
        PROVE  \/ IsTold(h, n)
               \/ queue[h[1]][h[2]] # NotThere /\ queue[h[1]][h[2]].left = n
    <3>1. CASE h[1] = s
      BY <1>4, <2>3, <3>1 DEF IsTold
    <3>2. CASE h[1] # s
      BY <1>3, <1>4, <2>3, <3>2 DEF IsTold
    <3> QED
      BY <3>1, <3>2
  <2>4. ASSUME NEW n \in Nat, WasLeft(h, n)' \/ IsTold(h, n)'
        PROVE  Covers(h, n)'
    <3>1. CASE WasLeft(h, n) \/ IsTold(h, n)
      BY <2>1, <2>2, <3>1 DEF Honest
    <3>2. CASE queue[h[1]][h[2]] # NotThere /\ queue[h[1]][h[2]].left = n
      <4>1. claimed[h] + n <= arrived[h] + n
        BY <2>1 DEF Honest
      <4>2. Covers(h, n)
        BY <3>2, <4>1 DEF Covers
      <4> QED
        BY <2>2, <4>2
    <3> QED
      BY <2>2, <2>3, <2>4, <3>1, <3>2
  <2>5. ASSUME NEW n \in Nat, NEW m \in Nat, IsTold(h, n)', WasLeft(h, m)'
        PROVE  claimed[h] + m <= arrived[h] + n
    <3>1. CASE IsTold(h, n)
      BY <2>1, <2>2, <2>5, <3>1 DEF Honest
    <3>2. CASE queue[h[1]][h[2]] # NotThere /\ queue[h[1]][h[2]].left = n
      <4>1. Covers(h, m)
        BY <2>1, <2>2, <2>5 DEF Honest
      <4> QED
        BY <3>2, <4>1 DEF Covers
    <3> QED
      BY <2>3, <2>5, <3>1, <3>2
  <2> QED
    BY <1>1, <2>1, <2>4, <2>5 DEF Honest
<1>9. SpeedsAreHonest'
  BY <1>1, <1>8 DEF SpeedsAreHonest
<1> QED
  BY <1>5, <1>6, <1>7, <1>9

(* What is said of a download when a pass over the services has ended.      *)
LEMMA SaidIsTrue ==
  ASSUME DownloadsInv, loop.pc = "reads", NEW h \in Held, NEW rows, rows = speeds(fold(loop.answers), seen, moment),
         NEW came, came = [r \in rows |-> IF r.down_bps > 0
                                          THEN r.down_bps * (moment - (CHOOSE b \in seen : b.key = r.key).at) ELSE 0]
  PROVE  LET said == SumOf(came, {r \in rows : r.of = h}) IN
         \/ said = 0
         \/ \E r \in rows, b \in seen : r.of = h /\ Of(b) = h /\ said \in Nat /\ said <= b.left - r.left
<1> USE DEF DownloadsInv
<1>1. Answered(loop.answers) /\ moment \in Nat /\ SeenFits(seen, moment)
  BY DownloadsAssumption DEF LoopFits, DownloadsTypeOK
<1>2. CASE \A r \in rows : r.of # h
  <2>1. {r \in rows : r.of = h} = {}
    BY <1>2
  <2> QED
    BY <2>1, SumOfNone
<1>3. ASSUME NEW r \in rows, r.of = h
      PROVE  LET said == SumOf(came, {q \in rows : q.of = h}) IN
             \/ said = 0
             \/ \E b \in seen : Of(b) = h /\ said \in Nat /\ said <= b.left - r.left
  <2>1. {q \in rows : q.of = h} = {r}
    BY <1>1, <1>3, SpeedsOnce
  <2>2. RowFits(r) /\ SpeedIsTrue(r, seen, moment)
    BY <1>1, SpeedsAre
  <2>3. CASE ~(r.down_bps > 0)
    <3>1. came[r] = 0
      BY <2>3
    <3>2. SumOf(came, {r}) = 0
      BY <3>1, SumOfOne
    <3> QED
      BY <2>1, <3>2
  <2>4. CASE r.down_bps > 0
    <3>1. PICK b \in seen : b.key = r.key /\ b.left > r.left /\ r.down_bps * (moment - b.at) <= b.left - r.left
      BY <2>2, <2>4 DEF SpeedIsTrue
    <3>2. (CHOOSE c \in seen : c.key = r.key) = b
      BY <1>1, <3>1 DEF SeenFits
    <3>3. came[r] = r.down_bps * (moment - b.at)
      BY <2>4, <3>2
    <3>4. b.at \in 0..moment /\ r.down_bps \in Nat
      BY <1>1, <2>2, SizesHaveAMost DEF SeenFits, RowFits
    <3>5. moment - b.at \in Nat
      BY <1>1, <3>4
    <3>6. came[r] \in Nat
      BY <3>3, <3>4, <3>5
    <3>7. SumOf(came, {r}) = came[r]
      BY <3>6, SumOfOne
    <3>8. Of(b) = h
      <4>1. Own(h)[1] = h[1] /\ Own(h)[2] = h[2] /\ h = <<h[1], h[2]>>
        BY OfHeld, OneKey
      <4> QED
        BY <1>3, <2>2, <3>1, <4>1 DEF RowFits, Of
    <3> QED
      BY <2>1, <3>1, <3>3, <3>6, <3>7, <3>8
  <2> QED
    BY <2>3, <2>4
<1> QED
  BY <1>2, <1>3

LEMMA TickEndsKeeps ==
  ASSUME DownloadsInv, TickEnds
  PROVE  DownloadsInv'
<1> USE DEF DownloadsInv
<1>1. /\ UNCHANGED <<missed, moment, arrs, queue, downloads_watched, arrived, swapped, doings>>
      /\ loop.pc = "reads" /\ DOMAIN loop.answers = loop.asked /\ loop' = [pc |-> "decides", anything |-> TRUE]
      /\ moment \in Nat /\ Answered(loop.answers) /\ loop.asked \subseteq Instances
  BY DownloadsAssumption DEF TickEnds, External, DownloadsTypeOK, LoopFits
<1>2. PICK rows : rows = speeds(fold(loop.answers), seen, moment)
  OBVIOUS
<1>3. PICK came : came = [r \in rows |-> IF r.down_bps > 0
                                         THEN r.down_bps * (moment - (CHOOSE b \in seen : b.key = r.key).at) ELSE 0]
  OBVIOUS
<1>4. /\ downloads' = [rows |-> rows, at |-> moment, asked |-> loop.asked]
      /\ seen' = {[key |-> r.key, left |-> r.left, at |-> moment] : r \in rows}
      /\ claimed' = [h \in Held |-> claimed[h] + SumOf(came, {r \in rows : r.of = h})]
  BY <1>2, <1>3 DEF TickEnds
<1>5. /\ \A r \in rows : RowFits(r) /\ FromAnswer(r, loop.answers)
      /\ \A r, q \in rows : r.of = q.of => r = q
  BY <1>1, <1>2, SpeedsAre, SpeedsOnce
<1>6. RowsFit'
  BY <1>1, <1>4, <1>5 DEF RowsFit, FromAnswer
<1>7. \A r \in rows : Of([key |-> r.key, left |-> r.left, at |-> moment]) = r.of
  <2> SUFFICES ASSUME NEW r \in rows PROVE <<r.key[1], r.key[2]>> = r.of
    BY DEF Of
  <2>1. r.of \in Held /\ r.key = Own(r.of)
    BY <1>5 DEF RowFits
  <2> QED
    BY <2>1, OfHeld, OneKey
<1>8. SeenFits(seen, moment)'
  <2>1. ASSUME NEW b \in seen'
        PROVE  Of(b) \in Held /\ b.key = Own(Of(b)) /\ b.left \in 0..Largest /\ b.at \in 0..moment
    <3>1. PICK r \in rows : b = [key |-> r.key, left |-> r.left, at |-> moment]
      BY <1>4
    <3> QED
      BY <1>1, <1>5, <1>7, <3>1 DEF RowFits
  <2>2. ASSUME NEW b \in seen', NEW c \in seen', b.key = c.key
        PROVE  b = c
    <3>1. PICK r \in rows : b = [key |-> r.key, left |-> r.left, at |-> moment]
      BY <1>4
    <3>2. PICK q \in rows : c = [key |-> q.key, left |-> q.left, at |-> moment]
      BY <1>4
    <3>3. Of(b) = r.of /\ Of(c) = q.of
      BY <1>7, <3>1, <3>2
    <3>4. Of(b) = Of(c)
      BY <2>2 DEF Of
    <3> QED
      BY <1>5, <3>1, <3>2, <3>3, <3>4
  <2> QED
    BY <1>1, <2>1, <2>2 DEF SeenFits, Of
<1>9. LoopFits'
  BY <1>1 DEF LoopFits
<1>10. DownloadsTypeOK'
  <2>1. \A r \in rows : /\ r.left \in 0..Largest /\ r.down_bps \in 0..Largest
                        /\ r.parts \in 1..Cardinality(PartsOf[r.of[2]])
    BY <1>5 DEF RowFits
  <2>2. downloads'.rows = rows /\ downloads'.at = moment /\ downloads'.asked = loop.asked
    BY <1>4
  <2> QED
    BY <1>1, <2>1, <2>2 DEF DownloadsTypeOK, Largest
<1>11. QueueFits'
  BY <1>1 DEF QueueFits
<1>12. NobodyUnheard' /\ PageIsFresh'
  BY <1>1, <1>4 DEF NobodyUnheard, PageIsFresh
<1>13. \A h \in Held : \/ SumOf(came, {r \in rows : r.of = h}) = 0
                       \/ \E r \in rows, b \in seen : LET said == SumOf(came, {q \in rows : q.of = h}) IN
                            r.of = h /\ Of(b) = h /\ said \in Nat /\ said <= b.left - r.left
  BY <1>1, <1>2, <1>3, SaidIsTrue
<1>14. ASSUME NEW h \in Held
       PROVE  claimed'[h] \in Nat /\ (h \notin swapped => Honest(h)')
  <2>1. PICK said : said = SumOf(came, {r \in rows : r.of = h})
    OBVIOUS
  <2>2. claimed'[h] = claimed[h] + said /\ claimed[h] \in Nat /\ arrived[h] \in Nat
    BY <1>4, <2>1 DEF SpeedsAreHonest
  <2>3. said \in Nat
    BY <1>13, <2>1
  <2>4. claimed'[h] \in Nat
    BY <2>2, <2>3
  <2>5. ASSUME h \notin swapped
        PROVE  Honest(h)'
    <3>1. Honest(h)
      BY <2>5 DEF SpeedsAreHonest
    <3>2. ASSUME NEW r \in rows, r.of = h
          PROVE  r.left \in Nat /\ IsTold(h, r.left)
      BY <1>1, <1>5, <3>2, SizesHaveAMost DEF RowFits, FromAnswer, IsTold
    <3>3. \/ said = 0
          \/ \E n, m \in Nat : IsTold(h, n) /\ WasLeft(h, m) /\ said <= m - n
      <4>1. CASE said # 0
        <5>1. PICK r \in rows, b \in seen : r.of = h /\ Of(b) = h /\ said <= b.left - r.left
          BY <1>13, <2>1, <4>1
        <5>2. b.left \in Nat /\ WasLeft(h, b.left)
          BY <5>1, SizesHaveAMost DEF SeenFits, WasLeft
        <5> QED
          BY <3>2, <5>1, <5>2
      <4> QED
        BY <4>1
    <3>4. claimed'[h] <= arrived'[h]
      <4>1. CASE said = 0
        BY <1>1, <2>2, <3>1, <4>1 DEF Honest
      <4>2. ASSUME NEW n \in Nat, NEW m \in Nat, IsTold(h, n), WasLeft(h, m), said <= m - n
            PROVE  claimed'[h] <= arrived'[h]
        <5>1. claimed[h] + m <= arrived[h] + n
          BY <3>1, <4>2 DEF Honest
        <5> QED
          BY <1>1, <2>2, <2>3, <4>2, <5>1
      <4> QED
        BY <3>3, <4>1, <4>2
    <3>5. ASSUME NEW n \in Nat, WasLeft(h, n)' \/ IsTold(h, n)'
          PROVE  Covers(h, n)'
      <4>1. IsTold(h, n)
        <5>1. ~IsTold(h, n)'
          BY <1>1 DEF IsTold
        <5>2. PICK r \in rows : Of([key |-> r.key, left |-> r.left, at |-> moment]) = h /\ r.left = n
          BY <1>4, <3>5, <5>1 DEF WasLeft, Of
        <5> QED
          BY <1>7, <3>2, <5>2
      <4>2. Covers(h, n)
        BY <3>1, <4>1 DEF Honest
      <4>3. CASE said = 0
        BY <1>1, <2>2, <4>2, <4>3 DEF Covers
      <4>4. ASSUME NEW k \in Nat, NEW m \in Nat, IsTold(h, k), WasLeft(h, m), said <= m - k
            PROVE  Covers(h, n)'
        <5>1. k = n
          BY <4>1, <4>4 DEF IsTold
        <5>2. Covers(h, m)
          BY <3>1, <4>4 DEF Honest
        <5>3. claimed'[h] + n <= claimed[h] + m
          BY <2>2, <2>3, <4>4, <5>1
        <5>4. CASE queue[h[1]][h[2]] = NotThere
          <6> SUFFICES ASSUME NEW q \in Sizes PROVE claimed'[h] + n <= arrived'[h] + q
            BY <1>1, <5>4 DEF Covers
          <6>1. claimed[h] + m <= arrived[h] + q /\ q \in Nat
            BY <5>2, <5>4, SizesHaveAMost DEF Covers
          <6> QED
            BY <1>1, <2>2, <2>4, <5>3, <6>1
        <5>5. CASE queue[h[1]][h[2]] # NotThere
          <6>1. claimed[h] + m <= arrived[h] + queue[h[1]][h[2]].left /\ queue[h[1]][h[2]].left \in Nat
            BY <5>2, <5>5, QueueHas DEF Covers
          <6>2. claimed'[h] + n <= arrived[h] + queue[h[1]][h[2]].left
            BY <2>2, <2>4, <5>3, <6>1
          <6> QED
            BY <1>1, <5>5, <6>2 DEF Covers
        <5> QED
          BY <5>4, <5>5
      <4> QED
        BY <3>3, <4>3, <4>4
    <3>6. \A n \in Nat : ~IsTold(h, n)'
      BY <1>1 DEF IsTold
    <3> QED
      BY <3>4, <3>5, <3>6 DEF Honest
  <2> QED
    BY <2>4, <2>5
<1>15. SpeedsAreHonest'
  <2>1. arrived' = arrived /\ arrived \in [Held -> Nat] /\ swapped' = swapped
    BY <1>1 DEF SpeedsAreHonest
  <2>2. claimed' \in [Held -> Nat]
    BY <1>4, <1>14
  <2> QED
    BY <1>14, <2>1, <2>2 DEF SpeedsAreHonest
<1> QED
  BY <1>6, <1>8, <1>9, <1>10, <1>11, <1>12, <1>15

LEMMA DownloadsStep == DownloadsInv /\ [DownloadsNext]_downloadsVars => DownloadsInv'
<1> SUFFICES ASSUME DownloadsInv, [DownloadsNext]_downloadsVars PROVE DownloadsInv'
  OBVIOUS
<1>1. ASSUME NEW s \in Instances, NEW d \in Awaits[s],
             Grabbed(s, d) \/ Comes(s, d) \/ Replaced(s, d) \/ PartTurns(s, d) \/ Gone(s, d)
      PROVE  DownloadsInv'
  BY <1>1, QueueSteps
<1>2. ASSUME NEW s \in Instances, Switched(s) \/ read_queue(s)
      PROVE  DownloadsInv'
  BY <1>2, SwitchedKeeps, ReadQueueKeeps
<1>3. CASE AsksLive
  BY <1>3, AsksLiveKeeps
<1>4. CASE LoopBegins \/ TickBegins \/ Decides \/ Sleeps \/ TimeIsUp
  BY <1>4, LoopKeeps
<1>5. CASE TickEnds \/ TimePasses
  BY <1>5, TickEndsKeeps, TimeKeeps
<1>6. CASE UNCHANGED downloadsVars
  <2>1. DownloadsTypeOK' /\ QueueFits' /\ RowsFit' /\ SeenFits(seen, moment)'
    BY <1>6 DEF downloadsVars, DownloadsInv, DownloadsTypeOK, QueueFits, RowsFit, SeenFits, Of
  <2>2. LoopFits' /\ NobodyUnheard' /\ PageIsFresh'
    BY <1>6 DEF downloadsVars, DownloadsInv, LoopFits, NobodyUnheard, PageIsFresh
  <2>3. SpeedsAreHonest'
    BY <1>6, <2>2, LoopTurns DEF downloadsVars
  <2> QED
    BY <2>1, <2>2, <2>3 DEF DownloadsInv
<1> QED
  BY <1>1, <1>2, <1>3, <1>4, <1>5, <1>6 DEF DownloadsNext

(* Two sets of rows that share none are as many as both together.            *)
LEMMA AsManyAsBoth ==
  ASSUME NEW S, NEW T, IsFiniteSet(S), IsFiniteSet(T), S \cap T = {}
  PROVE  /\ IsFiniteSet(S \cup T) /\ Cardinality(S \cup T) = Cardinality(S) + Cardinality(T)
         /\ Cardinality(S) \in Nat /\ Cardinality(T) \in Nat
<1>1. Cardinality(S) \in Nat /\ Cardinality(T) \in Nat /\ Cardinality({}) = 0
  BY FS_CardinalityType, FS_EmptySet
<1>2. IsFiniteSet(S \cup T) /\ Cardinality(S \cup T) = Cardinality(S) + Cardinality(T) - Cardinality(S \cap T)
  BY FS_Union
<1>3. Cardinality(S \cap T) = 0
  BY <1>1
<1> QED
  BY <1>1, <1>2, <1>3

LEMMA HeldIsFinite == IsFiniteSet(Held)
<1> DEFINE parts == {{s} \X Awaits[s] : s \in Instances}
<1>1. IsFiniteSet(parts)
  <2> DEFINE f == [s \in Instances |-> {s} \X Awaits[s]]
  <2>1. f \in Surjection(Instances, parts)
    BY DEF Surjection
  <2> QED
    BY <2>1, FS_Surjection, DownloadsAssumption
<1>2. \A T \in parts : IsFiniteSet(T)
  <2> SUFFICES ASSUME NEW s \in Instances PROVE IsFiniteSet({s} \X Awaits[s])
    OBVIOUS
  <2>1. IsFiniteSet({s}) /\ IsFiniteSet(Awaits[s])
    BY FS_Singleton, DownloadsAssumption
  <2> QED
    BY <2>1, FS_Product
<1> HIDE DEF parts
<1>3. IsFiniteSet(UNION parts)
  BY <1>1, <1>2, FS_UNION
<1> QED
  BY <1>3 DEF Held, parts

(* Every row is in one figure.                                               *)
LEMMA FiguresAddUp ==
  ASSUME NEW rows, IsFiniteSet(rows), \A r \in rows : r.state \in Range(STATES)
  PROVE  LET t == Totals(rows) IN t.downloading + t.queued + t.importing + t.failed = Cardinality(rows)
<1> DEFINE In(states) == {r \in rows : r.state \in states}
           A == In({"downloading", "stalled"})
           B == In({"queued"})
           C == In({"importing"})
           D == In({"failed"})
<1>1. Totals(rows) = [downloading |-> Cardinality(A), queued |-> Cardinality(B),
                      importing |-> Cardinality(C), failed |-> Cardinality(D)]
  BY DEF Totals
<1>2. IsFiniteSet(A) /\ IsFiniteSet(B) /\ IsFiniteSet(C) /\ IsFiniteSet(D)
  BY FS_Subset
<1>3. /\ A \cap B = {} /\ (A \cup B) \cap C = {} /\ (A \cup B \cup C) \cap D = {}
      /\ A \cup B \cup C \cup D = rows
  <2>1. A \cap B = {} /\ (A \cup B) \cap C = {} /\ (A \cup B \cup C) \cap D = {}
    OBVIOUS
  <2>2. \A r \in rows : r.state \in {"downloading", "stalled", "queued", "importing", "failed"}
    BY DEF STATES, Range
  <2> QED
    BY <2>1, <2>2
<1> HIDE DEF A, B, C, D
<1>4. IsFiniteSet(A \cup B) /\ Cardinality(A \cup B) = Cardinality(A) + Cardinality(B) /\ Cardinality(A) \in Nat /\ Cardinality(B) \in Nat
  BY <1>2, <1>3, AsManyAsBoth
<1>5. IsFiniteSet(A \cup B \cup C) /\ Cardinality(A \cup B \cup C) = Cardinality(A \cup B) + Cardinality(C) /\ Cardinality(C) \in Nat
  BY <1>2, <1>3, <1>4, AsManyAsBoth
<1>6. Cardinality(A \cup B \cup C \cup D) = Cardinality(A \cup B \cup C) + Cardinality(D) /\ Cardinality(D) \in Nat
  BY <1>2, <1>3, <1>5, AsManyAsBoth
<1>7. Cardinality(A) + Cardinality(B) + Cardinality(C) + Cardinality(D) = Cardinality(rows)
  BY <1>3, <1>4, <1>5, <1>6
<1> QED
  BY <1>1, <1>7

LEMMA DownloadsInvMeans == DownloadsInv => QueueIsTrue
<1> SUFFICES ASSUME DownloadsInv PROVE QueueIsTrue
  OBVIOUS
<1> USE DEF DownloadsInv
<1>1. PageIsFresh
  OBVIOUS
<1>2. SourcesAreAsked
  BY DEF NobodyUnheard, RowsFit, SourcesAreAsked
<1>3. NothingIsInvented
  BY DEF SpeedsAreHonest, Honest, NothingIsInvented
<1>4. EveryPartOnce
  <2> DEFINE rows == downloads.rows
  <2>1. \A r, q \in rows : r.of = q.of => r = q
    BY DEF RowsFit
  <2>2. IsFiniteSet(rows)
    <3> DEFINE f == [r \in rows |-> r.of]
    <3>1. f \in Injection(rows, Held)
      <4>1. f \in [rows -> Held]
        BY DEF RowsFit, RowFits
      <4>2. \A r, q \in rows : f[r] = f[q] => r = q
        BY <2>1
      <4> QED
        BY <4>1, <4>2 DEF Injection, IsInjective
    <3> QED
      BY <3>1, HeldIsFinite, FS_Injection
  <2>3. \A r \in rows : r.state \in Range(STATES)
    BY DEF RowsFit, RowFits
  <2>4. LET t == Totals(rows) IN t.downloading + t.queued + t.importing + t.failed = Cardinality(rows)
    BY <2>2, <2>3, FiguresAddUp
  <2> QED
    BY <2>1, <2>4 DEF EveryPartOnce
<1> QED
  BY <1>1, <1>2, <1>3, <1>4 DEF QueueIsTrue

(* What is shown of the queues of Sonarr and Radarr is fresh while somebody  *)
(* looks, is of the services that are connected, counts every part once and  *)
(* never says that more came than did, for any services, downloads, sizes    *)
(* and waits.                                                                *)
THEOREM TheQueueIsTrue == DownloadsSpec => []QueueIsTrue
BY DownloadsStart, DownloadsStep, DownloadsInvMeans, PTL DEF DownloadsSpec

(***************************************************************************)
(* The history                                                             *)
(***************************************************************************)

(* What the table of plays may be. *)
PlayTables == [Slots -> PlayRow \cup {NoPlayRow}]

(* Two rows of one play, as far as a restore can tell. *)
SamePlay(r, q) ==
  /\ r.source_id = q.source_id
  /\ r.source_id = NoSource => r.user = q.user /\ r.item = q.item /\ r.start = q.start

LEMMA KeptAre ==
  ASSUME NEW t \in PlayTables
  PROVE  /\ Kept(t) \subseteq Slots
         /\ \A i \in Slots : i \in Kept(t) <=> t[i] \in PlayRow
BY RowsAssumption DEF Kept, PlayTables

(* The next id is above all there are. *)
LEMMA SlotAfter ==
  ASSUME NEW t
  PROVE  /\ NextSlot(t) \in 1 .. MaxRows + 1
         /\ \A i \in Kept(t) : i < NextSlot(t)
<1> DEFINE OneAfter(n) == (\A i \in Kept(t) : i < n) /\ (n = 1 \/ n - 1 \in Kept(t))
<1>0. MaxRows \in Nat
  BY HistoryAssumption
<1>1. \E n \in 1 .. MaxRows + 1 : OneAfter(n)
  <2>1. CASE Kept(t) = {}
    <3>1. OneAfter(1) /\ 1 \in 1 .. MaxRows + 1
      BY <1>0, <2>1
    <3> QED
      BY <3>1
  <2>2. CASE Kept(t) # {}
    <3>1. Kept(t) \in SUBSET Nat /\ \A i \in Kept(t) : i >= 1 /\ i <= MaxRows
      BY <1>0 DEF Kept, Slots
    <3>2. Max(Kept(t)) \in Kept(t) /\ \A i \in Kept(t) : Max(Kept(t)) >= i
      BY <1>0, <2>2, <3>1, GreatestOf
    <3> DEFINE m == Max(Kept(t))
    <3>3. m \in Kept(t) /\ \A i \in Kept(t) : m >= i
      BY <3>2
    <3> HIDE DEF m
    <3>4. m \in Nat /\ m + 1 \in 1 .. MaxRows + 1 /\ (m + 1) - 1 = m
      BY <1>0, <3>1, <3>3
    <3>5. \A i \in Kept(t) : i < m + 1
      BY <3>1, <3>3, <3>4
    <3> QED
      BY <3>3, <3>4, <3>5
  <2> QED
    BY <2>1, <2>2
<1>2. NextSlot(t) = CHOOSE n \in 1 .. MaxRows + 1 : OneAfter(n)
  BY DEF NextSlot
<1>3. NextSlot(t) \in 1 .. MaxRows + 1 /\ OneAfter(NextSlot(t))
  <2> HIDE DEF OneAfter
  <2> QED
    BY <1>1, <1>2
<1> QED
  BY <1>3

(* A row that fits takes the next id, and nothing else changes. *)
LEMMA AddedIs ==
  ASSUME NEW t \in PlayTables, NEW r \in PlayRow
  PROVE  /\ Added(t, r) \in PlayTables
         /\ Fits(t, 1) =>
              /\ NextSlot(t) \in Slots \ Kept(t)
              /\ Kept(Added(t, r)) = Kept(t) \cup {NextSlot(t)}
              /\ Added(t, r)[NextSlot(t)] = r
              /\ \A i \in Kept(t) : Added(t, r)[i] = t[i]
              /\ NextSlot(Added(t, r)) = NextSlot(t) + 1
<1>0. MaxRows \in Nat
  BY HistoryAssumption
<1> DEFINE s  == NextSlot(t)
           t2 == Added(t, r)
<1>1. s \in 1 .. MaxRows + 1 /\ \A i \in Kept(t) : i < s
  BY SlotAfter
<1>2. t2 = [t EXCEPT ![s] = r]
  BY DEF Added
<1> HIDE DEF s, t2
<1>3. t2 \in PlayTables
  BY <1>2 DEF PlayTables
<1>4. ASSUME Fits(t, 1)
      PROVE  /\ s \in Slots \ Kept(t) /\ Kept(t2) = Kept(t) \cup {s}
             /\ t2[s] = r /\ \A i \in Kept(t) : t2[i] = t[i]
  <2>1. s + 1 <= MaxRows + 1
    BY <1>4 DEF Fits, s
  <2>2. s \in Slots /\ s \notin Kept(t)
    <3>1. Kept(t) \subseteq 1 .. MaxRows
      BY DEF Kept, Slots
    <3> QED
      BY <1>0, <1>1, <2>1, <3>1 DEF Slots
  <2>3. \A i \in Slots : t2[i] = IF i = s THEN r ELSE t[i]
    BY <1>2 DEF PlayTables
  <2>4. r # NoPlayRow
    BY RowsAssumption
  <2> QED
    BY <2>2, <2>3, <2>4 DEF Kept
<1>5. ASSUME Fits(t, 1)
      PROVE  NextSlot(t2) = s + 1
  <2> DEFINE p == NextSlot(t2)
  <2>1. p \in 1 .. MaxRows + 1 /\ (\A i \in Kept(t2) : i < p) /\ (p = 1 \/ p - 1 \in Kept(t2))
    <3>1. Kept(t2) \in SUBSET Nat
      BY <1>0 DEF Kept, Slots
    <3>2. s < s + 1 /\ s + 1 \in 1 .. MaxRows + 1 /\ (s + 1) - 1 = s
      BY <1>0, <1>1, <1>5 DEF Fits, s
    <3>3. \A i \in Kept(t2) : i < s + 1
      BY <1>0, <1>1, <1>4, <1>5, <3>1
    <3>4. s \in Kept(t2)
      BY <1>4, <1>5
    <3>5. \E n \in 1 .. (MaxRows + 1) : (\A i \in Kept(t2) : i < n) /\ (n = 1 \/ n - 1 \in Kept(t2))
      BY <3>2, <3>3, <3>4
    <3> QED
      BY <3>5 DEF NextSlot
  <2> HIDE DEF p
  <2>2. s < p /\ (p - 1 <= s)
    <3>1. s \in Kept(t2)
      BY <1>4, <1>5
    <3>2. \A i \in Kept(t2) : i \in Nat /\ i <= s
      BY <1>0, <1>1, <1>4, <1>5 DEF Kept, Slots
    <3> QED
      BY <1>0, <1>1, <2>1, <3>1, <3>2
  <2>3. p = s + 1
    BY <1>0, <1>1, <2>1, <2>2
  <2> QED
    BY <2>3 DEF p
<1> QED
  BY <1>3, <1>4, <1>5 DEF s, t2

(* What is written of a row that is merged, unless the play is there. *)
MergedOne(t, r) == IF Present(t, r) THEN t ELSE Added(t, AsRestored(r))

(* f is how t becomes what it is when all rows are merged. *)
Merges(f, t, rows) ==
  f[0] = t /\ \A n \in 1 .. Len(rows) : f[n] = MergedOne(f[n - 1], rows[n])

LEMMA RestoredIs ==
  ASSUME NEW r \in PlayRow
  PROVE  /\ AsRestored(r) \in PlayRow /\ ~AsRestored(r).active
         /\ AsRestored(r).user = r.user /\ AsRestored(r).item = r.item
         /\ AsRestored(r).start = r.start /\ AsRestored(r).source_id = r.source_id
         /\ ~r.active => AsRestored(r) = r
BY DEF AsRestored, PlayRow

(* A table is led to another by the rows one after the other. *)
LEMMA MergesExist ==
  ASSUME NEW t \in PlayTables, NEW rows \in Seq(PlayRow)
  PROVE  \E f \in [0 .. Len(rows) -> PlayTables] : Merges(f, t, rows)
<1> DEFINE L == Len(rows)
           D == [n \in 1 .. L |-> [x \in PlayTables |-> MergedOne(x, rows[n])]]
<1>1. L \in Nat /\ \A n \in 1 .. L : rows[n] \in PlayRow
  OBVIOUS
<1>2. ASSUME NEW n \in 1 .. L, NEW x \in PlayTables
      PROVE  MergedOne(x, rows[n]) \in PlayTables
  <2>1. AsRestored(rows[n]) \in PlayRow
    BY <1>1, RestoredIs
  <2> QED
    BY <2>1, AddedIs DEF MergedOne
<1>3. D \in [1 .. L -> [PlayTables -> PlayTables]]
  BY <1>2
<1> HIDE DEF D, L
<1>4. PICK f \in [0 .. L -> PlayTables] : IsFold(f, L, t, D)
  BY <1>1, <1>3, FoldExists
<1>5. ASSUME NEW n \in 1 .. L
      PROVE  f[n] = MergedOne(f[n - 1], rows[n])
  <2>1. n - 1 \in 0 .. L
    BY <1>1
  <2>2. f[n - 1] \in PlayTables
    BY <1>4, <2>1
  <2>3. f[n] = D[n][f[n - 1]]
    BY <1>4 DEF IsFold
  <2> QED
    BY <2>2, <2>3 DEF D
<1>6. f[0] = t
  BY <1>4 DEF IsFold
<1> QED
  BY <1>4, <1>5, <1>6 DEF Merges, L

(* So `restore` leads to what its rows lead to, *)
LEMMA MergedIs ==
  ASSUME NEW t \in PlayTables, NEW rows \in Seq(PlayRow)
  PROVE  \E f : Merges(f, t, rows) /\ Merged(t, rows) = f[Len(rows)]
<1> DEFINE L       == Len(rows)
           Step(f) == [n \in 0 .. L |->
                         IF n = 0 THEN t
                         ELSE LET acc == f[n - 1] IN
                              IF Present(acc, rows[n]) THEN acc ELSE Added(acc, AsRestored(rows[n]))]
           kept    == CHOOSE f : f = Step(f)
<1>1. L \in Nat
  OBVIOUS
<1>2. \E f : f = Step(f)
  <2>1. PICK f \in [0 .. L -> PlayTables] : Merges(f, t, rows)
    BY MergesExist
  <2>2. ASSUME NEW n \in 0 .. L
        PROVE  Step(f)[n] = f[n]
    <3>1. CASE n = 0
      BY <2>1, <3>1 DEF Merges
    <3>2. CASE n # 0
      <4>1. n \in 1 .. L
        BY <1>1, <3>2
      <4> QED
        BY <2>1, <3>2, <4>1 DEF Merges, MergedOne
    <3> QED
      BY <3>1, <3>2
  <2> DEFINE h == Step(f)
  <2>3. h = [n \in 0 .. L |-> h[n]] /\ f = [n \in 0 .. L |-> f[n]] /\ \A n \in 0 .. L : h[n] = f[n]
    BY <2>2
  <2> HIDE DEF h, L, kept
  <2>4. f = h
    BY <2>3
  <2> QED
    BY <2>4 DEF h
<1>3. kept = Step(kept)
  <2> HIDE DEF Step
  <2> QED
    BY <1>2
<1>4. Merged(t, rows) = kept[L]
  BY DEF Merged
<1> HIDE DEF kept
<1>5. kept[0] = t
  BY <1>1, <1>3
<1>6. ASSUME NEW n \in 1 .. L
      PROVE  kept[n] = MergedOne(kept[n - 1], rows[n])
  <2> HIDE DEF L
  <2>1. n \in 0 .. L /\ n # 0
    BY <1>1
  <2> QED
    BY <1>3, <2>1 DEF MergedOne
<1> QED
  BY <1>4, <1>5, <1>6 DEF Merges

(* ... and an import too: what Jellystat has is over, and has an id. *)
LEMMA ImportedIs ==
  ASSUME NEW t \in PlayTables
  PROVE  \E f : Merges(f, t, Jellystat) /\ Imported(t, Jellystat) = f[Len(Jellystat)]
<1> DEFINE rows    == Jellystat
           L       == Len(rows)
           Step(f) == [n \in 0 .. L |->
                         IF n = 0 THEN t
                         ELSE LET acc == f[n - 1] IN
                              IF \E i \in Kept(acc) : acc[i].source_id = rows[n].source_id THEN acc
                              ELSE Added(acc, rows[n])]
           kept    == CHOOSE f : f = Step(f)
<1>0. rows \in Seq({r \in PlayRow : ~r.active /\ r.source_id # NoSource})
  BY RowsAssumption
<1>1. L \in Nat /\ rows \in Seq(PlayRow)
      /\ \A n \in 1 .. L : rows[n] \in PlayRow /\ ~rows[n].active /\ rows[n].source_id # NoSource
  BY <1>0
<1> HIDE DEF rows
<1>2. ASSUME NEW n \in 1 .. L, NEW x
      PROVE  MergedOne(x, rows[n]) =
               IF \E i \in Kept(x) : x[i].source_id = rows[n].source_id THEN x ELSE Added(x, rows[n])
  BY <1>1, RestoredIs DEF MergedOne, Present
<1>3. \E f : f = Step(f)
  <2>1. PICK f \in [0 .. L -> PlayTables] : Merges(f, t, rows)
    BY <1>1, MergesExist
  <2>2. ASSUME NEW n \in 0 .. L
        PROVE  Step(f)[n] = f[n]
    <3>1. CASE n = 0
      BY <2>1, <3>1 DEF Merges
    <3>2. CASE n # 0
      <4>1. n \in 1 .. L
        BY <1>1, <3>2
      <4>2. f[n] = MergedOne(f[n - 1], rows[n])
        BY <2>1, <4>1 DEF Merges
      <4> HIDE DEF L
      <4> QED
        BY <1>2, <3>2, <4>1, <4>2
    <3> QED
      BY <3>1, <3>2
  <2> DEFINE h == Step(f)
  <2>3. h = [n \in 0 .. L |-> h[n]] /\ f = [n \in 0 .. L |-> f[n]] /\ \A n \in 0 .. L : h[n] = f[n]
    BY <2>2
  <2> HIDE DEF h, L, kept
  <2>4. f = h
    BY <2>3
  <2> QED
    BY <2>4 DEF h
<1>4. kept = Step(kept)
  <2> HIDE DEF Step
  <2> QED
    BY <1>3
<1>5. Imported(t, rows) = kept[L]
  BY DEF Imported, rows
<1> HIDE DEF kept
<1>6. kept[0] = t
  BY <1>1, <1>4
<1>7. ASSUME NEW n \in 1 .. L
      PROVE  kept[n] = MergedOne(kept[n - 1], rows[n])
  <2> HIDE DEF L
  <2>1. n \in 0 .. L /\ n # 0
    BY <1>1
  <2>2. kept[n] = IF \E i \in Kept(kept[n - 1]) : kept[n - 1][i].source_id = rows[n].source_id
                  THEN kept[n - 1] ELSE Added(kept[n - 1], rows[n])
    BY <1>4, <2>1
  <2> QED
    BY <1>2, <2>2
<1> QED
  BY <1>5, <1>6, <1>7 DEF Merges, rows

(* t2 is t and some of the first n rows: what was there is as it was, what  *)
(* is new is of the first row of its source, no play is there twice that    *)
(* was not, and every one of the rows is there.                             *)
Grown(t, t2, rows, n) ==
  /\ t2 \in PlayTables
  /\ Kept(t) \subseteq Kept(t2)
  /\ \A i \in Kept(t) : t2[i] = t[i]
  /\ \A i \in Kept(t2) \ Kept(t) :
       \E k \in 1 .. n :
         /\ t2[i] = AsRestored(rows[k])
         /\ rows[k].source_id # NoSource => \A k0 \in 1 .. (k - 1) : rows[k0].source_id # rows[k].source_id
  /\ \A i, j \in Kept(t2) : i # j /\ SamePlay(t2[i], t2[j]) => i \in Kept(t) /\ j \in Kept(t)
  /\ \A k \in 1 .. n : Present(t2, rows[k])

LEMMA GrownByOne ==
  ASSUME NEW t \in PlayTables, NEW t2 \in PlayTables, NEW rows \in Seq(PlayRow), NEW n \in Nat,
         n + 1 <= Len(rows), Fits(t2, 1), Grown(t, t2, rows, n)
  PROVE  Grown(t, MergedOne(t2, rows[n + 1]), rows, n + 1)
<1> DEFINE r  == rows[n + 1]
           t3 == MergedOne(t2, r)
<1>0. n + 1 \in 1 .. Len(rows) /\ r \in PlayRow /\ \A k \in 1 .. n : rows[k] \in PlayRow
  <2>1. n + 1 \in 1 .. Len(rows) /\ \A k \in 1 .. n : k \in 1 .. Len(rows)
    OBVIOUS
  <2> QED
    BY <2>1
<1>1. CASE Present(t2, r)
  <2>1. t3 = t2
    BY <1>1 DEF MergedOne
  <2>2. \A k \in 1 .. (n + 1) : k \in 1 .. n \/ k = n + 1
    OBVIOUS
  <2>3. \A k \in 1 .. n : k \in 1 .. (n + 1)
    OBVIOUS
  <2> HIDE DEF t3
  <2>4. ASSUME NEW k \in 1 .. (n + 1)
        PROVE  Present(t2, rows[k])
    BY <1>1, <2>2 DEF Grown
  <2>5. Grown(t, t2, rows, n + 1)
    BY <2>3, <2>4 DEF Grown
  <2> QED
    BY <2>1, <2>5 DEF t3
<1>2. CASE ~Present(t2, r)
  <2> DEFINE s == NextSlot(t2)
             q == AsRestored(r)
  <2>0. t3 = Added(t2, q)
    BY <1>2 DEF MergedOne
  <2>1. q \in PlayRow /\ q.user = r.user /\ q.item = r.item /\ q.start = r.start /\ q.source_id = r.source_id
    BY <1>0, RestoredIs
  <2> HIDE DEF q, r
  <2>2. /\ t3 \in PlayTables /\ s \in Slots \ Kept(t2) /\ Kept(t3) = Kept(t2) \cup {s} /\ t3[s] = q
        /\ \A i \in Kept(t2) : t3[i] = t2[i]
    BY <2>0, <2>1, AddedIs
  <2> HIDE DEF t3, s
  <2>3. Kept(t) \subseteq Kept(t3) /\ \A i \in Kept(t) : t3[i] = t[i]
    BY <2>2 DEF Grown
  <2>4. ASSUME NEW i \in Kept(t3) \ Kept(t)
        PROVE  \E k \in 1 .. (n + 1) :
                 /\ t3[i] = AsRestored(rows[k])
                 /\ rows[k].source_id # NoSource => \A k0 \in 1 .. (k - 1) : rows[k0].source_id # rows[k].source_id
    <3>1. CASE i \in Kept(t2)
      <4>1. PICK k \in 1 .. n : /\ t2[i] = AsRestored(rows[k])
                                /\ rows[k].source_id # NoSource => \A k0 \in 1 .. (k - 1) : rows[k0].source_id # rows[k].source_id
        BY <2>4, <3>1 DEF Grown
      <4>2. k \in 1 .. (n + 1) /\ t3[i] = t2[i]
        BY <2>2, <3>1
      <4> QED
        BY <4>1, <4>2
    <3>2. CASE i = s
      <4>1. ASSUME r.source_id # NoSource, NEW k0 \in 1 .. n, rows[k0].source_id = r.source_id
            PROVE  FALSE
        <5>1. Present(t2, rows[k0])
          BY DEF Grown
        <5>2. \E j \in Kept(t2) : t2[j].source_id = r.source_id
          BY <4>1, <5>1 DEF Present
        <5> QED
          BY <1>2, <4>1, <5>2 DEF Present
      <4>2. n + 1 \in 1 .. (n + 1) /\ (n + 1) - 1 = n
        OBVIOUS
      <4> QED
        BY <2>2, <3>2, <4>1, <4>2 DEF q, r
    <3> QED
      BY <2>2, <2>4, <3>1, <3>2
  <2>5. ASSUME NEW i \in Kept(t2), SamePlay(t2[i], q) \/ SamePlay(q, t2[i])
        PROVE  FALSE
    <3>1. t2[i].source_id = r.source_id
          /\ (r.source_id = NoSource => t2[i].user = r.user /\ t2[i].item = r.item /\ t2[i].start = r.start)
      BY <2>1, <2>5 DEF SamePlay
    <3> QED
      BY <1>2, <3>1 DEF Present
  <2>6. ASSUME NEW i \in Kept(t3), NEW j \in Kept(t3), i # j, SamePlay(t3[i], t3[j])
        PROVE  i \in Kept(t) /\ j \in Kept(t)
    <3>1. CASE i = s
      BY <2>2, <2>5, <2>6, <3>1
    <3>2. CASE j = s
      BY <2>2, <2>5, <2>6, <3>2
    <3>3. CASE i # s /\ j # s
      <4>1. i \in Kept(t2) /\ j \in Kept(t2) /\ SamePlay(t2[i], t2[j])
        BY <2>2, <2>6, <3>3
      <4> QED
        BY <2>6, <4>1 DEF Grown
    <3> QED
      BY <3>1, <3>2, <3>3
  <2>7. ASSUME NEW k \in 1 .. (n + 1)
        PROVE  Present(t3, rows[k])
    <3>1. CASE k \in 1 .. n
      <4>1. Present(t2, rows[k])
        BY <3>1 DEF Grown
      <4> QED
        BY <2>2, <4>1 DEF Present
    <3>2. CASE k = n + 1
      <4>1. s \in Kept(t3) /\ t3[s] = q
        BY <2>2
      <4>2. Present(t3, r)
        BY <2>1, <4>1 DEF Present
      <4> QED
        BY <3>2, <4>2 DEF r
    <3> QED
      BY <3>1, <3>2
  <2>8. Grown(t, t3, rows, n + 1)
    BY <2>2, <2>3, <2>4, <2>6, <2>7 DEF Grown
  <2> QED
    BY <2>8 DEF t3, r
<1> QED
  BY <1>1, <1>2

LEMMA MergesGrow ==
  ASSUME NEW t \in PlayTables, NEW rows \in Seq(PlayRow), Fits(t, Len(rows)), NEW f, Merges(f, t, rows)
  PROVE  Grown(t, f[Len(rows)], rows, Len(rows))
<1> DEFINE L       == Len(rows)
           Good(n) == Grown(t, f[n], rows, n) /\ NextSlot(f[n]) <= NextSlot(t) + n
           T       == {n \in Nat : n <= L => Good(n)}
<1>0. L \in Nat /\ MaxRows \in Nat /\ NextSlot(t) \in Nat /\ NextSlot(t) + L <= MaxRows + 1
  BY HistoryAssumption, SlotAfter DEF Fits
<1>1. 0 \in T
  <2>1. f[0] = t
    BY DEF Merges
  <2>2. Grown(t, t, rows, 0)
    BY DEF Grown
  <2> QED
    BY <1>0, <2>1, <2>2
<1>2. ASSUME NEW n \in Nat, n \in T
      PROVE  n + 1 \in T
  <2> SUFFICES ASSUME n + 1 <= L
               PROVE  Good(n + 1)
    OBVIOUS
  <2> DEFINE t2 == f[n]
             r  == rows[n + 1]
  <2>1. Grown(t, t2, rows, n) /\ NextSlot(t2) <= NextSlot(t) + n
    BY <1>0, <1>2
  <2>2. t2 \in PlayTables /\ NextSlot(t2) \in Nat
    BY <1>0, <2>1, SlotAfter DEF Grown
  <2>3. f[n + 1] = MergedOne(t2, r)
    <3>1. n + 1 \in 1 .. Len(rows) /\ (n + 1) - 1 = n
      BY <1>0
    <3> QED
      BY <3>1 DEF Merges
  <2> HIDE DEF t2
  <2>4. Fits(t2, 1)
    BY <1>0, <2>1, <2>2 DEF Fits
  <2>5. Grown(t, f[n + 1], rows, n + 1)
    BY <2>1, <2>2, <2>3, <2>4, GrownByOne
  <2>6. NextSlot(f[n + 1]) <= NextSlot(t) + (n + 1)
    <3>1. CASE f[n + 1] = t2
      BY <1>0, <2>1, <2>2, <3>1
    <3>2. CASE f[n + 1] = Added(t2, AsRestored(r))
      <4>1. r \in PlayRow
        BY <1>0
      <4>2. NextSlot(f[n + 1]) = NextSlot(t2) + 1
        BY <2>2, <2>4, <3>2, <4>1, RestoredIs, AddedIs
      <4> QED
        BY <1>0, <2>1, <2>2, <4>2
    <3> QED
      BY <2>3, <3>1, <3>2 DEF MergedOne
  <2> QED
    BY <2>5, <2>6
<1>3. Nat \subseteq T
  <2> HIDE DEF T
  <2> QED
    BY <1>1, <1>2, NatByStep
<1> QED
  BY <1>0, <1>3

(* A restore, and an import. *)
LEMMA MergedGrows ==
  ASSUME NEW t \in PlayTables, NEW rows \in Seq(PlayRow), Fits(t, Len(rows))
  PROVE  Grown(t, Merged(t, rows), rows, Len(rows))
BY MergedIs, MergesGrow

LEMMA ImportedGrows ==
  ASSUME NEW t \in PlayTables, Fits(t, Len(Jellystat))
  PROVE  Grown(t, Imported(t, Jellystat), Jellystat, Len(Jellystat))
<1>1. Jellystat \in Seq(PlayRow)
  <2>1. Jellystat \in Seq({r \in PlayRow : ~r.active /\ r.source_id # NoSource})
    BY RowsAssumption
  <2> QED
    BY <2>1
<1> QED
  BY <1>1, ImportedIs, MergesGrow

(* A backup holds the plays of the table, and no others. *)
LEMMA RowsAre ==
  ASSUME NEW t \in PlayTables
  PROVE  Rows(t) \in Seq(PlayRow) /\ Range(Rows(t)) = All(t)
<1> DEFINE Step(f) == [n \in 0 .. MaxRows |->
                         IF n = 0 THEN <<>>
                         ELSE IF t[n] = NoPlayRow THEN f[n - 1] ELSE Append(f[n - 1], t[n])]
           kept    == CHOOSE f : f = Step(f)
           Y       == Seq(PlayRow)
           D       == [n \in 1 .. MaxRows |-> [x \in Y |-> IF t[n] = NoPlayRow THEN x ELSE Append(x, t[n])]]
<1>1. MaxRows \in Nat /\ \A n \in 1 .. MaxRows : t[n] = NoPlayRow \/ t[n] \in PlayRow
  BY HistoryAssumption DEF PlayTables, Slots
<1>2. D \in [1 .. MaxRows -> [Y -> Y]]
  <2>1. ASSUME NEW n \in 1 .. MaxRows, NEW x \in Y
        PROVE  (IF t[n] = NoPlayRow THEN x ELSE Append(x, t[n])) \in Y
    BY <1>1
  <2> HIDE DEF Y
  <2> QED
    BY <2>1
<1>3. <<>> \in Y
  OBVIOUS
<1>4. \E f : f = Step(f)
  <2>1. PICK f \in [0 .. MaxRows -> Y] : IsFold(f, MaxRows, <<>>, D)
    <3> HIDE DEF D, Y, Step, kept
    <3> QED
      BY <1>1, <1>2, <1>3, FoldExists
  <2>2. ASSUME NEW n \in 0 .. MaxRows
        PROVE  Step(f)[n] = f[n]
    <3> HIDE DEF Y
    <3>1. CASE n = 0
      BY <2>1, <3>1 DEF IsFold
    <3>2. CASE n # 0
      <4>1. n \in 1 .. MaxRows /\ n - 1 \in 0 .. MaxRows
        BY <1>1, <3>2
      <4>2. f[n - 1] \in Y
        BY <4>1
      <4> HIDE DEF D
      <4>3. f[n] = D[n][f[n - 1]]
        BY <2>1, <4>1 DEF IsFold
      <4>4. f[n] = IF t[n] = NoPlayRow THEN f[n - 1] ELSE Append(f[n - 1], t[n])
        BY <4>1, <4>2, <4>3 DEF D
      <4> QED
        BY <3>2, <4>4
    <3> QED
      BY <3>1, <3>2
  <2> DEFINE h == Step(f)
  <2>3. h = [n \in 0 .. MaxRows |-> h[n]] /\ f = [n \in 0 .. MaxRows |-> f[n]] /\ \A n \in 0 .. MaxRows : h[n] = f[n]
    BY <2>2
  <2> HIDE DEF h, kept
  <2>4. f = h
    BY <2>3
  <2> QED
    BY <2>4 DEF h
<1>5. kept = Step(kept)
  <2> HIDE DEF Step
  <2> QED
    BY <1>4
<1>6. Rows(t) = kept[MaxRows]
  BY DEF Rows
<1> HIDE DEF kept, D
<1> DEFINE InTheSeq(s, n) == \A x : (\E i \in 1 .. Len(s) : x = s[i]) <=> (\E i \in 1 .. n : x = t[i] /\ x # NoPlayRow)
           Good(n)     == kept[n] \in Seq(PlayRow) /\ InTheSeq(kept[n], n)
           T           == {n \in Nat : n <= MaxRows => Good(n)}
<1>7. 0 \in T
  <2>1. kept[0] = <<>>
    BY <1>1, <1>5
  <2>2. InTheSeq(<<>>, 0)
    OBVIOUS
  <2>3. <<>> \in Seq(PlayRow)
    OBVIOUS
  <2>4. Good(0)
    BY <2>1, <2>2, <2>3
  <2> QED
    BY <2>4
<1>8. ASSUME NEW n \in Nat, n \in T
      PROVE  n + 1 \in T
  <2> SUFFICES ASSUME n + 1 <= MaxRows
               PROVE  Good(n + 1)
    OBVIOUS
  <2> DEFINE s == kept[n]
  <2>1. s \in Seq(PlayRow) /\ InTheSeq(s, n)
    BY <1>1, <1>8
  <2>2. kept[n + 1] = IF t[n + 1] = NoPlayRow THEN s ELSE Append(s, t[n + 1])
    <3>1. n + 1 \in 0 .. MaxRows /\ n + 1 # 0 /\ (n + 1) - 1 = n
      BY <1>1
    <3> QED
      BY <1>5, <3>1
  <2> HIDE DEF s
  <2>3. CASE t[n + 1] = NoPlayRow
    <3>1. \A i \in 1 .. (n + 1) : i \in 1 .. n \/ i = n + 1
      OBVIOUS
    <3>2. \A i \in 1 .. n : i \in 1 .. (n + 1)
      OBVIOUS
    <3>3. InTheSeq(s, n + 1)
      BY <2>1, <2>3, <3>1, <3>2
    <3> QED
      BY <2>1, <2>2, <2>3, <3>3
  <2>4. CASE t[n + 1] # NoPlayRow
    <3> DEFINE newest  == t[n + 1]
               more == Append(s, newest)
    <3>1. newest \in PlayRow
      BY <1>1, <2>4
    <3>2. more \in Seq(PlayRow) /\ Len(more) = Len(s) + 1 /\ more[Len(s) + 1] = newest
          /\ \A i \in 1 .. Len(s) : more[i] = s[i]
      BY <2>1, <3>1
    <3> HIDE DEF newest, more
    <3>3. ASSUME NEW x
          PROVE  (\E i \in 1 .. Len(more) : x = more[i]) <=> ((\E i \in 1 .. Len(s) : x = s[i]) \/ x = newest)
      <4>1. Len(s) \in Nat
        BY <2>1
      <4> QED
        BY <3>2, <4>1
    <3>4. ASSUME NEW x
          PROVE  (\E i \in 1 .. (n + 1) : x = t[i] /\ x # NoPlayRow)
                   <=> ((\E i \in 1 .. n : x = t[i] /\ x # NoPlayRow) \/ x = newest)
      <4>1. \A i \in 1 .. (n + 1) : i \in 1 .. n \/ i = n + 1
        OBVIOUS
      <4>2. (\A i \in 1 .. n : i \in 1 .. (n + 1)) /\ n + 1 \in 1 .. (n + 1)
        OBVIOUS
      <4> QED
        BY <2>4, <4>1, <4>2 DEF newest
    <3>5. InTheSeq(more, n + 1)
      BY <2>1, <3>3, <3>4
    <3>6. kept[n + 1] = more
      BY <2>2, <2>4 DEF more, newest
    <3>7. kept[n + 1] \in Seq(PlayRow) /\ InTheSeq(kept[n + 1], n + 1)
      BY <3>2, <3>5, <3>6
    <3> QED
      BY <3>7
  <2> QED
    BY <2>3, <2>4
<1>9. Nat \subseteq T
  <2> HIDE DEF T
  <2> QED
    BY <1>7, <1>8, NatByStep
<1>10. Good(MaxRows)
  <2> HIDE DEF Good
  <2> QED
    BY <1>1, <1>9
<1> DEFINE s == Rows(t)
<1>11. s \in Seq(PlayRow) /\ InTheSeq(s, MaxRows)
  BY <1>6, <1>10
<1> HIDE DEF s
<1>12. DOMAIN s = 1 .. Len(s)
  BY <1>11
<1>13. ASSUME NEW x
       PROVE  x \in Range(s) <=> x \in All(t)
  BY <1>11, <1>12 DEF Range, All, Kept, Slots
<1> QED
  BY <1>11, <1>13 DEF s

(* Rows that say the same of a play, up to whether it is running. *)
Like(r, q) == r.user = q.user /\ r.item = q.item /\ r.start = q.start /\ r.source_id = q.source_id

(* A row with an id of Jellystat's tells of the evening of the first row of *)
(* Jellystat's with that id.                                                *)
FirstOfSource(n) == \A k \in 1 .. (n - 1) : Jellystat[k].source_id # Jellystat[n].source_id
KnownRow(r) ==
  \E n \in 1 .. Len(Jellystat) :
    FirstOfSource(n) /\ Jellystat[n].source_id = r.source_id /\ Evening(r) = Evening(Jellystat[n])

(* The copies C of plays, in the table and in the backup, when the items     *)
(* hr are there and the titles rn have changed their item: those with an id  *)
(* are Jellystat's; of those without, two of one viewer at one time are of   *)
(* one title, and of one item unless the title has changed it, and the item  *)
(* is there unless the title has changed it.                                 *)
CopiesAgree(C, hr, rn) ==
  /\ \A r \in C : r.source_id # NoSource => KnownRow(r)
  /\ \A r \in C, q \in C :
       /\ r.source_id = NoSource /\ q.source_id = NoSource /\ r.user = q.user /\ r.start = q.start
       => /\ TitleOf[r.item] = TitleOf[q.item]
          /\ r.item = q.item \/ TitleOf[r.item] \in rn
  /\ \A r \in C : r.source_id = NoSource => r.item \in hr \/ TitleOf[r.item] \in rn

(* The parts of the properties, of any table: active while followed; a       *)
(* Jellystat play once; a play of finstats' own once while its title keeps   *)
(* its item.                                                                 *)
ActiveIn(t, fo) == \A i \in Slots : i \in fo <=> i \in Kept(t) /\ t[i].active
OnceIn(t) ==
  \A i, j \in Kept(t) : t[i].source_id # NoSource /\ t[i].source_id = t[j].source_id => i = j
OwnOnceIn(t, rn) ==
  \A i, j \in Kept(t) :
    /\ i # j /\ t[i].source_id = NoSource /\ t[j].source_id = NoSource
    /\ TitleOf[t[i].item] \notin rn
    => Evening(t[i]) # Evening(t[j])

(* Copies that say the same as copies that agree, or what Jellystat says,    *)
(* agree.                                                                    *)
LEMMA AgreeByLikeness ==
  ASSUME NEW C1, NEW C2, NEW hr, NEW rn, CopiesAgree(C1, hr, rn),
         \A r \in C2 : (\E q \in C1 : Like(r, q)) \/ (r.source_id # NoSource /\ KnownRow(r))
  PROVE  CopiesAgree(C2, hr, rn)
<1>1. ASSUME NEW r \in C2, r.source_id # NoSource
      PROVE  KnownRow(r)
  <2>1. CASE KnownRow(r)
    BY <2>1
  <2>2. CASE \E q \in C1 : Like(r, q)
    <3>1. PICK q \in C1 : Like(r, q)
      BY <2>2
    <3>2. KnownRow(q) /\ Evening(r) = Evening(q) /\ r.source_id = q.source_id
      BY <1>1, <3>1 DEF CopiesAgree, Like, Evening
    <3> QED
      BY <3>2 DEF KnownRow
  <2> QED
    BY <2>1, <2>2
<1>2. ASSUME NEW r \in C2, r.source_id = NoSource
      PROVE  \E q \in C1 : Like(r, q)
  BY <1>2
<1>3. ASSUME NEW r \in C2, r.source_id = NoSource
      PROVE  r.item \in hr \/ TitleOf[r.item] \in rn
  <2>1. PICK q \in C1 : Like(r, q)
    BY <1>2, <1>3
  <2> QED
    BY <1>3, <2>1 DEF CopiesAgree, Like
<1>4. ASSUME NEW r \in C2, NEW q \in C2, r.source_id = NoSource, q.source_id = NoSource,
             r.user = q.user, r.start = q.start
      PROVE  TitleOf[r.item] = TitleOf[q.item] /\ (r.item = q.item \/ TitleOf[r.item] \in rn)
  <2>1. PICK r0 \in C1 : Like(r, r0)
    BY <1>2, <1>4
  <2>2. PICK q0 \in C1 : Like(q, q0)
    BY <1>2, <1>4
  <2>3. /\ r0.source_id = NoSource /\ q0.source_id = NoSource /\ r0.user = q0.user /\ r0.start = q0.start
        /\ r0.item = r.item /\ q0.item = q.item
    BY <1>4, <2>1, <2>2 DEF Like
  <2>4. TitleOf[r0.item] = TitleOf[q0.item] /\ (r0.item = q0.item \/ TitleOf[r0.item] \in rn)
    BY <2>3 DEF CopiesAgree
  <2> QED
    BY <2>3, <2>4
<1> QED
  BY <1>1, <1>3, <1>4 DEF CopiesAgree

(* Linking changes nothing of a row but an item that is gone, for one of     *)
(* the same title that is there.                                             *)
LEMMA RelinkedIs ==
  ASSUME NEW t \in PlayTables, NEW hr \in SUBSET Films
  PROVE  /\ Relinked(t, hr) \in PlayTables /\ Kept(Relinked(t, hr)) = Kept(t)
         /\ \A i \in Kept(t) :
              /\ Relinked(t, hr)[i].user = t[i].user /\ Relinked(t, hr)[i].start = t[i].start
              /\ Relinked(t, hr)[i].source_id = t[i].source_id /\ Relinked(t, hr)[i].active = t[i].active
              /\ TitleOf[Relinked(t, hr)[i].item] = TitleOf[t[i].item]
              /\ \/ Relinked(t, hr)[i].item = t[i].item
                 \/ t[i].item \notin hr /\ Relinked(t, hr)[i].item \in hr
<1> DEFINE t2 == Relinked(t, hr)
<1>1. ASSUME NEW i \in Slots, i \notin Kept(t)
      PROVE  t2[i] = t[i] /\ t[i] = NoPlayRow
  BY <1>1 DEF Relinked, Kept
<1>2. ASSUME NEW i \in Kept(t)
      PROVE  /\ t2[i] \in PlayRow
             /\ t2[i].user = t[i].user /\ t2[i].start = t[i].start
             /\ t2[i].source_id = t[i].source_id /\ t2[i].active = t[i].active
             /\ TitleOf[t2[i].item] = TitleOf[t[i].item]
             /\ t2[i].item = t[i].item \/ (t[i].item \notin hr /\ t2[i].item \in hr)
  <2> DEFINE hits == {h \in hr : TitleOf[h] = TitleOf[t[i].item]}
             h    == CHOOSE x \in hits : TRUE
  <2>0. i \in Slots /\ t[i] \in PlayRow
    BY KeptAre
  <2>1. t2[i] = IF t[i].item \in hr THEN t[i]
                ELSE IF Cardinality(hits) = 1 THEN [t[i] EXCEPT !.item = h] ELSE t[i]
    BY <1>2, <2>0 DEF Relinked
  <2>2. CASE t2[i] = t[i]
    BY <2>0, <2>2
  <2>3. CASE t[i].item \notin hr /\ Cardinality(hits) = 1 /\ t2[i] = [t[i] EXCEPT !.item = h]
    <3>1. hits # {}
      BY <2>3, FS_EmptySet
    <3>2. h \in hits
      BY <3>1
    <3> HIDE DEF h, t2
    <3>3. h \in Films /\ h \in hr /\ TitleOf[h] = TitleOf[t[i].item]
      BY <3>2
    <3> HIDE DEF hits
    <3> QED
      BY <2>0, <2>3, <3>3 DEF PlayRow
  <2> QED
    BY <2>1, <2>2, <2>3
<1>3. t2 \in PlayTables
  <2>1. t2 = [i \in Slots |-> t2[i]]
    BY DEF Relinked
  <2>2. \A i \in Slots : t2[i] \in PlayRow \cup {NoPlayRow}
    BY <1>1, <1>2
  <2> HIDE DEF t2
  <2> QED
    BY <2>1, <2>2 DEF PlayTables
<1>4. Kept(t2) = Kept(t)
  <2>1. \A i \in Slots : t2[i] # NoPlayRow <=> i \in Kept(t)
    BY <1>1, <1>2, RowsAssumption
  <2> HIDE DEF t2
  <2> QED
    BY <2>1 DEF Kept
<1> QED
  BY <1>2, <1>3, <1>4

(* So what is right of a table stays right when it is linked. *)
LEMMA RelinkKeeps ==
  ASSUME NEW t \in PlayTables, NEW hr \in SUBSET Films, NEW rn, NEW fo, NEW F,
         CopiesAgree(All(t) \cup F, hr, rn), ActiveIn(t, fo), OnceIn(t), OwnOnceIn(t, rn)
  PROVE  LET t2 == Relinked(t, hr) IN
         /\ t2 \in PlayTables
         /\ CopiesAgree(All(t2) \cup F, hr, rn) /\ ActiveIn(t2, fo) /\ OnceIn(t2) /\ OwnOnceIn(t2, rn)
         /\ Kept(t2) = Kept(t) /\ \A i \in Kept(t) : Evening(t2[i]) = Evening(t[i])
<1> DEFINE t2 == Relinked(t, hr)
<1>1. t2 \in PlayTables /\ Kept(t2) = Kept(t)
  BY RelinkedIs
<1>2. \A i \in Kept(t) :
        /\ t2[i].user = t[i].user /\ t2[i].start = t[i].start
        /\ t2[i].source_id = t[i].source_id /\ t2[i].active = t[i].active
        /\ TitleOf[t2[i].item] = TitleOf[t[i].item]
        /\ t2[i].item = t[i].item \/ (t[i].item \notin hr /\ t2[i].item \in hr)
  BY RelinkedIs
<1> HIDE DEF t2
<1>3. \A i \in Kept(t) : Evening(t2[i]) = Evening(t[i])
  BY <1>2 DEF Evening
<1>4. ActiveIn(t2, fo) /\ OnceIn(t2)
  BY <1>1, <1>2 DEF ActiveIn, OnceIn
<1>5. OwnOnceIn(t2, rn)
  BY <1>1, <1>2, <1>3 DEF OwnOnceIn
<1> DEFINE C1 == All(t) \cup F
           C2 == All(t2) \cup F
<1>6. ASSUME NEW r \in C2
      PROVE  \E q \in C1 : /\ r.user = q.user /\ r.start = q.start /\ r.source_id = q.source_id
                           /\ TitleOf[r.item] = TitleOf[q.item]
                           /\ r.item = q.item \/ (q.item \notin hr /\ r.item \in hr)
  <2>1. CASE r \in F
    BY <2>1
  <2>2. CASE r \in All(t2)
    <3>1. PICK i \in Kept(t) : r = t2[i]
      BY <1>1, <2>2 DEF All
    <3>2. t[i] \in C1
      BY DEF All
    <3> QED
      BY <1>2, <3>1, <3>2
  <2> QED
    BY <2>1, <2>2
<1> HIDE DEF C1, C2
<1>7. CopiesAgree(C1, hr, rn)
  BY DEF C1
<1>8. ASSUME NEW r \in C2, r.source_id # NoSource
      PROVE  KnownRow(r)
  <2>1. PICK q \in C1 : /\ r.user = q.user /\ r.start = q.start /\ r.source_id = q.source_id
                        /\ TitleOf[r.item] = TitleOf[q.item]
    BY <1>6
  <2>2. KnownRow(q) /\ Evening(r) = Evening(q)
    BY <1>7, <1>8, <2>1 DEF CopiesAgree, Evening
  <2> QED
    BY <2>1, <2>2 DEF KnownRow
<1>9. ASSUME NEW r \in C2, r.source_id = NoSource
      PROVE  r.item \in hr \/ TitleOf[r.item] \in rn
  BY <1>6, <1>7, <1>9 DEF CopiesAgree
<1>10. ASSUME NEW e1 \in C2, NEW e2 \in C2, e1.source_id = NoSource, e2.source_id = NoSource,
              e1.user = e2.user, e1.start = e2.start
       PROVE  TitleOf[e1.item] = TitleOf[e2.item] /\ (e1.item = e2.item \/ TitleOf[e1.item] \in rn)
  <2>1. PICK q1 \in C1 : /\ e1.user = q1.user /\ e1.start = q1.start /\ e1.source_id = q1.source_id
                         /\ TitleOf[e1.item] = TitleOf[q1.item]
                         /\ e1.item = q1.item \/ (q1.item \notin hr /\ e1.item \in hr)
    BY <1>6
  <2>2. PICK q2 \in C1 : /\ e2.user = q2.user /\ e2.start = q2.start /\ e2.source_id = q2.source_id
                         /\ TitleOf[e2.item] = TitleOf[q2.item]
                         /\ e2.item = q2.item \/ (q2.item \notin hr /\ e2.item \in hr)
    BY <1>6
  <2>3. q1.item \in hr \/ TitleOf[q1.item] \in rn
    BY <1>7, <1>10, <2>1 DEF CopiesAgree
  <2>4. q2.item \in hr \/ TitleOf[q2.item] \in rn
    BY <1>7, <1>10, <2>2 DEF CopiesAgree
  <2>5. TitleOf[q1.item] = TitleOf[q2.item] /\ (q1.item = q2.item \/ TitleOf[q1.item] \in rn)
    BY <1>7, <1>10, <2>1, <2>2 DEF CopiesAgree
  <2> QED
    BY <2>1, <2>2, <2>3, <2>4, <2>5
<1>11. CopiesAgree(C2, hr, rn)
  BY <1>8, <1>9, <1>10 DEF CopiesAgree
<1> QED
  BY <1>1, <1>3, <1>4, <1>5, <1>11 DEF t2, C2

(* ... and when rows are merged into it. *)
LEMMA GrowthKeeps ==
  ASSUME NEW t \in PlayTables, NEW hr, NEW rn, NEW fo, NEW F \in SUBSET PlayRow,
         NEW rows \in Seq(PlayRow), NEW t2, Grown(t, t2, rows, Len(rows)),
         CopiesAgree(All(t) \cup F, hr, rn), ActiveIn(t, fo), OnceIn(t), OwnOnceIn(t, rn),
         \A k \in 1 .. Len(rows) :
           \/ rows[k] \in F
           \/ /\ rows[k].source_id # NoSource
              /\ (\A k0 \in 1 .. (k - 1) : rows[k0].source_id # rows[k].source_id) => KnownRow(rows[k])
  PROVE  /\ t2 \in PlayTables
         /\ CopiesAgree(All(t2) \cup F, hr, rn) /\ ActiveIn(t2, fo) /\ OnceIn(t2) /\ OwnOnceIn(t2, rn)
         /\ \A i \in Kept(t) : i \in Kept(t2) /\ t2[i] = t[i]
<1> DEFINE C1 == All(t) \cup F
           C2 == All(t2) \cup F
<1>1. t2 \in PlayTables /\ \A i \in Kept(t) : i \in Kept(t2) /\ t2[i] = t[i]
  BY DEF Grown
<1>2. ASSUME NEW i \in Kept(t2), i \notin Kept(t)
      PROVE  /\ ~t2[i].active
             /\ (\E q \in F : Like(t2[i], q)) \/ (t2[i].source_id # NoSource /\ KnownRow(t2[i]))
  <2>1. PICK k \in 1 .. Len(rows) :
               /\ t2[i] = AsRestored(rows[k])
               /\ rows[k].source_id # NoSource => \A k0 \in 1 .. (k - 1) : rows[k0].source_id # rows[k].source_id
    BY <1>2 DEF Grown
  <2>2. rows[k] \in PlayRow
    OBVIOUS
  <2>3. ~t2[i].active /\ Like(t2[i], rows[k])
    BY <2>1, <2>2, RestoredIs DEF Like
  <2>4. CASE rows[k] \in F
    BY <2>3, <2>4
  <2>5. CASE rows[k].source_id # NoSource /\ KnownRow(rows[k])
    <3>1. t2[i].source_id = rows[k].source_id /\ Evening(t2[i]) = Evening(rows[k])
      BY <2>3 DEF Like, Evening
    <3> QED
      BY <2>3, <2>5, <3>1 DEF KnownRow
  <2> QED
    BY <2>1, <2>4, <2>5
<1>3. ASSUME NEW r \in C2
      PROVE  (\E q \in C1 : Like(r, q)) \/ (r.source_id # NoSource /\ KnownRow(r))
  <2>1. CASE r \in C1
    BY <2>1 DEF Like
  <2>2. CASE r \notin C1
    <3>1. PICK i \in Kept(t2) : r = t2[i]
      BY <1>3, <2>2 DEF All
    <3>2. i \notin Kept(t)
      BY <1>1, <2>2, <3>1 DEF All
    <3> QED
      BY <1>2, <3>1, <3>2
  <2> QED
    BY <2>1, <2>2
<1> HIDE DEF C1, C2
<1>4. CopiesAgree(C1, hr, rn)
  BY DEF C1
<1>5. CopiesAgree(C2, hr, rn)
  BY <1>3, <1>4, AgreeByLikeness
<1>6. ActiveIn(t2, fo)
  <2>1. \A i \in Kept(t) : i \in Slots
    BY DEF Kept
  <2> QED
    BY <1>1, <1>2, <2>1 DEF ActiveIn
<1>7. \A i, j \in Kept(t2) : i # j /\ SamePlay(t2[i], t2[j]) => i \in Kept(t) /\ j \in Kept(t)
  BY DEF Grown
<1>8. OnceIn(t2)
  <2> SUFFICES ASSUME NEW i \in Kept(t2), NEW j \in Kept(t2), i # j,
                      t2[i].source_id # NoSource, t2[i].source_id = t2[j].source_id
               PROVE  FALSE
    BY DEF OnceIn
  <2>1. i \in Kept(t) /\ j \in Kept(t)
    BY <1>7 DEF SamePlay
  <2> QED
    BY <1>1, <2>1 DEF OnceIn
<1>9. OwnOnceIn(t2, rn)
  <2> SUFFICES ASSUME NEW i \in Kept(t2), NEW j \in Kept(t2), i # j,
                      t2[i].source_id = NoSource, t2[j].source_id = NoSource,
                      TitleOf[t2[i].item] \notin rn, Evening(t2[i]) = Evening(t2[j])
               PROVE  FALSE
    BY DEF OwnOnceIn
  <2>1. t2[i] \in C2 /\ t2[j] \in C2
    BY DEF C2, All
  <2>2. t2[i].user = t2[j].user /\ t2[i].start = t2[j].start
    BY DEF Evening
  <2>3. t2[i].item = t2[j].item
    BY <1>5, <2>1, <2>2 DEF CopiesAgree
  <2>4. i \in Kept(t) /\ j \in Kept(t)
    BY <1>7, <2>2, <2>3 DEF SamePlay
  <2> QED
    BY <1>1, <2>4 DEF OwnOnceIn
<1> QED
  BY <1>1, <1>5, <1>6, <1>8, <1>9 DEF C2

(* What holds of the table, of the backup and of what the titles have done. *)
PlaysAgree == CopiesAgree(All(pb) \cup Range(file), here, renamed)
(* The inductive invariant of the history. *)
HistoryInv == HistoryTypeOK /\ PlaysAgree /\ ActiveWhileFollowed /\ EachPlayOnce

(* Every play that was in the table is in it, and tells of its evening. *)
PlaysStay == \A i \in Kept(pb) : i \in Kept(pb)' /\ Evening(pb'[i]) = Evening(pb[i])

LEMMA HistoryInvMeans ==
  /\ ActiveWhileFollowed <=> ActiveIn(pb, following)
  /\ EachPlayOnce <=> OnceIn(pb) /\ OwnOnceIn(pb, renamed)
  /\ HistoryTypeOK => pb \in PlayTables /\ Range(file) \subseteq PlayRow
BY DEF ActiveWhileFollowed, ActiveIn, EachPlayOnce, ImportedOnce, RecordedOnce, OnceIn, OwnOnceIn,
       HistoryTypeOK, PlayTables, Range

(* What a step owes. *)
LEMMA HistoryOwes ==
  ASSUME HistoryTypeOK', PlaysAgree', ActiveIn(pb', following'), OnceIn(pb'), OwnOnceIn(pb', renamed')
  PROVE  HistoryInv'
BY DEF HistoryInv, ActiveWhileFollowed, ActiveIn, EachPlayOnce, ImportedOnce, RecordedOnce, OnceIn, OwnOnceIn, Kept, Evening

LEMMA KeptThen == Kept(pb)' = Kept(pb') /\ All(pb)' = All(pb')
BY DEF Kept, All

LEMMA HistoryStart == HistoryInit => HistoryInv
<1> SUFFICES ASSUME HistoryInit
             PROVE  HistoryInv
  OBVIOUS
<1> USE DEF HistoryInit
<1>1. Kept(pb) = {} /\ All(pb) = {} /\ Range(file) = {}
  BY DEF Kept, All, Range
<1>2. HistoryTypeOK
  BY HistoryAssumption DEF HistoryTypeOK
<1>3. PlaysAgree
  BY <1>1 DEF PlaysAgree, CopiesAgree
<1>4. ActiveWhileFollowed /\ EachPlayOnce
  BY <1>1 DEF ActiveWhileFollowed, EachPlayOnce, ImportedOnce, RecordedOnce
<1> QED
  BY <1>2, <1>3, <1>4 DEF HistoryInv

LEMMA OneMoreDeed ==
  ASSUME HistoryTypeOK, Deed
  PROVE  deeds' \in 0 .. MaxDeeds
BY HistoryAssumption DEF HistoryTypeOK, Deed

(* What is changed of the items alone: the title that changes is renamed. *)
LEMMA ItemsStep ==
  ASSUME HistoryInv, Deed, NEW e \in Films,
         here' \in SUBSET Films, here \ {e} \subseteq here',
         renamed' = renamed \cup {TitleOf[e]}, UNCHANGED <<pb, following, file>>
  PROVE  HistoryInv' /\ PlaysStay
<1> DEFINE C == All(pb) \cup Range(file)
<1>1. CopiesAgree(C, here, renamed) /\ HistoryTypeOK
  BY DEF HistoryInv, PlaysAgree
<1> HIDE DEF C
<1>2. CopiesAgree(C, here', renamed')
  <2>1. ASSUME NEW r \in C, r.source_id = NoSource
        PROVE  r.item \in here' \/ TitleOf[r.item] \in renamed'
    <3>1. r.item \in here \/ TitleOf[r.item] \in renamed
      BY <1>1, <2>1 DEF CopiesAgree
    <3> QED
      BY <3>1
  <2> QED
    BY <1>1, <2>1 DEF CopiesAgree
<1>3. PlaysAgree'
  BY <1>2, KeptThen DEF PlaysAgree, C
<1>4. HistoryTypeOK'
  BY <1>1, OneMoreDeed DEF HistoryTypeOK
<1>5. ActiveIn(pb', following') /\ OnceIn(pb') /\ OwnOnceIn(pb', renamed')
  BY HistoryInvMeans DEF HistoryInv, OwnOnceIn
<1>6. PlaysStay
  BY KeptThen DEF PlaysStay
<1> QED
  BY <1>3, <1>4, <1>5, <1>6, HistoryOwes

LEMMA RenameStep ==
  ASSUME HistoryInv, NEW v \in Films, NEW w \in Films, Rename(v, w)
  PROVE  HistoryInv' /\ PlaysStay
<1>1. here \subseteq Films
  BY DEF HistoryInv, HistoryTypeOK
<1>2. here' \in SUBSET Films /\ here \ {v} \subseteq here' /\ Deed
      /\ renamed' = renamed \cup {TitleOf[v]} /\ UNCHANGED <<pb, following, file>>
  BY <1>1 DEF Rename
<1> QED
  BY <1>2, ItemsStep

LEMMA AppearStep ==
  ASSUME HistoryInv, NEW v \in Films, Appear(v)
  PROVE  HistoryInv' /\ PlaysStay
<1>1. here \subseteq Films
  BY DEF HistoryInv, HistoryTypeOK
<1>2. here' \in SUBSET Films /\ here \ {v} \subseteq here' /\ Deed
      /\ renamed' = renamed \cup {TitleOf[v]} /\ UNCHANGED <<pb, following, file>>
  BY <1>1 DEF Appear
<1> QED
  BY <1>2, ItemsStep

(* What is changed of the table alone, to one that is like it. *)
LEMMA TableStep ==
  ASSUME HistoryInv, UNCHANGED <<here, file, renamed>>, deeds' \in 0 .. MaxDeeds, following' \subseteq Slots,
         pb' \in PlayTables, CopiesAgree(All(pb') \cup Range(file), here, renamed), ActiveIn(pb', following'),
         OnceIn(pb'), OwnOnceIn(pb', renamed)
  PROVE  HistoryInv'
<1>1. HistoryTypeOK'
  BY DEF HistoryInv, HistoryTypeOK, PlayTables
<1>2. PlaysAgree'
  BY KeptThen DEF PlaysAgree
<1> QED
  BY <1>1, <1>2, HistoryOwes

LEMMA BeginPlayStep ==
  ASSUME HistoryInv, NEW v \in Viewers, NEW f \in Films, NEW s \in Starts, BeginPlay(v, f, s)
  PROVE  HistoryInv' /\ PlaysStay
<1> DEFINE r  == [user |-> v, item |-> f, start |-> s, active |-> TRUE, source_id |-> NoSource]
           n  == NextSlot(pb)
           C1 == All(pb) \cup Range(file)
           C2 == All(pb') \cup Range(file)
<1>0. /\ pb \in PlayTables /\ Range(file) \subseteq PlayRow /\ HistoryTypeOK
      /\ ActiveIn(pb, following) /\ OnceIn(pb) /\ OwnOnceIn(pb, renamed) /\ CopiesAgree(C1, here, renamed)
  BY HistoryInvMeans DEF HistoryInv, PlaysAgree
<1>1. r \in PlayRow /\ r.user = v /\ r.item = f /\ r.start = s /\ r.active = TRUE /\ r.source_id = NoSource
  BY DEF PlayRow
<1>2. /\ f \in here /\ Fits(pb, 1) /\ pb' = Added(pb, r) /\ following' = following \cup {n}
      /\ UNCHANGED <<here, file, renamed, deeds>>
  BY DEF BeginPlay
<1>3. ASSUME NEW q \in C1
      PROVE  ~(q.user = v /\ q.start = s)
  BY <1>3 DEF BeginPlay, All, Range
<1> HIDE DEF r, n, C1, C2
<1>4. /\ pb' \in PlayTables /\ n \in Slots \ Kept(pb) /\ Kept(pb') = Kept(pb) \cup {n} /\ pb'[n] = r
      /\ \A i \in Kept(pb) : pb'[i] = pb[i]
  BY <1>0, <1>1, <1>2, AddedIs DEF n
<1>5. C2 = C1 \cup {r}
  BY <1>4 DEF C1, C2, All
<1>6. CopiesAgree(C2, here, renamed)
  <2>1. ASSUME NEW q \in C2, q.source_id # NoSource
        PROVE  KnownRow(q)
    BY <1>0, <1>1, <1>5, <2>1 DEF CopiesAgree
  <2>2. ASSUME NEW q \in C2, q.source_id = NoSource
        PROVE  q.item \in here \/ TitleOf[q.item] \in renamed
    BY <1>0, <1>1, <1>2, <1>5, <2>2 DEF CopiesAgree
  <2>3. ASSUME NEW p \in C2, NEW q \in C2, p.source_id = NoSource, q.source_id = NoSource,
               p.user = q.user, p.start = q.start
        PROVE  TitleOf[p.item] = TitleOf[q.item] /\ (p.item = q.item \/ TitleOf[p.item] \in renamed)
    <3>1. CASE p = q
      BY <3>1
    <3>2. CASE p \in C1 /\ q \in C1
      BY <1>0, <2>3, <3>2 DEF CopiesAgree
    <3>3. CASE p = r /\ q \in C1
      BY <1>1, <1>3, <2>3, <3>3
    <3>4. CASE q = r /\ p \in C1
      BY <1>1, <1>3, <2>3, <3>4
    <3> QED
      BY <1>5, <3>1, <3>2, <3>3, <3>4
  <2> QED
    BY <2>1, <2>2, <2>3 DEF CopiesAgree
<1>7. ActiveIn(pb', following')
  BY <1>0, <1>1, <1>2, <1>4 DEF ActiveIn, Kept
<1>8. OnceIn(pb')
  BY <1>0, <1>1, <1>4 DEF OnceIn
<1>9. OwnOnceIn(pb', renamed)
  <2>1. \A i \in Kept(pb) : ~(pb[i].user = v /\ pb[i].start = s)
    BY <1>3 DEF C1, All
  <2> QED
    BY <1>0, <1>1, <1>4, <2>1 DEF OwnOnceIn, Evening
<1>10. PlaysStay
  BY <1>4, KeptThen DEF PlaysStay
<1>11. following' \subseteq Slots /\ deeds' \in 0 .. MaxDeeds
  BY <1>0, <1>2, <1>4 DEF HistoryTypeOK
<1> QED
  BY <1>2, <1>4, <1>6, <1>7, <1>8, <1>9, <1>10, <1>11, TableStep DEF C2

(* Rows of the table that are no longer active, or not there any more. *)
LEMMA LessActive ==
  ASSUME NEW t \in PlayTables, NEW t2 \in PlayTables, NEW F, NEW fo, NEW hr, NEW rn,
         CopiesAgree(All(t) \cup F, hr, rn), OnceIn(t), OwnOnceIn(t, rn),
         Kept(t2) \subseteq Kept(t), \A i \in Kept(t2) : Like(t2[i], t[i]) /\ Evening(t2[i]) = Evening(t[i])
  PROVE  CopiesAgree(All(t2) \cup F, hr, rn) /\ OnceIn(t2) /\ OwnOnceIn(t2, rn)
<1> DEFINE C1 == All(t) \cup F
           C2 == All(t2) \cup F
<1>1. \A r \in C2 : \E q \in C1 : Like(r, q)
  <2>1. \A i \in Kept(t2) : t[i] \in C1 /\ Like(t2[i], t[i])
    BY DEF All
  <2>2. \A r \in F : r \in C1 /\ Like(r, r)
    BY DEF Like
  <2>3. \A r \in All(t2) : \E i \in Kept(t2) : r = t2[i]
    BY DEF All
  <2> QED
    BY <2>1, <2>2, <2>3
<1> HIDE DEF C1, C2
<1>2. CopiesAgree(C2, hr, rn)
  <2>1. CopiesAgree(C1, hr, rn)
    BY DEF C1
  <2> QED
    BY <1>1, <2>1, AgreeByLikeness
<1>3. OnceIn(t2)
  BY DEF OnceIn, Like
<1>4. OwnOnceIn(t2, rn)
  BY DEF OwnOnceIn, Like
<1> QED
  BY <1>2, <1>3, <1>4 DEF C2

LEMMA EndPlayStep ==
  ASSUME HistoryInv, NEW i \in Slots, EndPlay(i)
  PROVE  HistoryInv' /\ PlaysStay
<1>0. /\ pb \in PlayTables /\ HistoryTypeOK /\ ActiveIn(pb, following) /\ OnceIn(pb) /\ OwnOnceIn(pb, renamed)
      /\ CopiesAgree(All(pb) \cup Range(file), here, renamed)
  BY HistoryInvMeans DEF HistoryInv, PlaysAgree
<1>1. /\ i \in following /\ pb' = [pb EXCEPT ![i].active = FALSE] /\ following' = following \ {i}
      /\ UNCHANGED <<here, file, renamed, deeds>>
  BY DEF EndPlay
<1>2. i \in Kept(pb) /\ pb[i] \in PlayRow
  BY <1>0, <1>1, KeptAre DEF ActiveIn
<1>3. \A j \in Slots : pb'[j] = IF j = i THEN [pb[j] EXCEPT !.active = FALSE] ELSE pb[j]
  BY <1>0, <1>1 DEF PlayTables
<1>4. pb'[i] \in PlayRow /\ ~pb'[i].active /\ Like(pb'[i], pb[i])
  BY <1>2, <1>3 DEF PlayRow, Like
<1>5. pb' \in PlayTables
  <2>1. pb' = [j \in Slots |-> pb'[j]]
    BY <1>0, <1>1 DEF PlayTables
  <2>2. \A j \in Slots : pb'[j] \in PlayRow \cup {NoPlayRow}
    BY <1>0, <1>3, <1>4 DEF PlayTables
  <2> QED
    BY <2>1, <2>2 DEF PlayTables
<1>6. Kept(pb') = Kept(pb)
  BY <1>2, <1>3, <1>4, RowsAssumption DEF Kept
<1>7. \A j \in Kept(pb) : Like(pb'[j], pb[j]) /\ Evening(pb'[j]) = Evening(pb[j])
  BY <1>3, <1>4 DEF Like, Evening, Kept
<1>8. CopiesAgree(All(pb') \cup Range(file), here, renamed) /\ OnceIn(pb') /\ OwnOnceIn(pb', renamed)
  BY <1>0, <1>5, <1>6, <1>7, LessActive
<1>9. ActiveIn(pb', following')
  BY <1>0, <1>1, <1>2, <1>3, <1>4, <1>6 DEF ActiveIn
<1>10. PlaysStay
  BY <1>6, <1>7, KeptThen DEF PlaysStay
<1>11. following' \subseteq Slots /\ deeds' \in 0 .. MaxDeeds
  BY <1>0, <1>1 DEF HistoryTypeOK
<1> QED
  BY <1>1, <1>5, <1>8, <1>9, <1>10, <1>11, TableStep

LEMMA ForgetStep ==
  ASSUME HistoryInv, NEW i \in Slots, Forget(i)
  PROVE  HistoryInv'
<1>0. /\ pb \in PlayTables /\ HistoryTypeOK /\ ActiveIn(pb, following) /\ OnceIn(pb) /\ OwnOnceIn(pb, renamed)
      /\ CopiesAgree(All(pb) \cup Range(file), here, renamed)
  BY HistoryInvMeans DEF HistoryInv, PlaysAgree
<1>1. /\ i \in Kept(pb) /\ ~pb[i].active /\ pb' = [pb EXCEPT ![i] = NoPlayRow] /\ Deed
      /\ UNCHANGED <<here, following, file, renamed>>
  BY DEF Forget
<1>2. pb' \in PlayTables /\ \A j \in Slots : pb'[j] = IF j = i THEN NoPlayRow ELSE pb[j]
  BY <1>0, <1>1 DEF PlayTables
<1>3. Kept(pb') = Kept(pb) \ {i}
  BY <1>2 DEF Kept
<1>4. \A j \in Kept(pb') : pb'[j] = pb[j] /\ Like(pb'[j], pb[j])
  BY <1>2 DEF Like, Kept
<1>5. CopiesAgree(All(pb') \cup Range(file), here, renamed) /\ OnceIn(pb') /\ OwnOnceIn(pb', renamed)
  BY <1>0, <1>2, <1>3, <1>4, LessActive
<1>6. ActiveIn(pb', following')
  BY <1>0, <1>1, <1>3, <1>4 DEF ActiveIn
<1>7. following' \subseteq Slots /\ deeds' \in 0 .. MaxDeeds
  BY <1>0, <1>1, OneMoreDeed DEF HistoryTypeOK
<1> QED
  BY <1>1, <1>2, <1>5, <1>6, <1>7, TableStep

LEMMA LinkStep ==
  ASSUME HistoryInv, Link
  PROVE  HistoryInv' /\ PlaysStay
<1>0. /\ pb \in PlayTables /\ HistoryTypeOK /\ ActiveIn(pb, following) /\ OnceIn(pb) /\ OwnOnceIn(pb, renamed)
      /\ CopiesAgree(All(pb) \cup Range(file), here, renamed)
  BY HistoryInvMeans DEF HistoryInv, PlaysAgree
<1>1. pb' = Relinked(pb, here) /\ UNCHANGED <<here, following, file, renamed, deeds>>
  BY DEF Link
<1>2. here \in SUBSET Films /\ following' \subseteq Slots /\ deeds' \in 0 .. MaxDeeds
  BY <1>0, <1>1 DEF HistoryTypeOK
<1> DEFINE F == Range(file)
<1>3. CopiesAgree(All(pb) \cup F, here, renamed)
  BY <1>0
<1> HIDE DEF F
<1>4. /\ pb' \in PlayTables /\ CopiesAgree(All(pb') \cup F, here, renamed)
      /\ ActiveIn(pb', following) /\ OnceIn(pb') /\ OwnOnceIn(pb', renamed)
      /\ Kept(pb') = Kept(pb) /\ \A i \in Kept(pb) : Evening(pb'[i]) = Evening(pb[i])
  BY <1>0, <1>1, <1>2, <1>3, RelinkKeeps
<1>5. PlaysStay
  BY <1>4, KeptThen DEF PlaysStay
<1> QED
  BY <1>1, <1>2, <1>4, <1>5, TableStep DEF F

LEMMA ExportStep ==
  ASSUME HistoryInv, Export
  PROVE  HistoryInv' /\ PlaysStay
<1>0. /\ pb \in PlayTables /\ HistoryTypeOK /\ ActiveIn(pb, following) /\ OnceIn(pb) /\ OwnOnceIn(pb, renamed)
      /\ CopiesAgree(All(pb) \cup Range(file), here, renamed)
  BY HistoryInvMeans DEF HistoryInv, PlaysAgree
<1>1. file' = Rows(pb) /\ Deed /\ UNCHANGED <<here, pb, following, renamed>>
  BY DEF Export
<1>2. file' \in Seq(PlayRow) /\ Range(file') = All(pb)
  BY <1>0, <1>1, RowsAre
<1>3. HistoryTypeOK'
  BY <1>0, <1>1, <1>2, OneMoreDeed DEF HistoryTypeOK
<1>4. CopiesAgree(All(pb), here, renamed)
  BY <1>0 DEF CopiesAgree
<1>5. PlaysAgree'
  <2>1. Range(file)' = All(pb)
    BY <1>2 DEF Range
  <2>2. All(pb') \cup Range(file)' = All(pb)
    BY <1>1, <2>1
  <2> QED
    BY <1>1, <1>4, <2>2, KeptThen DEF PlaysAgree
<1>6. PlaysStay
  BY <1>1, KeptThen DEF PlaysStay
<1> QED
  BY <1>0, <1>1, <1>3, <1>5, <1>6, HistoryOwes

(* Rows with one id of Jellystat's tell of one evening. *)
LEMMA OneEvening ==
  ASSUME NEW r, NEW q, KnownRow(r), KnownRow(q), r.source_id = q.source_id
  PROVE  Evening(r) = Evening(q)
<1>1. PICK n \in 1 .. Len(Jellystat) :
        FirstOfSource(n) /\ Jellystat[n].source_id = r.source_id /\ Evening(r) = Evening(Jellystat[n])
  BY DEF KnownRow
<1>2. PICK m \in 1 .. Len(Jellystat) :
        FirstOfSource(m) /\ Jellystat[m].source_id = q.source_id /\ Evening(q) = Evening(Jellystat[m])
  BY DEF KnownRow
<1>3. n = m
  <2>1. ~(n < m)
    <3>1. n < m => n \in 1 .. (m - 1)
      OBVIOUS
    <3> QED
      BY <1>1, <1>2, <3>1 DEF FirstOfSource
  <2>2. ~(m < n)
    <3>1. m < n => m \in 1 .. (n - 1)
      OBVIOUS
    <3> QED
      BY <1>1, <1>2, <3>1 DEF FirstOfSource
  <2> QED
    BY <2>1, <2>2
<1> QED
  BY <1>1, <1>2, <1>3

LEMMA RestoreStep ==
  ASSUME HistoryInv, Restore
  PROVE  HistoryInv' /\ PlaysStay /\ Evenings(Range(file)) \subseteq Evenings(All(pb'))
<1> DEFINE t == Merged(pb, file)
           F == Range(file)
<1>0. /\ pb \in PlayTables /\ F \in SUBSET PlayRow /\ HistoryTypeOK /\ ActiveIn(pb, following) /\ OnceIn(pb)
      /\ OwnOnceIn(pb, renamed) /\ CopiesAgree(All(pb) \cup F, here, renamed)
  BY HistoryInvMeans DEF HistoryInv, PlaysAgree
<1>1. Fits(pb, Len(file)) /\ pb' = Relinked(t, here) /\ Deed /\ UNCHANGED <<here, following, file, renamed>>
  BY DEF Restore
<1>2. file \in Seq(PlayRow) /\ here \in SUBSET Films /\ following' \subseteq Slots /\ deeds' \in 0 .. MaxDeeds
  BY <1>0, <1>1, OneMoreDeed DEF HistoryTypeOK
<1>3. Grown(pb, t, file, Len(file))
  BY <1>0, <1>1, <1>2, MergedGrows
<1>4. \A k \in 1 .. Len(file) : file[k] \in F
  BY <1>2 DEF Range
<1>5. DOMAIN file = 1 .. Len(file)
  BY <1>2
<1>6. \A r \in F : \E k \in 1 .. Len(file) : r = file[k]
  BY <1>5 DEF Range
<1> HIDE DEF t, F
<1>7. /\ t \in PlayTables /\ CopiesAgree(All(t) \cup F, here, renamed)
      /\ ActiveIn(t, following) /\ OnceIn(t) /\ OwnOnceIn(t, renamed)
      /\ \A i \in Kept(pb) : i \in Kept(t) /\ t[i] = pb[i]
  BY <1>0, <1>2, <1>3, <1>4, GrowthKeeps
<1>8. /\ pb' \in PlayTables /\ CopiesAgree(All(pb') \cup F, here, renamed)
      /\ ActiveIn(pb', following) /\ OnceIn(pb') /\ OwnOnceIn(pb', renamed)
      /\ Kept(pb') = Kept(t) /\ \A i \in Kept(t) : Evening(pb'[i]) = Evening(t[i])
  BY <1>1, <1>2, <1>7, RelinkKeeps
<1>9. HistoryInv'
  BY <1>1, <1>2, <1>8, TableStep DEF F
<1>10. PlaysStay
  BY <1>7, <1>8, KeptThen DEF PlaysStay
<1>11. ASSUME NEW r \in F
       PROVE  \E i \in Kept(pb') : Evening(pb'[i]) = Evening(r)
  <2>1. PICK k \in 1 .. Len(file) : r = file[k]
    BY <1>6
  <2>2. Present(t, r)
    BY <1>3, <2>1 DEF Grown
  <2>3. PICK i \in Kept(t) : IF r.source_id # NoSource THEN t[i].source_id = r.source_id
                             ELSE t[i].user = r.user /\ t[i].item = r.item /\ t[i].start = r.start
    BY <2>2 DEF Present
  <2>4. Evening(t[i]) = Evening(r)
    <3>1. CASE r.source_id = NoSource
      BY <2>3, <3>1 DEF Evening
    <3>2. CASE r.source_id # NoSource
      <4>1. t[i] \in All(t) \cup F /\ r \in All(t) \cup F
        BY DEF All
      <4>2. KnownRow(t[i]) /\ KnownRow(r)
        BY <1>7, <2>3, <3>2, <4>1 DEF CopiesAgree
      <4> QED
        BY <2>3, <3>2, <4>2, OneEvening
    <3> QED
      BY <3>1, <3>2
  <2> QED
    BY <1>8, <2>4
<1>12. Evenings(F) \subseteq Evenings(All(pb'))
  BY <1>11 DEF Evenings, All
<1> QED
  BY <1>9, <1>10, <1>12 DEF F

LEMMA ImportStep ==
  ASSUME HistoryInv, Import
  PROVE  HistoryInv' /\ PlaysStay
<1> DEFINE t == Imported(pb, Jellystat)
           F == Range(file)
<1>0. /\ pb \in PlayTables /\ F \in SUBSET PlayRow /\ HistoryTypeOK /\ ActiveIn(pb, following) /\ OnceIn(pb)
      /\ OwnOnceIn(pb, renamed) /\ CopiesAgree(All(pb) \cup F, here, renamed)
  BY HistoryInvMeans DEF HistoryInv, PlaysAgree
<1>1. Fits(pb, Len(Jellystat)) /\ pb' = Relinked(t, here) /\ Deed /\ UNCHANGED <<here, following, file, renamed>>
  BY DEF Import
<1>2. here \in SUBSET Films /\ following' \subseteq Slots /\ deeds' \in 0 .. MaxDeeds
  BY <1>0, <1>1, OneMoreDeed DEF HistoryTypeOK
<1>3. Grown(pb, t, Jellystat, Len(Jellystat))
  BY <1>0, <1>1, ImportedGrows
<1>4. Jellystat \in Seq(PlayRow) /\ \A k \in 1 .. Len(Jellystat) : Jellystat[k].source_id # NoSource
  <2>1. Jellystat \in Seq({r \in PlayRow : ~r.active /\ r.source_id # NoSource})
    BY RowsAssumption
  <2> QED
    BY <2>1
<1>5. ASSUME NEW k \in 1 .. Len(Jellystat),
             \A k0 \in 1 .. (k - 1) : Jellystat[k0].source_id # Jellystat[k].source_id
      PROVE  KnownRow(Jellystat[k])
  BY <1>5 DEF KnownRow, FirstOfSource
<1> HIDE DEF t, F
<1>7. /\ t \in PlayTables /\ CopiesAgree(All(t) \cup F, here, renamed)
      /\ ActiveIn(t, following) /\ OnceIn(t) /\ OwnOnceIn(t, renamed)
      /\ \A i \in Kept(pb) : i \in Kept(t) /\ t[i] = pb[i]
  <2> DEFINE rows == Jellystat
  <2>1. /\ rows \in Seq(PlayRow) /\ Grown(pb, t, rows, Len(rows))
        /\ \A k \in 1 .. Len(rows) :
             /\ rows[k].source_id # NoSource
             /\ (\A k0 \in 1 .. (k - 1) : rows[k0].source_id # rows[k].source_id) => KnownRow(rows[k])
    BY <1>3, <1>4, <1>5
  <2> HIDE DEF rows
  <2> QED
    BY <1>0, <2>1, GrowthKeeps
<1>8. /\ pb' \in PlayTables /\ CopiesAgree(All(pb') \cup F, here, renamed)
      /\ ActiveIn(pb', following) /\ OnceIn(pb') /\ OwnOnceIn(pb', renamed)
      /\ Kept(pb') = Kept(t) /\ \A i \in Kept(t) : Evening(pb'[i]) = Evening(t[i])
  BY <1>1, <1>2, <1>7, RelinkKeeps
<1>9. HistoryInv'
  BY <1>1, <1>2, <1>8, TableStep DEF F
<1>10. PlaysStay
  BY <1>7, <1>8, KeptThen DEF PlaysStay
<1> QED
  BY <1>9, <1>10

LEMMA StartAgainStep ==
  ASSUME HistoryInv, StartAgain
  PROVE  HistoryInv' /\ PlaysStay
<1> DEFINE t == [i \in Slots |-> IF i \in Kept(pb) THEN [pb[i] EXCEPT !.active = FALSE] ELSE pb[i]]
           F == Range(file)
<1>0. /\ pb \in PlayTables /\ HistoryTypeOK /\ OnceIn(pb)
      /\ OwnOnceIn(pb, renamed) /\ CopiesAgree(All(pb) \cup F, here, renamed)
  BY HistoryInvMeans DEF HistoryInv, PlaysAgree
<1>1. pb' = Relinked(t, here) /\ following' = {} /\ Deed /\ UNCHANGED <<here, file, renamed>>
  BY DEF StartAgain
<1>2. here \in SUBSET Films /\ following' \subseteq Slots /\ deeds' \in 0 .. MaxDeeds
  BY <1>0, <1>1, OneMoreDeed DEF HistoryTypeOK
<1>3. ASSUME NEW i \in Kept(pb)
      PROVE  t[i] \in PlayRow /\ ~t[i].active /\ Like(t[i], pb[i])
  <2>1. i \in Slots /\ pb[i] \in PlayRow
    BY <1>0, KeptAre
  <2>2. t[i] = [pb[i] EXCEPT !.active = FALSE]
    BY <2>1
  <2> HIDE DEF t
  <2> QED
    BY <2>1, <2>2 DEF PlayRow, Like
<1>4. \A i \in Slots : i \notin Kept(pb) => t[i] = NoPlayRow
  BY DEF Kept
<1>5. t = [i \in Slots |-> t[i]]
  OBVIOUS
<1> HIDE DEF t, F
<1>6. t \in PlayTables
  <2>1. \A i \in Slots : t[i] \in PlayRow \cup {NoPlayRow}
    BY <1>3, <1>4
  <2> QED
    BY <1>5, <2>1 DEF PlayTables
<1>7. Kept(t) = Kept(pb)
  <2>1. \A i \in Slots : t[i] # NoPlayRow <=> i \in Kept(pb)
    BY <1>3, <1>4, RowsAssumption
  <2>2. Kept(t) = {i \in Slots : i \in Kept(pb)}
    BY <2>1 DEF Kept
  <2>3. Kept(pb) \subseteq Slots
    BY DEF Kept
  <2> QED
    BY <2>2, <2>3
<1>8. \A i \in Kept(t) : Like(t[i], pb[i]) /\ Evening(t[i]) = Evening(pb[i])
  BY <1>3, <1>7 DEF Like, Evening
<1>9. CopiesAgree(All(t) \cup F, here, renamed) /\ OnceIn(t) /\ OwnOnceIn(t, renamed)
  BY <1>0, <1>6, <1>7, <1>8, LessActive
<1>10. ActiveIn(t, {})
  BY <1>3, <1>7 DEF ActiveIn
<1>11. /\ pb' \in PlayTables /\ CopiesAgree(All(pb') \cup F, here, renamed)
       /\ ActiveIn(pb', {}) /\ OnceIn(pb') /\ OwnOnceIn(pb', renamed)
       /\ Kept(pb') = Kept(t) /\ \A i \in Kept(t) : Evening(pb'[i]) = Evening(t[i])
  BY <1>1, <1>2, <1>6, <1>9, <1>10, RelinkKeeps
<1>12. HistoryInv'
  BY <1>1, <1>2, <1>11, TableStep DEF F
<1>13. PlaysStay
  BY <1>7, <1>8, <1>11, KeptThen DEF PlaysStay
<1> QED
  BY <1>12, <1>13

LEMMA HistoryStep ==
  ASSUME HistoryInv, [HistoryNext]_historyVars
  PROVE  /\ HistoryInv'
         /\ PlaysStay \/ \E i \in Slots : Forget(i)
         /\ Restore => Evenings(Range(file)) \subseteq Evenings(All(pb'))
<1>0. Restore => Evenings(Range(file)) \subseteq Evenings(All(pb'))
  BY RestoreStep
<1>1. CASE UNCHANGED historyVars
  <2>1. HistoryInv'
    <3>1. here' = here /\ pb' = pb /\ following' = following /\ file' = file /\ renamed' = renamed /\ deeds' = deeds
      BY <1>1 DEF historyVars
    <3>2. HistoryTypeOK'
      BY <3>1 DEF HistoryInv, HistoryTypeOK
    <3>3. PlaysAgree'
      BY <3>1 DEF HistoryInv, PlaysAgree, All, Kept, Range
    <3>4. ActiveWhileFollowed'
      BY <3>1 DEF HistoryInv, ActiveWhileFollowed, Kept
    <3>5. EachPlayOnce'
      BY <3>1 DEF HistoryInv, EachPlayOnce, ImportedOnce, RecordedOnce, Kept, Evening
    <3> QED
      BY <3>2, <3>3, <3>4, <3>5 DEF HistoryInv
  <2>2. PlaysStay
    BY <1>1, KeptThen DEF historyVars, PlaysStay
  <2> QED
    BY <1>0, <2>1, <2>2
<1>2. CASE \E v \in Viewers, f \in Films, s \in Starts : BeginPlay(v, f, s)
  BY <1>0, <1>2, BeginPlayStep
<1>3. CASE \E i \in Slots : EndPlay(i)
  BY <1>0, <1>3, EndPlayStep
<1>4. CASE \E i \in Slots : Forget(i)
  BY <1>0, <1>4, ForgetStep
<1>5. CASE \E v, w \in Films : Rename(v, w)
  BY <1>0, <1>5, RenameStep
<1>6. CASE \E v \in Films : Appear(v)
  BY <1>0, <1>6, AppearStep
<1>7. CASE Link
  BY <1>0, <1>7, LinkStep
<1>8. CASE Export
  BY <1>0, <1>8, ExportStep
<1>9. CASE Restore
  BY <1>0, <1>9, RestoreStep
<1>10. CASE Import
  BY <1>0, <1>10, ImportStep
<1>11. CASE StartAgain
  BY <1>0, <1>11, StartAgainStep
<1> QED
  BY <1>1, <1>2, <1>3, <1>4, <1>5, <1>6, <1>7, <1>8, <1>9, <1>10, <1>11 DEF HistoryNext

(* Through plays, renames, exports, restores, imports, deletions and starts  *)
(* in any order, any two copies of a play agree on what it was, in the       *)
(* table or in the backup.                                                   *)
THEOREM HistoryInvariant == HistorySpec => []HistoryInv
BY HistoryStart, HistoryStep, PTL DEF HistorySpec

(* No play is in the table twice, however often backups are restored and     *)
(* Jellystat is imported, and whatever its item is called by then.           *)
THEOREM PlaysAreThereOnce == HistorySpec => []EachPlayOnce
<1>1. HistoryInv => EachPlayOnce
  BY DEF HistoryInv
<1> QED
  BY HistoryInvariant, <1>1, PTL

(* A row is active while the collector follows it and only then: no restore, *)
(* import or link makes a play run, and no start leaves one running.         *)
THEOREM ActiveMeansFollowed == HistorySpec => []ActiveWhileFollowed
<1>1. HistoryInv => ActiveWhileFollowed
  BY DEF HistoryInv
<1> QED
  BY HistoryInvariant, <1>1, PTL

(* Only deleting a play takes an evening out of the table, and after a       *)
(* restore every evening of the backup is in it, for any items, titles,      *)
(* backups and Jellystat rows.                                               *)
THEOREM NoEveningIsLost == HistorySpec => NothingIsLost
<1> DEFINE Keeps == /\ Evenings(All(pb)) \ Evenings(All(pb')) # {} => \E i \in Slots : Forget(i)
                    /\ Restore => Evenings(Range(file)) \subseteq Evenings(All(pb'))
<1>1. ASSUME HistoryInv, [HistoryNext]_historyVars
      PROVE  Keeps
  <2>1. CASE PlaysStay
    <3>1. Evenings(All(pb)) \subseteq Evenings(All(pb'))
      BY <2>1, KeptThen DEF PlaysStay, Evenings, All
    <3> QED
      BY <1>1, <3>1, HistoryStep
  <2> QED
    BY <1>1, <2>1, HistoryStep
<1> QED
  BY HistoryInvariant, <1>1, PTL DEF HistorySpec, NothingIsLost

(***************************************************************************)
(* The server                                                              *)
(***************************************************************************)

LEMMA PartsBegin ==
  ServerInit => Init /\ AccessInit /\ HistoryInit /\ ConnectionsInit /\ ScheduleInit /\ DownloadsInit
BY DEF ServerInit

LEMMA PartsStep ==
  ASSUME [ServerNext]_serverVars
  PROVE  /\ [Next]_vars /\ [AccessNext]_accessVars /\ [HistoryNext]_historyVars /\ [ConnectionsNext]_connVars
         /\ [ScheduleNext]_scheduleVars /\ [DownloadsNext]_downloadsVars
BY DEF ServerNext, serverVars

(* A behaviour of the server is, of each part, a behaviour of that part:     *)
(* what is proved of the parts holds of it.                                  *)
LEMMA EachPartIsItself ==
  ServerSpec => Spec /\ AccessSpec /\ HistorySpec /\ ConnectionsSpec /\ ScheduleSpec /\ DownloadsSpec
BY PartsBegin, PartsStep, PTL DEF ServerSpec, Spec, AccessSpec, HistorySpec, ConnectionsSpec, ScheduleSpec, DownloadsSpec

(* What is known of the other services is what they have said: the requests  *)
(* of Seerr, when a listing has room for them, and the queues of Sonarr and  *)
(* Radarr.                                                                   *)
THEOREM ServicesTellTheTruth ==
  ASSUME RoomForAll
  PROVE  ServerSpec => []ServicesAreTrue
<1>1. NothingOverlooked /\ RowsOfTheInstance /\ QueueIsTrue => ServicesAreTrue
  BY DEF ServicesAreTrue, RequestsAreTrue
<1> QED
  BY EachPartIsItself, NothingIsOverlooked, RowsComeFromTheInstance, TheQueueIsTrue, <1>1, PTL

(* Every part keeps to the types of its state. *)
THEOREM ServerTypesHold == ServerSpec => []ServerTypeOK
<1>1. IInv => TypeOK
  BY DEF IInv
<1>2. AccessInv => AccessTypeOK
  BY DEF AccessInv
<1>3. HistoryInv => HistoryTypeOK
  BY DEF HistoryInv
<1>4. ReadInv => ConnectionsTypeOK
  BY ConnFitsIsEnough DEF ReadInv
<1>5. ScheduleInv => ScheduleTypeOK
  BY DEF ScheduleInv
<1>6. DownloadsInv => DownloadsTypeOK
  BY DEF DownloadsInv
<1>7. DownloadsSpec => []DownloadsInv
  BY DownloadsStart, DownloadsStep, PTL DEF DownloadsSpec
<1> QED
  BY EachPartIsItself, BudgetInvariant, AccessInvariant, HistoryInvariant, ConnectionsInvariant, ScheduleInvariant,
     <1>1, <1>2, <1>3, <1>4, <1>5, <1>6, <1>7, PTL DEF ServerTypeOK
=============================================================================
