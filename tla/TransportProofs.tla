--------------------------- MODULE TransportProofs --------------------------
(* Proofs about Transport, for every value of its constants.                *)
EXTENDS Transport, SequenceTheorems, TLAPS

(* What the types do not say of the list in hand, and of the changes left. *)
InHand ==
  /\ pc = "apply" => got \in List
  /\ phase = "checking" => holding \in List
  /\ now.ver + left.changes <= MaxChanges

(* A connection that has shown what it is worth. *)
Carrying == phase \in {"open", "checking"} /\ (proven \/ unproven)

(* The word of a connection is followed by its Down, or the connection is   *)
(* there still, or its Down is about to be told.                            *)
WordsAreKept ==
  \A i \in DOMAIN chan :
    chan[i].kind \in {"snapshot", "trusted"} =>
      \/ \E j \in DOMAIN chan : i < j /\ chan[j].kind = "down"
      \/ phase = "telling" \/ Carrying

(* The loop chooses to listen only when it subscribes as well. *)
ListensWhereItAsks == mode = "listen" => seen.state # "playing" /\ ~Settling(paused)

TransportInv == TypeOK /\ InHand /\ BelievedIsCarrying /\ WordsAreKept /\ ListensWhereItAsks /\ ListeningIsAsking

-----------------------------------------------------------------------------
(* What is put at the end of the channel, and taken from its head. *)

LEMMA AtTheEnd ==
  ASSUME chan \in Seq(Events), NEW e \in Events, chan' = Append(chan, e)
  PROVE  /\ chan' \in Seq(Events) /\ Len(chan') = Len(chan) + 1
         /\ \A i \in DOMAIN chan : i \in DOMAIN chan' /\ i < Len(chan') /\ chan'[i] = chan[i]
         /\ \A i \in DOMAIN chan' : i \in DOMAIN chan \/ i = Len(chan')
         /\ Len(chan') \in DOMAIN chan' /\ chan'[Len(chan')] = e
  BY AppendProperties

LEMMA FromTheHead ==
  ASSUME chan \in Seq(Events), chan # <<>>, chan' = Tail(chan)
  PROVE  /\ chan' \in Seq(Events) /\ Len(chan') < Len(chan) /\ Head(chan) \in Events
         /\ 1 \in DOMAIN chan /\ Head(chan) = chan[1]
         /\ \A i \in DOMAIN chan' : i + 1 \in DOMAIN chan /\ chan'[i] = chan[i + 1]
         /\ \A i \in DOMAIN chan : i # 1 => i - 1 \in DOMAIN chan' /\ chan'[i - 1] = chan[i]
  BY HeadTailProperties

LEMMA Words ==
  /\ \A l \in List : [kind |-> "snapshot", list |-> l] \in Events
  /\ \A k \in {"trusted", "alive", "down"} : [kind |-> k, list |-> Nothing] \in Events
  /\ \A e \in Events : e.kind = "snapshot" => e.list \in List
  BY DEF Events

-----------------------------------------------------------------------------
(* What is spent of a budget is one of what was left. *)
LEMMA Spent ==
  ASSUME left \in Budget
  PROVE  /\ Spend("changes") => left' \in Budget /\ left'.changes = left.changes - 1 /\ left.changes > 0
         /\ \A b \in {"drops", "lost", "outages"} : Spend(b) => left' \in Budget /\ left'.changes = left.changes
<1> USE TransportAssumption DEF Budget, Spend
<1>1. Spend("changes") => left' \in Budget /\ left'.changes = left.changes - 1 /\ left.changes > 0
  OBVIOUS
<1>2. Spend("drops") => left' \in Budget /\ left'.changes = left.changes
  OBVIOUS
<1>3. Spend("lost") => left' \in Budget /\ left'.changes = left.changes
  OBVIOUS
<1>4. Spend("outages") => left' \in Budget /\ left'.changes = left.changes
  OBVIOUS
<1> QED
  BY <1>1, <1>2, <1>3, <1>4

(* Every step keeps the types. *)
LEMMA TypeStep == TypeOK /\ InHand /\ Next => TypeOK' /\ InHand'
<1> SUFFICES ASSUME TypeOK, InHand, Next PROVE TypeOK' /\ InHand'
  OBVIOUS
<1> USE TransportAssumption DEF TypeOK, InHand
<1>1. CASE Change
  <2>1. now' \in List /\ now'.ver = now.ver + 1
    BY <1>1, Spent DEF Change, List, Budget
  <2> QED
    BY <1>1, <2>1, Spent DEF Change, socket, loop, List, Budget
<1>2. CASE Outage
  <2>1. up' \in BOOLEAN /\ left' \in Budget /\ left'.changes = left.changes
    BY <1>2, Spent DEF Outage
  <2>2. UNCHANGED <<now, carries, pushed, frames, socket, want, chan, loop>>
    BY <1>2 DEF Outage
  <2> QED
    BY <2>1, <2>2 DEF socket, loop
<1>3. CASE Recover
  BY <1>3 DEF Recover, socket, loop
<1>4. CASE Drop
  <2>1. carries' \in BOOLEAN /\ left' \in Budget /\ left'.changes = left.changes /\ frames' = <<>>
    BY <1>4, Spent DEF Drop
  <2>2. UNCHANGED <<up, now, pushed, socket, want, chan, loop>>
    BY <1>4 DEF Drop
  <2> QED
    BY <2>1, <2>2 DEF socket, loop
<1>5. CASE Push
  BY <1>5 DEF Push, MayPush, socket, loop, List
<1>6. CASE LosePush
  BY <1>6, Spent DEF LosePush, MayPush, socket, loop, List
<1>7. CASE Connect
  <2>1. now.ver \in Nat
    BY DEF List
  <2>2. frames' \in {<<>>, <<now>>} /\ pushed' \in Nat \cup {Nothing}
    BY <1>7, <2>1 DEF Connect, Subscribed
  <2>3. <<now>> \in Seq(List) /\ Len(<<now>>) <= MaxFrames /\ <<>> \in Seq(List) /\ Len(<<>>) <= MaxFrames
    OBVIOUS
  <2>4. frames' \in Seq(List) /\ Len(frames') <= MaxFrames
    BY <2>2, <2>3
  <2>5. carries' \in BOOLEAN /\ listening' \in BOOLEAN /\ phase' = "open"
    BY <1>7 DEF Connect
  <2>6. checked' \in BOOLEAN /\ proven' \in BOOLEAN /\ unproven' \in BOOLEAN /\ heard' \in BOOLEAN
    BY <1>7 DEF Connect
  <2>7. UNCHANGED <<up, now, left, holding, want, chan, loop>>
    BY <1>7 DEF Connect
  <2> QED
    BY <2>2, <2>4, <2>5, <2>6, <2>7 DEF loop
<1>8. CASE ConnectFails
  BY <1>8 DEF ConnectFails, server, loop
<1>9. CASE HearList
  <2>1. Head(frames) \in List /\ Tail(frames) \in Seq(List) /\ Len(Tail(frames)) <= MaxFrames
    BY <1>9, HeadTailProperties DEF HearList
  <2>2. frames' = Tail(frames) /\ heard' \in BOOLEAN /\ checked' \in BOOLEAN
        /\ UNCHANGED <<up, now, carries, pushed, left, listening, want, loop>>
    BY <1>9 DEF HearList
  <2>3. CASE checked
    <3>0. HandOn(Head(frames))
      BY <1>9, <2>3 DEF HearList
    <3>1. chan' \in Seq(Events) /\ Len(chan') <= Queue
      BY Words, <2>1, <3>0 DEF HandOn, TrySend, Room
    <3>2. proven' \in BOOLEAN /\ unproven' \in BOOLEAN
      BY <1>9, <2>3 DEF HearList, HandOn
    <3>3. phase' = phase /\ holding' = holding
      BY <1>9, <2>3 DEF HearList
    <3> QED
      BY <2>1, <2>2, <3>1, <3>2, <3>3 DEF loop
  <2>4. CASE ~checked
    BY <1>9, <2>1, <2>4 DEF HearList, loop
  <2> QED
    BY <2>3, <2>4
<1>10. CASE CheckPasses
  BY Words, <1>10 DEF CheckPasses, HandOn, TrySend, Room, server, loop
<1>11. CASE CheckFails
  <2>1. left' \in Budget /\ left'.changes = left.changes
    BY <1>11, Spent DEF CheckFails
  <2>2. phase' = "telling" /\ holding' = Nothing /\ carries' \in BOOLEAN /\ frames' = <<>>
        /\ UNCHANGED <<up, now, pushed, listening, checked, proven, unproven, heard, want, chan, loop>>
    BY <1>11 DEF CheckFails
  <2> QED
    BY <2>1, <2>2 DEF loop
<1>12. CASE HearAlive
  BY Words, <1>12 DEF HearAlive, TrySend, Room, server, loop
<1>13. CASE Follow
  BY <1>13 DEF Follow, Subscribed, loop, List
<1>14. CASE Trust
  BY Words, <1>14 DEF Trust, TrySend, Room, server, loop
<1>15. CASE Probe
  BY <1>15 DEF Probe, Subscribed, socket, loop, List
<1>16. CASE Break
  BY <1>16 DEF Break, server, loop
<1>17. CASE TellDown
  BY Words, <1>17 DEF TellDown, Room, server, loop
<1>18. CASE Top
  BY <1>18 DEF Top, server, socket, Subscribe
<1>19. CASE Answer
  BY <1>19 DEF Answer, server, socket
<1>20. CASE Apply
  <2>1. got.state \in States /\ got \in List
    BY <1>20 DEF Apply, List
  <2>2. paused' \in 0..Debounce
    BY <1>20, <2>1 DEF Apply, Count, Upto
  <2>3. mode' \in {"poll", "listen"}
    BY <1>20 DEF Apply, Sees
  <2>4. failures' \in 0..(DownAfter + 1) /\ inrow' \in 0..(DownAfter + 1)
    BY <1>20 DEF Apply
  <2>5. want' \in BOOLEAN
    <3>1. want' = Subscribe(got.state, paused') \/ want' = want
      BY <1>20 DEF Apply
    <3>2. Subscribe(got.state, paused') \in BOOLEAN
      BY DEF Subscribe
    <3> QED
      BY <3>1, <3>2
  <2>6. pc' \in {"top", "sleep"} /\ seen' \in List /\ got' = Nothing /\ told' \in BOOLEAN
    BY <1>20, <2>1 DEF Apply, Rest
  <2>7. UNCHANGED <<server, socket, chan, src, onSocket, live, pending>>
    BY <1>20 DEF Apply
  <2> QED
    BY <2>2, <2>3, <2>4, <2>5, <2>6, <2>7 DEF server, socket
<1>21. CASE Fail
  BY <1>21 DEF Fail, server, socket, Upto, Rest
<1>22. CASE ListenSnapshot
  BY FromTheHead, Words, <1>22 DEF ListenSnapshot, Recv, server, socket
<1>23. CASE ListenOther
  <2>1. chan' \in Seq(Events) /\ Len(chan') <= Queue
    BY FromTheHead, <1>23 DEF ListenOther, Recv, Lost
  <2>2. live' \in BOOLEAN
    BY <1>23 DEF ListenOther, Lost
  <2> QED
    BY <1>23, <2>1, <2>2 DEF ListenOther, Recv, Lost, server, socket
<1>24. CASE Safety
  BY <1>24 DEF Safety, server, socket
<1>25. CASE Wake
  BY <1>25 DEF Wake, server, socket
<1>26. CASE SleepRecv
  <2>1. chan' \in Seq(Events) /\ Len(chan') <= Queue
    BY FromTheHead, <1>26 DEF SleepRecv, Recv, Lost
  <2>2. live' \in BOOLEAN
    BY <1>26 DEF SleepRecv, Lost
  <2>3. pending' \in List \cup {Nothing}
    <3>1. CASE Recv("snapshot") /\ pending' = Head(chan).list
      BY FromTheHead, Words, <3>1 DEF Recv
    <3>2. CASE UNCHANGED pending
      BY <3>2
    <3> QED
      BY <1>26, <3>1, <3>2 DEF SleepRecv
  <2> QED
    BY <1>26, <2>1, <2>2, <2>3 DEF SleepRecv, Recv, Lost, server, socket
<1> QED
  BY <1>1, <1>2, <1>3, <1>4, <1>5, <1>6, <1>7, <1>8, <1>9, <1>10, <1>11, <1>12, <1>13, <1>14, <1>15, <1>16, <1>17, <1>18, <1>19, <1>20, <1>21, <1>22, <1>23, <1>24, <1>25, <1>26 DEF Next, Jellyfin, Socket, Loop

-----------------------------------------------------------------------------
(* What the loop believes *)

(* Taking the oldest event leaves every other word with its Down. *)
LEMMA WordsAfter ==
  ASSUME TypeOK, WordsAreKept, chan # <<>>, chan' = Tail(chan), UNCHANGED <<phase, proven, unproven>>
  PROVE  WordsAreKept'
<1> USE DEF TypeOK
<1> SUFFICES ASSUME NEW i \in DOMAIN chan', chan'[i].kind \in {"snapshot", "trusted"}
             PROVE  \/ \E j \in DOMAIN chan' : i < j /\ chan'[j].kind = "down"
                    \/ phase' = "telling" \/ Carrying'
  BY DEF WordsAreKept
<1>1. i + 1 \in DOMAIN chan /\ chan[i + 1] = chan'[i] /\ i \in Nat
  BY FromTheHead
<1>2. CASE \E j \in DOMAIN chan : i + 1 < j /\ chan[j].kind = "down"
  <2>1. PICK j \in DOMAIN chan : i + 1 < j /\ chan[j].kind = "down"
    BY <1>2
  <2>2. j - 1 \in DOMAIN chan' /\ chan'[j - 1] = chan[j] /\ i < j - 1
    BY <1>1, <2>1, FromTheHead
  <2> QED
    BY <2>1, <2>2
<1>3. CASE phase = "telling" \/ Carrying
  BY <1>3 DEF Carrying
<1> QED
  BY <1>1, <1>2, <1>3 DEF WordsAreKept

(* And a Down that is still to come, unless it is that one. *)
LEMMA DownStays ==
  ASSUME TypeOK, DownIsComing, chan # <<>>, chan' = Tail(chan), Head(chan).kind # "down", UNCHANGED phase
  PROVE  DownIsComing'
<1> USE DEF TypeOK
<1>1. CASE phase = "telling"
  BY <1>1 DEF DownIsComing
<1>2. CASE \E i \in DOMAIN chan : chan[i].kind = "down"
  <2>1. PICK i \in DOMAIN chan : chan[i].kind = "down"
    BY <1>2
  <2>2. i - 1 \in DOMAIN chan' /\ chan'[i - 1] = chan[i]
    BY <2>1, FromTheHead
  <2> QED
    BY <2>1, <2>2 DEF DownIsComing
<1> QED
  BY <1>1, <1>2 DEF DownIsComing

LEMMA BelievedStep == TypeOK /\ BelievedIsCarrying /\ WordsAreKept /\ Next => BelievedIsCarrying' /\ WordsAreKept'
<1> SUFFICES ASSUME TypeOK, BelievedIsCarrying, WordsAreKept, Next PROVE BelievedIsCarrying' /\ WordsAreKept'
  OBVIOUS
(* Nothing of it changes. *)
<1>1. ASSUME UNCHANGED <<chan, live, phase, proven, unproven>> PROVE BelievedIsCarrying' /\ WordsAreKept'
  BY <1>1 DEF BelievedIsCarrying, WordsAreKept, DownIsComing, Carrying
(* The connection has shown what it is worth, or its Down is about to be told. *)
<1>2. ASSUME Carrying' \/ phase' = "telling" PROVE BelievedIsCarrying' /\ WordsAreKept'
  BY <1>2 DEF BelievedIsCarrying, WordsAreKept, DownIsComing, Carrying
<1>3. CASE Jellyfin
  BY <1>1, <1>3 DEF Jellyfin, Change, Outage, Recover, Drop, Push, LosePush, socket, loop
<1>4. CASE Connect
  <2>1. phase = "off" /\ UNCHANGED <<chan, live>> /\ phase' = "open"
    BY <1>4 DEF Connect, loop
  <2> QED
    BY <2>1 DEF BelievedIsCarrying, WordsAreKept, DownIsComing, Carrying
<1>5. CASE ConnectFails \/ CheckFails \/ Break
  BY <1>2, <1>5 DEF ConnectFails, CheckFails, Break
<1>6. CASE HearList
  <2>1. CASE checked
    <3>1. HandOn(Head(frames)) /\ phase' = "open"
      BY <1>6, <2>1 DEF HearList
    <3> QED
      BY <1>2, <3>1 DEF HandOn, Carrying
  <2>2. CASE ~checked
    <3>1. phase = "open" /\ phase' = "checking" /\ UNCHANGED <<chan, live, proven, unproven>>
      BY <1>6, <2>2 DEF HearList, loop
    <3> QED
      BY <3>1 DEF BelievedIsCarrying, WordsAreKept, DownIsComing, Carrying
  <2> QED
    BY <2>1, <2>2 DEF TypeOK
<1>7. CASE CheckPasses
  BY <1>2, <1>7 DEF CheckPasses, HandOn, Carrying
<1>8. CASE HearAlive
  <2>1. UNCHANGED <<live, phase, proven, unproven>>
    BY <1>8 DEF HearAlive, loop
  <2>2. CASE chan' = chan
    BY <1>1, <2>1, <2>2
  <2>3. CASE chan' = Append(chan, [kind |-> "alive", list |-> Nothing])
    <3>1. /\ \A i \in DOMAIN chan : i \in DOMAIN chan' /\ chan'[i] = chan[i]
          /\ \A i \in DOMAIN chan' : i \in DOMAIN chan \/ chan'[i].kind = "alive"
      BY <2>3, AtTheEnd, Words DEF TypeOK
    <3>2. DownIsComing' <=> DownIsComing
      BY <2>1, <3>1 DEF DownIsComing
    <3>3. WordsAreKept'
      BY <2>1, <3>1 DEF WordsAreKept, Carrying
    <3> QED
      BY <2>1, <3>2, <3>3 DEF BelievedIsCarrying
  <2> QED
    BY <1>8, <2>2, <2>3 DEF HearAlive, TrySend
<1>9. CASE Follow \/ Probe
  BY <1>1, <1>9 DEF Follow, Probe, socket, loop
<1>10. CASE Trust
  BY <1>2, <1>10 DEF Trust, Carrying
<1>11. CASE TellDown
  <2>1. chan' = Append(chan, [kind |-> "down", list |-> Nothing])
    BY <1>11 DEF TellDown
  <2>2. /\ \A i \in DOMAIN chan : i < Len(chan') /\ chan'[i] = chan[i]
        /\ \A i \in DOMAIN chan' : i \in DOMAIN chan \/ i = Len(chan')
        /\ Len(chan') \in DOMAIN chan' /\ chan'[Len(chan')].kind = "down"
    BY <2>1, AtTheEnd, Words DEF TypeOK
  <2> QED
    BY <2>2 DEF BelievedIsCarrying, WordsAreKept, DownIsComing
<1>12. CASE Top \/ Answer \/ Apply \/ Fail \/ Safety \/ Wake
  BY <1>1, <1>12 DEF Top, Answer, Apply, Fail, Safety, Wake, socket
<1>13. CASE Lost /\ UNCHANGED phase
  <2>1. chan # <<>> /\ chan' = Tail(chan) /\ UNCHANGED <<phase, proven, unproven>> /\ live' = FALSE
    BY <1>13 DEF Lost, Recv, socket
  <2> QED
    BY <2>1, WordsAfter DEF BelievedIsCarrying
<1>14. ASSUME NEW k \in {"snapshot", "trusted", "alive"}, Recv(k), live' = live \/ k # "alive"
       PROVE  BelievedIsCarrying' /\ WordsAreKept'
  <2>1. chan # <<>> /\ chan' = Tail(chan) /\ Head(chan).kind = k /\ UNCHANGED <<phase, proven, unproven>>
    BY <1>14 DEF Recv, socket
  <2>2. WordsAreKept'
    BY <2>1, WordsAfter
  <2>3. DownIsComing => DownIsComing'
    BY <2>1, DownStays
  <2>4. CASE live' = live
    BY <2>1, <2>2, <2>3, <2>4 DEF BelievedIsCarrying
  <2>5. CASE k # "alive"
    <3>1. 1 \in DOMAIN chan /\ chan[1].kind \in {"snapshot", "trusted"}
      BY <2>1, <2>5, FromTheHead DEF TypeOK
    <3>2. DownIsComing \/ Carrying
      BY <3>1 DEF WordsAreKept, DownIsComing
    <3> QED
      BY <2>1, <2>2, <2>3, <3>2 DEF BelievedIsCarrying, Carrying
  <2> QED
    BY <1>14, <2>4, <2>5
<1>15. CASE ListenSnapshot
  BY <1>14, <1>15 DEF ListenSnapshot
<1>16. CASE ListenOther
  BY <1>13, <1>14, <1>16 DEF ListenOther, Lost, Recv, socket
<1>17. CASE SleepRecv
  BY <1>13, <1>14, <1>17 DEF SleepRecv, Lost, Recv, socket
<1> QED
  BY <1>3, <1>4, <1>5, <1>6, <1>7, <1>8, <1>9, <1>10, <1>11, <1>12, <1>15, <1>16, <1>17 DEF Next, Socket, Loop

-----------------------------------------------------------------------------
(* When the loop listens *)

LEMMA ListensStep == TypeOK /\ ListensWhereItAsks /\ ListeningIsAsking /\ Next => ListensWhereItAsks' /\ ListeningIsAsking'
<1> SUFFICES ASSUME TypeOK, ListensWhereItAsks, ListeningIsAsking, Next PROVE ListensWhereItAsks' /\ ListeningIsAsking'
  OBVIOUS
<1> USE TransportAssumption DEF ListensWhereItAsks, ListeningIsAsking, Settling
<1>1. CASE Jellyfin
  BY <1>1 DEF Jellyfin, Change, Outage, Recover, Drop, Push, LosePush, socket, loop
<1>2. CASE Socket
  <2>1. UNCHANGED <<want, loop>>
    BY <1>2 DEF Socket, Connect, ConnectFails, HearList, CheckPasses, CheckFails, HearAlive, Follow, Trust, Probe, Break, TellDown
  <2> QED
    BY <2>1 DEF loop
<1>3. CASE Top
  <2>1. UNCHANGED <<mode, seen, paused>> /\ want' = Subscribe(seen.state, paused)
    BY <1>3 DEF Top
  <2>2. pc' = "select" => mode = "listen"
    BY <1>3 DEF Top
  <2> QED
    BY <2>1, <2>2 DEF Subscribe
<1>4. CASE Apply
  <2>1. pc' # "select"
    BY <1>4 DEF Apply, Rest
  <2>2. mode' = "listen" => got.state = "idle" \/ (got.state = "paused" /\ Count(got.state, paused) >= Debounce)
    BY <1>4 DEF Apply, Sees
  <2>3. seen' = got /\ paused' = Count(got.state, paused)
    BY <1>4 DEF Apply
  <2>4. got.state = "idle" => Count(got.state, paused) = 0
    BY DEF Count
  <2>5. Count(got.state, paused) \in Nat
    BY DEF Count, Upto, TypeOK
  <2> QED
    BY <2>1, <2>2, <2>3, <2>4, <2>5
<1>5. CASE Answer \/ Fail \/ Safety \/ Wake
  BY <1>5 DEF Answer, Fail, Safety, Wake, Rest
<1>6. CASE ListenSnapshot \/ ListenOther \/ SleepRecv
  BY <1>6 DEF ListenSnapshot, ListenOther, SleepRecv, Lost, Recv
<1> QED
  BY <1>1, <1>2, <1>3, <1>4, <1>5, <1>6 DEF Next, Loop

-----------------------------------------------------------------------------
(* The theorems *)

LEMMA TransportStart == Init => TransportInv
<1> SUFFICES ASSUME Init PROVE TransportInv
  OBVIOUS
<1> USE TransportAssumption DEF Init
<1>1. TypeOK
  <2>1. now \in List /\ now.ver = 0 /\ seen \in List
    BY DEF List, States
  <2>2. frames \in Seq(List) /\ Len(frames) = 0 /\ chan \in Seq(Events) /\ Len(chan) = 0
    OBVIOUS
  <2>3. left \in Budget
    BY DEF Budget
  <2>4. up \in BOOLEAN /\ carries \in BOOLEAN /\ listening \in BOOLEAN /\ checked \in BOOLEAN /\ want \in BOOLEAN
    OBVIOUS
  <2>5. proven \in BOOLEAN /\ unproven \in BOOLEAN /\ heard \in BOOLEAN
    OBVIOUS
  <2>6. onSocket \in BOOLEAN /\ live \in BOOLEAN /\ told \in BOOLEAN
    OBVIOUS
  <2>7. paused \in 0..Debounce /\ failures \in 0..(DownAfter + 1) /\ inrow \in 0..(DownAfter + 1)
    OBVIOUS
  <2> QED
    BY <2>1, <2>2, <2>3, <2>4, <2>5, <2>6, <2>7 DEF TypeOK
<1>2. InHand
  BY DEF InHand
<1>3. BelievedIsCarrying /\ WordsAreKept
  BY DEF BelievedIsCarrying, WordsAreKept
<1>4. ListensWhereItAsks /\ ListeningIsAsking
  BY DEF ListensWhereItAsks, ListeningIsAsking
<1> QED
  BY <1>1, <1>2, <1>3, <1>4 DEF TransportInv

LEMMA TransportStep == TransportInv /\ [Next]_vars => TransportInv'
<1> SUFFICES ASSUME TransportInv, [Next]_vars PROVE TransportInv'
  OBVIOUS
<1>1. CASE Next
  BY <1>1, TypeStep, BelievedStep, ListensStep DEF TransportInv
<1>2. CASE UNCHANGED vars
  <2>1. UNCHANGED <<server, socket, want, chan, loop>>
    BY <1>2 DEF vars
  <2>2. TypeOK' /\ InHand'
    BY <2>1 DEF TransportInv, TypeOK, InHand, server, socket, loop
  <2>3. BelievedIsCarrying' /\ WordsAreKept'
    BY <2>1 DEF TransportInv, BelievedIsCarrying, WordsAreKept, DownIsComing, Carrying, socket, loop
  <2>4. ListensWhereItAsks' /\ ListeningIsAsking'
    BY <2>1 DEF TransportInv, ListensWhereItAsks, ListeningIsAsking, loop
  <2> QED
    BY <2>2, <2>3, <2>4 DEF TransportInv
<1> QED
  BY <1>1, <1>2

(* The invariant holds in every reachable state. *)
THEOREM TransportInvariant == Spec => []TransportInv
  BY TransportStart, TransportStep, PTL DEF Spec

(* The types of Transport: the channel never outgrows QUEUE, and whatever    *)
(* waits for a list has one.                                                 *)
THEOREM TransportTypes == Spec => []TypeOK
<1>1. TransportInv => TypeOK
  BY DEF TransportInv
<1> QED
  BY <1>1, TransportInvariant, PTL

(* The loop relaxes only on a socket that carries what it asked for: a live  *)
(* socket is the connection of now, unless its Down is still to be read, and *)
(* while the loop listens it is subscribed and nothing has to be watched.    *)
THEOREM ListensSoundly == Spec => []ListeningIsSound
<1>1. TransportInv => ListeningIsSound
  BY DEF TransportInv, ListeningIsSound
<1> QED
  BY <1>1, TransportInvariant, PTL

=============================================================================
