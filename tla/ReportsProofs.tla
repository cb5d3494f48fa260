---------------------------- MODULE ReportsProofs ---------------------------
(***************************************************************************)
(* What finstats knows of the library and what it tells from its tables,   *)
(* for any libraries, plays, requests, logs and readers: what a reading of *)
(* the library may mark removed; that the timeline tells every play once;  *)
(* that bursts of failed sign-ins are told apart; that what somebody may   *)
(* not see makes no difference to what they are shown; that no download is *)
(* passed over; and that every table keeps its shape.                      *)
(***************************************************************************)
EXTENDS MCReports, DataInduction, SequenceTheorems

-----------------------------------------------------------------------------
(* The reading of the library.                                               *)

(* What the reading rests on. *)
Tables ==
  /\ jf \in [Libs -> Seq(Items)]
  /\ listed \subseteq Libs /\ todo \subseteq Libs
  /\ start \in Nat
  /\ DOMAIN items = Items

(* While its pages are read, the first `start` of a library nothing has left *)
(* have been seen; when they are, all that stayed has.                       *)
SeenSoFar ==
  /\ pc = "items" => lib \in Libs
  /\ pc = "items" /\ stayed # {} =>
       /\ start <= Len(jf[lib])
       /\ \A k \in 1..start : jf[lib][k] \in fresh
       /\ stayed \subseteq ToSet(jf[lib])
  /\ pc \in {"people", "remove"} => stayed \subseteq fresh
  /\ pc \notin {"items", "people", "remove"} => stayed = {} /\ lib = NoLib

ReadInv == Tables /\ SeenSoFar

-----------------------------------------------------------------------------
(* Lists and pages *)

(* A library's items in some order are a list of items.                      *)
LEMMA ListOfSet ==
  ASSUME NEW S, S \subseteq Items
  PROVE  SetToSeq(S) \in Seq(Items)
<1>1. IsFiniteSet(S)
  BY LibraryAssumption, FS_Subset
<1>2. Cardinality(S) \in Nat /\ ExistsBijection(1..Cardinality(S), S)
  BY <1>1, FS_CardinalityType
<1>3. PICK f : f \in Bijection(1..Cardinality(S), S)
  BY <1>2 DEF ExistsBijection
<1>4. f \in [1..Cardinality(S) -> S] /\ IsInjective(f)
  BY <1>3 DEF Bijection, Injection, IsInjective
<1>5. SetToSeq(S) \in [1..Cardinality(S) -> S]
  BY <1>4 DEF SetToSeq
<1> QED
  BY <1>2, <1>5

(* A page is the next items of the list, and a short one ends it.            *)
LEMMA PageTells ==
  ASSUME NEW s \in Seq(Items), NEW from \in Nat, from <= Len(s)
  PROVE  LET page == PageOf(s, from) IN
         /\ page \in Seq(Items)
         /\ from + Len(page) <= Len(s)
         /\ \A k \in 1..Len(page) : page[k] = s[from + k]
         /\ LastPage(page) => from + Len(page) = Len(s)
<1> DEFINE to == IF from + Page < Len(s) THEN from + Page ELSE Len(s)
<1>1. Page \in Nat \ {0} /\ Len(s) \in Nat
  BY LibraryAssumption
<1>2. to \in Nat /\ from <= to /\ to <= Len(s)
  BY <1>1
<1>3. PageOf(s, from) = SubSeq(s, from + 1, to)
  BY DEF PageOf
<1>4. to = from + Page \/ to = Len(s)
  BY <1>1
<1> HIDE DEF to
<1>5. \A i \in (from + 1)..to : s[i] \in Items
  BY <1>1, <1>2
<1>6. /\ SubSeq(s, from + 1, to) \in Seq(Items)
      /\ Len(SubSeq(s, from + 1, to)) = IF from + 1 <= to THEN to - (from + 1) + 1 ELSE 0
      /\ \A i \in 1..(to - (from + 1) + 1) : SubSeq(s, from + 1, to)[i] = s[from + 1 + i - 1]
  BY <1>2, <1>5, SubSeqProperties
<1>7. Len(SubSeq(s, from + 1, to)) = to - from
  BY <1>2, <1>6
<1>8. \A i \in 1..(to - from) : SubSeq(s, from + 1, to)[i] = s[from + i]
  BY <1>2, <1>6
<1> QED
  BY <1>1, <1>2, <1>3, <1>4, <1>6, <1>7, <1>8 DEF LastPage

(* A page holds a number of items, also past the end of the list.            *)
LEMMA PageCounts ==
  ASSUME NEW s \in Seq(Items), NEW from \in Nat
  PROVE  Len(PageOf(s, from)) \in Nat
<1>1. Len(s) \in Nat /\ Page \in Nat
  BY LibraryAssumption
<1>2. CASE from <= Len(s)
  BY <1>2, PageTells
<1>3. CASE from > Len(s)
  <2>1. PageOf(s, from) = SubSeq(s, from + 1, Len(s))
    BY <1>1, <1>3 DEF PageOf
  <2>2. SubSeq(s, from + 1, Len(s)) = <<>>
    BY <1>1, <1>3, SubSeqEmpty
  <2> QED
    BY <2>1, <2>2
<1> QED
  BY <1>1, <1>2, <1>3

-----------------------------------------------------------------------------
(* The steps *)

LEMMA ReadInit == Init => ReadInv
<1> SUFFICES ASSUME Init PROVE ReadInv
  OBVIOUS
<1>1. jf \in [Libs -> {SetToSeq(S) : S \in SUBSET Items}]
  BY DEF Init
<1>2. {SetToSeq(S) : S \in SUBSET Items} \subseteq Seq(Items)
  BY ListOfSet
<1>3. jf \in [Libs -> Seq(Items)]
  BY <1>1, <1>2
<1> QED
  BY <1>3 DEF Init, ReadInv, Tables, SeenSoFar

(* What happens in Jellyfin: who leaves the library that is being read       *)
(* unsettles the reading, and who arrives comes after all the others.        *)
LEMMA JellyfinChanges ==
  ASSUME ReadInv, UNCHANGED <<tables, task>>, listed' \subseteq Libs, NEW l \in Libs, NEW s \in Seq(Items), jf' = [jf EXCEPT ![l] = s],
         \/ stayed' = IF l = lib THEN {} ELSE stayed
         \/ /\ stayed' = stayed
            /\ Len(jf[l]) <= Len(s)
            /\ \A k \in 1..Len(jf[l]) : s[k] = jf[l][k]
  PROVE  ReadInv'
<1> USE DEF ReadInv, Tables, tables, task
<1>1. Tables'
  OBVIOUS
<1>2. stayed' = {} \/ stayed' = stayed
  OBVIOUS
<1>3. pc' = pc /\ lib' = lib /\ start' = start /\ fresh' = fresh
  OBVIOUS
<1>4. CASE lib # l \/ stayed' = {}
  <2>1. pc = "items" /\ stayed' # {} => lib \in Libs /\ jf'[lib] = jf[lib] /\ stayed' = stayed
    BY <1>2, <1>4 DEF SeenSoFar
  <2> QED
    BY <1>1, <1>2, <1>3, <2>1 DEF SeenSoFar, ToSet
<1>5. CASE lib = l /\ stayed' # {}
  <2>1. stayed' = stayed /\ Len(jf[l]) <= Len(s) /\ \A k \in 1..Len(jf[l]) : s[k] = jf[l][k]
    BY <1>5
  <2>2. jf'[l] = s /\ jf[l] \in Seq(Items)
    OBVIOUS
  <2>3. Len(jf[l]) \in Nat /\ Len(s) \in Nat /\ DOMAIN s = 1..Len(s) /\ DOMAIN jf[l] = 1..Len(jf[l])
    BY <2>2
  <2>4. ToSet(jf[l]) \subseteq ToSet(s)
    BY <2>1, <2>3 DEF ToSet
  <2>5. pc = "items" => /\ start <= Len(s)
                        /\ \A k \in 1..start : s[k] \in fresh
                        /\ stayed \subseteq ToSet(s)
    BY <1>5, <2>1, <2>3, <2>4 DEF SeenSoFar
  <2> QED
    BY <1>1, <1>3, <1>5, <2>1, <2>2, <2>5 DEF SeenSoFar
<1> QED
  BY <1>4, <1>5

LEMMA LeavesStep ==
  ASSUME ReadInv, NEW i \in Items, Leaves(i)
  PROVE  ReadInv'
<1>1. PICK l \in listed : \E k \in DOMAIN jf[l] :
        jf' = [jf EXCEPT ![l] = RemoveAt(@, k)] /\ Changes(l)
  BY DEF Leaves
<1>2. PICK k \in DOMAIN jf[l] : jf' = [jf EXCEPT ![l] = RemoveAt(@, k)] /\ Changes(l)
  BY <1>1
<1>3. l \in Libs /\ UNCHANGED listed
  BY DEF ReadInv, Tables, Leaves
<1>4. jf[l] \in Seq(Items) /\ DOMAIN jf[l] = 1..Len(jf[l]) /\ Len(jf[l]) \in Nat
  BY <1>3 DEF ReadInv, Tables
<1>5. RemoveAt(jf[l], k) \in Seq(Items)
  <2>1. /\ SubSeq(jf[l], 1, k - 1) \in Seq(Items)
        /\ SubSeq(jf[l], k + 1, Len(jf[l])) \in Seq(Items)
    <3>1. k \in 1..Len(jf[l])
      BY <1>2, <1>4
    <3>2. \A j \in 1..(k - 1) : jf[l][j] \in Items
      BY <1>4, <3>1
    <3>3. \A j \in (k + 1)..Len(jf[l]) : jf[l][j] \in Items
      BY <1>4, <3>1
    <3> QED
      BY <1>4, <3>1, <3>2, <3>3, SubSeqProperties
  <2> QED
    BY <2>1, ConcatProperties DEF RemoveAt
<1>6. jf' = [jf EXCEPT ![l] = RemoveAt(jf[l], k)]
  BY <1>2, <1>3 DEF ReadInv, Tables
<1>7. UNCHANGED <<tables, task>> /\ stayed' = IF l = lib THEN {} ELSE stayed
  BY <1>2 DEF Changes
<1> QED
  BY <1>3, <1>5, <1>6, <1>7, JellyfinChanges DEF ReadInv, Tables

LEMMA ArrivesStep ==
  ASSUME ReadInv, NEW i \in Items, Arrives(i)
  PROVE  ReadInv'
<1>1. PICK l \in listed : jf' = [jf EXCEPT ![l] = Append(@, i)]
  BY DEF Arrives
<1>2. UNCHANGED <<listed, tables, task, stayed>>
  BY DEF Arrives
<1>3. l \in Libs /\ jf[l] \in Seq(Items)
  BY DEF ReadInv, Tables
<1>4. /\ Append(jf[l], i) \in Seq(Items)
      /\ Len(jf[l]) <= Len(Append(jf[l], i))
      /\ \A k \in 1..Len(jf[l]) : Append(jf[l], i)[k] = jf[l][k]
  BY <1>3, AppendProperties
<1>5. jf' = [jf EXCEPT ![l] = Append(jf[l], i)]
  BY <1>1, <1>3 DEF ReadInv, Tables
<1> QED
  BY <1>2, <1>3, <1>4, <1>5, JellyfinChanges DEF ReadInv, Tables

LEMMA ListedStep ==
  ASSUME ReadInv, NEW l \in Libs, Unlists(l) \/ Relists(l)
  PROVE  ReadInv'
<1>1. CASE Unlists(l)
  <2>1. jf' = [jf EXCEPT ![l] = <<>>] /\ UNCHANGED <<tables, task>> /\ stayed' = IF l = lib THEN {} ELSE stayed
    BY <1>1 DEF Unlists, Changes
  <2>2. <<>> \in Seq(Items) /\ listed' \subseteq Libs
    BY <1>1 DEF Unlists, ReadInv, Tables
  <2> QED
    BY <2>1, <2>2, JellyfinChanges
<1>2. CASE Relists(l)
  BY <1>2 DEF Relists, ReadInv, Tables, SeenSoFar, tables, task
<1> QED
  BY <1>1, <1>2

LEMMA RestStep ==
  ASSUME ReadInv, NEW to \in {"idle", "down", "halted"}, Rest(to), UNCHANGED <<jellyfin, tables>>
  PROVE  ReadInv'
BY DEF ReadInv, Tables, SeenSoFar, Rest, jellyfin, tables

LEMMA NextLibraryStep ==
  ASSUME Tables, NEW left, left \subseteq Libs, NextLibrary(left), UNCHANGED jellyfin, DOMAIN items' = Items
  PROVE  ReadInv'
<1>1. start' = 0 /\ Tables'
  BY DEF Tables, NextLibrary, jellyfin
<1>2. CASE pc' = "link" /\ lib' = NoLib /\ stayed' = {}
  BY <1>1, <1>2 DEF ReadInv, SeenSoFar
<1>3. ASSUME NEW l \in left, pc' = "items", lib' = l, stayed' = ToSet(jf[l])
      PROVE  ReadInv'
  <2>1. lib' \in Libs /\ jf' = jf /\ jf[lib'] \in Seq(Items)
    BY <1>1, <1>3 DEF Tables, jellyfin
  <2>2. 0 <= Len(jf[lib'])
    BY <2>1
  <2>3. stayed' \subseteq ToSet(jf'[lib'])
    BY <1>3, <2>1
  <2> QED
    BY <1>1, <1>3, <2>1, <2>2, <2>3 DEF ReadInv, SeenSoFar
<1> QED
  BY <1>2, <1>3 DEF NextLibrary

(* A page that is what Jellyfin has: what was seen grows by it.              *)
LEMMA ReadItemsStep ==
  ASSUME ReadInv, ReadItems
  PROVE  ReadInv'
<1> DEFINE truth == PageOf(jf[lib], start)
<1>1. PICK page \in {truth, <<>>} :
        /\ stayed' = IF page = truth THEN stayed ELSE {}
        /\ items' = Upserted(page)
        /\ fresh' = fresh \cup ToSet(page)
        /\ start' = start + Len(page)
        /\ pc' = IF LastPage(page) THEN "people" ELSE "items"
  BY DEF ReadItems
<1>2. pc = "items" /\ UNCHANGED <<jf, listed, lib, todo>>
  BY DEF ReadItems, jellyfin
<1>3. DOMAIN items' = Items
  BY <1>1 DEF Upserted
<1>4. start' \in Nat
  <2>1. jf[lib] \in Seq(Items) /\ start \in Nat
    BY <1>2 DEF ReadInv, Tables, SeenSoFar
  <2>2. Len(truth) \in Nat /\ Len(<<>>) \in Nat
    BY <2>1, PageCounts
  <2> QED
    BY <1>1, <2>1, <2>2
<1>5. Tables'
  BY <1>2, <1>3, <1>4 DEF ReadInv, Tables
<1>6. CASE stayed' = {}
  <2>1. pc' \in {"items", "people"} /\ lib' \in Libs
    BY <1>1, <1>2 DEF ReadInv, SeenSoFar
  <2> QED
    BY <1>5, <1>6, <2>1 DEF ReadInv, SeenSoFar
<1>7. CASE stayed' # {}
  <2>1. page = truth /\ stayed' = stayed
    BY <1>1, <1>7
  <2>2. lib \in Libs /\ jf[lib] \in Seq(Items) /\ start \in Nat /\ start <= Len(jf[lib])
    BY <1>2, <1>7, <2>1 DEF ReadInv, Tables, SeenSoFar
  <2>3. /\ page \in Seq(Items)
        /\ start + Len(page) <= Len(jf[lib])
        /\ \A k \in 1..Len(page) : page[k] = jf[lib][start + k]
        /\ LastPage(page) => start + Len(page) = Len(jf[lib])
    BY <2>1, <2>2, PageTells
  <2>4. Len(page) \in Nat /\ \A k \in 1..Len(page) : page[k] \in ToSet(page)
    BY <2>3 DEF ToSet
  <2>5. \A k \in 1..start' : jf[lib][k] \in fresh'
    <3> SUFFICES ASSUME NEW k \in 1..start' PROVE jf[lib][k] \in fresh'
      OBVIOUS
    <3>1. CASE k <= start
      BY <1>1, <1>2, <1>7, <2>1, <2>2, <3>1 DEF ReadInv, SeenSoFar
    <3>2. CASE ~(k <= start)
      <4>1. k - start \in 1..Len(page)
        BY <1>1, <2>2, <2>4, <3>2
      <4>2. page[k - start] = jf[lib][k]
        BY <2>2, <2>3, <4>1
      <4> QED
        BY <1>1, <2>4, <4>1, <4>2
    <3> QED
      BY <3>1, <3>2
  <2>6. stayed \subseteq ToSet(jf[lib])
    BY <1>2, <1>7, <2>1 DEF ReadInv, SeenSoFar
  <2>7. LastPage(page) => stayed \subseteq fresh'
    BY <1>1, <2>2, <2>3, <2>5, <2>6 DEF ToSet
  <2>8. pc' = IF LastPage(page) THEN "people" ELSE "items"
    BY <1>1
  <2>9. lib' = lib /\ jf' = jf /\ start' <= Len(jf[lib])
    BY <1>1, <1>2, <2>3
  <2> QED
    BY <1>5, <2>1, <2>2, <2>5, <2>6, <2>7, <2>8, <2>9 DEF ReadInv, SeenSoFar
<1> QED
  BY <1>6, <1>7

LEMMA ReadStep == ReadInv /\ [Next]_vars => ReadInv'
<1> SUFFICES ASSUME ReadInv, [Next]_vars PROVE ReadInv'
  OBVIOUS
<1>1. ASSUME NEW i \in Items, Leaves(i) \/ Arrives(i) PROVE ReadInv'
  BY <1>1, LeavesStep, ArrivesStep
<1>2. ASSUME NEW l \in Libs, Unlists(l) \/ Relists(l) PROVE ReadInv'
  BY <1>2, ListedStep
<1>3. CASE Begin
  BY <1>3 DEF Begin, ReadInv, Tables, SeenSoFar, jellyfin
<1>4. CASE ReadFolders
  <2>1. PICK seen \in {listed, {}} : NextLibrary(seen)
    BY <1>4 DEF ReadFolders
  <2>2. UNCHANGED <<jellyfin, items>>
    BY <1>4 DEF ReadFolders
  <2> QED
    BY <2>1, <2>2, NextLibraryStep DEF ReadInv, Tables
<1>5. CASE RefuseFolders \/ RefuseItems
  BY <1>5, RestStep DEF RefuseFolders, RefuseItems, Halt
<1>6. CASE ReadItems
  BY <1>6, ReadItemsStep
<1>7. CASE ReadPeople
  <2>1. pc = "people" /\ pc' \in {"people", "remove"}
    BY <1>7 DEF ReadPeople
  <2>2. UNCHANGED <<jellyfin, tables, todo, lib, start, stayed>>
    BY <1>7 DEF ReadPeople
  <2> QED
    BY <2>1, <2>2 DEF ReadInv, Tables, SeenSoFar, jellyfin, tables
<1>8. CASE RemoveUnseen
  <2>1. NextLibrary(todo) /\ UNCHANGED jellyfin /\ DOMAIN items' = Items
    BY <1>8 DEF RemoveUnseen, MarkItems
  <2> QED
    BY <2>1, NextLibraryStep DEF ReadInv, Tables
<1>9. CASE Link \/ Fails \/ Killed \/ Restarted
  BY <1>9, RestStep DEF Link, Fails, Killed, Restarted
<1>10. CASE UNCHANGED vars
  BY <1>10 DEF vars, ReadInv, Tables, SeenSoFar
<1> QED
  BY <1>1, <1>2, <1>3, <1>4, <1>5, <1>6, <1>7, <1>8, <1>9, <1>10 DEF Next, Work

(* The reading keeps its books in every reachable state, whatever Jellyfin   *)
(* changes, answers wrongly or does not answer.                              *)
THEOREM ReadingKeepsBooks == Spec => []ReadInv
BY ReadInit, ReadStep, PTL DEF Spec

-----------------------------------------------------------------------------
(* What is marked *)

(* Only the end of a library's reading marks items.                          *)
LEMMA MarkedAtTheEnd ==
  ASSUME ReadInv, Next, ~RemoveUnseen
  PROVE  Marked = {}
<1>1. ASSUME items' = items PROVE Marked = {}
  BY <1>1 DEF Marked
<1>2. CASE ReadItems
  <2>1. PICK page : items' = Upserted(page)
    BY <1>2 DEF ReadItems
  <2>2. \A i \in Items : items'[i] = items[i] \/ items'[i] = [lib |-> lib, removed |-> FALSE]
    BY <2>1 DEF Upserted
  <2>3. SUFFICES ASSUME NEW i \in Items, items[i] # NoRow, ~items[i].removed, items'[i].removed
                 PROVE  FALSE
    BY DEF Marked
  <2> QED
    BY <2>2, <2>3
<1>3. CASE Begin \/ ReadFolders \/ RefuseFolders \/ ReadPeople \/ RefuseItems
  BY <1>1, <1>3 DEF Begin, ReadFolders, RefuseFolders, ReadPeople, RefuseItems, tables
<1>4. CASE Link \/ Fails \/ Killed \/ Restarted
  BY <1>1, <1>4 DEF Link, Fails, Killed, Restarted, tables
<1>5. ASSUME NEW i \in Items, Leaves(i) \/ Arrives(i) PROVE Marked = {}
  BY <1>1, <1>5 DEF Leaves, Arrives, Changes, tables
<1>6. ASSUME NEW l \in Libs, Unlists(l) \/ Relists(l) PROVE Marked = {}
  BY <1>1, <1>6 DEF Unlists, Relists, Changes, tables
<1> QED
  BY <1>2, <1>3, <1>4, <1>5, <1>6 DEF Next, Work

(* "Not seen" is proof of removal: nothing that was in its library all the   *)
(* while it was read is marked removed, whatever the pages and however       *)
(* libraries and items come and go, unless something left the library or an  *)
(* answer was broken; and nothing of another library is.                     *)
THEOREM NotSeenIsRemoved == Spec => ProofOfRemoval
<1>1. ASSUME ReadInv, Next PROVE Marked \subseteq Held(lib) \ stayed
  <2>1. CASE RemoveUnseen
    <3>1. stayed \subseteq fresh
      BY <1>1, <2>1 DEF RemoveUnseen, ReadInv, SeenSoFar
    <3>2. items' = MarkItems
      BY <2>1 DEF RemoveUnseen
    <3>3. \A i \in Items \ (Held(lib) \ fresh) : items'[i] = items[i]
      BY <3>2 DEF MarkItems
    <3> QED
      BY <3>1, <3>3 DEF Marked
  <2> QED
    BY <1>1, <2>1, MarkedAtTheEnd
<1>2. ReadInv /\ [Next]_vars => [Marked \subseteq Held(lib) \ stayed]_vars
  BY <1>1
<1> QED
  BY ReadingKeepsBooks, <1>2, PTL DEF Spec, ProofOfRemoval

-----------------------------------------------------------------------------
(* The libraries *)

LEMMA SomeStayKnown ==
  ASSUME ~AllowShrink, NEW seen, seen \subseteq Libs, MarkLibraries(seen), Known # {}
  PROVE  Known' # {}
<1>1. IsFiniteSet(Known \cup seen) /\ Known \cup seen # {}
  BY LibraryAssumption, FS_Subset DEF Known
<1>2. Cardinality(Known \cup seen) > 0
  BY <1>1, FS_CardinalityType, FS_EmptySet
<1>3. seen # {}
  BY <1>2, FS_EmptySet DEF MarkLibraries, WholeSetVanished
<1>4. \A l \in seen : libraries'[l] = "kept"
  BY DEF MarkLibraries, Relabelled
<1> QED
  BY <1>3, <1>4 DEF Known

(* Without the leave to shrink, one library at least stays known for as long *)
(* as one is: an answer in which there is none is refused.                   *)
THEOREM OneLibraryStays ==
  ASSUME ~AllowShrink
  PROVE  Spec => NeverAllAtOnce
<1>1. ASSUME ReadInv, Next, Known # {} PROVE Known' # {}
  <2>1. ASSUME libraries' = libraries PROVE Known' # {}
    BY <1>1, <2>1 DEF Known
  <2>2. CASE ReadFolders
    <3>1. PICK seen \in {listed, {}} : MarkLibraries(seen)
      BY <2>2 DEF ReadFolders
    <3> QED
      BY <1>1, <3>1, SomeStayKnown DEF ReadInv, Tables
  <2>3. CASE Begin \/ ReadItems \/ RefuseFolders \/ ReadPeople \/ RemoveUnseen \/ RefuseItems
    BY <2>1, <2>3 DEF Begin, ReadItems, RefuseFolders, ReadPeople, RemoveUnseen, RefuseItems, tables
  <2>4. CASE Link \/ Fails \/ Killed \/ Restarted
    BY <2>1, <2>4 DEF Link, Fails, Killed, Restarted, tables
  <2>5. ASSUME NEW i \in Items, Leaves(i) \/ Arrives(i) PROVE Known' # {}
    BY <2>1, <2>5 DEF Leaves, Arrives, Changes, tables
  <2>6. ASSUME NEW l \in Libs, Unlists(l) \/ Relists(l) PROVE Known' # {}
    BY <2>1, <2>6 DEF Unlists, Relists, Changes, tables
  <2> QED
    BY <1>1, <2>2, <2>3, <2>4, <2>5, <2>6 DEF Next, Work
<1>2. ReadInv /\ [Next]_vars => [Known # {} => Known' # {}]_vars
  BY <1>1
<1> QED
  BY ReadingKeepsBooks, <1>2, PTL DEF Spec, NeverAllAtOnce

-----------------------------------------------------------------------------
(* The types of it all. *)

JellyfinOK ==
  /\ listed \subseteq Libs /\ jf \in [Libs -> Seq(Items)]
  /\ \A l \in Libs : IsInjective(jf[l])
  /\ \A l, k \in Libs : l # k => ToSet(jf[l]) \cap ToSet(jf[k]) = {}

TablesOK ==
  /\ libraries \in [Libs -> {"unknown", "kept", "removed"}]
  /\ items \in [Items -> Row \cup {NoRow}]
  /\ fresh \subseteq {i \in Items : items[i] # NoRow /\ ~items[i].removed}

TaskOK ==
  /\ pc \in {"down", "idle", "folders", "items", "people", "remove", "link", "halted"}
  /\ todo \subseteq Libs /\ lib \in Libs \cup {NoLib}
  /\ (pc \in {"items", "people", "remove"}) <=> (lib # NoLib)
  /\ start \in 0..Cardinality(Items) /\ people \in 0..Cardinality(Items)
  /\ stayed \subseteq Items

SpentOK == DOMAIN spent = DOMAIN Bound /\ \A y \in DOMAIN Bound : spent[y] \in 0..Bound[y]

LibraryOK == JellyfinOK /\ TablesOK /\ TaskOK /\ SpentOK

LEMMA SpendStep ==
  ASSUME SpentOK, UNCHANGED spent \/ \E y \in DOMAIN Bound : Spend(y)
  PROVE  SpentOK'
<1>1. CASE UNCHANGED spent
  BY <1>1 DEF SpentOK
<1>2. ASSUME NEW y \in DOMAIN Bound, Spend(y) PROVE SpentOK'
  <2>1. Bound[y] \in Nat
    BY LibraryAssumption DEF Bound
  <2>2. spent[y] < Bound[y] /\ spent' = [spent EXCEPT ![y] = @ + 1] /\ spent[y] \in 0..Bound[y]
    BY <1>2 DEF Spend, SpentOK
  <2>3. \A z \in DOMAIN Bound : spent'[z] \in 0..Bound[z]
    <3> SUFFICES ASSUME NEW z \in DOMAIN Bound PROVE spent'[z] \in 0..Bound[z]
      OBVIOUS
    <3>1. CASE z = y
      BY <2>1, <2>2, <3>1 DEF SpentOK
    <3>2. CASE z # y
      BY <2>2, <3>2 DEF SpentOK
    <3> QED
      BY <3>1, <3>2
  <2>4. DOMAIN spent' = DOMAIN Bound
    BY <2>2 DEF SpentOK
  <2> QED
    BY <2>3, <2>4 DEF SpentOK
<1> QED
  BY <1>1, <1>2

(* No list is longer than there are items.                                   *)
LEMMA ListIsShort ==
  ASSUME NEW s \in Seq(Items), IsInjective(s)
  PROVE  Len(s) <= Cardinality(Items)
<1>1. Len(s) \in Nat /\ s \in [1..Len(s) -> Items] /\ DOMAIN s = 1..Len(s)
  OBVIOUS
<1>2. s \in Injection(1..Len(s), Items)
  BY <1>1 DEF Injection, IsInjective
<1>3. IsFiniteSet(Items)
  BY LibraryAssumption
<1>4. Cardinality(1..Len(s)) <= Cardinality(Items)
  BY <1>2, <1>3, FS_Injection
<1>5. Cardinality(1..Len(s)) = Len(s)
  BY <1>1, FS_Interval
<1> QED
  BY <1>4, <1>5

(* What is left of a list without one of its items.                          *)
LEMMA WithoutOne ==
  ASSUME NEW s \in Seq(Items), IsInjective(s), NEW k \in DOMAIN s
  PROVE  /\ RemoveAt(s, k) \in Seq(Items) /\ IsInjective(RemoveAt(s, k))
         /\ ToSet(RemoveAt(s, k)) \subseteq ToSet(s)
<1> DEFINE h == SubSeq(s, 1, k - 1)
           t == SubSeq(s, k + 1, Len(s))
           r == RemoveAt(s, k)
<1>1. Len(s) \in Nat /\ k \in 1..Len(s) /\ DOMAIN s = 1..Len(s)
  OBVIOUS
<1>2. h \in Seq(Items) /\ Len(h) = k - 1 /\ \A j \in 1..(k - 1) : h[j] = s[j]
  BY <1>1, SubSeqProperties
<1>3. t \in Seq(Items) /\ Len(t) = Len(s) - k /\ \A j \in 1..(Len(s) - k) : t[j] = s[k + j]
  <2>1. \A j \in (k + 1)..Len(s) : s[j] \in Items
    BY <1>1
  <2>2. /\ t \in Seq(Items)
        /\ Len(t) = IF k + 1 <= Len(s) THEN Len(s) - (k + 1) + 1 ELSE 0
        /\ \A j \in 1..(Len(s) - (k + 1) + 1) : t[j] = s[k + 1 + j - 1]
    BY <1>1, <2>1, SubSeqProperties
  <2>3. Len(t) = Len(s) - k
    BY <1>1, <2>2
  <2>4. \A j \in 1..(Len(s) - k) : t[j] = s[k + j]
    BY <1>1, <2>2
  <2> QED
    BY <2>2, <2>3, <2>4
<1>4. r = h \o t
  BY DEF RemoveAt
<1> HIDE DEF h, t, r
<1>5. r \in Seq(Items) /\ Len(r) = Len(s) - 1 /\ DOMAIN r = 1..(Len(s) - 1)
  <2>1. r \in Seq(Items) /\ Len(r) = Len(h) + Len(t)
    BY <1>2, <1>3, <1>4, ConcatProperties
  <2>2. Len(r) = Len(s) - 1
    BY <1>1, <1>2, <1>3, <2>1
  <2>3. DOMAIN r = 1..Len(r)
    BY <2>1
  <2> QED
    BY <2>1, <2>2, <2>3
<1>6. \A j \in 1..(Len(s) - 1) : r[j] = IF j < k THEN s[j] ELSE s[j + 1]
  <2> SUFFICES ASSUME NEW j \in 1..(Len(s) - 1) PROVE r[j] = IF j < k THEN s[j] ELSE s[j + 1]
    OBVIOUS
  <2>0. j \in 1..(Len(h) + Len(t))
    BY <1>1, <1>2, <1>3
  <2>1. r[j] = IF j <= Len(h) THEN h[j] ELSE t[j - Len(h)]
    BY <1>2, <1>3, <1>4, <2>0, ConcatProperties
  <2>2. CASE j < k
    BY <1>1, <1>2, <2>1, <2>2
  <2>3. CASE ~(j < k)
    <3>1. j - (k - 1) \in 1..(Len(s) - k) /\ k + (j - (k - 1)) = j + 1
      BY <1>1, <2>3
    <3> QED
      BY <1>1, <1>2, <1>3, <2>1, <2>3, <3>1
  <2> QED
    BY <2>2, <2>3
<1>7. IsInjective(r)
  <2> SUFFICES ASSUME NEW p \in 1..(Len(s) - 1), NEW q \in 1..(Len(s) - 1), r[p] = r[q] PROVE p = q
    BY <1>5 DEF IsInjective
  <2> DEFINE At(j) == IF j < k THEN j ELSE j + 1
  <2>1. At(p) \in 1..Len(s) /\ At(q) \in 1..Len(s) /\ s[At(p)] = s[At(q)]
    BY <1>1, <1>6
  <2>2. At(p) = At(q)
    BY <1>1, <2>1 DEF IsInjective
  <2> QED
    BY <1>1, <2>2
<1>8. ToSet(r) \subseteq ToSet(s)
  <2> SUFFICES ASSUME NEW j \in 1..(Len(s) - 1) PROVE r[j] \in ToSet(s)
    BY <1>5 DEF ToSet
  <2>1. j \in 1..Len(s) /\ j + 1 \in 1..Len(s)
    BY <1>1
  <2> QED
    BY <1>1, <1>6, <2>1 DEF ToSet
<1> QED
  BY <1>5, <1>7, <1>8 DEF r

LEMMA JellyfinStep ==
  ASSUME JellyfinOK, [Next]_vars
  PROVE  JellyfinOK'
<1>1. ASSUME NEW i \in Items, Leaves(i) PROVE JellyfinOK'
  <2>1. PICK l \in listed : \E k \in DOMAIN jf[l] : jf' = [jf EXCEPT ![l] = RemoveAt(@, k)]
    BY <1>1 DEF Leaves
  <2>2. PICK k \in DOMAIN jf[l] : jf' = [jf EXCEPT ![l] = RemoveAt(@, k)]
    BY <2>1
  <2>3. l \in Libs /\ listed' = listed
    BY <1>1 DEF Leaves, JellyfinOK
  <2> DEFINE s == RemoveAt(jf[l], k)
  <2>4. s \in Seq(Items) /\ IsInjective(s) /\ ToSet(s) \subseteq ToSet(jf[l])
    BY <2>2, <2>3, WithoutOne DEF JellyfinOK
  <2>5. jf' = [jf EXCEPT ![l] = s]
    BY <2>2, <2>3 DEF JellyfinOK
  <2> HIDE DEF s
  <2>6. \A z \in Libs : jf'[z] = IF z = l THEN s ELSE jf[z]
    BY <2>5 DEF JellyfinOK
  <2>7. jf' \in [Libs -> Seq(Items)]
    BY <2>4, <2>5 DEF JellyfinOK
  <2>8. \A z \in Libs : ToSet(jf'[z]) \subseteq ToSet(jf[z])
    BY <2>4, <2>6
  <2>9. \A z \in Libs : IsInjective(jf'[z])
    BY <2>4, <2>6 DEF JellyfinOK
  <2> QED
    BY <2>3, <2>7, <2>8, <2>9 DEF JellyfinOK
<1>2. ASSUME NEW i \in Items, Arrives(i) PROVE JellyfinOK'
  <2>1. PICK l \in listed : jf' = [jf EXCEPT ![l] = Append(@, i)]
    BY <1>2 DEF Arrives
  <2>2. l \in Libs /\ listed' = listed /\ \A z \in Libs : ~Contains(jf[z], i)
    BY <1>2 DEF Arrives, JellyfinOK
  <2>3. \A z \in Libs : i \notin ToSet(jf[z])
    BY <2>2 DEF Contains, ToSet, JellyfinOK
  <2> DEFINE s == Append(jf[l], i)
  <2>4. jf[l] \in Seq(Items) /\ DOMAIN jf[l] = 1..Len(jf[l]) /\ Len(jf[l]) \in Nat
    BY <2>2 DEF JellyfinOK
  <2>5. /\ s \in Seq(Items) /\ Len(s) = Len(jf[l]) + 1 /\ DOMAIN s = 1..(Len(jf[l]) + 1)
        /\ \A k \in 1..Len(jf[l]) : s[k] = jf[l][k]
        /\ s[Len(jf[l]) + 1] = i
    BY <2>4, AppendProperties
  <2>6. jf' = [jf EXCEPT ![l] = s]
    BY <2>1, <2>2 DEF JellyfinOK
  <2> HIDE DEF s
  <2>7. ToSet(s) = ToSet(jf[l]) \cup {i}
    <3>1. \A k \in 1..(Len(jf[l]) + 1) : k \in 1..Len(jf[l]) \/ k = Len(jf[l]) + 1
      BY <2>4
    <3>2. Len(jf[l]) + 1 \in 1..(Len(jf[l]) + 1) /\ 1..Len(jf[l]) \subseteq 1..(Len(jf[l]) + 1)
      BY <2>4
    <3> QED
      BY <2>4, <2>5, <3>1, <3>2 DEF ToSet
  <2>8. IsInjective(s)
    <3> SUFFICES ASSUME NEW p \in 1..(Len(jf[l]) + 1), NEW q \in 1..(Len(jf[l]) + 1), s[p] = s[q] PROVE p = q
      BY <2>5 DEF IsInjective
    <3>1. \A k \in 1..Len(jf[l]) : s[k] # i
      BY <2>2, <2>3, <2>4, <2>5 DEF ToSet
    <3>2. \A k \in 1..(Len(jf[l]) + 1) : k \in 1..Len(jf[l]) \/ k = Len(jf[l]) + 1
      BY <2>4
    <3>3. IsInjective(jf[l])
      BY <2>2 DEF JellyfinOK
    <3> QED
      BY <2>4, <2>5, <3>1, <3>2, <3>3 DEF IsInjective
  <2>9. \A z \in Libs : jf'[z] = IF z = l THEN s ELSE jf[z]
    BY <2>6 DEF JellyfinOK
  <2>10. jf' \in [Libs -> Seq(Items)] /\ \A z \in Libs : IsInjective(jf'[z])
    BY <2>5, <2>6, <2>8, <2>9 DEF JellyfinOK
  <2>11. \A y, z \in Libs : y # z => ToSet(jf'[y]) \cap ToSet(jf'[z]) = {}
    BY <2>2, <2>3, <2>7, <2>9 DEF JellyfinOK
  <2> QED
    BY <2>2, <2>10, <2>11 DEF JellyfinOK
<1>3. ASSUME NEW l \in Libs, Unlists(l) PROVE JellyfinOK'
  <2>1. listed' \subseteq Libs /\ jf' = [jf EXCEPT ![l] = <<>>]
    BY <1>3 DEF Unlists, JellyfinOK
  <2>2. <<>> \in Seq(Items) /\ IsInjective(<<>>) /\ ToSet(<<>>) = {}
    BY DEF IsInjective, ToSet
  <2>3. \A z \in Libs : jf'[z] = IF z = l THEN <<>> ELSE jf[z]
    BY <2>1 DEF JellyfinOK
  <2>4. jf' \in [Libs -> Seq(Items)]
    BY <2>1, <2>2 DEF JellyfinOK
  <2>5. \A y, z \in Libs : y # z => ToSet(jf'[y]) \cap ToSet(jf'[z]) = {}
    BY <2>2, <2>3 DEF JellyfinOK
  <2> QED
    BY <2>1, <2>2, <2>3, <2>4, <2>5 DEF JellyfinOK
<1>4. ASSUME NEW l \in Libs, Relists(l) PROVE JellyfinOK'
  BY <1>4 DEF Relists, JellyfinOK
<1>5. ASSUME UNCHANGED jellyfin PROVE JellyfinOK'
  BY <1>5 DEF jellyfin, JellyfinOK
<1>6. CASE Begin \/ Work \/ Killed \/ Restarted \/ UNCHANGED vars
  <2>1. CASE Begin \/ ReadFolders \/ RefuseFolders \/ ReadItems \/ ReadPeople \/ RemoveUnseen \/ RefuseItems
    BY <1>5, <2>1 DEF Begin, ReadFolders, RefuseFolders, ReadItems, ReadPeople, RemoveUnseen, RefuseItems
  <2>2. CASE Link \/ Fails \/ Killed \/ Restarted
    BY <1>5, <2>2 DEF Link, Fails, Killed, Restarted
  <2>3. CASE UNCHANGED vars
    BY <1>5, <2>3 DEF vars, jellyfin
  <2> QED
    BY <1>6, <2>1, <2>2, <2>3 DEF Work
<1> QED
  BY <1>1, <1>2, <1>3, <1>4, <1>6 DEF Next

LEMMA SpentStep ==
  ASSUME SpentOK, [Next]_vars
  PROVE  SpentOK'
<1>1. "changes" \in DOMAIN Bound /\ "broken" \in DOMAIN Bound /\ "errors" \in DOMAIN Bound /\ "stops" \in DOMAIN Bound
  BY DEF Bound
<1>2. UNCHANGED spent \/ \E y \in DOMAIN Bound : Spend(y)
  <2>1. ASSUME NEW i \in Items, Leaves(i) \/ Arrives(i) PROVE Spend("changes")
    BY <2>1 DEF Leaves, Arrives, Changes
  <2>2. ASSUME NEW l \in Libs, Unlists(l) \/ Relists(l) PROVE Spend("changes")
    BY <2>2 DEF Unlists, Relists, Changes
  <2>3. CASE Begin \/ RemoveUnseen \/ RefuseItems \/ Link \/ UNCHANGED vars
    BY <2>3 DEF Begin, RemoveUnseen, RefuseItems, Link, vars
  <2>4. CASE ReadFolders \/ RefuseFolders \/ ReadItems \/ ReadPeople
    BY <1>1, <2>4 DEF ReadFolders, RefuseFolders, ReadItems, ReadPeople, Answered
  <2>5. CASE Fails \/ Killed \/ Restarted
    BY <1>1, <2>5 DEF Fails, Killed, Restarted
  <2> QED
    BY <1>1, <2>1, <2>2, <2>3, <2>4, <2>5 DEF Next, Work
<1> QED
  BY <1>2, SpendStep

-----------------------------------------------------------------------------
LEMMA NextLibraryKeeps ==
  ASSUME JellyfinOK, NEW left, left \subseteq Libs, NextLibrary(left)
  PROVE  /\ pc' \in {"items", "link"} /\ todo' \subseteq Libs
         /\ lib' \in Libs \cup {NoLib} /\ (pc' = "items" <=> lib' # NoLib)
         /\ start' = 0 /\ people' = 0 /\ stayed' \subseteq Items
<1>1. NoLib \notin Libs
  BY LibraryAssumption
<1>2. ASSUME NEW l \in left, stayed' = ToSet(jf[l]) PROVE stayed' \subseteq Items
  <2>1. jf[l] \in Seq(Items)
    BY DEF JellyfinOK
  <2> QED
    BY <1>2, <2>1 DEF ToSet
<1> QED
  BY <1>1, <1>2 DEF NextLibrary

LEMMA RestKeeps ==
  ASSUME NEW to \in {"idle", "down", "halted", "link"}, Rest(to)
  PROVE  TaskOK'
<1>1. Cardinality(Items) \in Nat
  BY LibraryAssumption, FS_CardinalityType
<1> QED
  BY <1>1 DEF Rest, TaskOK

(* A page of the library that is read keeps to its items, and is no longer   *)
(* than what is left of it.                                                  *)
LEMMA PageKeeps ==
  ASSUME JellyfinOK, TaskOK, pc = "items"
  PROVE  LET page == PageOf(jf[lib], start) IN
         /\ ToSet(page) \subseteq Items
         /\ start + Len(page) \in 0..Cardinality(Items)
<1> DEFINE s == jf[lib]
           page == PageOf(s, start)
<1>1. lib \in Libs /\ s \in Seq(Items) /\ IsInjective(s)
  BY DEF JellyfinOK, TaskOK
<1>2. Len(s) \in Nat /\ Page \in Nat \ {0} /\ Cardinality(Items) \in Nat /\ start \in Nat /\ start <= Cardinality(Items)
  BY <1>1, LibraryAssumption, FS_CardinalityType DEF TaskOK
<1>3. Len(s) <= Cardinality(Items)
  BY <1>1, ListIsShort
<1>4. CASE start <= Len(s)
  <2>1. page \in Seq(Items) /\ start + Len(page) <= Len(s)
    BY <1>1, <1>2, <1>4, PageTells
  <2>2. Len(page) \in Nat
    BY <2>1
  <2>3. ToSet(page) \subseteq Items
    BY <2>1 DEF ToSet
  <2> QED
    BY <1>2, <1>3, <2>1, <2>2, <2>3
<1>5. CASE start > Len(s)
  <2>1. page = SubSeq(s, start + 1, Len(s))
    BY <1>2, <1>5 DEF PageOf
  <2>2. page = <<>>
    BY <1>2, <1>5, <2>1, SubSeqEmpty
  <2> QED
    BY <1>2, <2>2 DEF ToSet
<1> QED
  BY <1>2, <1>4, <1>5

LEMMA TablesStep ==
  ASSUME JellyfinOK, TablesOK, TaskOK, [Next]_vars
  PROVE  TablesOK'
<1>1. ASSUME UNCHANGED tables PROVE TablesOK'
  BY <1>1 DEF tables, TablesOK
<1>2. CASE Begin
  BY <1>2 DEF Begin, TablesOK
<1>3. CASE ReadFolders
  <2>1. PICK seen : libraries' = Relabelled(seen)
    BY <1>3 DEF ReadFolders, MarkLibraries
  <2>2. libraries' \in [Libs -> {"unknown", "kept", "removed"}]
    BY <2>1 DEF Relabelled, TablesOK
  <2> QED
    BY <1>3, <2>2 DEF ReadFolders, TablesOK
<1>4. CASE ReadItems
  <2>1. PICK page \in {PageOf(jf[lib], start), <<>>} : items' = Upserted(page) /\ fresh' = fresh \cup ToSet(page)
    BY <1>4 DEF ReadItems
  <2>2. pc = "items" /\ libraries' = libraries
    BY <1>4 DEF ReadItems
  <2>3. ToSet(page) \subseteq Items
    BY <2>1, <2>2, PageKeeps DEF ToSet
  <2>4. lib \in Libs
    BY <2>2 DEF TaskOK
  <2> DEFINE new == [lib |-> lib, removed |-> FALSE]
  <2>5. new \in Row /\ new # NoRow /\ ~new.removed
    <3>1. new \in Row
      BY <2>4 DEF Row
    <3> QED
      BY <3>1, NoRowAssumption
  <2>6. items' = [i \in Items |-> IF i \in ToSet(page) THEN new ELSE items[i]]
    BY <2>1 DEF Upserted
  <2> HIDE DEF new
  <2>7. \A i \in Items : items'[i] = IF i \in ToSet(page) THEN new ELSE items[i]
    BY <2>6
  <2>8. items' \in [Items -> Row \cup {NoRow}]
    BY <2>5, <2>6 DEF TablesOK
  <2>9. fresh' \subseteq {i \in Items : items'[i] # NoRow /\ ~items'[i].removed}
    BY <2>1, <2>3, <2>5, <2>7 DEF TablesOK
  <2> QED
    BY <2>2, <2>8, <2>9 DEF TablesOK
<1>5. CASE RemoveUnseen
  <2>1. items' = MarkItems /\ UNCHANGED <<libraries, fresh>>
    BY <1>5 DEF RemoveUnseen
  <2>2. \A i \in Items : items'[i] = IF i \in Held(lib) \ fresh THEN [items[i] EXCEPT !.removed = TRUE] ELSE items[i]
    BY <2>1 DEF MarkItems
  <2>3. \A i \in Held(lib) \ fresh : [items[i] EXCEPT !.removed = TRUE] \in Row
    BY DEF Held, TablesOK, Row
  <2>4. items' \in [Items -> Row \cup {NoRow}]
    BY <2>1, <2>3 DEF MarkItems, TablesOK
  <2>5. \A i \in fresh : i \in Items /\ items'[i] = items[i]
    BY <2>2 DEF TablesOK
  <2> QED
    BY <2>1, <2>4, <2>5 DEF TablesOK
<1>6. ASSUME NEW i \in Items, Leaves(i) \/ Arrives(i) PROVE TablesOK'
  BY <1>1, <1>6 DEF Leaves, Arrives, Changes, tables
<1>7. ASSUME NEW l \in Libs, Unlists(l) \/ Relists(l) PROVE TablesOK'
  BY <1>1, <1>7 DEF Unlists, Relists, Changes, tables
<1>8. CASE RefuseFolders \/ ReadPeople \/ RefuseItems
  BY <1>1, <1>8 DEF RefuseFolders, ReadPeople, RefuseItems
<1>9. CASE Link \/ Fails \/ Killed \/ Restarted
  BY <1>1, <1>9 DEF Link, Fails, Killed, Restarted
<1>10. CASE UNCHANGED vars
  BY <1>1, <1>10 DEF vars, tables
<1> QED
  BY <1>2, <1>3, <1>4, <1>5, <1>6, <1>7, <1>8, <1>9, <1>10 DEF Next, Work

LEMMA TaskStep ==
  ASSUME JellyfinOK, TaskOK, [Next]_vars
  PROVE  TaskOK'
<1>1. NoLib \notin Libs /\ Cardinality(Items) \in Nat /\ Page \in Nat \ {0}
  BY LibraryAssumption, FS_CardinalityType
<1>2. ASSUME UNCHANGED task, stayed' \subseteq stayed PROVE TaskOK'
  BY <1>2 DEF task, TaskOK
<1>3. CASE Begin
  BY <1>3 DEF Begin, TaskOK
<1>4. CASE ReadFolders
  <2>1. PICK seen \in {listed, {}} : NextLibrary(seen)
    BY <1>4 DEF ReadFolders
  <2>2. seen \subseteq Libs
    BY <2>1 DEF JellyfinOK
  <2> QED
    BY <1>1, <2>1, <2>2, NextLibraryKeeps DEF TaskOK
<1>5. CASE RefuseFolders \/ RefuseItems
  BY <1>5, RestKeeps DEF RefuseFolders, RefuseItems, Halt
<1>6. CASE ReadItems
  <2>1. PICK page \in {PageOf(jf[lib], start), <<>>} :
          /\ stayed' = IF page = PageOf(jf[lib], start) THEN stayed ELSE {}
          /\ start' = start + Len(page)
          /\ pc' = IF LastPage(page) THEN "people" ELSE "items"
    BY <1>6 DEF ReadItems
  <2>2. pc = "items" /\ UNCHANGED <<todo, lib, people>>
    BY <1>6 DEF ReadItems
  <2>3. start' \in 0..Cardinality(Items)
    <3>1. CASE page = PageOf(jf[lib], start)
      BY <2>1, <2>2, <3>1, PageKeeps
    <3>2. CASE page = <<>>
      <4>1. Len(page) = 0 /\ start \in 0..Cardinality(Items)
        BY <3>2 DEF TaskOK
      <4> QED
        BY <1>1, <2>1, <4>1
    <3> QED
      BY <2>1, <3>1, <3>2
  <2>4. pc' \in {"items", "people"} /\ stayed' \subseteq Items
    BY <2>1 DEF TaskOK
  <2> QED
    BY <2>2, <2>3, <2>4 DEF TaskOK
<1>7. CASE ReadPeople
  <2>1. pc = "people" /\ pc' \in {"people", "remove"} /\ UNCHANGED <<todo, lib, start, stayed>>
    BY <1>7 DEF ReadPeople
  <2>2. people' \in 0..Cardinality(Items)
    <3> DEFINE N == Cardinality(TitlesOf(lib))
    <3>1. N \in Nat /\ N <= Cardinality(Items)
      <4>1. TitlesOf(lib) \subseteq Items /\ IsFiniteSet(Items)
        BY LibraryAssumption DEF TitlesOf
      <4> QED
        BY <4>1, FS_Subset, FS_CardinalityType
    <3>2. PeopleOnPage = IF N - people > Page THEN Page ELSE IF N - people > 0 THEN N - people ELSE 0
      BY DEF PeopleOnPage
    <3>3. people' \in {people, people + PeopleOnPage, people + 0}
      BY <1>7 DEF ReadPeople
    <3>4. people \in Nat /\ people <= Cardinality(Items)
      BY <1>1 DEF TaskOK
    <3> HIDE DEF N
    <3> QED
      BY <1>1, <3>1, <3>2, <3>3, <3>4
  <2> QED
    BY <2>1, <2>2 DEF TaskOK
<1>8. CASE RemoveUnseen
  <2>1. NextLibrary(todo) /\ todo \subseteq Libs
    BY <1>8 DEF RemoveUnseen, TaskOK
  <2> QED
    BY <1>1, <2>1, NextLibraryKeeps DEF TaskOK
<1>9. CASE Link \/ Fails \/ Killed \/ Restarted
  BY <1>9, RestKeeps DEF Link, Fails, Killed, Restarted
<1>10. ASSUME NEW i \in Items, Leaves(i) \/ Arrives(i) PROVE TaskOK'
  BY <1>2, <1>10 DEF Leaves, Arrives, Changes
<1>11. ASSUME NEW l \in Libs, Unlists(l) \/ Relists(l) PROVE TaskOK'
  BY <1>2, <1>11 DEF Unlists, Relists, Changes
<1>12. CASE UNCHANGED vars
  BY <1>2, <1>12 DEF vars, task
<1> QED
  BY <1>3, <1>4, <1>5, <1>6, <1>7, <1>8, <1>9, <1>10, <1>11, <1>12 DEF Next, Work

LEMMA LibraryInitially == Init => LibraryOK
<1> SUFFICES ASSUME Init PROVE LibraryOK
  OBVIOUS
<1>1. \A S \in SUBSET Items : IsInjective(SetToSeq(S)) /\ SetToSeq(S) \in Seq(Items)
  <2> SUFFICES ASSUME NEW S \in SUBSET Items PROVE IsInjective(SetToSeq(S))
    BY ListOfSet
  <2>1. IsFiniteSet(S)
    BY LibraryAssumption, FS_Subset
  <2>2. ExistsBijection(1..Cardinality(S), S)
    BY <2>1, FS_CardinalityType
  <2>3. PICK f : f \in Bijection(1..Cardinality(S), S)
    BY <2>2 DEF ExistsBijection
  <2>4. f \in [1..Cardinality(S) -> S] /\ IsInjective(f)
    BY <2>3 DEF Bijection, Injection, IsInjective
  <2> QED
    BY <2>4 DEF SetToSeq
<1>2. /\ jf \in [Libs -> {SetToSeq(S) : S \in SUBSET Items}] /\ listed = Libs
      /\ \A l, k \in Libs : l # k => ToSet(jf[l]) \cap ToSet(jf[k]) = {}
  BY DEF Init
<1>3. \A l \in Libs : \E S \in SUBSET Items : jf[l] = SetToSeq(S)
  BY <1>2
<1>4. JellyfinOK
  <2>1. \A l \in Libs : jf[l] \in Seq(Items) /\ IsInjective(jf[l])
    BY <1>1, <1>3
  <2>2. jf \in [Libs -> Seq(Items)]
    BY <1>2, <2>1
  <2> QED
    BY <1>2, <2>1, <2>2 DEF JellyfinOK
<1>5. TablesOK
  BY DEF Init, TablesOK
<1>6. TaskOK
  <2>1. Cardinality(Items) \in Nat
    BY LibraryAssumption, FS_CardinalityType
  <2> QED
    BY <2>1 DEF Init, TaskOK
<1>7. SpentOK
  BY LibraryAssumption DEF Init, SpentOK, Bound
<1> QED
  BY <1>4, <1>5, <1>6, <1>7 DEF LibraryOK

LEMMA LibraryStep == LibraryOK /\ [Next]_vars => LibraryOK'
  BY JellyfinStep, TablesStep, TaskStep, SpentStep DEF LibraryOK

LEMMA LibraryTyped == LibraryOK => TypeOK
  BY DEF LibraryOK, JellyfinOK, TablesOK, TaskOK, SpentOK, TypeOK

-----------------------------------------------------------------------------
(* The timeline.                                                             *)

(* A place in the timeline. *)
Cursors == [start : Nat, id : Nat] \cup {Null}

(* Plays with ids of their own. *)
Told(T) ==
  /\ \A r \in T : r.start \in Nat /\ r.id \in Nat
  /\ \A r, p \in T : r.id = p.id => r = p

(* What of T lies ahead of somebody who reads the timeline. *)
LeftToTell(T, who, cursor) == {r \in T : r.user = who /\ r.duration_s >= MinPlay /\ Beyond(r, cursor)}

(* The walk is all that lies ahead, the newest first.                        *)
LEMMA TroddenFacts ==
  ASSUME NEW T, IsFiniteSet(T), Told(T), NEW who, NEW cursor
  PROVE  LET W == LeftToTell(T, who, cursor)
             w == Trodden(T, who, cursor)
             N == Cardinality(W)
         IN  /\ IsFiniteSet(W) /\ N \in Nat
             /\ w \in [1 .. N -> W]
             /\ \A r \in W : \E i \in 1 .. N : w[i] = r
             /\ \A i, j \in 1 .. N : i < j <=> Older(w[j], w[i])
<1> DEFINE W == LeftToTell(T, who, cursor)
           N == Cardinality(W)
           newer == [r \in W |-> {p \in W : Older(r, p)}]
           w == Trodden(T, who, cursor)
<1>1. W \subseteq T /\ IsFiniteSet(W)
  BY FS_Subset DEF LeftToTell
<1>2. \A r \in W : r.start \in Nat /\ r.id \in Nat
  BY <1>1 DEF Told
<1>3. \A r, p \in W : r.id = p.id => r = p
  BY <1>1 DEF Told
<1>4. w = [i \in 1 .. N |-> CHOOSE r \in W : Cardinality({p \in W : Older(r, p)}) = i - 1]
  BY DEF Trodden, InOrder, LeftToTell
<1> HIDE DEF W, w
<1>5. /\ newer \in [W -> SUBSET W]
      /\ \A r \in W : r \notin newer[r]
      /\ \A r, p \in W : p \in newer[r] => newer[p] \subseteq newer[r]
      /\ \A r, p \in W : r = p \/ r \in newer[p] \/ p \in newer[r]
  BY <1>2, <1>3 DEF Older
<1>6. \A r, p \in W : p \in newer[r] <=> Older(r, p)
  OBVIOUS
<1>7. \A r \in W : newer[r] = {p \in W : Older(r, p)}
  OBVIOUS
<1> HIDE DEF newer
<1>8. /\ N \in Nat
      /\ \A r \in W : Cardinality(newer[r]) \in 0 .. N - 1
      /\ \A r, p \in W : r \in newer[p] <=> Cardinality(newer[r]) < Cardinality(newer[p])
      /\ \A k \in 1 .. N : \E r \in W : Cardinality(newer[r]) = k - 1
  BY <1>1, <1>5, Places
<1>9. ASSUME NEW i \in 1 .. N
      PROVE  w[i] \in W /\ Cardinality(newer[w[i]]) = i - 1
  <2>1. \E r \in W : Cardinality({p \in W : Older(r, p)}) = i - 1
    BY <1>7, <1>8
  <2>2. w[i] \in W /\ Cardinality({p \in W : Older(w[i], p)}) = i - 1
    BY <1>4, <2>1
  <2> QED
    BY <1>7, <2>2
<1>10. w \in [1 .. N -> W]
  BY <1>4, <1>9
<1>11. ASSUME NEW r \in W
       PROVE  \E i \in 1 .. N : w[i] = r
  <2> DEFINE k == Cardinality(newer[r]) + 1
  <2>1. k \in 1 .. N
    BY <1>8
  <2>2. w[k] \in W /\ Cardinality(newer[w[k]]) = Cardinality(newer[r])
    BY <1>8, <1>9, <2>1
  <2>3. w[k] \notin newer[r] /\ r \notin newer[w[k]]
    BY <1>8, <2>2
  <2> QED
    BY <1>5, <2>1, <2>2, <2>3
<1>12. \A i, j \in 1 .. N : i < j <=> Older(w[j], w[i])
  <2> TAKE i, j \in 1 .. N
  <2>1. w[i] \in newer[w[j]] <=> i - 1 < j - 1
    BY <1>8, <1>9
  <2> QED
    BY <1>6, <1>8, <1>9, <2>1
<1> QED
  BY <1>1, <1>8, <1>10, <1>11, <1>12 DEF W, w

(* A page is whole stops: as much of the walk as StopsPerPage stops hold, at  *)
(* least one play, and what comes next begins another stop.                  *)
LEMMA PageFacts ==
  ASSUME NEW T, IsFiniteSet(T), Told(T), NEW who, NEW cursor
  PROVE  LET W == LeftToTell(T, who, cursor)
             page == TrailPage(T, who, cursor)
         IN  /\ page = [plays |-> page.plays, next |-> page.next]
             /\ page.plays \subseteq W /\ page.next \in Cursors
             /\ page.next = Null => page.plays = W
             /\ W # {} => \E n \in page.plays : \A r \in W : ~Older(n, r)
             /\ page.next # Null =>
                  \E o \in page.plays, n \in W \ page.plays :
                    /\ page.next = [start |-> o.start, id |-> o.id]
                    /\ \A p \in page.plays : ~Older(p, o)
                    /\ \A r \in W \ page.plays : Older(r, o) /\ ~Older(n, r)
                    /\ Key(n) # Key(o)
<1> DEFINE W == LeftToTell(T, who, cursor)
           N == Cardinality(W)
           w == Trodden(T, who, cursor)
           on == {i \in DOMAIN w : StopOf(w, i) <= StopsPerPage}
           page == TrailPage(T, who, cursor)
           J(i) == {j \in 1 .. i : j = 1 \/ Key(w[j]) # Key(w[j - 1])}
<1>1. /\ IsFiniteSet(W) /\ N \in Nat
      /\ w \in [1 .. N -> W]
      /\ \A r \in W : \E i \in 1 .. N : w[i] = r
      /\ \A i, j \in 1 .. N : i < j <=> Older(w[j], w[i])
  BY TroddenFacts
<1>2. /\ page = [plays |-> page.plays, next |-> page.next]
      /\ page.plays = {w[i] : i \in on}
      /\ page.next = IF on = DOMAIN w THEN Null ELSE [start |-> w[Max(on)].start, id |-> w[Max(on)].id]
  BY DEF TrailPage
<1>3. \A r \in W : r.start \in Nat /\ r.id \in Nat
  BY DEF Told, LeftToTell
<1>4. ASSUME NEW i \in Nat
      PROVE  IsFiniteSet(J(i)) /\ StopOf(w, i) = Cardinality(J(i)) /\ StopOf(w, i) \in Nat
  <2>1. J(i) \subseteq 1 .. i /\ IsFiniteSet(1 .. i)
    BY <1>4, FS_Interval
  <2>2. IsFiniteSet(J(i))
    BY <2>1, FS_Subset
  <2>3. Cardinality(J(i)) \in Nat
    BY <2>2, FS_CardinalityType
  <2> QED
    BY <2>2, <2>3 DEF StopOf
<1>5. ASSUME NEW i \in Nat, NEW k \in Nat, i <= k
      PROVE  StopOf(w, i) <= StopOf(w, k)
  <2>1. J(i) \subseteq J(k)
    BY <1>5
  <2>2. Cardinality(J(i)) <= Cardinality(J(k))
    BY <1>4, <2>1, FS_Subset
  <2> QED
    BY <1>4, <2>2
<1>6. ASSUME NEW i \in Nat \ {0}, Key(w[i + 1]) = Key(w[i])
      PROVE  StopOf(w, i + 1) = StopOf(w, i)
  <2>1. J(i + 1) = J(i)
    <3>1. ASSUME NEW j \in J(i + 1)
          PROVE  j \in J(i)
      <4>1. j \in 1 .. i + 1 /\ (j = 1 \/ Key(w[j]) # Key(w[j - 1]))
        OBVIOUS
      <4>2. j # i + 1
        BY <1>6, <4>1
      <4> QED
        BY <4>1, <4>2
    <3>2. J(i) \subseteq J(i + 1)
      OBVIOUS
    <3> QED
      BY <3>1, <3>2
  <2>2. i \in Nat /\ i + 1 \in Nat
    OBVIOUS
  <2> HIDE DEF J
  <2> QED
    BY <1>4, <2>1, <2>2
<1>7. StopOf(w, 1) = 1
  <2>1. J(1) = {1}
    OBVIOUS
  <2> QED
    BY <1>4, <2>1, FS_Singleton
<1>8. DOMAIN w = 1 .. N /\ on \subseteq 1 .. N /\ \A i \in 1 .. N : i \in on <=> StopOf(w, i) <= StopsPerPage
  BY <1>1
<1> HIDE DEF J, W, w, page, on
<1>9. N >= 1 => 1 \in on
  BY <1>1, <1>7, <1>8, StoriesAssumption
<1>10. page.plays \subseteq W
  BY <1>1, <1>2, <1>8
<1>11. on = DOMAIN w => page.plays = W
  BY <1>1, <1>2, <1>8
<1>12. W # {} => \E n \in page.plays : \A r \in W : ~Older(n, r)
  <2> SUFFICES ASSUME W # {}
               PROVE  \E n \in page.plays : \A r \in W : ~Older(n, r)
    OBVIOUS
  <2>1. N >= 1
    BY <1>1
  <2>2. w[1] \in page.plays
    BY <1>2, <1>9, <2>1
  <2>3. \A i \in 1 .. N : ~Older(w[1], w[i])
    BY <1>1, <2>1
  <2>4. \A r \in W : ~Older(w[1], r)
    BY <1>1, <2>3
  <2> QED
    BY <2>2, <2>4
<1>13. ASSUME on # DOMAIN w
       PROVE  \E o \in page.plays, n \in W \ page.plays :
                /\ page.next = [start |-> o.start, id |-> o.id]
                /\ page.next \in Cursors /\ page.next # Null
                /\ \A p \in page.plays : ~Older(p, o)
                /\ \A r \in W \ page.plays : Older(r, o) /\ ~Older(n, r)
                /\ Key(n) # Key(o)
  <2> DEFINE k == Max(on)
  <2>1. N >= 1
    <3>1. on # 1 .. N /\ on \subseteq 1 .. N
      BY <1>8, <1>13
    <3>2. \E i : i \in 1 .. N
      BY <3>1
    <3> QED
      BY <1>1, <3>2
  <2>2. k \in on /\ \A i \in on : k >= i
    <3>1. on # {} /\ on \subseteq Nat /\ N \in Nat /\ \A i \in on : i <= N
      BY <1>1, <1>8, <1>9, <2>1
    <3> HIDE DEF k
    <3> QED
      BY <3>1, GreatestOf DEF k
  <2> HIDE DEF k
  <2>3. k \in 1 .. N /\ StopOf(w, k) <= StopsPerPage
    BY <1>8, <2>2
  <2>4. \A i \in 1 .. N : i <= k => i \in on
    <3> SUFFICES ASSUME NEW i \in 1 .. N, i <= k PROVE i \in on
      OBVIOUS
    <3>1. StopOf(w, i) <= StopOf(w, k) /\ StopOf(w, i) \in Nat /\ StopOf(w, k) \in Nat
      BY <1>4, <1>5, <2>3
    <3> QED
      BY <1>8, <2>3, <3>1, StoriesAssumption
  <2>5. \A i \in 1 .. N : i \in on <=> i <= k
    BY <1>1, <1>8, <2>2, <2>3, <2>4
  <2>6. k + 1 \in 1 .. N
    <3>1. PICK i \in 1 .. N : i \notin on
      BY <1>8, <1>13
    <3>2. ~(i <= k)
      BY <2>5, <3>1
    <3> QED
      BY <1>1, <2>3, <3>2
  <2>7. Key(w[k + 1]) # Key(w[k])
    <3>1. k + 1 \notin on
      BY <2>3, <2>5, <2>6
    <3>2. ~(StopOf(w, k + 1) <= StopsPerPage)
      BY <1>8, <2>6, <3>1
    <3> QED
      BY <1>6, <2>3, <3>2
  <2>8. w[k] \in page.plays /\ page.next = [start |-> w[k].start, id |-> w[k].id]
    BY <1>2, <1>13, <2>2 DEF k
  <2>9. page.plays = {w[i] : i \in 1 .. k}
    BY <1>1, <1>2, <1>8, <2>3, <2>5
  <2>10. \A i, j \in 1 .. N : i < j <=> Older(w[j], w[i])
    BY <1>1
  <2>11. \A i, j \in 1 .. N : w[i] = w[j] => i = j
    <3> SUFFICES ASSUME NEW i \in 1 .. N, NEW j \in 1 .. N, w[i] = w[j] PROVE i = j
      OBVIOUS
    <3>1. (i < j <=> Older(w[j], w[i])) /\ (j < i <=> Older(w[i], w[j])) /\ (i < i <=> Older(w[i], w[i]))
      BY <2>10
    <3> QED
      BY <3>1
  <2>12. \A r \in W : r \in page.plays \/ \E j \in k + 1 .. N : w[j] = r
    BY <1>1, <2>3, <2>9
  <2>13. w[k + 1] \in W \ page.plays
    BY <1>1, <2>3, <2>6, <2>9, <2>11
  <2>14. \A p \in page.plays : ~Older(p, w[k])
    <3> SUFFICES ASSUME NEW i \in 1 .. k PROVE ~Older(w[i], w[k])
      BY <2>9
    <3>1. i \in 1 .. N /\ ~(k < i)
      BY <1>1, <2>3
    <3> QED
      BY <2>3, <2>10, <3>1
  <2>15. \A r \in W \ page.plays : Older(r, w[k]) /\ ~Older(w[k + 1], r)
    BY <2>3, <2>6, <2>10, <2>12
  <2>16. page.next \in Cursors /\ page.next # Null
    BY <1>1, <1>3, <2>3, <2>8, StoriesAssumption DEF Cursors
  <2> QED
    BY <2>7, <2>8, <2>13, <2>14, <2>15, <2>16
<1>14. page.next \in Cursors
  BY <1>2, <1>13 DEF Cursors
<1>15. page.next = Null => on = DOMAIN w
  BY <1>13
<1>16. page.next # Null => on # DOMAIN w
  BY <1>2
<1> QED
  BY <1>2, <1>10, <1>11, <1>12, <1>13, <1>14, <1>15, <1>16 DEF W, page

(* The play an id stands for: a row is that play, still going on or not. *)
PlayOf(n) == CHOOSE r \in PlaysToCome : r.id = n
KnownIds == Ids(PlaysToCome)

RowsInv == PagesTypeOK /\ IsFiniteSet(rows)

IsDue(n, who) == PlayOf(n).user = who /\ PlayOf(n).duration_s >= MinPlay

(* What has been told, what is still to come and where pages end, as ids. *)
TrailShape ==
  trail \in [who : Accounts, told : Seq(SUBSET KnownIds), next : Cursors, there : SUBSET Ids(rows), still : BOOLEAN]

ToldApart == \A n, k \in DOMAIN trail.told : n # k => trail.told[n] \cap trail.told[k] = {}

ToldIsBehind ==
  trail.next # Null => \A n \in DOMAIN trail.told : \A i \in trail.told[n] : ~Older(PlayOf(i), trail.next)

NoneIsLeftOut ==
  \A i \in trail.there :
    /\ IsDue(i, trail.who)
    /\ \/ \E n \in DOMAIN trail.told : i \in trail.told[n]
       \/ trail.next # Null /\ Older(PlayOf(i), trail.next)

OldestOf(n, S) == n \in S /\ \A i \in S : ~Older(PlayOf(i), PlayOf(n))
NewestOf(n, S) == n \in S /\ \A i \in S : ~Older(PlayOf(n), PlayOf(i))

(* The ids of the table that are still to be told. *)
ToTell == {i \in Ids(rows) : IsDue(i, trail.who) /\ Older(PlayOf(i), trail.next)}

StopsAreWhole ==
  trail.still =>
    /\ \A n \in DOMAIN trail.told : trail.told[n] \subseteq Ids(rows)
    /\ \A n \in 1 .. Len(trail.told) - 1 :
         \E o, w \in KnownIds : /\ OldestOf(o, trail.told[n]) /\ NewestOf(w, trail.told[n + 1])
                             /\ Key(PlayOf(o)) # Key(PlayOf(w))
    /\ trail.next # Null =>
         \E o, w \in KnownIds : /\ OldestOf(o, trail.told[Len(trail.told)]) /\ NewestOf(w, ToTell)
                             /\ Key(PlayOf(o)) # Key(PlayOf(w))

TrailInv ==
  trail # Null => /\ TrailShape /\ trail.told # <<>>
                  /\ ToldApart /\ ToldIsBehind /\ NoneIsLeftOut /\ StopsAreWhole

-----------------------------------------------------------------------------

(* A row is the play of its id in all that is told of it.                    *)
LEMMA RowIsPlay ==
  ASSUME PagesTypeOK, NEW r \in rows
  PROVE  /\ r.id \in KnownIds /\ r.id \in Nat /\ r.start \in Nat /\ r.end \in Nat /\ r.duration_s \in Nat
         /\ PlayOf(r.id).id = r.id /\ PlayOf(r.id).start = r.start
         /\ PlayOf(r.id).user = r.user /\ PlayOf(r.id).duration_s = r.duration_s
         /\ Key(PlayOf(r.id)) = Key(r)
<1>1. PICK p \in PlaysToCome : r = [p EXCEPT !.active = r.active]
  BY DEF PagesTypeOK
<1>2. p = [id |-> p.id, user |-> p.user, item |-> p.item, series |-> p.series, season |-> p.season,
           type |-> p.type, library |-> p.library, client |-> p.client, ip |-> p.ip, local |-> p.local,
           method |-> p.method, start |-> p.start, end |-> p.end, duration_s |-> p.duration_s,
           position_s |-> p.position_s, runtime_s |-> p.runtime_s, active |-> p.active]
  BY PlaysAssumption
<1>3. p.id \in Nat /\ p.start \in Nat /\ p.end \in Nat /\ p.duration_s \in Nat
  BY PlaysAssumption
<1>4. /\ r.id = p.id /\ r.start = p.start /\ r.end = p.end /\ r.duration_s = p.duration_s /\ r.user = p.user
      /\ r.type = p.type /\ r.series = p.series /\ r.season = p.season /\ r.item = p.item
  BY <1>1, <1>2
<1>5. PlayOf(r.id) = p
  BY <1>4, PlaysAssumption DEF PlayOf
<1>6. Key(r) = Key(p)
  BY <1>4 DEF Key
<1>7. r.id \in KnownIds
  BY <1>4 DEF KnownIds, Ids
<1> QED
  BY <1>3, <1>4, <1>5, <1>6, <1>7

LEMMA PlayFacts ==
  ASSUME NEW n \in KnownIds
  PROVE  PlayOf(n) \in PlaysToCome /\ PlayOf(n).id = n /\ n \in Nat /\ PlayOf(n).start \in Nat
<1>1. \E r \in PlaysToCome : r.id = n
  BY DEF KnownIds, Ids
<1>2. PlayOf(n) \in PlaysToCome /\ PlayOf(n).id = n
  BY <1>1 DEF PlayOf
<1> QED
  BY <1>2, PlaysAssumption

LEMMA RowsTold ==
  ASSUME RowsInv
  PROVE  Told(rows) /\ Ids(rows) \subseteq KnownIds
<1>1. \A r \in rows : r.start \in Nat /\ r.id \in Nat /\ r.id \in KnownIds
  BY RowIsPlay DEF RowsInv
<1>2. \A r, p \in rows : r.id = p.id => r = p
  BY DEF RowsInv, PagesTypeOK
<1> QED
  BY <1>1, <1>2 DEF Told, Ids

(* The table only grows by one, ends and loses plays.                        *)
LEMMA RowsStep ==
  ASSUME RowsInv, Recorded \/ Ended \/ activity_delete \/ DayPasses \/ UNCHANGED <<rows, today>>
  PROVE  RowsInv'
<1>1. CASE Recorded
  <2>1. PICK r \in PlaysToCome : /\ \A p \in rows : p.id # r.id
                                 /\ rows' = rows \cup {r} /\ today' = today
    BY <1>1 DEF Recorded
  <2>2. r = [r EXCEPT !.active = r.active]
    BY PlaysAssumption
  <2>3. PagesTypeOK'
    BY <2>1, <2>2 DEF PagesTypeOK, RowsInv
  <2> QED
    BY <2>1, <2>3, FS_AddElement DEF RowsInv
<1>2. CASE Ended
  <2>1. PICK r \in rows : rows' = (rows \ {r}) \cup {[r EXCEPT !.active = FALSE]} /\ today' = today
    BY <1>2 DEF Ended
  <2>2. PICK p \in PlaysToCome : r = [p EXCEPT !.active = r.active]
    BY DEF RowsInv, PagesTypeOK
  <2> DEFINE z == [r EXCEPT !.active = FALSE]
  <2>3. z = [p EXCEPT !.active = z.active] /\ z.id = r.id
    <3>1. p = [id |-> p.id, user |-> p.user, item |-> p.item, series |-> p.series, season |-> p.season,
               type |-> p.type, library |-> p.library, client |-> p.client, ip |-> p.ip, local |-> p.local,
               method |-> p.method, start |-> p.start, end |-> p.end, duration_s |-> p.duration_s,
               position_s |-> p.position_s, runtime_s |-> p.runtime_s, active |-> p.active]
      BY PlaysAssumption
    <3>2. z = [p EXCEPT !.active = FALSE] /\ z.active = FALSE
      BY <2>2, <3>1
    <3>3. z.id = p.id /\ r.id = p.id
      BY <2>2, <3>1, <3>2
    <3> QED
      BY <3>2, <3>3
  <2> HIDE DEF z
  <2>4. PagesTypeOK'
    BY <2>1, <2>2, <2>3 DEF PagesTypeOK, RowsInv, z
  <2> QED
    BY <2>1, <2>4, FS_AddElement, FS_RemoveElement DEF RowsInv
<1>3. CASE activity_delete
  <2>1. PICK r \in rows : rows' = rows \ {r} /\ today' = today
    BY <1>3 DEF activity_delete
  <2>2. PagesTypeOK'
    BY <2>1 DEF PagesTypeOK, RowsInv
  <2> QED
    BY <2>1, <2>2, FS_RemoveElement DEF RowsInv
<1>4. CASE DayPasses
  BY <1>4, PlaysAssumption DEF DayPasses, RowsInv, PagesTypeOK
<1>5. CASE UNCHANGED <<rows, today>>
  BY <1>5 DEF RowsInv, PagesTypeOK
<1> QED
  BY <1>1, <1>2, <1>3, <1>4, <1>5

-----------------------------------------------------------------------------

(* A table that lost or gained plays, or in which one ended.                 *)
LEMMA UnnoticedStep ==
  ASSUME RowsInv, TrailInv, Unnoticed
  PROVE  TrailInv'
<1> SUFFICES ASSUME trail' # Null
             PROVE  (/\ TrailShape /\ trail.told # <<>>
                     /\ ToldApart /\ ToldIsBehind /\ NoneIsLeftOut /\ StopsAreWhole)'
  BY DEF TrailInv
<1>1. trail # Null /\ trail' = [trail EXCEPT !.there = @ \cap Ids(rows'), !.still = @ /\ Ids(rows') = Ids(rows)]
  BY DEF Unnoticed
<1>2. TrailShape /\ trail.told # <<>> /\ ToldApart /\ ToldIsBehind /\ NoneIsLeftOut /\ StopsAreWhole
  BY <1>1 DEF TrailInv
<1>3. /\ trail'.who = trail.who /\ trail'.told = trail.told /\ trail'.next = trail.next
      /\ trail'.there = trail.there \cap Ids(rows') /\ trail'.still = (trail.still /\ Ids(rows') = Ids(rows))
      /\ trail'.still => trail.still /\ Ids(rows') = Ids(rows)
  BY <1>1, <1>2 DEF TrailShape
<1>4. TrailShape'
  BY <1>1, <1>2 DEF TrailShape
<1>5. ToldApart' /\ ToldIsBehind'
  BY <1>2, <1>3 DEF ToldApart, ToldIsBehind
<1>6. NoneIsLeftOut'
  BY <1>2, <1>3 DEF NoneIsLeftOut
<1>7. StopsAreWhole'
  <2> SUFFICES ASSUME trail'.still PROVE StopsAreWhole'
    BY DEF StopsAreWhole
  <2>1. trail.still /\ Ids(rows') = Ids(rows)
    BY <1>3
  <2>2. ToTell' = ToTell
    BY <1>3, <2>1 DEF ToTell
  <2> QED
    BY <1>2, <1>3, <2>1, <2>2 DEF StopsAreWhole
<1> QED
  BY <1>2, <1>3, <1>4, <1>5, <1>6, <1>7

(* What a page tells, as ids.                                                *)
LEMMA PageIds ==
  ASSUME RowsInv, NEW who, NEW cursor \in Cursors
  PROVE  LET page == TrailPage(rows, who, cursor)
             W == {i \in Ids(rows) : IsDue(i, who) /\ Beyond(PlayOf(i), cursor)}
             P == Ids(page.plays)
         IN  /\ page.next \in Cursors
             /\ P \subseteq W
             /\ page.next = Null => P = W
             /\ W # {} => \E n \in P : NewestOf(n, W)
             /\ page.next # Null =>
                  \E o \in P, n \in W \ P :
                    /\ page.next = [start |-> PlayOf(o).start, id |-> o]
                    /\ OldestOf(o, P) /\ NewestOf(n, W \ P)
                    /\ \A i \in W \ P : Older(PlayOf(i), PlayOf(o))
                    /\ Key(PlayOf(n)) # Key(PlayOf(o))
<1> DEFINE page == TrailPage(rows, who, cursor)
           R == LeftToTell(rows, who, cursor)
           W == {i \in Ids(rows) : IsDue(i, who) /\ Beyond(PlayOf(i), cursor)}
           P == Ids(page.plays)
<1>1. IsFiniteSet(rows) /\ Told(rows)
  BY RowsTold DEF RowsInv
<1>2. /\ page.plays \subseteq R /\ page.next \in Cursors
      /\ page.next = Null => page.plays = R
      /\ R # {} => \E n \in page.plays : \A r \in R : ~Older(n, r)
      /\ page.next # Null =>
           \E o \in page.plays, n \in R \ page.plays :
             /\ page.next = [start |-> o.start, id |-> o.id]
             /\ \A p \in page.plays : ~Older(p, o)
             /\ \A r \in R \ page.plays : Older(r, o) /\ ~Older(n, r)
             /\ Key(n) # Key(o)
  BY <1>1, PageFacts
<1> HIDE DEF page
<1>3. ASSUME NEW r \in rows
      PROVE  /\ PlayOf(r.id).id = r.id /\ PlayOf(r.id).start = r.start
             /\ PlayOf(r.id).user = r.user /\ PlayOf(r.id).duration_s = r.duration_s
             /\ Key(PlayOf(r.id)) = Key(r)
  BY RowIsPlay DEF RowsInv
<1>4. \A r, p \in rows : r.id = p.id => r = p
  BY <1>1 DEF Told
<1>5. R \subseteq rows /\ page.plays \subseteq rows
  BY <1>2 DEF LeftToTell
<1>6. \A r, p \in rows : Older(PlayOf(r.id), PlayOf(p.id)) <=> Older(r, p)
  BY <1>3 DEF Older
<1>7. \A r \in rows : Beyond(PlayOf(r.id), cursor) <=> Beyond(r, cursor)
  BY <1>3 DEF Beyond, Older
<1>8. W = Ids(R)
  BY <1>3, <1>7 DEF Ids, LeftToTell, IsDue
<1>9. W \ P = Ids(R \ page.plays)
  BY <1>4, <1>5, <1>8 DEF Ids
<1> HIDE DEF W, R
<1>10. P \subseteq W /\ (page.next = Null => P = W)
  BY <1>2, <1>8 DEF Ids
<1>11. W # {} => \E n \in P : NewestOf(n, W)
  <2> SUFFICES ASSUME W # {} PROVE \E n \in P : NewestOf(n, W)
    OBVIOUS
  <2>1. R # {}
    BY <1>8 DEF Ids
  <2>2. PICK n \in page.plays : \A r \in R : ~Older(n, r)
    BY <1>2, <2>1
  <2>3. n.id \in P /\ n.id \in W
    BY <1>10 DEF Ids
  <2>4. \A i \in W : ~Older(PlayOf(n.id), PlayOf(i))
    BY <1>5, <1>6, <1>8, <2>2 DEF Ids
  <2> QED
    BY <2>3, <2>4 DEF NewestOf
<1>12. ASSUME page.next # Null
       PROVE  \E o \in P, n \in W \ P :
                /\ page.next = [start |-> PlayOf(o).start, id |-> o]
                /\ OldestOf(o, P) /\ NewestOf(n, W \ P)
                /\ \A i \in W \ P : Older(PlayOf(i), PlayOf(o))
                /\ Key(PlayOf(n)) # Key(PlayOf(o))
  <2>1. PICK o \in page.plays, n \in R \ page.plays :
             /\ page.next = [start |-> o.start, id |-> o.id]
             /\ \A p \in page.plays : ~Older(p, o)
             /\ \A r \in R \ page.plays : Older(r, o) /\ ~Older(n, r)
             /\ Key(n) # Key(o)
    BY <1>2, <1>12
  <2>2. o \in rows /\ n \in rows /\ o.id \in P /\ n.id \in W \ P
    BY <1>5, <1>9, <2>1 DEF Ids
  <2>3. OldestOf(o.id, P)
    BY <1>5, <1>6, <2>1, <2>2 DEF OldestOf, Ids
  <2>4. NewestOf(n.id, W \ P) /\ \A i \in W \ P : Older(PlayOf(i), PlayOf(o.id))
    BY <1>5, <1>6, <1>9, <2>1, <2>2 DEF NewestOf, Ids
  <2>5. page.next = [start |-> PlayOf(o.id).start, id |-> o.id] /\ Key(PlayOf(n.id)) # Key(PlayOf(o.id))
    BY <1>3, <2>1, <2>2
  <2> QED
    BY <2>2, <2>3, <2>4, <2>5
<1> QED
  BY <1>2, <1>10, <1>11, <1>12 DEF page, W

(* Whoever opens the timeline is told its first page.                        *)
LEMMA OpenStep ==
  ASSUME RowsInv, NEW who \in Accounts, OpenTrail(who)
  PROVE  TrailInv'
<1> DEFINE page == TrailPage(rows, who, Null)
           P == Ids(page.plays)
           W == {i \in Ids(rows) : IsDue(i, who) /\ Beyond(PlayOf(i), Null)}
<1>1. /\ trail' = [who |-> who, told |-> <<P>>, next |-> page.next, there |-> Worth(who), still |-> TRUE]
      /\ rows' = rows
  BY DEF OpenTrail, pagesVars
<1>2. /\ page.next \in Cursors
      /\ P \subseteq W
      /\ page.next = Null => P = W
      /\ page.next # Null =>
           \E o \in P, n \in W \ P :
             /\ page.next = [start |-> PlayOf(o).start, id |-> o]
             /\ OldestOf(o, P) /\ NewestOf(n, W \ P)
             /\ \A i \in W \ P : Older(PlayOf(i), PlayOf(o))
             /\ Key(PlayOf(n)) # Key(PlayOf(o))
  BY PageIds DEF Cursors
<1>3. Ids(rows) \subseteq KnownIds
  BY RowsTold
<1>4. Worth(who) = W /\ Worth(who) \subseteq Ids(rows)
  <2>1. \A r \in rows : Beyond(PlayOf(r.id), Null) /\ (IsDue(r.id, who) <=> r.user = who /\ r.duration_s >= MinPlay)
    BY RowIsPlay DEF RowsInv, IsDue, Beyond
  <2> QED
    BY <2>1 DEF Worth, Ids
<1> HIDE DEF page, P, W
<1>5. TrailShape' /\ trail'.told # <<>>
  BY <1>1, <1>2, <1>3, <1>4 DEF TrailShape, W
<1>6. ToldApart'
  BY <1>1 DEF ToldApart
<1>7. \A i \in KnownIds : PlayOf(i).id = i
  BY PlayFacts
<1>8. ToldIsBehind'
  <2> SUFFICES ASSUME page.next # Null, NEW i \in P
               PROVE  ~Older(PlayOf(i), page.next)
    BY <1>1 DEF ToldIsBehind
  <2>1. PICK o \in P : page.next = [start |-> PlayOf(o).start, id |-> o] /\ OldestOf(o, P)
    BY <1>2
  <2>2. o \in KnownIds
    BY <1>2, <1>3 DEF W
  <2> QED
    BY <1>7, <2>1, <2>2 DEF OldestOf, Older
<1>9. NoneIsLeftOut'
  <2> SUFFICES ASSUME NEW i \in W
               PROVE  IsDue(i, who) /\ (i \in P \/ (page.next # Null /\ Older(PlayOf(i), page.next)))
    BY <1>1, <1>4 DEF NoneIsLeftOut
  <2>1. IsDue(i, who)
    BY DEF W
  <2>2. ASSUME page.next # Null, i \notin P
        PROVE  Older(PlayOf(i), page.next)
    <3>1. PICK o \in P : page.next = [start |-> PlayOf(o).start, id |-> o] /\ Older(PlayOf(i), PlayOf(o))
      BY <1>2, <2>2
    <3>2. o \in KnownIds
      BY <1>2, <1>3 DEF W
    <3> QED
      BY <1>7, <3>1, <3>2 DEF Older
  <2> QED
    BY <1>2, <2>1, <2>2
<1>10. StopsAreWhole'
  <2>1. P \subseteq Ids(rows)
    BY <1>2 DEF W
  <2>2. ASSUME page.next # Null
        PROVE  \E o, w \in KnownIds : OldestOf(o, P) /\ NewestOf(w, ToTell') /\ Key(PlayOf(o)) # Key(PlayOf(w))
    <3>1. PICK o \in P, n \in W \ P :
             /\ page.next = [start |-> PlayOf(o).start, id |-> o]
             /\ OldestOf(o, P) /\ NewestOf(n, W \ P)
             /\ \A i \in W \ P : Older(PlayOf(i), PlayOf(o))
             /\ Key(PlayOf(n)) # Key(PlayOf(o))
      BY <1>2, <2>2
    <3>2. o \in KnownIds /\ n \in KnownIds
      BY <1>2, <1>3 DEF W
    <3>3. \A i \in KnownIds : Older(PlayOf(i), page.next) <=> Older(PlayOf(i), PlayOf(o))
      BY <1>7, <3>1, <3>2 DEF Older
    <3>4. ToTell' = {i \in Ids(rows) : IsDue(i, who) /\ Older(PlayOf(i), page.next)}
      BY <1>1 DEF ToTell
    <3>5. ToTell' = W \ P
      BY <1>3, <3>1, <3>3, <3>4 DEF W, Beyond, OldestOf
    <3> QED
      BY <3>1, <3>2, <3>5
  <2>3. trail'.told = <<P>> /\ trail'.next = page.next
    BY <1>1
  <2>4. DOMAIN trail'.told = {1} /\ Len(trail'.told) = 1 /\ trail'.told[1] = P
    BY <2>3
  <2>5. \A n \in DOMAIN trail'.told : trail'.told[n] \subseteq Ids(rows')
    BY <1>1, <2>1, <2>4
  <2>6. \A n \in 1 .. Len(trail'.told) - 1 : FALSE
    BY <2>4
  <2> QED
    BY <2>2, <2>3, <2>4, <2>5, <2>6 DEF StopsAreWhole
<1> QED
  BY <1>5, <1>6, <1>8, <1>9, <1>10 DEF TrailInv

(* The next page begins after the oldest play of this one.                   *)
LEMMA TurnStep ==
  ASSUME RowsInv, TrailInv, TurnTrail
  PROVE  TrailInv'
<1> DEFINE who == trail.who
           cursor == trail.next
           page == TrailPage(rows, who, cursor)
           P == Ids(page.plays)
           W == {i \in Ids(rows) : IsDue(i, who) /\ Beyond(PlayOf(i), cursor)}
           K == Len(trail.told)
<1>1. TrailShape /\ trail.told # <<>> /\ ToldApart /\ ToldIsBehind /\ NoneIsLeftOut /\ StopsAreWhole
  BY DEF TrailInv, TurnTrail
<1>2. /\ cursor # Null /\ cursor \in Cursors
      /\ trail' = [trail EXCEPT !.told = Append(@, P), !.next = page.next]
      /\ rows' = rows
  BY <1>1 DEF TurnTrail, pagesVars, TrailShape
<1>3. /\ page.next \in Cursors
      /\ P \subseteq W
      /\ page.next = Null => P = W
      /\ W # {} => \E n \in P : NewestOf(n, W)
      /\ page.next # Null =>
           \E o \in P, n \in W \ P :
             /\ page.next = [start |-> PlayOf(o).start, id |-> o]
             /\ OldestOf(o, P) /\ NewestOf(n, W \ P)
             /\ \A i \in W \ P : Older(PlayOf(i), PlayOf(o))
             /\ Key(PlayOf(n)) # Key(PlayOf(o))
  BY <1>2, PageIds
<1>4. Ids(rows) \subseteq KnownIds /\ W \subseteq KnownIds /\ P \subseteq KnownIds
  BY <1>3, RowsTold
<1>5. \A i \in KnownIds : PlayOf(i).id = i /\ i \in Nat /\ PlayOf(i).start \in Nat
  BY PlayFacts
<1>6. W = ToTell
  BY <1>2 DEF ToTell, Beyond
<1>7. \A i \in W : Older(PlayOf(i), cursor)
  BY <1>2 DEF Beyond
<1> HIDE DEF page, P, W
<1>8. /\ trail'.who = trail.who /\ trail'.there = trail.there /\ trail'.still = trail.still
      /\ trail'.told = Append(trail.told, P) /\ trail'.next = page.next
      /\ trail.told \in Seq(SUBSET KnownIds) /\ K \in Nat \ {0}
      /\ trail'.told # <<>> /\ TrailShape'
  <2>1. trail.told \in Seq(SUBSET KnownIds) /\ trail.told # <<>> /\ P \in SUBSET KnownIds
    BY <1>1, <1>4 DEF TrailShape
  <2>2. K \in Nat \ {0} /\ Append(trail.told, P) \in Seq(SUBSET KnownIds) /\ Append(trail.told, P) # <<>>
    BY <2>1
  <2> HIDE DEF K
  <2>3. trail' = [trail EXCEPT !.told = Append(trail.told, P), !.next = page.next]
    BY <1>2
  <2>4. TrailShape'
    BY <1>1, <1>2, <1>3, <2>2, <2>3 DEF TrailShape
  <2> QED
    BY <1>1, <2>1, <2>2, <2>3, <2>4 DEF TrailShape
<1>9. /\ Len(trail'.told) = K + 1 /\ DOMAIN trail'.told = 1 .. K + 1 /\ DOMAIN trail.told = 1 .. K
      /\ trail'.told[K + 1] = P /\ \A n \in 1 .. K : trail'.told[n] = trail.told[n]
  BY <1>8
<1>10. \A n \in 1 .. K : \A i \in trail.told[n] : i \in KnownIds /\ ~Older(PlayOf(i), cursor)
  BY <1>1, <1>2, <1>8, <1>9 DEF ToldIsBehind
<1>11. ToldApart'
  <2>1. \A n \in 1 .. K : trail.told[n] \cap P = {}
    BY <1>3, <1>7, <1>10
  <2>2. \A n, k \in 1 .. K : n # k => trail.told[n] \cap trail.told[k] = {}
    BY <1>1, <1>9 DEF ToldApart
  <2> SUFFICES ASSUME NEW n \in 1 .. K + 1, NEW k \in 1 .. K + 1, n # k
               PROVE  trail'.told[n] \cap trail'.told[k] = {}
    BY <1>9 DEF ToldApart
  <2>3. (n \in 1 .. K \/ n = K + 1) /\ (k \in 1 .. K \/ k = K + 1)
    BY <1>8
  <2> QED
    BY <1>9, <2>1, <2>2, <2>3
(* When there is a next page, it begins at the oldest play of this one. *)
<1>12. ASSUME page.next # Null
       PROVE  \E o \in P, n \in W \ P :
                /\ page.next = [start |-> PlayOf(o).start, id |-> o]
                /\ \A i \in KnownIds : Older(PlayOf(i), page.next) <=> Older(PlayOf(i), PlayOf(o))
                /\ Older(PlayOf(o), cursor)
                /\ OldestOf(o, P) /\ NewestOf(n, W \ P)
                /\ \A i \in W \ P : Older(PlayOf(i), PlayOf(o))
                /\ Key(PlayOf(n)) # Key(PlayOf(o))
  <2>1. PICK o \in P, n \in W \ P :
             /\ page.next = [start |-> PlayOf(o).start, id |-> o]
             /\ OldestOf(o, P) /\ NewestOf(n, W \ P)
             /\ \A i \in W \ P : Older(PlayOf(i), PlayOf(o))
             /\ Key(PlayOf(n)) # Key(PlayOf(o))
    BY <1>3, <1>12
  <2>2. \A i \in KnownIds : Older(PlayOf(i), page.next) <=> Older(PlayOf(i), PlayOf(o))
    BY <1>4, <1>5, <2>1 DEF Older
  <2>3. Older(PlayOf(o), cursor)
    BY <1>3, <1>7
  <2> QED
    BY <2>1, <2>2, <2>3
<1>13. \A i \in KnownIds, o \in KnownIds :
         Older(PlayOf(o), cursor) /\ ~Older(PlayOf(i), cursor) => ~Older(PlayOf(i), PlayOf(o))
  <2>1. cursor.start \in Nat /\ cursor.id \in Nat
    BY <1>2 DEF Cursors
  <2> QED
    BY <1>5, <2>1 DEF Older
<1>14. ToldIsBehind'
  <2> SUFFICES ASSUME page.next # Null, NEW n \in 1 .. K + 1, NEW i \in trail'.told[n]
               PROVE  ~Older(PlayOf(i), page.next)
    BY <1>8, <1>9 DEF ToldIsBehind
  <2>1. PICK o \in P : /\ \A j \in KnownIds : Older(PlayOf(j), page.next) <=> Older(PlayOf(j), PlayOf(o))
                       /\ Older(PlayOf(o), cursor) /\ OldestOf(o, P)
    BY <1>12
  <2>2. CASE n = K + 1
    <3>1. i \in P
      BY <1>9, <2>2
    <3> QED
      BY <1>4, <2>1, <3>1 DEF OldestOf
  <2>3. CASE n \in 1 .. K
    BY <1>4, <1>9, <1>10, <1>13, <2>1, <2>3
  <2> QED
    BY <1>8, <2>2, <2>3
<1>15. NoneIsLeftOut'
  <2> SUFFICES ASSUME NEW i \in trail.there, \A n \in 1 .. K + 1 : i \notin trail'.told[n]
               PROVE  page.next # Null /\ Older(PlayOf(i), page.next)
    BY <1>1, <1>8, <1>9 DEF NoneIsLeftOut
  <2>1. i \in Ids(rows) /\ IsDue(i, who) /\ Older(PlayOf(i), cursor)
    BY <1>1, <1>8, <1>9 DEF NoneIsLeftOut, TrailShape
  <2>2. i \in W /\ i \notin P
    BY <1>8, <1>9, <2>1 DEF W, Beyond
  <2>3. page.next # Null
    BY <1>3, <2>2
  <2> QED
    BY <1>4, <1>12, <2>2, <2>3
<1>16. StopsAreWhole'
  <2> SUFFICES ASSUME trail.still
               PROVE  /\ \A n \in 1 .. K + 1 : trail'.told[n] \subseteq Ids(rows)
                      /\ \A n \in 1 .. K :
                           \E o, w \in KnownIds : /\ OldestOf(o, trail'.told[n]) /\ NewestOf(w, trail'.told[n + 1])
                                               /\ Key(PlayOf(o)) # Key(PlayOf(w))
                      /\ page.next # Null =>
                           \E o, w \in KnownIds : /\ OldestOf(o, P) /\ NewestOf(w, ToTell')
                                               /\ Key(PlayOf(o)) # Key(PlayOf(w))
    <3>1. Len(trail'.told) - 1 = K
      BY <1>8, <1>9
    <3> QED
      BY <1>2, <1>8, <1>9, <3>1 DEF StopsAreWhole
  <2>1. ASSUME NEW n \in 1 .. K + 1
        PROVE  trail'.told[n] \subseteq Ids(rows)
    <3>1. CASE n \in 1 .. K
      BY <1>1, <1>9, <3>1 DEF StopsAreWhole
    <3>2. CASE n = K + 1
      BY <1>3, <1>9, <3>2 DEF W
    <3> QED
      BY <1>8, <3>1, <3>2
  <2>2. ASSUME NEW n \in 1 .. K
        PROVE  \E o, w \in KnownIds : /\ OldestOf(o, trail'.told[n]) /\ NewestOf(w, trail'.told[n + 1])
                                   /\ Key(PlayOf(o)) # Key(PlayOf(w))
    <3>1. CASE n \in 1 .. K - 1
      <4>1. n + 1 \in 1 .. K
        BY <1>8, <3>1
      <4> QED
        BY <1>1, <1>9, <3>1, <4>1 DEF StopsAreWhole
    <3>2. CASE n = K
      <4>1. PICK o, w \in KnownIds : OldestOf(o, trail.told[K]) /\ NewestOf(w, W) /\ Key(PlayOf(o)) # Key(PlayOf(w))
        BY <1>1, <1>2, <1>6 DEF StopsAreWhole
      <4>2. PICK n1 \in P : NewestOf(n1, W)
        BY <1>3, <4>1 DEF NewestOf
      <4>3. n1 = w
        <5>1. n1 \in W /\ w \in W /\ ~Older(PlayOf(w), PlayOf(n1)) /\ ~Older(PlayOf(n1), PlayOf(w))
          BY <4>1, <4>2 DEF NewestOf
        <5> QED
          BY <1>4, <1>5, <5>1 DEF Older
      <4>4. NewestOf(w, P)
        BY <1>3, <4>1, <4>2, <4>3 DEF NewestOf
      <4> QED
        BY <1>8, <1>9, <3>2, <4>1, <4>4
    <3> QED
      BY <1>8, <3>1, <3>2
  <2>3. ASSUME page.next # Null
        PROVE  \E o, w \in KnownIds : OldestOf(o, P) /\ NewestOf(w, ToTell') /\ Key(PlayOf(o)) # Key(PlayOf(w))
    <3>1. PICK o \in P, n \in W \ P :
                /\ \A i \in KnownIds : Older(PlayOf(i), page.next) <=> Older(PlayOf(i), PlayOf(o))
                /\ Older(PlayOf(o), cursor)
                /\ OldestOf(o, P) /\ NewestOf(n, W \ P)
                /\ \A i \in W \ P : Older(PlayOf(i), PlayOf(o))
                /\ Key(PlayOf(n)) # Key(PlayOf(o))
      BY <1>12, <2>3
    <3>2. ToTell' = {i \in Ids(rows) : IsDue(i, who) /\ Older(PlayOf(i), page.next)}
      BY <1>2, <1>8 DEF ToTell
    <3>3. \A i \in KnownIds : Older(PlayOf(i), PlayOf(o)) => Older(PlayOf(i), cursor)
      BY <1>4, <1>13, <3>1
    <3>4. ToTell' = W \ P
      BY <1>2, <1>4, <3>1, <3>2, <3>3 DEF W, Beyond, OldestOf
    <3> QED
      BY <1>4, <3>1, <3>4
  <2> QED
    BY <2>1, <2>2, <2>3
<1> QED
  BY <1>8, <1>11, <1>14, <1>15, <1>16 DEF TrailInv

(* A table in which no two rows have an id, and the reading of one timeline. *)
StoriesInv == RowsInv /\ TrailInv

LEMMA StoriesInitially == StoriesInit => StoriesInv
  BY FS_EmptySet, PlaysAssumption
     DEF StoriesInit, PagesInit, StoriesInv, RowsInv, PagesTypeOK, TrailInv

LEMMA SameTrail ==
  ASSUME TrailInv, UNCHANGED <<rows, trail>>
  PROVE  TrailInv'
<1> SUFFICES ASSUME trail # Null
             PROVE  (/\ TrailShape /\ trail.told # <<>>
                     /\ ToldApart /\ ToldIsBehind /\ NoneIsLeftOut /\ StopsAreWhole)'
  BY DEF TrailInv
<1>1. TrailShape /\ trail.told # <<>> /\ ToldApart /\ ToldIsBehind /\ NoneIsLeftOut /\ StopsAreWhole
  BY DEF TrailInv
<1>2. ToTell' = ToTell
  BY DEF ToTell
<1> QED
  BY <1>1, <1>2 DEF TrailShape, ToldApart, ToldIsBehind, NoneIsLeftOut, StopsAreWhole

LEMMA StoriesStep ==
  ASSUME StoriesInv, [StoriesNext]_storiesVars
  PROVE  StoriesInv'
<1>1. RowsInv /\ TrailInv
  BY DEF StoriesInv
<1>2. CASE PagesNext /\ Unnoticed
  BY <1>1, <1>2, RowsStep, UnnoticedStep DEF PagesNext, StoriesInv
<1>3. ASSUME NEW who \in Accounts, OpenTrail(who)
      PROVE  StoriesInv'
  BY <1>1, <1>3, RowsStep, OpenStep DEF OpenTrail, pagesVars, StoriesInv
<1>4. CASE TurnTrail
  BY <1>1, <1>4, RowsStep, TurnStep DEF TurnTrail, pagesVars, StoriesInv
<1>5. CASE UNCHANGED <<rows, today, trail>>
  BY <1>1, <1>5, RowsStep, SameTrail DEF StoriesInv
<1>6. ASSUME NEW who, NEW its, NEW seen, mark_seen(who, its, seen)
      PROVE  StoriesInv'
  BY <1>5, <1>6 DEF mark_seen, pagesVars
<1> QED
  BY <1>2, <1>3, <1>4, <1>5, <1>6 DEF StoriesNext, storiesVars, pagesVars

(* What the timeline promises follows: the oldest of a page and the newest    *)
(* of the next are the rows of the two ids.                                  *)
LEMMA ToldAsPromised ==
  ASSUME StoriesInv
  PROVE  TimelineIsWhole
<1> SUFFICES ASSUME trail # Null PROVE TimelineIsWhole
  BY DEF TimelineIsWhole
<1>1. TrailShape /\ ToldApart /\ NoneIsLeftOut /\ StopsAreWhole
  BY DEF StoriesInv, TrailInv
<1>2. Told(rows)
  BY RowsTold DEF StoriesInv
<1>3. \A r \in rows : PlayOf(r.id).id = r.id /\ PlayOf(r.id).start = r.start /\ Key(PlayOf(r.id)) = Key(r)
  BY RowIsPlay DEF StoriesInv, RowsInv
<1> DEFINE Of(n) == {r \in rows : r.id \in trail.told[n]}
           Oldest(R) == CHOOSE r \in R : \A p \in R : ~Older(p, r)
           Newest(R) == CHOOSE r \in R : \A p \in R : ~Older(r, p)
<1>4. trail.next = Null => trail.there \subseteq UNION {trail.told[n] : n \in DOMAIN trail.told}
  BY <1>1 DEF NoneIsLeftOut
<1>5. ASSUME NEW R \in SUBSET rows, NEW o \in R, \A r \in R : ~Older(PlayOf(r.id), PlayOf(o.id))
      PROVE  Oldest(R) = o
  <2>1. \A p \in R : ~Older(p, o)
    BY <1>3, <1>5 DEF Older
  <2>2. Oldest(R) \in R /\ \A p \in R : ~Older(p, Oldest(R))
    BY <2>1
  <2> HIDE DEF Oldest
  <2>3. ~Older(o, Oldest(R)) /\ ~Older(Oldest(R), o)
    BY <2>1, <2>2
  <2> QED
    BY <1>2, <2>2, <2>3 DEF Told, Older
<1>6. ASSUME NEW R \in SUBSET rows, NEW o \in R, \A r \in R : ~Older(PlayOf(o.id), PlayOf(r.id))
      PROVE  Newest(R) = o
  <2>1. \A p \in R : ~Older(o, p)
    BY <1>3, <1>6 DEF Older
  <2>2. Newest(R) \in R /\ \A p \in R : ~Older(Newest(R), p)
    BY <2>1
  <2> HIDE DEF Newest
  <2>3. ~Older(o, Newest(R)) /\ ~Older(Newest(R), o)
    BY <2>1, <2>2
  <2> QED
    BY <1>2, <2>2, <2>3 DEF Told, Older
<1>7. ASSUME trail.still, NEW n \in 1 .. Len(trail.told) - 1
      PROVE  Key(Oldest(Of(n))) # Key(Newest(Of(n + 1)))
  <2>1. n \in DOMAIN trail.told /\ n + 1 \in DOMAIN trail.told
    BY <1>1 DEF TrailShape
  <2>2. trail.told[n] \subseteq Ids(rows) /\ trail.told[n + 1] \subseteq Ids(rows)
    BY <1>1, <1>7, <2>1 DEF StopsAreWhole
  <2>3. PICK o, w \in KnownIds : /\ OldestOf(o, trail.told[n]) /\ NewestOf(w, trail.told[n + 1])
                              /\ Key(PlayOf(o)) # Key(PlayOf(w))
    BY <1>1, <1>7 DEF StopsAreWhole
  <2>4. PICK r \in rows : r.id = o
    BY <2>2, <2>3 DEF OldestOf, Ids
  <2>5. PICK p \in rows : p.id = w
    BY <2>2, <2>3 DEF NewestOf, Ids
  <2>6. Oldest(Of(n)) = r
    <3>1. r \in Of(n) /\ \A q \in Of(n) : ~Older(PlayOf(q.id), PlayOf(r.id))
      BY <2>3, <2>4 DEF OldestOf
    <3> HIDE DEF Oldest
    <3> QED
      BY <1>5, <3>1
  <2>7. Newest(Of(n + 1)) = p
    <3>1. p \in Of(n + 1) /\ \A q \in Of(n + 1) : ~Older(PlayOf(p.id), PlayOf(q.id))
      BY <2>3, <2>5 DEF NewestOf
    <3> HIDE DEF Newest
    <3> QED
      BY <1>6, <3>1
  <2> QED
    BY <1>3, <2>3, <2>4, <2>5, <2>6, <2>7
<1> QED
  BY <1>1, <1>4, <1>7 DEF TimelineIsWhole, ToldApart

(* Whoever reads the timeline to its end is told of every play that was      *)
(* there all along exactly once, and no page ends inside a stop while the    *)
(* table stays: for any plays, people, pages and changes (`fold`, `page`).   *)
THEOREM TimelineTellsAll == StoriesSpec => []TimelineIsWhole
<1>1. StoriesInv /\ [StoriesNext]_storiesVars => StoriesInv'
  BY StoriesStep
<1>2. StoriesInv => TimelineIsWhole
  BY ToldAsPromised
<1> QED
  BY <1>1, <1>2, StoriesInitially, PTL DEF StoriesSpec

-----------------------------------------------------------------------------
(* Bursts of failed sign-ins.                                                *)

(* An entry of the log as it is stored, and what a scan makes of one. *)
Ev(i) == [Log[i] EXCEPT !.id = i]
Counts(i, since) == Log[i].type = "AuthenticationFailed" /\ Log[i].at >= since
AccountsOf(n) == {e.name : e \in server_events(n)}

BurstOf(e, S, since) == [dedupe |-> <<e.name, e.id>>, of |-> {y.id : y \in S}, since |-> since]

Scanned(g, e, since) ==
  LET seen == {y \in g.window[e.name] : e.at - y.at <= BurstWindow} \cup {e}
      full == Cardinality(seen) >= BurstMin
  IN  [window |-> [g.window EXCEPT ![e.name] = IF full THEN Cleared(seen) ELSE seen],
       found |-> IF full THEN g.found \cup {BurstOf(e, seen, since)} ELSE g.found]

BurstsOf(n, since) == {BurstOf(e, S, since) : e \in server_events(n), S \in SUBSET server_events(n)}

ScanStates(n, since) == [window : [AccountsOf(n) -> SUBSET server_events(n)], found : SUBSET BurstsOf(n, since)]

NothingScanned(n) == [window |-> [who \in AccountsOf(n) |-> {}], found |-> {}]

LEMMA EventFacts ==
  ASSUME NEW i \in 1 .. Len(Log)
  PROVE  /\ Ev(i).id = i /\ Ev(i).at = Log[i].at /\ Ev(i).type = Log[i].type /\ Ev(i).name = Log[i].name
         /\ Ev(i).user = Log[i].user /\ Ev(i).ip = Log[i].ip /\ Ev(i).local = Log[i].local
         /\ Ev(i).at \in Nat
<1>1. /\ Log[i] = [id |-> Log[i].id, at |-> Log[i].at, type |-> Log[i].type, name |-> Log[i].name,
                   user |-> Log[i].user, ip |-> Log[i].ip, local |-> Log[i].local]
      /\ Log[i].at \in Nat
  BY AlertsAssumption
<1> QED
  BY <1>1 DEF Ev

LEMMA ScannedType ==
  ASSUME NEW n, NEW since, NEW g \in ScanStates(n, since), NEW e \in server_events(n)
  PROVE  Scanned(g, e, since) \in ScanStates(n, since)
<1> DEFINE SE == server_events(n)
           seen == {y \in g.window[e.name] : e.at - y.at <= BurstWindow} \cup {e}
           full == Cardinality(seen) >= BurstMin
<1>1. e.name \in AccountsOf(n)
  BY DEF AccountsOf
<1>2. g.window \in [AccountsOf(n) -> SUBSET SE] /\ g.found \in SUBSET BurstsOf(n, since)
  BY DEF ScanStates
<1>3. seen \in SUBSET SE
  BY <1>1, <1>2
<1>4. BurstOf(e, seen, since) \in BurstsOf(n, since)
  <2> HIDE DEF seen
  <2> QED
    BY <1>3 DEF BurstsOf
<1>5. (IF full THEN Cleared(seen) ELSE seen) \in SUBSET SE
  BY <1>3 DEF Cleared
<1>6. Scanned(g, e, since) =
        [window |-> [g.window EXCEPT ![e.name] = IF full THEN Cleared(seen) ELSE seen],
         found |-> IF full THEN g.found \cup {BurstOf(e, seen, since)} ELSE g.found]
  BY DEF Scanned
<1> DEFINE next == IF full THEN Cleared(seen) ELSE seen
           one == BurstOf(e, seen, since)
           win == [g.window EXCEPT ![e.name] = next]
           fnd == IF full THEN g.found \cup {one} ELSE g.found
<1>7. next \in SUBSET SE /\ one \in BurstsOf(n, since) /\ Scanned(g, e, since) = [window |-> win, found |-> fnd]
  BY <1>4, <1>5, <1>6
<1> HIDE DEF seen, full, next, one, SE
<1>8. win \in [AccountsOf(n) -> SUBSET SE] /\ fnd \in SUBSET BurstsOf(n, since)
  BY <1>1, <1>2, <1>7
<1> HIDE DEF win, fnd
<1> QED
  BY <1>7, <1>8 DEF ScanStates, SE

(* The scan reads the log entry by entry.                                    *)
LEMMA ScanIs ==
  ASSUME NEW n \in 0 .. Len(Log), NEW since \in Int
  PROVE  \E g \in [0 .. n -> ScanStates(n, since)] :
           /\ g[0] = NothingScanned(n)
           /\ \A k \in 1 .. n : g[k] = IF Counts(k, since) THEN Scanned(g[k - 1], Ev(k), since) ELSE g[k - 1]
           /\ bursts(n, since) = g[n].found
<1> DEFINE S == Failures(n, since)
           N == Cardinality(S)
           before == [e \in S |-> {y \in S : y.at < e.at \/ (y.at = e.at /\ y.id < e.id)}]
           w == InOrder(S, LAMBDA y, z : y.at < z.at \/ (y.at = z.at /\ y.id < z.id))
           X == ScanStates(n, since)
           Step(f) == [i \in 0 .. Len(w) |-> IF i = 0 THEN NothingScanned(n) ELSE Scanned(f[i - 1], w[i], since)]
           kept == CHOOSE f : f = Step(f)
           D == [i \in 1 .. N |-> [g \in X |-> Scanned(g, w[i], since)]]
<1>1. n \in Nat /\ Len(Log) \in Nat /\ \A i \in 1 .. n : i \in 1 .. Len(Log)
  BY AlertsAssumption
<1>2. S = {Ev(i) : i \in {j \in 1 .. n : Counts(j, since)}} /\ S \subseteq server_events(n)
  <2>1. \A i \in 1 .. n : /\ Ev(i).type = Log[i].type /\ Ev(i).at = Log[i].at
    BY <1>1, EventFacts
  <2>2. server_events(n) = {Ev(i) : i \in 1 .. n}
    BY DEF server_events, Ev
  <2> QED
    BY <2>1, <2>2 DEF Failures, Counts
<1>3. \A e \in S : e.id \in 1 .. n /\ e = Ev(e.id) /\ Counts(e.id, since) /\ e.at \in Nat /\ e.at = Log[e.id].at
  BY <1>1, <1>2, EventFacts
<1>4. \A k \in 1 .. n : Counts(k, since) => Ev(k) \in S /\ Ev(k).id = k
  BY <1>1, <1>2, EventFacts
<1> HIDE DEF S
<1>5. IsFiniteSet(S)
  <2> DEFINE idOf == [e \in S |-> e.id]
  <2>1. idOf \in Injection(S, 1 .. n)
    BY <1>3 DEF Injection, IsInjective
  <2> QED
    BY <1>1, <2>1, FS_Injection, FS_Interval
<1>6. \A y, z \in S : (y.at < z.at \/ (y.at = z.at /\ y.id < z.id)) <=> y.id < z.id
  <2> TAKE y, z \in S
  <2>1. /\ y.id \in 1 .. Len(Log) /\ z.id \in 1 .. Len(Log) /\ y.at \in Nat /\ z.at \in Nat
        /\ y.id < z.id => y.at <= z.at
        /\ z.id < y.id => z.at <= y.at
        /\ y.id = z.id => y.at = z.at
    BY <1>1, <1>3, AlertsAssumption
  <2> QED
    BY <2>1
<1>7. \A e \in S : before[e] = {y \in S : y.id < e.id}
  BY <1>6
<1>8. /\ before \in [S -> SUBSET S]
      /\ \A e \in S : e \notin before[e]
      /\ \A e, y \in S : y \in before[e] => before[y] \subseteq before[e]
      /\ \A e, y \in S : e = y \/ e \in before[y] \/ y \in before[e]
  <2>1. before \in [S -> SUBSET S]
    OBVIOUS
  <2> HIDE DEF before
  <2> QED
    BY <1>1, <1>3, <1>7, <2>1
<1>9. w = [i \in 1 .. N |-> CHOOSE e \in S : Cardinality({y \in S : y.at < e.at \/ (y.at = e.at /\ y.id < e.id)}) = i - 1]
  BY DEF InOrder
<1>10. \A e \in S : before[e] = {y \in S : y.at < e.at \/ (y.at = e.at /\ y.id < e.id)}
  OBVIOUS
<1> HIDE DEF before, w
<1>11. /\ N \in Nat
       /\ \A e \in S : Cardinality(before[e]) \in 0 .. N - 1
       /\ \A e, y \in S : e \in before[y] <=> Cardinality(before[e]) < Cardinality(before[y])
       /\ \A k \in 1 .. N : \E e \in S : Cardinality(before[e]) = k - 1
  BY <1>5, <1>8, Places
<1>12. ASSUME NEW i \in 1 .. N
       PROVE  w[i] \in S /\ Cardinality(before[w[i]]) = i - 1
  <2>1. \E e \in S : Cardinality({y \in S : y.at < e.at \/ (y.at = e.at /\ y.id < e.id)}) = i - 1
    BY <1>10, <1>11
  <2>2. w[i] \in S /\ Cardinality({y \in S : y.at < w[i].at \/ (y.at = w[i].at /\ y.id < w[i].id)}) = i - 1
    BY <1>9, <2>1
  <2> QED
    BY <1>10, <2>2
<1>13. w \in [1 .. N -> S] /\ Len(w) = N
  <2>1. w \in [1 .. N -> S]
    BY <1>9, <1>12
  <2>2. w \in Seq(S)
    BY <1>11, <2>1
  <2> QED
    BY <1>11, <2>1, <2>2
<1>14. /\ D \in [1 .. N -> [X -> X]] /\ NothingScanned(n) \in X
       /\ \A i \in 1 .. N, g \in X : D[i][g] = Scanned(g, w[i], since)
  <2>1. ASSUME NEW i \in 1 .. N, NEW g \in X
        PROVE  Scanned(g, w[i], since) \in X
    BY <1>2, <1>13, ScannedType
  <2>2. NothingScanned(n) \in X
    BY DEF NothingScanned, ScanStates
  <2> HIDE DEF X
  <2> QED
    BY <2>1, <2>2
<1> HIDE DEF X, D
<1>15. PICK f0 \in [0 .. N -> X] : IsFold(f0, N, NothingScanned(n), D)
  BY <1>11, <1>14, FoldExists
<1>16. \E f : f = Step(f)
  <2>1. ASSUME NEW i \in 0 .. N
        PROVE  Step(f0)[i] = f0[i]
    <3>1. CASE i = 0
      BY <1>13, <1>15, <3>1 DEF IsFold
    <3>2. CASE i # 0
      <4>1. i \in 1 .. N /\ i - 1 \in 0 .. N
        BY <1>11, <3>2
      <4>2. f0[i] = Scanned(f0[i - 1], w[i], since)
        BY <1>14, <1>15, <4>1 DEF IsFold
      <4> QED
        BY <1>13, <3>2, <4>2
    <3> QED
      BY <3>1, <3>2
  <2> DEFINE h == Step(f0)
  <2>2. h = [i \in 0 .. N |-> h[i]] /\ f0 = [i \in 0 .. N |-> f0[i]] /\ \A i \in 0 .. N : h[i] = f0[i]
    BY <1>13, <2>1
  <2> HIDE DEF h, kept
  <2>3. f0 = h
    BY <2>2
  <2> QED
    BY <2>3 DEF h
<1>17. kept = Step(kept)
  <2> HIDE DEF Step
  <2> QED
    BY <1>16
<1>18. bursts(n, since) = kept[Len(w)].found
  BY DEF bursts, w, S, Scanned, BurstOf, NothingScanned, AccountsOf
<1> HIDE DEF kept
<1>19. /\ kept = [i \in 0 .. N |-> kept[i]] /\ kept[0] = NothingScanned(n)
       /\ \A i \in 1 .. N : kept[i] = Scanned(kept[i - 1], w[i], since)
  <2>1. kept = [i \in 0 .. N |-> IF i = 0 THEN NothingScanned(n) ELSE Scanned(kept[i - 1], w[i], since)]
    BY <1>13, <1>17
  <2> QED
    BY <1>11, <2>1
<1>20. \A i \in 0 .. N : kept[i] \in X
  <2> DEFINE T == {i \in Nat : i <= N => kept[i] \in X}
  <2>1. 0 \in T
    BY <1>14, <1>19
  <2>2. ASSUME NEW i \in Nat, i \in T PROVE i + 1 \in T
    <3> SUFFICES ASSUME i + 1 <= N PROVE kept[i + 1] \in X
      OBVIOUS
    <3>1. i + 1 \in 1 .. N /\ kept[i] \in X /\ (i + 1) - 1 = i
      BY <1>11, <2>2
    <3>2. w[i + 1] \in server_events(n)
      BY <1>2, <1>13, <3>1
    <3>3. Scanned(kept[i], w[i + 1], since) \in X
      BY <3>1, <3>2, ScannedType DEF X
    <3> QED
      BY <1>19, <3>1, <3>3
  <2> HIDE DEF T
  <2>3. Nat \subseteq T
    BY <2>1, <2>2, NatByStep
  <2> QED
    BY <1>11, <2>3 DEF T
(* As many of the walk as there are up to entry k of the log. *)
<1> DEFINE c == [k \in 0 .. n |-> Cardinality({e \in S : e.id <= k})]
           g == [k \in 0 .. n |-> kept[c[k]]]
<1>21. c[0] = 0 /\ c[n] = N /\ \A k \in 0 .. n : c[k] \in 0 .. N
  <2>1. {e \in S : e.id <= 0} = {} /\ {e \in S : e.id <= n} = S
    BY <1>3
  <2>2. ASSUME NEW k \in 0 .. n
        PROVE  c[k] \in 0 .. N
    <3>1. {e \in S : e.id <= k} \in SUBSET S
      OBVIOUS
    <3>2. IsFiniteSet({e \in S : e.id <= k}) /\ Cardinality({e \in S : e.id <= k}) <= N
      BY <1>5, <3>1, FS_Subset
    <3>3. Cardinality({e \in S : e.id <= k}) \in Nat
      BY <3>2, FS_CardinalityType
    <3> QED
      BY <1>11, <3>2, <3>3
  <2>3. c[0] = Cardinality({e \in S : e.id <= 0}) /\ c[n] = Cardinality({e \in S : e.id <= n})
    BY <1>1
  <2> HIDE DEF c
  <2> QED
    BY <2>1, <2>2, <2>3, FS_EmptySet
<1>22. ASSUME NEW k \in 1 .. n, ~Counts(k, since)
       PROVE  c[k] = c[k - 1]
  <2>1. {e \in S : e.id <= k} = {e \in S : e.id <= k - 1}
    BY <1>1, <1>3, <1>22
  <2> QED
    BY <1>1, <2>1
<1>23. ASSUME NEW k \in 1 .. n, Counts(k, since)
       PROVE  c[k] = c[k - 1] + 1 /\ c[k] \in 1 .. N /\ w[c[k]] = Ev(k)
  <2>1. Ev(k) \in S /\ Ev(k).id = k
    BY <1>4, <1>23
  <2>2. before[Ev(k)] = {e \in S : e.id <= k - 1}
    BY <1>1, <1>3, <1>7, <2>1
  <2>3. {e \in S : e.id <= k} = {e \in S : e.id <= k - 1} \cup {Ev(k)}
    BY <1>1, <1>3, <2>1
  <2>4. c[k - 1] = Cardinality(before[Ev(k)]) /\ k - 1 \in 0 .. n
    BY <1>1, <2>2
  <2>5. IsFiniteSet({e \in S : e.id <= k - 1}) /\ Ev(k) \notin {e \in S : e.id <= k - 1}
    BY <1>1, <1>5, <2>1, FS_Subset
  <2>6. c[k] = c[k - 1] + 1
    <3>1. Cardinality({e \in S : e.id <= k - 1} \cup {Ev(k)}) = Cardinality({e \in S : e.id <= k - 1}) + 1
      BY <2>5, FS_AddElement
    <3>2. c[k] = Cardinality({e \in S : e.id <= k}) /\ c[k - 1] = Cardinality({e \in S : e.id <= k - 1})
      BY <2>4
    <3> QED
      BY <2>3, <3>1, <3>2
  <2> HIDE DEF c
  <2>7. c[k] \in 1 .. N
    BY <1>1, <1>11, <1>21, <2>4, <2>6
  <2>8. w[c[k]] \in S /\ Cardinality(before[w[c[k]]]) = Cardinality(before[Ev(k)])
    BY <1>11, <1>12, <2>1, <2>4, <2>6, <2>7
  <2>9. w[c[k]] \notin before[Ev(k)] /\ Ev(k) \notin before[w[c[k]]]
    BY <1>11, <2>1, <2>8
  <2> QED
    BY <1>8, <2>1, <2>6, <2>7, <2>8, <2>9
<1> HIDE DEF c
<1>24. g \in [0 .. n -> X] /\ g[0] = NothingScanned(n) /\ bursts(n, since) = g[n].found
  BY <1>1, <1>13, <1>18, <1>19, <1>20, <1>21
<1>25. \A k \in 1 .. n : g[k] = IF Counts(k, since) THEN Scanned(g[k - 1], Ev(k), since) ELSE g[k - 1]
  <2> TAKE k \in 1 .. n
  <2>0. k - 1 \in 0 .. n /\ k \in 0 .. n
    BY <1>1
  <2>1. CASE Counts(k, since)
    <3>0. c[k] \in 1 .. N /\ c[k - 1] \in 0 .. N /\ c[k] = c[k - 1] + 1
      BY <1>21, <1>23, <2>0, <2>1
    <3>1. kept[c[k]] = Scanned(kept[c[k] - 1], w[c[k]], since) /\ c[k] - 1 = c[k - 1]
      <4>1. kept[c[k]] = Scanned(kept[c[k] - 1], w[c[k]], since)
        BY <1>19, <3>0
      <4>2. c[k] - 1 = c[k - 1]
        BY <1>11, <3>0
      <4> QED
        BY <4>1, <4>2
    <3> QED
      BY <1>23, <2>0, <2>1, <3>1
  <2>2. CASE ~Counts(k, since)
    BY <1>22, <2>0, <2>2
  <2> QED
    BY <2>1, <2>2
<1> QED
  BY <1>24, <1>25 DEF X

(* g is how a scan of n entries goes. *)
IsScan(g, n, since) ==
  /\ g \in [0 .. n -> ScanStates(n, since)] /\ g[0] = NothingScanned(n)
  /\ \A k \in 1 .. n : g[k] = IF Counts(k, since) THEN Scanned(g[k - 1], Ev(k), since) ELSE g[k - 1]

(* What is in a window, or in a burst, once entry k has been read. *)
InWindow(y, k, since, who) == y.id \in 1 .. k /\ y = Ev(y.id) /\ y.name = who /\ Counts(y.id, since)
InBurst(bst, k, since) ==
  /\ \A j \in bst.of : j \in 1 .. k /\ Log[j].name = bst.dedupe[1] /\ Counts(j, since)
  /\ bst.dedupe[2] \in bst.of /\ bst.dedupe = <<bst.dedupe[1], bst.dedupe[2]>> /\ bst.since = since
  /\ bst = [dedupe |-> bst.dedupe, of |-> bst.of, since |-> bst.since]

ScanInv(s, n, k, since) ==
  /\ \A who \in AccountsOf(n) : \A y \in s.window[who] : InWindow(y, k, since, who)
  /\ \A bst \in s.found : InBurst(bst, k, since) /\ bst.dedupe[1] \in AccountsOf(n)
  /\ \A bst \in s.found : \A y \in s.window[bst.dedupe[1]] : y.id \notin bst.of
  /\ \A bst, cst \in s.found : bst # cst => bst.of \cap cst.of = {}

(* What the window of its account holds when entry k is read. *)
SeenAt(s, k) == {y \in s.window[Log[k].name] : Ev(k).at - y.at <= BurstWindow} \cup {Ev(k)}
FullAt(s, k) == Cardinality(SeenAt(s, k)) >= BurstMin

(* One entry more. *)
LEMMA ScannedFacts ==
  ASSUME NEW n \in 0 .. Len(Log), NEW since \in Int, NEW k \in 1 .. n, Counts(k, since),
         NEW s \in ScanStates(n, since)
  PROVE  /\ Log[k].name \in AccountsOf(n) /\ Ev(k) \in server_events(n)
         /\ Scanned(s, Ev(k), since).window[Log[k].name] = IF FullAt(s, k) THEN {} ELSE SeenAt(s, k)
         /\ \A w \in AccountsOf(n) : w # Log[k].name => Scanned(s, Ev(k), since).window[w] = s.window[w]
         /\ Scanned(s, Ev(k), since).found =
              IF FullAt(s, k) THEN s.found \cup {BurstOf(Ev(k), SeenAt(s, k), since)} ELSE s.found
<1>1. k \in 1 .. Len(Log)
  BY AlertsAssumption
<1>2. Ev(k).name = Log[k].name /\ Ev(k) \in server_events(n)
  BY <1>1, EventFacts DEF server_events, Ev
<1>3. Log[k].name \in AccountsOf(n)
  BY <1>2 DEF AccountsOf
<1>4. s.window \in [AccountsOf(n) -> SUBSET server_events(n)]
  BY DEF ScanStates
<1> QED
  BY <1>2, <1>3, <1>4 DEF Scanned, Cleared, SeenAt, FullAt

LEMMA ScanSound ==
  ASSUME NEW n \in 0 .. Len(Log), NEW since \in Int, NEW g, IsScan(g, n, since)
  PROVE  \A k \in 0 .. n : ScanInv(g[k], n, k, since)
<1> DEFINE T == {k \in Nat : k <= n => ScanInv(g[k], n, k, since)}
<1>1. n \in Nat /\ Len(Log) \in Nat
  BY AlertsAssumption
<1>2. 0 \in T
  BY DEF IsScan, NothingScanned, ScanInv
<1>3. ASSUME NEW k \in Nat, k \in T
      PROVE  k + 1 \in T
  <2> SUFFICES ASSUME k + 1 <= n PROVE ScanInv(g[k + 1], n, k + 1, since)
    OBVIOUS
  <2> DEFINE j == k + 1
             s == g[k]
             z == g[k + 1]
             e == Ev(j)
             who == Log[j].name
             seen == SeenAt(s, j)
             full == FullAt(s, j)
             new == BurstOf(e, seen, since)
  <2>1. j \in 1 .. n /\ j \in 1 .. Len(Log) /\ k \in 0 .. n /\ j - 1 = k /\ s \in ScanStates(n, since)
    BY <1>1 DEF IsScan
  <2>2. ScanInv(s, n, k, since)
    BY <1>1, <1>3
  <2>3. CASE ~Counts(j, since)
    <3>1. z = s
      BY <2>1, <2>3 DEF IsScan
    <3> QED
      BY <2>2, <3>1 DEF ScanInv, InWindow, InBurst
  <2>4. CASE Counts(j, since)
    <3>1. z = Scanned(s, e, since)
      BY <2>1, <2>4 DEF IsScan
    <3>2. /\ who \in AccountsOf(n) /\ e \in server_events(n)
          /\ z.window[who] = IF full THEN {} ELSE seen
          /\ \A w \in AccountsOf(n) : w # who => z.window[w] = s.window[w]
          /\ z.found = IF full THEN s.found \cup {new} ELSE s.found
      <4> HIDE DEF j, s, z
      <4> QED
        BY <2>1, <2>4, <3>1, ScannedFacts
    <3>3. e.id = j /\ e.name = who
      BY <2>1, EventFacts
    <3>4. \A y \in seen : InWindow(y, j, since, who)
      BY <2>1, <2>2, <2>4, <3>2, <3>3 DEF ScanInv, InWindow, SeenAt
    <3>5. /\ new = [dedupe |-> new.dedupe, of |-> new.of, since |-> new.since]
          /\ new.dedupe = <<who, j>> /\ new.dedupe[1] = who /\ new.dedupe[2] = j /\ new.since = since
          /\ new.of = {y.id : y \in seen}
      BY <3>3 DEF BurstOf
    <3>6. InBurst(new, j, since)
      <4>1. j \in new.of
        BY <3>3, <3>5 DEF SeenAt
      <4>2. \A i \in new.of : i \in 1 .. j /\ Log[i].name = who /\ Counts(i, since)
        <5> SUFFICES ASSUME NEW y \in seen PROVE y.id \in 1 .. j /\ Log[y.id].name = who /\ Counts(y.id, since)
          BY <3>5
        <5>1. InWindow(y, j, since, who)
          BY <3>4
        <5>2. y.id \in 1 .. Len(Log)
          BY <1>1, <2>1, <5>1 DEF InWindow
        <5> HIDE DEF seen
        <5> QED
          BY <5>1, <5>2, EventFacts DEF InWindow
      <4> HIDE DEF new
      <4> QED
        BY <3>5, <4>1, <4>2 DEF InBurst
    <3> HIDE DEF new, seen, full, e, j, z
    <3>7. \A w \in AccountsOf(n) : \A y \in z.window[w] : InWindow(y, j, since, w)
      <4>1. \A w \in AccountsOf(n) : \A y \in s.window[w] : InWindow(y, j, since, w)
        BY <2>1, <2>2 DEF ScanInv, InWindow, j
      <4> QED
        BY <3>2, <3>4, <4>1
    <3>8. \A bst \in s.found : InBurst(bst, j, since) /\ bst.dedupe[1] \in AccountsOf(n) /\ j \notin bst.of
      BY <2>1, <2>2 DEF ScanInv, InBurst, j
    <3>9. \A bst \in s.found : \A y \in seen : (bst.dedupe[1] = who => y.id \notin bst.of)
      BY <2>2, <3>2, <3>3, <3>8 DEF ScanInv, seen, SeenAt, e, who
    <3>10. \A bst \in s.found : bst.of \cap new.of = {}
      <4> SUFFICES ASSUME NEW bst \in s.found, NEW y \in seen, y.id \in bst.of PROVE FALSE
        BY <3>5
      <4>1. InWindow(y, j, since, who) /\ InBurst(bst, j, since)
        BY <3>4, <3>8
      <4>2. Log[y.id].name = bst.dedupe[1] /\ Log[y.id].name = who
        <5>1. y.id \in 1 .. Len(Log)
          BY <1>1, <2>1, <4>1 DEF InWindow
        <5> QED
          BY <4>1, <5>1, EventFacts DEF InWindow, InBurst
      <4> QED
        BY <3>9, <4>2
    <3>11. \A bst \in z.found : \A y \in z.window[bst.dedupe[1]] : y.id \notin bst.of
      <4>1. \A bst \in s.found : \A y \in s.window[bst.dedupe[1]] : y.id \notin bst.of
        BY <2>2 DEF ScanInv
      <4> QED
        BY <3>2, <3>5, <3>8, <3>9, <4>1
    <3>12. \A bst, cst \in z.found : bst # cst => bst.of \cap cst.of = {}
      <4>1. \A bst, cst \in s.found : bst # cst => bst.of \cap cst.of = {}
        BY <2>2 DEF ScanInv
      <4> QED
        BY <3>2, <3>10, <4>1
    <3>13. \A bst \in z.found : InBurst(bst, j, since) /\ bst.dedupe[1] \in AccountsOf(n)
      BY <3>2, <3>5, <3>6, <3>8
    <3> QED
      BY <3>7, <3>11, <3>12, <3>13 DEF ScanInv, j, z
  <2> QED
    BY <2>3, <2>4
<1> HIDE DEF T
<1>4. Nat \subseteq T
  BY <1>2, <1>3, NatByStep
<1> QED
  BY <1>1, <1>4 DEF T

(* From one entry to the next.                                               *)
Stepped(g, n, since, k, j) ==
  /\ ~Counts(j, since) => g[j] = g[k]
  /\ Counts(j, since) =>
       /\ Log[j].name \in AccountsOf(n)
       /\ g[j].window[Log[j].name] = IF FullAt(g[k], j) THEN {} ELSE SeenAt(g[k], j)
       /\ \A w \in AccountsOf(n) : w # Log[j].name => g[j].window[w] = g[k].window[w]
       /\ g[j].found = IF FullAt(g[k], j) THEN g[k].found \cup {BurstOf(Ev(j), SeenAt(g[k], j), since)} ELSE g[k].found
  /\ g[k].found \subseteq g[j].found

LEMMA ScanStep ==
  ASSUME NEW n \in 0 .. Len(Log), NEW since \in Int, NEW g, IsScan(g, n, since),
         NEW k \in 0 .. n, NEW j \in 1 .. n, k = j - 1
  PROVE  Stepped(g, n, since, k, j)
<1>1. /\ g[k] \in ScanStates(n, since)
      /\ g[j] = IF Counts(j, since) THEN Scanned(g[k], Ev(j), since) ELSE g[k]
  BY DEF IsScan
<1>2. CASE Counts(j, since)
  <2> DEFINE s == g[k]
  <2>1. s \in ScanStates(n, since) /\ g[j] = Scanned(s, Ev(j), since)
    BY <1>1, <1>2
  <2> HIDE DEF s
  <2>2. /\ Log[j].name \in AccountsOf(n)
        /\ Scanned(s, Ev(j), since).window[Log[j].name] = IF FullAt(s, j) THEN {} ELSE SeenAt(s, j)
        /\ \A w \in AccountsOf(n) : w # Log[j].name => Scanned(s, Ev(j), since).window[w] = s.window[w]
        /\ Scanned(s, Ev(j), since).found =
             IF FullAt(s, j) THEN s.found \cup {BurstOf(Ev(j), SeenAt(s, j), since)} ELSE s.found
    BY <1>2, <2>1, ScannedFacts
  <2> QED
    BY <1>2, <2>1, <2>2 DEF s, Stepped
<1> QED
  BY <1>1, <1>2 DEF Stepped

(* What is found stays found.                                                *)
LEMMA FoundGrows ==
  ASSUME NEW n \in 0 .. Len(Log), NEW since \in Int, NEW g, IsScan(g, n, since), NEW k0 \in 0 .. n
  PROVE  g[k0].found \subseteq g[n].found
<1> DEFINE T == {d \in Nat : k0 + d <= n => g[k0].found \subseteq g[k0 + d].found}
<1>1. n \in Nat /\ k0 \in Nat
  BY AlertsAssumption
<1>2. 0 \in T
  BY <1>1
<1>3. ASSUME NEW d \in Nat, d \in T
      PROVE  d + 1 \in T
  <2> SUFFICES ASSUME k0 + (d + 1) <= n PROVE g[k0].found \subseteq g[k0 + (d + 1)].found
    OBVIOUS
  <2> DEFINE k == k0 + (d + 1)
  <2>1. k \in 1 .. n /\ k - 1 = k0 + d /\ k - 1 \in 0 .. n /\ g[k0].found \subseteq g[k - 1].found
    BY <1>1, <1>3
  <2> HIDE DEF k
  <2>3. g[k - 1].found \subseteq g[k].found
    BY <2>1, ScanStep DEF Stepped
  <2> QED
    BY <2>1, <2>3 DEF k
<1> HIDE DEF T
<1>4. Nat \subseteq T
  BY <1>2, <1>3, NatByStep
<1>5. n - k0 \in T /\ k0 + (n - k0) = n
  BY <1>1, <1>4
<1> QED
  BY <1>1, <1>5 DEF T

(* An attempt on an account between two beginnings of the look-back. *)
Between(who, upto, s0, t0) ==
  \E i \in 1 .. upto : /\ Log[i].type = "AuthenticationFailed" /\ Log[i].name = who
                       /\ s0 <= Log[i].at /\ Log[i].at < t0

(* A later scan finds what an earlier one found of an account, unless an     *)
(* attempt on it fell out of the look-back meanwhile.                        *)
LEMMA LaterFindsAll ==
  ASSUME NEW n \in 0 .. Len(Log), NEW upto \in 0 .. Len(Log), n <= upto,
         NEW s0 \in Int, NEW t0 \in Int, s0 <= t0,
         NEW g, IsScan(g, n, s0), NEW h, IsScan(h, upto, t0),
         NEW bst \in g[n].found, ~Between(bst.dedupe[1], n, s0, t0)
  PROVE  [dedupe |-> bst.dedupe, of |-> bst.of, since |-> t0] \in h[upto].found
<1> DEFINE who == bst.dedupe[1]
           SameWindow(k) == /\ g[k].window[who] = h[k].window[who]
                       /\ \A cst \in g[k].found : cst.dedupe[1] = who => [dedupe |-> cst.dedupe, of |-> cst.of, since |-> t0] \in h[k].found
           T == {k \in Nat : k <= n => SameWindow(k)}
<1>1. n \in Nat /\ upto \in Nat /\ Len(Log) \in Nat
  BY AlertsAssumption
<1>2. who \in AccountsOf(n)
  BY <1>1, ScanSound DEF ScanInv
<1>3. who \in AccountsOf(upto)
  BY <1>1, <1>2 DEF AccountsOf, server_events
<1> HIDE DEF who
<1>4. 0 \in T
  <2>1. g[0].found = {} /\ g[0].window[who] = {} /\ h[0].window[who] = {}
    BY <1>2, <1>3 DEF IsScan, NothingScanned
  <2> QED
    BY <2>1
<1>5. ASSUME NEW k \in Nat, k \in T
      PROVE  k + 1 \in T
  <2> SUFFICES ASSUME k + 1 <= n PROVE SameWindow(k + 1)
    OBVIOUS
  <2> DEFINE j == k + 1
  <2>1. j \in 1 .. n /\ j \in 1 .. upto /\ j \in 1 .. Len(Log) /\ k \in 0 .. n /\ k \in 0 .. upto /\ k = j - 1
    BY <1>1
  <2>2. SameWindow(k)
    BY <1>1, <1>5
  <2> HIDE DEF j
  <2>3. Stepped(g, n, s0, k, j) /\ Stepped(h, upto, t0, k, j)
    <3>1. Stepped(g, n, s0, k, j)
      BY <2>1, ScanStep
    <3>2. Stepped(h, upto, t0, k, j)
      BY <2>1, ScanStep
    <3> QED
      BY <3>1, <3>2
  <2>4. /\ ~Counts(j, s0) => g[j] = g[k]
        /\ ~Counts(j, t0) => h[j] = h[k]
        /\ h[k].found \subseteq h[j].found
    BY <2>3 DEF Stepped
  <2>5. Counts(j, s0) =>
          /\ Log[j].name \in AccountsOf(n)
          /\ g[j].window[Log[j].name] = IF FullAt(g[k], j) THEN {} ELSE SeenAt(g[k], j)
          /\ \A w \in AccountsOf(n) : w # Log[j].name => g[j].window[w] = g[k].window[w]
          /\ g[j].found = IF FullAt(g[k], j) THEN g[k].found \cup {BurstOf(Ev(j), SeenAt(g[k], j), s0)} ELSE g[k].found
    BY <2>3 DEF Stepped
  <2>6. Counts(j, t0) =>
          /\ Log[j].name \in AccountsOf(upto)
          /\ h[j].window[Log[j].name] = IF FullAt(h[k], j) THEN {} ELSE SeenAt(h[k], j)
          /\ \A w \in AccountsOf(upto) : w # Log[j].name => h[j].window[w] = h[k].window[w]
          /\ h[j].found = IF FullAt(h[k], j) THEN h[k].found \cup {BurstOf(Ev(j), SeenAt(h[k], j), t0)} ELSE h[k].found
    BY <2>3 DEF Stepped
  <2>7. Ev(j).name = Log[j].name
    BY <2>1, EventFacts
  <2>8. \A S, s1_ : /\ BurstOf(Ev(j), S, s1_).dedupe = <<Log[j].name, Ev(j).id>> /\ BurstOf(Ev(j), S, s1_).dedupe[1] = Log[j].name
                    /\ BurstOf(Ev(j), S, t0) = [dedupe |-> BurstOf(Ev(j), S, s1_).dedupe, of |-> BurstOf(Ev(j), S, s1_).of, since |-> t0]
    BY <2>7 DEF BurstOf
  <2>9. CASE Log[j].name # who
    <3>1. g[j].window[who] = g[k].window[who]
      BY <1>2, <2>4, <2>5, <2>9
    <3>2. h[j].window[who] = h[k].window[who]
      BY <1>3, <2>4, <2>6, <2>9
    <3>3. \A cst \in g[j].found : cst.dedupe[1] = who => cst \in g[k].found
      BY <2>4, <2>5, <2>8, <2>9
    <3>4. h[k].found \subseteq h[j].found
      BY <2>4, <2>6
    <3> QED
      BY <2>2, <3>1, <3>2, <3>3, <3>4 DEF j
  <2>10. CASE Log[j].name = who
    <3>1. Counts(j, s0) <=> Counts(j, t0)
      <4>1. ~(Log[j].type = "AuthenticationFailed" /\ s0 <= Log[j].at /\ Log[j].at < t0)
        BY <2>1, <2>10 DEF Between, who
      <4>2. Log[j].at \in Nat
        BY <2>1, AlertsAssumption
      <4> QED
        BY <4>1, <4>2 DEF Counts
    <3>2. CASE ~Counts(j, s0)
      BY <2>2, <2>4, <3>1, <3>2 DEF j
    <3>3. CASE Counts(j, s0)
      <4>1. SeenAt(g[k], j) = SeenAt(h[k], j) /\ FullAt(g[k], j) = FullAt(h[k], j)
        BY <2>2, <2>10 DEF SeenAt, FullAt
      <4>2. g[j].window[who] = h[j].window[who]
        BY <2>5, <2>6, <2>10, <3>1, <3>3, <4>1
      <4>3. \A cst \in g[j].found : cst.dedupe[1] = who => [dedupe |-> cst.dedupe, of |-> cst.of, since |-> t0] \in h[j].found
        <5>1. h[k].found \subseteq h[j].found
          BY <2>4, <2>6
        <5>2. CASE FullAt(g[k], j)
          <6>1. BurstOf(Ev(j), SeenAt(g[k], j), t0) \in h[j].found
            BY <2>6, <3>1, <3>3, <4>1, <5>2
          <6>2. g[j].found = g[k].found \cup {BurstOf(Ev(j), SeenAt(g[k], j), s0)}
            BY <2>5, <3>3, <5>2
          <6> QED
            BY <2>2, <2>8, <5>1, <6>1, <6>2
        <5>3. CASE ~FullAt(g[k], j)
          BY <2>2, <2>5, <3>3, <5>1, <5>3
        <5> QED
          BY <5>2, <5>3
      <4> QED
        BY <4>2, <4>3 DEF j
    <3> QED
      BY <3>2, <3>3
  <2> QED
    BY <2>9, <2>10
<1> HIDE DEF T
<1>6. Nat \subseteq T
  BY <1>4, <1>5, NatByStep
<1>7. SameWindow(n)
  BY <1>1, <1>6 DEF T
<1>8. [dedupe |-> bst.dedupe, of |-> bst.of, since |-> t0] \in h[n].found
  BY <1>7 DEF who
<1>9. h[n].found \subseteq h[upto].found
  BY <1>1, FoundGrows
<1> QED
  BY <1>8, <1>9

LEMMA EventsAreFinite ==
  ASSUME NEW n \in 0 .. Len(Log)
  PROVE  IsFiniteSet(server_events(n))
<1> DEFINE ev == [i \in 1 .. n |-> Ev(i)]
<1>1. n \in Nat
  BY AlertsAssumption
<1>2. ev \in Surjection(1 .. n, server_events(n))
  BY DEF Surjection, server_events, Ev
<1> QED
  BY <1>1, <1>2, FS_Surjection, FS_Interval

(* Of a run of failures some are told of.                                    *)
LEMMA RunIsFound ==
  ASSUME NEW n \in 0 .. Len(Log), NEW since \in Int, NEW g, IsScan(g, n, since),
         NEW F \in SUBSET Failures(n, since), Cardinality(F) = BurstMin,
         \A y, z \in F : y.name = z.name /\ y.at - z.at <= BurstWindow
  PROVE  \E bst \in g[n].found : bst.of \cap {y.id : y \in F} # {}
<1> DEFINE ids == {y.id : y \in F}
           SomeTold(k) == \E bst \in g[k].found : bst.of \cap ids # {}
<1>1. n \in Nat /\ Len(Log) \in Nat /\ BurstMin \in Nat \ {0} /\ BurstWindow \in Nat
  BY AlertsAssumption
<1>2. \A y \in F : y.id \in 1 .. n /\ y.id \in 1 .. Len(Log) /\ y = Ev(y.id) /\ Counts(y.id, since) /\ y.at = Log[y.id].at /\ y.name = Log[y.id].name /\ y.at \in Nat
  <2> SUFFICES ASSUME NEW y \in F
               PROVE  y.id \in 1 .. n /\ y.id \in 1 .. Len(Log) /\ y = Ev(y.id) /\ Counts(y.id, since) /\ y.at = Log[y.id].at /\ y.name = Log[y.id].name /\ y.at \in Nat
    OBVIOUS
  <2>1. y \in server_events(n) /\ y.type = "AuthenticationFailed" /\ y.at >= since
    BY DEF Failures
  <2>2. PICK i \in 1 .. n : y = Ev(i)
    BY <2>1 DEF server_events, Ev
  <2>3. i \in 1 .. Len(Log)
    BY <1>1
  <2> QED
    BY <2>1, <2>2, <2>3, EventFacts DEF Counts
<1>3. F # {}
  BY <1>1, FS_EmptySet
<1>4. ids \in SUBSET Nat /\ ids # {} /\ \A i \in ids : i <= n
  BY <1>1, <1>2, <1>3
<1> DEFINE top == Max(ids)
<1>5. top \in ids /\ \A i \in ids : top >= i
  <2> HIDE DEF ids
  <2> QED
    BY <1>1, <1>4, GreatestOf
<1> HIDE DEF top
<1>6. PICK last \in F : last.id = top
  BY <1>5
<1>7. top \in 1 .. n /\ last = Ev(top)
  BY <1>2, <1>6
<1> DEFINE who == last.name
           T == {k \in Nat : k < top => SomeTold(k) \/ {y \in F : y.id <= k} \subseteq g[k].window[who]}
<1>8. who \in AccountsOf(n)
  <2>1. last \in server_events(n)
    BY <1>6 DEF Failures
  <2> QED
    BY <2>1 DEF AccountsOf
<1>9. \A y \in F : y.name = who /\ last.at - y.at <= BurstWindow
  BY <1>6
(* What is in the window of the account is in it at the next failure. *)
<1>10. ASSUME NEW k \in 0 .. top - 1, {y \in F : y.id <= k} \subseteq g[k].window[who],
              Counts(k + 1, since), Log[k + 1].name = who
       PROVE  {y \in F : y.id <= k + 1} \subseteq SeenAt(g[k], k + 1)
  <2> SUFFICES ASSUME NEW y \in F, y.id <= k + 1 PROVE y \in SeenAt(g[k], k + 1)
    OBVIOUS
  <2>1. CASE y.id = k + 1
    BY <1>2, <2>1 DEF SeenAt
  <2>2. CASE y.id # k + 1
    <3>1. y.id <= k /\ y \in g[k].window[who]
      BY <1>2, <1>10, <2>2
    <3>2. k + 1 \in 1 .. Len(Log) /\ k + 1 <= top /\ top \in 1 .. Len(Log)
      BY <1>1, <1>7
    <3>3. Log[k + 1].at <= Log[top].at
      BY <3>2, AlertsAssumption
    <3>4. Ev(k + 1).at = Log[k + 1].at /\ Ev(k + 1).at \in Nat /\ last.at = Log[top].at /\ last.at \in Nat /\ y.at \in Nat
      BY <1>2, <1>6, <3>2, EventFacts
    <3>5. Ev(k + 1).at - y.at <= BurstWindow
      BY <1>1, <1>9, <3>3, <3>4
    <3> QED
      BY <1>10, <3>1, <3>5 DEF SeenAt
  <2> QED
    BY <2>1, <2>2
<1>11. ASSUME NEW k \in 0 .. top - 1, SomeTold(k)
       PROVE  SomeTold(k + 1)
  <2>1. k + 1 \in 1 .. n /\ k \in 0 .. n /\ k = (k + 1) - 1
    BY <1>1, <1>7
  <2>2. g[k].found \subseteq g[k + 1].found
    <3>1. Stepped(g, n, since, k, k + 1)
      BY <2>1, ScanStep
    <3> QED
      BY <3>1 DEF Stepped
  <2> QED
    BY <1>11, <2>2
<1> HIDE DEF who
<1>12. ASSUME NEW k \in 0 .. top - 1, ~SomeTold(k + 1), {y \in F : y.id <= k} \subseteq g[k].window[who]
       PROVE  {y \in F : y.id <= k + 1} \subseteq g[k + 1].window[who]
  <2> DEFINE j == k + 1
  <2>1. j \in 1 .. n /\ k \in 0 .. n /\ k = j - 1 /\ j \in 1 .. Len(Log) /\ j <= top
    BY <1>1, <1>7
  <2>2. /\ ~Counts(j, since) => g[j] = g[k]
        /\ Counts(j, since) =>
             /\ g[j].window[Log[j].name] = IF FullAt(g[k], j) THEN {} ELSE SeenAt(g[k], j)
             /\ \A w \in AccountsOf(n) : w # Log[j].name => g[j].window[w] = g[k].window[w]
             /\ g[j].found = IF FullAt(g[k], j) THEN g[k].found \cup {BurstOf(Ev(j), SeenAt(g[k], j), since)} ELSE g[k].found
    <3> HIDE DEF j
    <3>1. Stepped(g, n, since, k, j)
      BY <2>1, ScanStep
    <3> QED
      BY <3>1 DEF Stepped
  <2>3. CASE Counts(j, since) /\ Log[j].name = who
    <3> HIDE DEF j
    <3>1. /\ g[j].window[who] = IF FullAt(g[k], j) THEN {} ELSE SeenAt(g[k], j)
          /\ g[j].found = IF FullAt(g[k], j) THEN g[k].found \cup {BurstOf(Ev(j), SeenAt(g[k], j), since)} ELSE g[k].found
      BY <2>2, <2>3
    <3>2. {y \in F : y.id <= j} \subseteq SeenAt(g[k], j)
      BY <1>10, <1>12, <2>3 DEF j
    <3>3. CASE FullAt(g[k], j)
      <4>1. BurstOf(Ev(j), SeenAt(g[k], j), since) \in g[j].found
        BY <3>1, <3>3
      <4>2. BurstOf(Ev(j), SeenAt(g[k], j), since).of = {y.id : y \in SeenAt(g[k], j)}
        BY DEF BurstOf
      <4>3. \A y \in F : y.id \notin {z.id : z \in SeenAt(g[k], j)}
        BY <1>12, <4>1, <4>2 DEF j
      <4>4. {y \in F : y.id <= j} = {}
        BY <3>2, <4>3
      <4> QED
        BY <4>4 DEF j
    <3>4. CASE ~FullAt(g[k], j)
      <4>1. g[j].window[who] = SeenAt(g[k], j)
        BY <3>1, <3>4
      <4> QED
        BY <3>2, <4>1 DEF j
    <3> QED
      BY <3>3, <3>4
  <2>4. CASE ~(Counts(j, since) /\ Log[j].name = who)
    <3>1. \A y \in F : y.id # j
      BY <1>2, <1>9, <2>4 DEF who
    <3>2. {y \in F : y.id <= j} = {y \in F : y.id <= k}
      BY <1>1, <1>2, <2>1, <3>1
    <3>3. g[j].window[who] = g[k].window[who]
      <4>1. CASE ~Counts(j, since)
        BY <2>2, <4>1
      <4>2. CASE Counts(j, since) /\ Log[j].name # who
        BY <1>8, <2>2, <4>2
      <4> QED
        BY <2>4, <4>1, <4>2
    <3> QED
      BY <1>12, <2>4, <3>2, <3>3
  <2> QED
    BY <2>3, <2>4
(* So up to the last of the run. *)
<1>13. 0 \in T
  <2>1. {y \in F : y.id <= 0} = {}
    BY <1>1, <1>2
  <2> QED
    BY <2>1
<1>14. ASSUME NEW k \in Nat, k \in T
       PROVE  k + 1 \in T
  <2> SUFFICES ASSUME k + 1 < top
               PROVE  SomeTold(k + 1) \/ {y \in F : y.id <= k + 1} \subseteq g[k + 1].window[who]
    OBVIOUS
  <2>1. k \in 0 .. top - 1 /\ (SomeTold(k) \/ {y \in F : y.id <= k} \subseteq g[k].window[who])
    BY <1>1, <1>7, <1>14
  <2> HIDE DEF SomeTold
  <2> QED
    BY <1>11, <1>12, <2>1
<1>15. Nat \subseteq T
  <2> HIDE DEF T
  <2> QED
    BY <1>13, <1>14, NatByStep
<1>16. SomeTold(top)
  <2> DEFINE k == top - 1
  <2>1. k \in 0 .. top - 1 /\ k \in 0 .. n /\ k + 1 = top /\ k = top - 1 /\ k \in Nat
    BY <1>1, <1>7
  <2>2. SomeTold(k) \/ {y \in F : y.id <= k} \subseteq g[k].window[who]
    BY <1>15, <2>1
  <2> HIDE DEF k
  <2>3. CASE SomeTold(k)
    <3> HIDE DEF SomeTold
    <3> QED
      BY <1>11, <2>1, <2>3
  <2>4. CASE {y \in F : y.id <= k} \subseteq g[k].window[who]
    <3>1. Counts(top, since) /\ Log[top].name = who
      BY <1>2, <1>6, <1>9 DEF who
    <3>2. F = {y \in F : y.id <= top}
      BY <1>5
    <3>3. F \subseteq SeenAt(g[k], top)
      BY <1>10, <2>1, <2>4, <3>1, <3>2
    <3>4. SeenAt(g[k], top) \subseteq server_events(n)
      <4>1. g[k].window \in [AccountsOf(n) -> SUBSET server_events(n)]
        BY <2>1 DEF IsScan, ScanStates
      <4>2. last \in server_events(n)
        BY <1>6 DEF Failures
      <4> QED
        BY <1>7, <1>8, <3>1, <4>1, <4>2 DEF SeenAt
    <3>5. IsFiniteSet(server_events(n))
      BY EventsAreFinite
    <3>6. IsFiniteSet(SeenAt(g[k], top))
      BY <3>4, <3>5, FS_Subset
    <3>7. Cardinality(F) <= Cardinality(SeenAt(g[k], top)) /\ Cardinality(SeenAt(g[k], top)) \in Nat
      BY <3>3, <3>6, FS_Subset, FS_CardinalityType
    <3>8. FullAt(g[k], top)
      BY <1>1, <3>7 DEF FullAt
    <3>9. BurstOf(Ev(top), SeenAt(g[k], top), since) \in g[top].found
      <4>1. Stepped(g, n, since, k, top)
        BY <1>7, <2>1, ScanStep
      <4> QED
        BY <3>1, <3>8, <4>1 DEF Stepped
    <3>10. last.id \in BurstOf(Ev(top), SeenAt(g[k], top), since).of
      BY <1>6, <3>3 DEF BurstOf
    <3> QED
      BY <1>6, <3>9, <3>10
  <2> QED
    BY <2>2, <2>3, <2>4
<1>17. g[top].found \subseteq g[n].found
  BY <1>1, <1>7, FoundGrows
<1> QED
  BY <1>16, <1>17

(* Of every burst that was told of it is known how much of the log the scan  *)
(* saw that found it; a later scan saw more and looked back less far.        *)
FoundBy(B, n, seen, upto) ==
  /\ seen \in [B -> 0 .. n]
  /\ \A bst \in B : bst.since \in Int /\ bst.since <= upto /\ bst \in bursts(seen[bst], bst.since)
  /\ \A bst, cst \in B : \/ seen[bst] <= seen[cst] /\ bst.since <= cst.since
                         \/ seen[cst] <= seen[bst] /\ cst.since <= bst.since
  /\ \A bst, cst \in B : bst.dedupe = cst.dedupe => bst = cst

BurstsInv ==
  /\ today \in Nat /\ logged \in 0 .. Len(Log)
  /\ \E seen : FoundBy(told, logged, seen, Now - BurstLookback)

LEMMA NowGrows ==
  ASSUME NEW d \in Nat
  PROVE  /\ Midnight(d + 1) - 1 \in Int
         /\ Midnight((d + 1) + 1) - 1 \in Int
         /\ Midnight(d + 1) - 1 <= Midnight((d + 1) + 1) - 1
<1>1. DayLength \in Nat \ {0}
  BY PagesAssumption
<1>2. (d + 1) * DayLength \in Int /\ ((d + 1) + 1) * DayLength = (d + 1) * DayLength + DayLength
  BY <1>1
<1> QED
  BY <1>1, <1>2 DEF Midnight

LEMMA SmallerAndLarger ==
  ASSUME NEW y \in Int, NEW z \in Int, y <= z
  PROVE  Min({y, z}) = y /\ Max({y, z}) = z /\ Min({z, y}) = y /\ Max({z, y}) = z
<1>1. Min({y, z}) = y
  <2>1. Min({y, z}) \in {y, z} /\ \A q \in {y, z} : Min({y, z}) <= q
    BY DEF Min
  <2> QED
    BY <2>1
<1>2. Max({y, z}) = z
  <2>1. Max({y, z}) \in {y, z} /\ \A q \in {y, z} : Max({y, z}) >= q
    BY DEF Max
  <2> QED
    BY <2>1
<1>3. {z, y} = {y, z}
  OBVIOUS
<1> QED
  BY <1>1, <1>2, <1>3

(* What one scan finds is apart and under keys of its own. *)
LEMMA OneScan ==
  ASSUME NEW n \in 0 .. Len(Log), NEW since \in Int
  PROVE  /\ \A bst \in bursts(n, since) : InBurst(bst, n, since)
         /\ \A bst, cst \in bursts(n, since) : bst # cst => bst.of \cap cst.of = {} /\ bst.dedupe # cst.dedupe
<1>1. PICK g : IsScan(g, n, since) /\ bursts(n, since) = g[n].found
  BY ScanIs DEF IsScan
<1>2. n \in 0 .. n
  BY AlertsAssumption
<1>3. ScanInv(g[n], n, n, since)
  BY <1>1, <1>2, ScanSound
<1>4. \A bst \in g[n].found : InBurst(bst, n, since)
  BY <1>3 DEF ScanInv
<1>5. \A bst, cst \in g[n].found : bst # cst => bst.of \cap cst.of = {}
  BY <1>3 DEF ScanInv
<1>6. \A bst \in g[n].found : bst.dedupe[2] \in bst.of
  BY <1>4 DEF InBurst
<1> QED
  BY <1>1, <1>4, <1>5, <1>6

LEMMA BurstsInitially ==
  ASSUME PagesInit, AlertsInit
  PROVE  BurstsInv
<1>1. FoundBy({}, 0, [bst \in {} |-> 0], Now - BurstLookback)
  BY DEF FoundBy
<1>2. 0 \in 0 .. Len(Log)
  BY AlertsAssumption
<1> QED
  BY <1>1, <1>2 DEF BurstsInv, PagesInit, AlertsInit

(* A scan more. *)
LEMMA OneScanMore ==
  ASSUME NEW B, NEW n \in 0 .. Len(Log), NEW more \in 0 .. Len(Log), n <= more, NEW seen, NEW upto \in Int,
         FoundBy(B, n, seen, upto),
         NEW C, C = B \cup {bst \in bursts(more, upto) : \A cst \in B : cst.dedupe # bst.dedupe}
  PROVE  \E after : FoundBy(C, more, after, upto)
<1> DEFINE new == {bst \in bursts(more, upto) : \A cst \in B : cst.dedupe # bst.dedupe}
           after == [bst \in C |-> IF bst \in B THEN seen[bst] ELSE more]
<1>1. n \in Nat /\ more \in Nat
  BY AlertsAssumption
<1>2. \A bst \in new : bst \in bursts(more, upto) /\ bst.since = upto /\ bst \notin B
  BY OneScan DEF InBurst
<1>3. \A bst, cst \in new : bst.dedupe = cst.dedupe => bst = cst
  BY OneScan
<1>4. \A bst \in B : \A cst \in new : bst.dedupe # cst.dedupe
  OBVIOUS
<1>5. C = B \cup new
  OBVIOUS
<1> HIDE DEF new
<1>6. /\ seen \in [B -> 0 .. n]
      /\ \A bst \in B : bst.since \in Int /\ bst.since <= upto /\ bst \in bursts(seen[bst], bst.since)
      /\ \A bst, cst \in B : \/ seen[bst] <= seen[cst] /\ bst.since <= cst.since
                             \/ seen[cst] <= seen[bst] /\ cst.since <= bst.since
      /\ \A bst, cst \in B : bst.dedupe = cst.dedupe => bst = cst
  BY DEF FoundBy
<1>7. /\ \A bst \in B : after[bst] = seen[bst] /\ after[bst] \in 0 .. more /\ bst \in C
      /\ \A bst \in new : after[bst] = more /\ bst \in C
  BY <1>1, <1>2, <1>5, <1>6
<1>8. after \in [C -> 0 .. more]
  BY <1>1, <1>5, <1>6
<1> HIDE DEF after
<1>9. \A bst \in C : bst.since \in Int /\ bst.since <= upto /\ bst \in bursts(after[bst], bst.since)
  BY <1>2, <1>5, <1>6, <1>7
<1>10. \A bst, cst \in C : \/ after[bst] <= after[cst] /\ bst.since <= cst.since
                           \/ after[cst] <= after[bst] /\ cst.since <= bst.since
  <2>1. \A bst \in C : after[bst] \in 0 .. more
    BY <1>8
  <2>2. \A bst \in C : bst \notin B => after[bst] = more /\ bst.since = upto
    BY <1>2, <1>5, <1>7
  <2>3. \A bst, cst \in C : bst \in B /\ cst \in B => \/ after[bst] <= after[cst] /\ bst.since <= cst.since
                                                      \/ after[cst] <= after[bst] /\ cst.since <= bst.since
    BY <1>6, <1>7
  <2> QED
    BY <1>1, <1>9, <2>1, <2>2, <2>3
<1>11. \A bst, cst \in C : bst.dedupe = cst.dedupe => bst = cst
  BY <1>3, <1>4, <1>5, <1>6
<1> QED
  BY <1>8, <1>9, <1>10, <1>11 DEF FoundBy

LEMMA BurstsStep ==
  ASSUME BurstsInv, [AlertsNext]_<<pagesVars, alertsVars>>
  PROVE  BurstsInv'
<1>1. PICK seen : FoundBy(told, logged, seen, Now - BurstLookback)
  BY DEF BurstsInv
<1>2. today \in Nat /\ logged \in 0 .. Len(Log) /\ BurstLookback \in Nat
  BY AlertsAssumption DEF BurstsInv
<1>3. Now \in Int
  BY <1>2, NowGrows DEF Now
<1>4. ASSUME UNCHANGED <<told, logged, today>>
      PROVE  BurstsInv'
  BY <1>4 DEF BurstsInv, FoundBy, Now
<1>5. CASE LogIsRead
  <2>1. PICK n \in logged .. Len(Log) : logged' = n
    BY <1>5 DEF LogIsRead
  <2>2. today' = today /\ Now' = Now /\ scan_sign_ins
    BY <1>5 DEF LogIsRead, Same, Now
  <2>3. logged' \in 0 .. Len(Log) /\ logged <= logged' /\ Len(Log) \in Nat
    BY <1>2, <2>1, AlertsAssumption
  <2>4. told' = told \cup {bst \in bursts(logged', Now - BurstLookback) : \A cst \in told : cst.dedupe # bst.dedupe}
    BY <2>2 DEF scan_sign_ins
  <2>5. Now - BurstLookback \in Int
    BY <1>2, <1>3
  <2>6. \E after : FoundBy(told', logged', after, Now - BurstLookback)
    BY <1>1, <1>2, <2>3, <2>4, <2>5, OneScanMore
  <2> QED
    BY <1>2, <2>2, <2>3, <2>6 DEF BurstsInv
<1>6. CASE DayPasses /\ UNCHANGED alertsVars
  <2>1. today' = today + 1 /\ told' = told /\ logged' = logged
    BY <1>6 DEF DayPasses, alertsVars
  <2>2. Now <= Now' /\ Now' \in Int /\ today' \in Nat
    BY <1>2, <2>1, NowGrows DEF Now
  <2>3. FoundBy(told, logged, seen, Now' - BurstLookback)
    BY <1>1, <1>2, <1>3, <2>2 DEF FoundBy
  <2> QED
    BY <1>2, <2>1, <2>2, <2>3 DEF BurstsInv
<1>7. CASE PlayIsSeen
  BY <1>4, <1>7 DEF PlayIsSeen, Recorded
<1>8. CASE CheckBegins \/ LookAt \/ file_alerts
  BY <1>4, <1>8 DEF CheckBegins, LookAt, file_alerts, Same
<1>9. CASE resolve \/ reopen \/ resolve_all
  BY <1>4, <1>9 DEF resolve, reopen, resolve_all, Answer, Same
<1>10. CASE UNCHANGED <<pagesVars, alertsVars>>
  BY <1>4, <1>10 DEF pagesVars, alertsVars
<1> QED
  BY <1>5, <1>6, <1>7, <1>8, <1>9, <1>10 DEF AlertsNext

(* Two that share an attempt were found by scans between which one on the    *)
(* same account fell out of the look-back.                                   *)
LEMMA SharedAttempt ==
  ASSUME NEW n \in 0 .. Len(Log), NEW upto \in 0 .. Len(Log), n <= upto,
         NEW s0 \in Int, NEW t0 \in Int, s0 <= t0,
         NEW bst \in bursts(n, s0), NEW cst \in bursts(upto, t0),
         bst.dedupe # cst.dedupe, bst.of \cap cst.of # {}
  PROVE  Between(bst.dedupe[1], n, s0, t0) /\ bst.dedupe[1] = cst.dedupe[1]
<1>1. PICK g : IsScan(g, n, s0) /\ bursts(n, s0) = g[n].found
  BY ScanIs DEF IsScan
<1>2. PICK h : IsScan(h, upto, t0) /\ bursts(upto, t0) = h[upto].found
  BY ScanIs DEF IsScan
<1> DEFINE again == [dedupe |-> bst.dedupe, of |-> bst.of, since |-> t0]
<1>3. SUFFICES ASSUME ~Between(bst.dedupe[1], n, s0, t0) PROVE FALSE
  <2>1. InBurst(bst, n, s0) /\ InBurst(cst, upto, t0)
    BY OneScan
  <2>2. PICK i : i \in bst.of /\ i \in cst.of
    OBVIOUS
  <2>3. bst.dedupe[1] = cst.dedupe[1]
    BY <2>1, <2>2 DEF InBurst
  <2> QED
    BY <2>3
<1>4. again \in h[upto].found
  BY <1>1, <1>2, <1>3, LaterFindsAll
<1>5. again \in bursts(upto, t0) /\ again.dedupe = bst.dedupe /\ again.of = bst.of
  BY <1>2, <1>4
<1> HIDE DEF again
<1>6. again # cst /\ again.of \cap cst.of # {}
  BY <1>5
<1> QED
  BY <1>5, <1>6, OneScan

LEMMA BurstsAreApart ==
  ASSUME BurstsInv
  PROVE  BurstsApart
<1>1. PICK seen : FoundBy(told, logged, seen, Now - BurstLookback)
  BY DEF BurstsInv
<1>2. today \in Nat /\ logged \in 0 .. Len(Log) /\ BurstLookback \in Nat /\ Len(Log) \in Nat
  BY AlertsAssumption DEF BurstsInv
<1>3. Now - BurstLookback \in Int
  BY <1>2, NowGrows DEF Now
<1>4. /\ seen \in [told -> 0 .. logged]
      /\ \A bst \in told : bst.since \in Int /\ bst \in bursts(seen[bst], bst.since)
      /\ \A bst, cst \in told : \/ seen[bst] <= seen[cst] /\ bst.since <= cst.since
                                \/ seen[cst] <= seen[bst] /\ cst.since <= bst.since
      /\ \A bst, cst \in told : bst.dedupe = cst.dedupe => bst = cst
  BY <1>1 DEF FoundBy
<1>5. ASSUME NEW bst \in told, NEW cst \in told, bst # cst, bst.of \cap cst.of # {}
      PROVE  \E i \in 1 .. logged : /\ Log[i].type = "AuthenticationFailed" /\ Log[i].name = bst.dedupe[1]
                                    /\ Min({bst.since, cst.since}) <= Log[i].at /\ Log[i].at < Max({bst.since, cst.since})
  <2>1. bst.dedupe # cst.dedupe /\ bst.since \in Int /\ cst.since \in Int
    BY <1>4, <1>5
  <2>2. seen[bst] \in 0 .. Len(Log) /\ seen[cst] \in 0 .. Len(Log) /\ seen[bst] <= logged /\ seen[cst] <= logged
    BY <1>2, <1>4
  <2>3. CASE seen[bst] <= seen[cst] /\ bst.since <= cst.since
    <3>1. Between(bst.dedupe[1], seen[bst], bst.since, cst.since)
      BY <1>4, <1>5, <2>1, <2>2, <2>3, SharedAttempt
    <3>2. Min({bst.since, cst.since}) = bst.since /\ Max({bst.since, cst.since}) = cst.since
      BY <2>1, <2>3, SmallerAndLarger
    <3> QED
      BY <1>2, <2>2, <3>1, <3>2 DEF Between
  <2>4. CASE seen[cst] <= seen[bst] /\ cst.since <= bst.since
    <3>1. Between(cst.dedupe[1], seen[cst], cst.since, bst.since) /\ cst.dedupe[1] = bst.dedupe[1]
      <4>1. cst.of \cap bst.of # {} /\ cst.dedupe # bst.dedupe
        BY <1>5, <2>1
      <4> QED
        BY <1>4, <1>5, <2>1, <2>2, <2>4, <4>1, SharedAttempt
    <3>2. Min({bst.since, cst.since}) = cst.since /\ Max({bst.since, cst.since}) = bst.since
      BY <2>1, <2>4, SmallerAndLarger
    <3> QED
      BY <1>2, <2>2, <3>1, <3>2 DEF Between
  <2> QED
    BY <1>4, <1>5, <2>3, <2>4
<1>6. ASSUME NEW F \in kSubset(BurstMin, Failures(logged, Now - BurstLookback)),
             \A y, z \in F : y.name = z.name /\ y.at - z.at <= BurstWindow
      PROVE  \E bst \in bursts(logged, Now - BurstLookback) : bst.of \cap {y.id : y \in F} # {}
  <2> DEFINE since == Now - BurstLookback
  <2>1. since \in Int
    BY <1>3
  <2>2. F \in SUBSET Failures(logged, since) /\ Cardinality(F) = BurstMin
    BY DEF kSubset
  <2> HIDE DEF since
  <2>3. PICK g : IsScan(g, logged, since) /\ bursts(logged, since) = g[logged].found
    BY <1>2, <2>1, ScanIs DEF IsScan
  <2>4. \E bst \in g[logged].found : bst.of \cap {y.id : y \in F} # {}
    BY <1>2, <1>6, <2>1, <2>2, <2>3, RunIsFound
  <2> QED
    BY <2>3, <2>4 DEF since
<1> QED
  BY <1>5, <1>6 DEF BurstsApart

(* No attempt is told of in two bursts, unless between the two scans one on  *)
(* the same account fell out of the look-back; and of every run of failures  *)
(* that a scan can see, some are told of: however late and in whatever       *)
(* pieces Jellyfin's log is read.                                            *)
THEOREM BurstsAreToldApart == AlertsSpec => []BurstsApart
<1>1. PagesInit /\ AlertsInit => BurstsInv
  BY BurstsInitially
<1>2. BurstsInv /\ [AlertsNext]_<<pagesVars, alertsVars>> => BurstsInv'
  BY BurstsStep
<1>3. BurstsInv => BurstsApart
  BY BurstsAreApart
<1> QED
  BY <1>1, <1>2, <1>3, PTL DEF AlertsSpec

-----------------------------------------------------------------------------
(* What makes no difference to a page.                                       *)

LEMMA SecondsIs ==
  ASSUME NEW R, IsFiniteSet(R), \A r \in R : r.duration_s \in Int
  PROVE  IsSum([r \in R |-> r.duration_s], R, Seconds(R))
<1> DEFINE D(sums) == [Q \in SUBSET R |-> IF Q = {} THEN 0 ELSE OneOf(Q).duration_s + sums[Q \ {OneOf(Q)}]]
           f == [r \in R |-> r.duration_s]
           kept == CHOOSE sums : sums = D(sums)
<1>1. f \in [R -> Int]
  OBVIOUS
<1>2. ASSUME NEW sums PROVE D(sums) = SumStep(f, R, sums)
  <2>1. \A Q \in SUBSET R : Q # {} => OneOf(Q) \in R
    BY DEF OneOf
  <2> QED
    BY <2>1 DEF SumStep
<1> HIDE DEF f
<1>3. PICK sums : AreSums(f, R, sums)
  BY <1>1, SumsExist
<1>4. sums = D(sums)
  BY <1>2, <1>3 DEF AreSums
<1>5. Seconds(R) = kept[R]
  BY DEF Seconds, MapThenSumSet, MapThenFoldSet, OneOf
<1> HIDE DEF D
<1>6. kept = D(kept)
  BY <1>4
<1>7. AreSums(f, R, kept)
  BY <1>2, <1>6 DEF AreSums
<1> QED
  BY <1>5, <1>7 DEF IsSum, f

LEMMA LiveAfterIs ==
  ASSUME NEW P, NEW p, IsFiniteSet(Upto(P, p)), \A x0 \in Upto(P, p) : x0.delta \in Int
  PROVE  IsSum([x0 \in Upto(P, p) |-> x0.delta], Upto(P, p), LiveAfter(P, p))
<1> DEFINE R == Upto(P, p)
           D(sums) == [Q \in SUBSET R |-> IF Q = {} THEN 0 ELSE OneOf(Q).delta + sums[Q \ {OneOf(Q)}]]
           f == [r \in R |-> r.delta]
           kept == CHOOSE sums : sums = D(sums)
<1>5. LiveAfter(P, p) = kept[R]
  BY DEF LiveAfter, MapThenSumSet, MapThenFoldSet, OneOf
<1> HIDE DEF R
<1>1. f \in [R -> Int]
  BY DEF R
<1>2. ASSUME NEW sums PROVE D(sums) = SumStep(f, R, sums)
  <2>1. \A Q \in SUBSET R : Q # {} => OneOf(Q) \in R
    BY DEF OneOf
  <2> QED
    BY <2>1 DEF SumStep
<1> HIDE DEF f
<1>3. PICK sums : AreSums(f, R, sums)
  BY <1>1, SumsExist DEF R
<1>4. sums = D(sums)
  BY <1>2, <1>3 DEF AreSums
<1> HIDE DEF D
<1>6. kept = D(kept)
  BY <1>4
<1>7. AreSums(f, R, kept)
  BY <1>2, <1>6 DEF AreSums
<1> QED
  BY <1>5, <1>7 DEF IsSum, f, R

(* A play as those see it who are not shown addresses. *)
Blank(r) == [r EXCEPT !.ip = Null, !.local = Null]
Blanked(T) == {Blank(r) : r \in T}

IsPlay(r) ==
  /\ r = [id |-> r.id, user |-> r.user, item |-> r.item, series |-> r.series, season |-> r.season,
          type |-> r.type, library |-> r.library, client |-> r.client, ip |-> r.ip, local |-> r.local,
          method |-> r.method, start |-> r.start, end |-> r.end, duration_s |-> r.duration_s,
          position_s |-> r.position_s, runtime_s |-> r.runtime_s, active |-> r.active]
  /\ r.id \in Nat /\ r.start \in Nat /\ r.end \in Nat /\ r.duration_s \in Nat

IsTable(T) == IsFiniteSet(T) /\ (\A r \in T : IsPlay(r)) /\ (\A r, p \in T : r.id = p.id => r = p)

LEMMA RowsAreTable ==
  ASSUME RowsInv
  PROVE  IsTable(rows)
<1>1. ASSUME NEW r \in rows
      PROVE  IsPlay(r)
  <2>1. PICK p \in PlaysToCome : r = [p EXCEPT !.active = r.active]
    BY DEF RowsInv, PagesTypeOK
  <2>2. /\ p = [id |-> p.id, user |-> p.user, item |-> p.item, series |-> p.series, season |-> p.season,
                type |-> p.type, library |-> p.library, client |-> p.client, ip |-> p.ip, local |-> p.local,
                method |-> p.method, start |-> p.start, end |-> p.end, duration_s |-> p.duration_s,
                position_s |-> p.position_s, runtime_s |-> p.runtime_s, active |-> p.active]
        /\ p.id \in Nat /\ p.start \in Nat /\ p.end \in Nat /\ p.duration_s \in Nat
    BY PlaysAssumption
  <2> QED
    BY <2>1, <2>2 DEF IsPlay
<1> QED
  BY <1>1 DEF RowsInv, PagesTypeOK, IsTable

LEMMA TablePart ==
  ASSUME NEW T, IsTable(T), NEW R \in SUBSET T
  PROVE  IsTable(R)
<1>1. IsFiniteSet(R)
  BY FS_Subset DEF IsTable
<1> QED
  BY <1>1 DEF IsTable

Fields == {"id", "user", "item", "series", "season", "type", "library", "client", "ip", "local", "method",
           "start", "end", "duration_s", "position_s", "runtime_s", "active"}

(* Nothing else of a play is different. *)
SamePlay(r, p) ==
  /\ r.id = p.id /\ r.user = p.user /\ r.item = p.item /\ r.series = p.series /\ r.season = p.season
  /\ r.type = p.type /\ r.library = p.library /\ r.client = p.client /\ r.method = p.method
  /\ r.start = p.start /\ r.end = p.end /\ r.duration_s = p.duration_s
  /\ r.position_s = p.position_s /\ r.runtime_s = p.runtime_s /\ r.active = p.active

LEMMA BlankPlay ==
  ASSUME NEW r, IsPlay(r)
  PROVE  SamePlay(Blank(r), r) /\ Blank(Blank(r)) = Blank(r) /\ IsPlay(Blank(r))
<1> DEFINE p == [id |-> r.id, user |-> r.user, item |-> r.item, series |-> r.series, season |-> r.season,
                  type |-> r.type, library |-> r.library, client |-> r.client, ip |-> Null, local |-> Null,
                  method |-> r.method, start |-> r.start, end |-> r.end, duration_s |-> r.duration_s,
                  position_s |-> r.position_s, runtime_s |-> r.runtime_s, active |-> r.active]
<1>1. Blank(r) = p
  <2>1. r = [n \in Fields |-> r[n]] /\ p = [n \in Fields |-> p[n]]
    BY DEF IsPlay, Fields
  <2>2. Blank(r) = [n \in Fields |-> IF n \in {"ip", "local"} THEN Null ELSE r[n]]
    BY <2>1 DEF Blank, Fields
  <2>3. \A n \in Fields : p[n] = IF n \in {"ip", "local"} THEN Null ELSE r[n]
    BY DEF Fields
  <2> HIDE DEF p
  <2> QED
    BY <2>1, <2>2, <2>3
<1>2. SamePlay(p, r) /\ p.ip = Null /\ p.local = Null
  BY DEF SamePlay
<1>3. p = [id |-> p.id, user |-> p.user, item |-> p.item, series |-> p.series, season |-> p.season,
                  type |-> p.type, library |-> p.library, client |-> p.client, ip |-> p.ip, local |-> p.local,
                  method |-> p.method, start |-> p.start, end |-> p.end, duration_s |-> p.duration_s,
                  position_s |-> p.position_s, runtime_s |-> p.runtime_s, active |-> p.active]
  OBVIOUS
<1>4. IsPlay(p)
  <2> HIDE DEF p
  <2> QED
    BY <1>2, <1>3 DEF IsPlay, SamePlay
<1>5. Blank(p) = p
  <2>1. p = [n \in Fields |-> p[n]] /\ p.ip = Null /\ p.local = Null
    BY DEF Fields
  <2> HIDE DEF p
  <2> QED
    BY <2>1 DEF Blank, Fields
<1> HIDE DEF p
<1> QED
  BY <1>1, <1>2, <1>4, <1>5

LEMMA BlankTable ==
  ASSUME NEW T, IsTable(T)
  PROVE  /\ IsTable(Blanked(T))
         /\ Cardinality(Blanked(T)) = Cardinality(T)
         /\ Seconds(Blanked(T)) = Seconds(T)
         /\ \A r \in T : Blank(r) \in Blanked(T) /\ SamePlay(Blank(r), r)
         /\ \A p \in Blanked(T) : \E r \in T : p = Blank(r) /\ SamePlay(p, r)
<1>1. \A r \in T : SamePlay(Blank(r), r) /\ IsPlay(Blank(r)) /\ r.duration_s \in Int /\ Blank(r).duration_s \in Int
  BY BlankPlay DEF IsTable, IsPlay
<1>2. \A p \in Blanked(T) : \E r \in T : p = Blank(r) /\ SamePlay(p, r)
  BY <1>1 DEF Blanked
<1> DEFINE h == [r \in T |-> Blank(r)]
<1>3. h \in [T -> Blanked(T)] /\ \A r, p \in T : h[r] = h[p] => r = p
  <2>1. \A r, p \in T : Blank(r) = Blank(p) => r.id = p.id
    BY <1>1 DEF SamePlay
  <2> QED
    BY <2>1 DEF IsTable, Blanked
<1>4. Image(h, T) = Blanked(T) /\ \A r \in T : h[r] = Blank(r)
  BY DEF Image, Blanked
<1> HIDE DEF h
<1>5. IsFiniteSet(T) /\ T \in SUBSET T
  BY DEF IsTable
<1>6. IsFiniteSet(Image(h, T)) /\ Cardinality(Image(h, T)) = Cardinality(T)
  BY <1>3, <1>5, ImageFacts
<1>7. IsFiniteSet(Blanked(T)) /\ Cardinality(Blanked(T)) = Cardinality(T)
  BY <1>4, <1>6
<1>8. Seconds(Blanked(T)) = Seconds(T)
  <2> DEFINE f == [r \in T |-> r.duration_s]
             g == [r \in Blanked(T) |-> r.duration_s]
  <2>1. IsSum(f, T, Seconds(T))
    BY <1>1, <1>5, SecondsIs
  <2>2. \A r \in Blanked(T) : r.duration_s \in Int
    BY <1>1, <1>2
  <2>3. IsSum(g, Blanked(T), Seconds(Blanked(T)))
    BY <1>7, <2>2, SecondsIs
  <2>4. f \in [T -> Int] /\ g \in [Blanked(T) -> Int] /\ \A r \in T : g[h[r]] = f[r]
    BY <1>1, <1>4, <2>2 DEF SamePlay, Blanked
  <2> HIDE DEF f, g
  <2> QED
    BY <1>3, <1>4, <1>5, <2>1, <2>3, <2>4, SumMoved
<1>9. \A r, p \in Blanked(T) : r.id = p.id => r = p
  <2> SUFFICES ASSUME NEW r \in T, NEW p \in T, Blank(r).id = Blank(p).id PROVE r = p
    BY DEF Blanked
  <2> QED
    BY <1>1 DEF SamePlay, IsTable
<1>10. \A p \in Blanked(T) : IsPlay(p)
  BY <1>1 DEF Blanked
<1> QED
  BY <1>1, <1>2, <1>7, <1>8, <1>9, <1>10 DEF IsTable, Blanked

(* Two parts of the two tables that hold the same plays tell the same. *)
Alike(R, S) == IsTable(R) /\ S = Blanked(R)

LEMMA AlikeTell ==
  ASSUME NEW R, NEW S, Alike(R, S)
  PROVE  /\ Cardinality(R) = Cardinality(S) /\ Tally(R) = Tally(S) /\ Totals(R) = Totals(S) /\ PerUser(R) = PerUser(S)
         /\ \A r \in R : \E p \in S : p = Blank(r) /\ SamePlay(p, r)
         /\ \A p \in S : \E r \in R : p = Blank(r) /\ SamePlay(p, r)
         /\ IsTable(R) /\ IsTable(S)
<1>1. /\ Cardinality(R) = Cardinality(S) /\ Seconds(R) = Seconds(S)
      /\ \A r \in R : \E p \in S : p = Blank(r) /\ SamePlay(p, r)
      /\ \A p \in S : \E r \in R : p = Blank(r) /\ SamePlay(p, r)
      /\ IsTable(R) /\ IsTable(S)
  BY BlankTable DEF Alike
<1>2. Tally(R) = Tally(S)
  BY <1>1 DEF Tally
<1>3. {r.user : r \in R} = {r.user : r \in S} /\ {r.item : r \in R} = {r.item : r \in S}
  BY <1>1 DEF SamePlay
<1>4. Totals(R) = Totals(S)
  BY <1>2, <1>3 DEF Totals
<1>5. PerUser(R) = PerUser(S)
  <2>1. ASSUME NEW w
        PROVE  Tally({r \in R : r.user = w}) = Tally({r \in S : r.user = w})
    <3> DEFINE R0 == {r \in R : r.user = w}
    <3>1. {r \in S : r.user = w} = Blanked(R0)
      BY <1>1 DEF SamePlay, Blanked
    <3>2. IsTable(R0)
      BY <1>1, TablePart
    <3> HIDE DEF R0
    <3>3. Tally(Blanked(R0)) = Tally(R0)
      BY <3>2, BlankTable DEF Tally
    <3> QED
      BY <3>1, <3>3 DEF R0
  <2> QED
    BY <1>3, <2>1 DEF PerUser
<1> QED
  BY <1>1, <1>2, <1>4, <1>5

LEMMA AlikePart ==
  ASSUME NEW R, NEW S, Alike(R, S), NEW R0 \in SUBSET R, NEW S0 \in SUBSET S,
         \A r \in R : SamePlay(Blank(r), r) => (r \in R0 <=> Blank(r) \in S0)
  PROVE  Alike(R0, S0) /\ Tally(R0) = Tally(S0) /\ Cardinality(R0) = Cardinality(S0)
<1>1. IsTable(R0)
  BY TablePart DEF Alike
<1>2. \A r \in R : r \in R0 <=> Blank(r) \in S0
  BY BlankTable DEF Alike
<1>3. S0 = Blanked(R0)
  BY <1>2 DEF Alike, Blanked
<1>4. Alike(R0, S0)
  BY <1>1, <1>3 DEF Alike
<1> QED
  BY <1>4, AlikeTell

(* The charts. *)
LEMMA AlikeDaily ==
  ASSUME NEW R, NEW S, Alike(R, S), NEW s
  PROVE  /\ Daily(R, s) = Daily(S, s) /\ ChartDates(R, s) = ChartDates(S, s)
         /\ \A t : DateOf(R, s, t) = DateOf(S, s, t)
<1>1. {Day(r.start) : r \in R} = {Day(r.start) : r \in S} /\ (R = {} <=> S = {})
  BY AlikeTell DEF SamePlay
<1>2. FirstDay(R, s) = FirstDay(S, s)
  BY <1>1 DEF FirstDay
<1>3. (Weekly(R, s) <=> Weekly(S, s)) /\ ChartFrom(R, s) = ChartFrom(S, s)
  BY <1>2 DEF Weekly, ChartFrom
<1>4. ChartDates(R, s) = ChartDates(S, s)
  <2> DEFINE step(w) == IF w THEN WeekLength ELSE 1
  <2> QED
    BY <1>1, <1>3 DEF ChartDates
<1>5. \A t : DateOf(R, s, t) = DateOf(S, s, t)
  BY <1>3 DEF DateOf
<1>6. ASSUME NEW d, NEW g
      PROVE  Tally({r \in R : DateOf(R, s, r.start) = d /\ TypeGroup(r) = g})
               = Tally({r \in S : DateOf(S, s, r.start) = d /\ TypeGroup(r) = g})
  <2> DEFINE R0 == {r \in R : DateOf(R, s, r.start) = d /\ TypeGroup(r) = g}
             S0 == {r \in S : DateOf(S, s, r.start) = d /\ TypeGroup(r) = g}
  <2>1. \A r \in R : SamePlay(Blank(r), r) => (r \in R0 <=> Blank(r) \in S0)
    <3> SUFFICES ASSUME NEW r \in R, SamePlay(Blank(r), r) PROVE r \in R0 <=> Blank(r) \in S0
      OBVIOUS
    <3>1. Blank(r) \in S
      BY DEF Alike, Blanked
    <3>2. TypeGroup(r) = TypeGroup(Blank(r)) /\ DateOf(R, s, r.start) = DateOf(S, s, Blank(r).start)
      BY <1>5 DEF TypeGroup, SamePlay
    <3> QED
      BY <3>1, <3>2
  <2>2. R0 \in SUBSET R /\ S0 \in SUBSET S
    OBVIOUS
  <2> HIDE DEF R0, S0
  <2>3. Tally(R0) = Tally(S0)
    BY <2>1, <2>2, AlikePart
  <2> QED
    BY <2>3 DEF R0, S0
<1>7. Daily(R, s) = Daily(S, s)
  BY <1>4, <1>6, Zenon DEF Daily
<1> QED
  BY <1>4, <1>5, <1>7

LEMMA AlikeHeatmap ==
  ASSUME NEW R, NEW S, Alike(R, S)
  PROVE  Heatmap(R) = Heatmap(S)
<1>1. ASSUME NEW cell
      PROVE  Tally({r \in R : LET dow == (Day(r.start) + 1) % WeekLength
                              IN (dow + WeekLength - 1) % WeekLength = cell[1] /\ r.start % DayLength = cell[2]})
               = Tally({r \in S : LET dow == (Day(r.start) + 1) % WeekLength
                                  IN (dow + WeekLength - 1) % WeekLength = cell[1] /\ r.start % DayLength = cell[2]})
  <2> DEFINE R0 == {r \in R : LET dow == (Day(r.start) + 1) % WeekLength
                              IN (dow + WeekLength - 1) % WeekLength = cell[1] /\ r.start % DayLength = cell[2]}
             S0 == {r \in S : LET dow == (Day(r.start) + 1) % WeekLength
                              IN (dow + WeekLength - 1) % WeekLength = cell[1] /\ r.start % DayLength = cell[2]}
  <2>1. \A r \in R : SamePlay(Blank(r), r) => (r \in R0 <=> Blank(r) \in S0)
    BY DEF Alike, Blanked, SamePlay
  <2>2. R0 \in SUBSET R /\ S0 \in SUBSET S
    OBVIOUS
  <2> HIDE DEF R0, S0
  <2>3. Tally(R0) = Tally(S0)
    BY <2>1, <2>2, AlikePart
  <2> QED
    BY <2>3 DEF R0, S0
<1> QED
  BY <1>1, Zenon DEF Heatmap

BucketsFrom(of, most) ==
  LET head == Foremost(DOMAIN of, most, LAMBDA x0, y0 : Ranks(TRUE, of[x0], of[y0]))
      rest == DOMAIN of \ head
  IN  [named |-> [n \in head |-> of[n]],
       other |-> [plays   |-> MapThenSumSet(LAMBDA n : of[n].plays, rest),
                  watch_s |-> MapThenSumSet(LAMBDA n : of[n].watch_s, rest)]]

TopFrom(sums, n, by_plays) ==
  LET head == Foremost(DOMAIN sums, n, LAMBDA x0, y0 : Ranks(by_plays, sums[x0], sums[y0]))
  IN  [x0 \in head |-> sums[x0]]

(* Names that do not hang on the address come to the same. *)
LEMMA AlikeBuckets ==
  ASSUME NEW R, NEW S, Alike(R, S), NEW names, DOMAIN names = R, NEW others, DOMAIN others = S,
         \A r \in R : others[Blank(r)] = names[r], NEW most
  PROVE  Buckets(names, most) = Buckets(others, most)
<1>1. UNION {names[r] : r \in R} = UNION {others[r] : r \in S}
  BY AlikeTell DEF Alike, Blanked
<1>2. ASSUME NEW n
      PROVE  Tally({r \in R : n \in names[r]}) = Tally({r \in S : n \in others[r]})
  <2> DEFINE R0 == {r \in R : n \in names[r]}
             S0 == {r \in S : n \in others[r]}
  <2>1. \A r \in R : r \in R0 <=> Blank(r) \in S0
    BY DEF Alike, Blanked
  <2>2. R0 \in SUBSET R /\ S0 \in SUBSET S
    OBVIOUS
  <2> HIDE DEF R0, S0
  <2>3. Tally(R0) = Tally(S0)
    BY <2>1, <2>2, AlikePart
  <2> QED
    BY <2>3 DEF R0, S0
<1>3. [n \in UNION {names[r] : r \in DOMAIN names} |-> Tally({r \in DOMAIN names : n \in names[r]})]
        = [n \in UNION {others[r] : r \in DOMAIN others} |-> Tally({r \in DOMAIN others : n \in others[r]})]
  BY <1>1, <1>2
<1> DEFINE of == [n \in UNION {names[r] : r \in DOMAIN names} |-> Tally({r \in DOMAIN names : n \in names[r]})]
           ot == [n \in UNION {others[r] : r \in DOMAIN others} |-> Tally({r \in DOMAIN others : n \in others[r]})]
<1>4. Buckets(names, most) = BucketsFrom(of, most) /\ Buckets(others, most) = BucketsFrom(ot, most)
  BY DEF Buckets, BucketsFrom
<1> HIDE DEF of, ot
<1> QED
  BY <1>3, <1>4 DEF of, ot

TopByTime(names, most) == Top(names, most, FALSE)

LEMMA AlikeTop ==
  ASSUME NEW R, NEW S, Alike(R, S), NEW names, DOMAIN names = R, NEW others, DOMAIN others = S,
         \A r \in R : others[Blank(r)] = names[r], NEW most
  PROVE  TopByTime(names, most) = TopByTime(others, most)
<1>1. UNION {NameOf(names[r]) : r \in R} = UNION {NameOf(others[r]) : r \in S}
  <2>1. \A n : (\E r \in R : n \in NameOf(names[r])) <=> (\E r \in S : n \in NameOf(others[r]))
    BY AlikeTell DEF Alike, Blanked
  <2> QED
    BY <2>1
<1>2. ASSUME NEW n
      PROVE  Tally({r \in R : names[r] = n}) = Tally({r \in S : others[r] = n})
  <2> DEFINE R0 == {r \in R : names[r] = n}
             S0 == {r \in S : others[r] = n}
  <2>1. \A r \in R : r \in R0 <=> Blank(r) \in S0
    BY DEF Alike, Blanked
  <2>2. R0 \in SUBSET R /\ S0 \in SUBSET S
    OBVIOUS
  <2> HIDE DEF R0, S0
  <2>3. Tally(R0) = Tally(S0)
    BY <2>1, <2>2, AlikePart
  <2> QED
    BY <2>3 DEF R0, S0
<1>3. [n \in UNION {NameOf(names[r]) : r \in DOMAIN names} |-> Tally({r \in DOMAIN names : names[r] = n})]
        = [n \in UNION {NameOf(others[r]) : r \in DOMAIN others} |-> Tally({r \in DOMAIN others : others[r] = n})]
  BY <1>1, <1>2
<1> DEFINE of == [n \in UNION {NameOf(names[r]) : r \in DOMAIN names} |-> Tally({r \in DOMAIN names : names[r] = n})]
           ot == [n \in UNION {NameOf(others[r]) : r \in DOMAIN others} |-> Tally({r \in DOMAIN others : others[r] = n})]
<1>4. TopByTime(names, most) = TopFrom(of, most, FALSE) /\ TopByTime(others, most) = TopFrom(ot, most, FALSE)
  BY DEF Top, TopFrom, TopByTime
<1> HIDE DEF of, ot
<1> QED
  BY <1>3, <1>4 DEF of, ot

LEMMA AlikeCond ==
  ASSUME NEW T, NEW S, Alike(T, S), NEW s
  PROVE  Alike(Cond(T, s), Cond(S, s)) /\ Alike(Previous(T, s), Previous(S, s)) /\ Alike(Base(T, s), Base(S, s))
<1>1. Alike(Base(T, s), Base(S, s))
  <2>1. \A r \in T : SamePlay(Blank(r), r) => (r \in Base(T, s) <=> Blank(r) \in Base(S, s))
    BY DEF Base, SamePlay, Alike, Blanked
  <2>2. Base(T, s) \in SUBSET T /\ Base(S, s) \in SUBSET S
    BY DEF Base
  <2> QED
    BY <2>1, <2>2, AlikePart
<1> DEFINE base == Base(T, s)
           bare == Base(S, s)
<1>2. base = Base(T, s) /\ bare = Base(S, s) /\ Alike(base, bare)
  BY <1>1
<1> HIDE DEF base, bare
<1>3. Alike(Cond(T, s), Cond(S, s))
  <2>1. \A r \in base : SamePlay(Blank(r), r) => (r \in Cond(T, s) <=> Blank(r) \in Cond(S, s))
    BY <1>2 DEF Cond, SamePlay, Alike, Blanked
  <2>2. Cond(T, s) \in SUBSET base /\ Cond(S, s) \in SUBSET bare
    BY <1>2 DEF Cond
  <2> QED
    BY <1>2, <2>1, <2>2, AlikePart
<1>4. Alike(Previous(T, s), Previous(S, s))
  <2>1. \A r \in base : SamePlay(Blank(r), r) => (r \in Previous(T, s) <=> Blank(r) \in Previous(S, s))
    BY <1>2 DEF Previous, SamePlay, Alike, Blanked
  <2>2. Previous(T, s) \in SUBSET base /\ Previous(S, s) \in SUBSET bare
    BY <1>2 DEF Previous
  <2> QED
    BY <1>2, <2>1, <2>2, AlikePart
<1> QED
  BY <1>1, <1>3, <1>4

OfUser(R, w) == {r \in R : r.user = w}
OfLibrary(R, w) == {r \in R : r.library = w}
OfItem(R, w) == {r \in R : r.item = w}
OfTitle(R, w) == {r \in R : Title(r) = w}

LEMMA AlikeOf ==
  ASSUME NEW R, NEW S, Alike(R, S), NEW w
  PROVE  /\ Alike(OfUser(R, w), OfUser(S, w)) /\ Tally(OfUser(R, w)) = Tally(OfUser(S, w))
         /\ Alike(OfLibrary(R, w), OfLibrary(S, w)) /\ Tally(OfLibrary(R, w)) = Tally(OfLibrary(S, w))
         /\ Alike(OfItem(R, w), OfItem(S, w)) /\ Tally(OfItem(R, w)) = Tally(OfItem(S, w))
         /\ Alike(OfTitle(R, w), OfTitle(S, w)) /\ Tally(OfTitle(R, w)) = Tally(OfTitle(S, w))
<1>1. Alike(OfUser(R, w), OfUser(S, w)) /\ Tally(OfUser(R, w)) = Tally(OfUser(S, w))
  <2>1. /\ OfUser(R, w) \in SUBSET R /\ OfUser(S, w) \in SUBSET S
        /\ \A r \in R : SamePlay(Blank(r), r) => (r \in OfUser(R, w) <=> Blank(r) \in OfUser(S, w))
    BY DEF SamePlay, Alike, Blanked, OfUser
  <2> QED
    BY <2>1, AlikePart
<1>2. Alike(OfLibrary(R, w), OfLibrary(S, w)) /\ Tally(OfLibrary(R, w)) = Tally(OfLibrary(S, w))
  <2>1. /\ OfLibrary(R, w) \in SUBSET R /\ OfLibrary(S, w) \in SUBSET S
        /\ \A r \in R : SamePlay(Blank(r), r) => (r \in OfLibrary(R, w) <=> Blank(r) \in OfLibrary(S, w))
    BY DEF SamePlay, Alike, Blanked, OfLibrary
  <2> QED
    BY <2>1, AlikePart
<1>3. Alike(OfItem(R, w), OfItem(S, w)) /\ Tally(OfItem(R, w)) = Tally(OfItem(S, w))
  <2>1. /\ OfItem(R, w) \in SUBSET R /\ OfItem(S, w) \in SUBSET S
        /\ \A r \in R : SamePlay(Blank(r), r) => (r \in OfItem(R, w) <=> Blank(r) \in OfItem(S, w))
    BY DEF SamePlay, Alike, Blanked, OfItem
  <2> QED
    BY <2>1, AlikePart
<1>4. Alike(OfTitle(R, w), OfTitle(S, w)) /\ Tally(OfTitle(R, w)) = Tally(OfTitle(S, w))
  <2>1. /\ OfTitle(R, w) \in SUBSET R /\ OfTitle(S, w) \in SUBSET S
        /\ \A r \in R : SamePlay(Blank(r), r) => (r \in OfTitle(R, w) <=> Blank(r) \in OfTitle(S, w))
    BY DEF SamePlay, Alike, Blanked, OfTitle, Title
  <2> QED
    BY <2>1, AlikePart
<1> QED
  BY <1>1, <1>2, <1>3, <1>4

LEMMA AlikeUserRows ==
  ASSUME NEW T, NEW S, Alike(T, S), NEW s, NEW only
  PROVE  user_rows(T, s, only) = user_rows(S, s, only)
<1> DEFINE RowFor(R, w) == [plays |-> Tally({r \in Cond(R, s) : r.user = w}),
                         latest |-> IF \E r \in R : r.user = w THEN Max({r.end : r \in {z \in R : z.user = w}}) ELSE Null]
           who == {w \in Accounts : only # Null => w = only}
<1>1. ASSUME NEW w PROVE RowFor(T, w) = RowFor(S, w)
  <2>1. Tally(OfUser(Cond(T, s), w)) = Tally(OfUser(Cond(S, s), w))
    <3>1. Alike(Cond(T, s), Cond(S, s))
      BY AlikeCond
    <3> QED
      BY <3>1, AlikeOf
  <2>2. /\ (\E r \in T : r.user = w) <=> (\E r \in S : r.user = w)
        /\ {r.end : r \in {z \in T : z.user = w}} = {r.end : r \in {z \in S : z.user = w}}
    BY AlikeTell DEF SamePlay
  <2> QED
    BY <2>1, <2>2 DEF OfUser
<1>2. user_rows(T, s, only) = [w \in who |-> RowFor(T, w)] /\ user_rows(S, s, only) = [w \in who |-> RowFor(S, w)]
  BY DEF user_rows
<1> HIDE DEF RowFor, who
<1> QED
  BY <1>1, <1>2

GenresOf(R) == [r \in R |-> Genres(r)]
MethodsOf(R) == [r \in R |-> NameOf(r.method)]
ClientsOf(R) == [r \in R |-> NameOf(r.client)]
TitleOfEach(R) == [r \in R |-> Title(r)]

LEMMA AlikeGenres ==
  ASSUME NEW R, NEW S, Alike(R, S), NEW most
  PROVE  /\ Buckets(GenresOf(R), most) = Buckets(GenresOf(S), most)
         /\ Buckets(MethodsOf(R), most) = Buckets(MethodsOf(S), most)
         /\ Buckets(ClientsOf(R), most) = Buckets(ClientsOf(S), most)
<1>1. \A r \in R : SamePlay(Blank(r), r) /\ Blank(r) \in S
  BY BlankTable DEF Alike
<1>2. ASSUME NEW names, NEW others, names = GenresOf(R), others = GenresOf(S)
      PROVE  Buckets(names, most) = Buckets(others, most)
  <2>1. \A r \in R : others[Blank(r)] = names[r]
    BY <1>1, <1>2 DEF SamePlay, Genres, Title, GenresOf
  <2>2. DOMAIN names = R /\ DOMAIN others = S
    BY <1>2 DEF GenresOf
  <2> QED
    BY <2>1, <2>2, AlikeBuckets
<1>3. ASSUME NEW names, NEW others, names = MethodsOf(R), others = MethodsOf(S)
      PROVE  Buckets(names, most) = Buckets(others, most)
  <2>1. \A r \in R : others[Blank(r)] = names[r]
    BY <1>1, <1>3 DEF SamePlay, MethodsOf
  <2>2. DOMAIN names = R /\ DOMAIN others = S
    BY <1>3 DEF MethodsOf
  <2> QED
    BY <2>1, <2>2, AlikeBuckets
<1>4. ASSUME NEW names, NEW others, names = ClientsOf(R), others = ClientsOf(S)
      PROVE  Buckets(names, most) = Buckets(others, most)
  <2>1. \A r \in R : others[Blank(r)] = names[r]
    BY <1>1, <1>4 DEF SamePlay, ClientsOf
  <2>2. DOMAIN names = R /\ DOMAIN others = S
    BY <1>4 DEF ClientsOf
  <2> QED
    BY <2>1, <2>2, AlikeBuckets
<1> QED
  BY <1>2, <1>3, <1>4

LEMMA AlikeTopKinds ==
  ASSUME NEW R, NEW S, Alike(R, S), NEW n
  PROVE  /\ TopKinds(R, n, FALSE) = TopKinds(S, n, FALSE)
         /\ Top(TitleOfEach(R), n, FALSE) = Top(TitleOfEach(S), n, FALSE)
<1>1. \A r \in R : SamePlay(Blank(r), r) /\ Blank(r) \in S
  BY BlankTable DEF Alike
<1>2. ASSUME NEW names, NEW others, names = TitleOfEach(R), others = TitleOfEach(S)
      PROVE  TopByTime(names, n) = TopByTime(others, n)
  <2>1. \A r \in R : others[Blank(r)] = names[r]
    BY <1>1, <1>2 DEF SamePlay, Title, TitleOfEach
  <2> QED
    BY <1>2, <2>1, AlikeTop DEF TitleOfEach
<1>3. ASSUME NEW names, NEW others, names = [r \in R |-> r.user], others = [r \in S |-> r.user]
      PROVE  TopByTime(names, n) = TopByTime(others, n)
  <2>1. \A r \in R : others[Blank(r)] = names[r]
    BY <1>1, <1>3 DEF SamePlay
  <2> QED
    BY <1>3, <2>1, AlikeTop
<1>4. ASSUME NEW names, NEW others, names = [r \in R |-> r.client], others = [r \in S |-> r.client]
      PROVE  TopByTime(names, n) = TopByTime(others, n)
  <2>1. \A r \in R : others[Blank(r)] = names[r]
    BY <1>1, <1>4 DEF SamePlay
  <2> QED
    BY <1>4, <2>1, AlikeTop
<1>5. ASSUME NEW names, NEW others, names = [r \in R |-> r.library], others = [r \in S |-> r.library]
      PROVE  TopByTime(names, n) = TopByTime(others, n)
  <2>1. \A r \in R : others[Blank(r)] = names[r]
    BY <1>1, <1>5 DEF SamePlay
  <2> QED
    BY <1>5, <2>1, AlikeTop
<1>6. ASSUME NEW type
      PROVE  Alike({r \in R : r.type = type}, {r \in S : r.type = type})
  <2> DEFINE R0 == {r \in R : r.type = type}
             S0 == {r \in S : r.type = type}
  <2>1. R0 \in SUBSET R /\ S0 \in SUBSET S /\ \A r \in R : SamePlay(Blank(r), r) => (r \in R0 <=> Blank(r) \in S0)
    BY <1>1 DEF SamePlay
  <2> HIDE DEF R0, S0
  <2>2. Alike(R0, S0)
    BY <2>1, AlikePart
  <2> QED
    BY <2>2 DEF R0, S0
<1>7. Top([r \in {z \in R : z.type = "Movie"} |-> r.item], n, FALSE) = Top([r \in {z \in S : z.type = "Movie"} |-> r.item], n, FALSE)
  <2> DEFINE R0 == {z \in R : z.type = "Movie"}
             S0 == {z \in S : z.type = "Movie"}
             names == [r \in R0 |-> r.item]
             others == [r \in S0 |-> r.item]
  <2>1. Alike(R0, S0)
    BY <1>6
  <2>2. \A r \in R0 : others[Blank(r)] = names[r]
    BY <1>1 DEF SamePlay
  <2>3. DOMAIN names = R0 /\ DOMAIN others = S0
    OBVIOUS
  <2> HIDE DEF R0, S0, names, others
  <2>4. TopByTime(names, n) = TopByTime(others, n)
    BY <2>1, <2>2, <2>3, AlikeTop
  <2> QED
    BY <2>4 DEF names, others, R0, S0, TopByTime
<1>8. Top([r \in {z \in R : z.type = "Episode"} |-> r.series], n, FALSE) = Top([r \in {z \in S : z.type = "Episode"} |-> r.series], n, FALSE)
  <2> DEFINE R0 == {z \in R : z.type = "Episode"}
             S0 == {z \in S : z.type = "Episode"}
             names == [r \in R0 |-> r.series]
             others == [r \in S0 |-> r.series]
  <2>1. Alike(R0, S0)
    BY <1>6
  <2>2. \A r \in R0 : others[Blank(r)] = names[r]
    BY <1>1 DEF SamePlay
  <2>3. DOMAIN names = R0 /\ DOMAIN others = S0
    OBVIOUS
  <2> HIDE DEF R0, S0, names, others
  <2>4. TopByTime(names, n) = TopByTime(others, n)
    BY <2>1, <2>2, <2>3, AlikeTop
  <2> QED
    BY <2>4 DEF names, others, R0, S0, TopByTime
<1>9. TopKinds(R, n, FALSE) = TopKinds(S, n, FALSE)
  BY <1>3, <1>4, <1>5, <1>7, <1>8 DEF TopKinds, TopByTime
<1> QED
  BY <1>2, <1>9 DEF TopByTime

LEMMA AlikePages ==
  ASSUME NEW T, NEW S, Alike(T, S), NEW v, ~v.see_network, NEW q
  PROVE  /\ overview(T, v, q) = overview(S, v, q)
         /\ playback(T, v, q) = playback(S, v, q)
         /\ user_list(T, v, q) = user_list(S, v, q)
         /\ \A w : user_detail(T, v, q, w) = user_detail(S, v, q, w)
         /\ library_list(T, v, q) = library_list(S, v, q)
         /\ \A l : library_detail(T, v, q, l) = library_detail(S, v, q, l)
         /\ \A p : person_detail(T, v, q, p) = person_detail(S, v, q, p)
<1>1. ASSUME NEW s
      PROVE  /\ Totals(Cond(T, s)) = Totals(Cond(S, s)) /\ Totals(Previous(T, s)) = Totals(Previous(S, s))
             /\ Daily(Cond(T, s), s) = Daily(Cond(S, s), s)
             /\ Heatmap(Cond(T, s)) = Heatmap(Cond(S, s))
             /\ TopKinds(Cond(T, s), MostNames, FALSE) = TopKinds(Cond(S, s), MostNames, FALSE)
             /\ \A only : user_rows(T, s, only) = user_rows(S, s, only)
  <2>1. Alike(Cond(T, s), Cond(S, s)) /\ Alike(Previous(T, s), Previous(S, s))
    BY AlikeCond
  <2>2. Totals(Cond(T, s)) = Totals(Cond(S, s)) /\ Totals(Previous(T, s)) = Totals(Previous(S, s))
    BY <2>1, AlikeTell
  <2>3. \A only : user_rows(T, s, only) = user_rows(S, s, only)
    BY AlikeUserRows
  <2>4. Daily(Cond(T, s), s) = Daily(Cond(S, s), s)
    BY <2>1, AlikeDaily
  <2>5. Heatmap(Cond(T, s)) = Heatmap(Cond(S, s))
    BY <2>1, AlikeHeatmap
  <2>6. TopKinds(Cond(T, s), MostNames, FALSE) = TopKinds(Cond(S, s), MostNames, FALSE)
    BY <2>1, AlikeTopKinds
  <2> QED
    BY <2>2, <2>3, <2>4, <2>5, <2>6
<1>2. ASSUME NEW R, NEW Q, NEW s, R = Cond(T, s), Q = Cond(S, s)
      PROVE  /\ Buckets(GenresOf(R), MostNames) = Buckets(GenresOf(Q), MostNames)
             /\ Buckets(MethodsOf(R), MostNames) = Buckets(MethodsOf(Q), MostNames)
             /\ Buckets(ClientsOf(R), MostNames) = Buckets(ClientsOf(Q), MostNames)
             /\ Top(TitleOfEach(R), MostNames, FALSE) = Top(TitleOfEach(Q), MostNames, FALSE)
  <2>1. Alike(R, Q)
    BY <1>2, AlikeCond
  <2>2. /\ Buckets(GenresOf(R), MostNames) = Buckets(GenresOf(Q), MostNames)
        /\ Buckets(MethodsOf(R), MostNames) = Buckets(MethodsOf(Q), MostNames)
        /\ Buckets(ClientsOf(R), MostNames) = Buckets(ClientsOf(Q), MostNames)
    BY <2>1, AlikeGenres
  <2>3. Top(TitleOfEach(R), MostNames, FALSE) = Top(TitleOfEach(Q), MostNames, FALSE)
    BY <2>1, AlikeTopKinds
  <2> QED
    BY <2>2, <2>3
<1>3. overview(T, v, q) = overview(S, v, q)
  BY <1>1 DEF overview
<1>4. playback(T, v, q) = playback(S, v, q)
  <2> DEFINE R == Cond(T, Scope(v, q))
             Q == Cond(S, Scope(v, q))
  <2>1. /\ playback(T, v, q) = [methods |-> Buckets(MethodsOf(R), MostNames),
                                clients |-> Buckets(ClientsOf(R), MostNames)]
        /\ playback(S, v, q) = [methods |-> Buckets(MethodsOf(Q), MostNames),
                                clients |-> Buckets(ClientsOf(Q), MostNames)]
    BY DEF playback, MethodsOf, ClientsOf
  <2>2. /\ Buckets(MethodsOf(R), MostNames) = Buckets(MethodsOf(Q), MostNames)
        /\ Buckets(ClientsOf(R), MostNames) = Buckets(ClientsOf(Q), MostNames)
    BY <1>2
  <2> HIDE DEF R, Q
  <2> QED
    BY <2>1, <2>2
<1>5. user_list(T, v, q) = user_list(S, v, q)
  BY <1>1 DEF user_list
<1>6. ASSUME NEW w
      PROVE  user_detail(T, v, q, w) = user_detail(S, v, q, w)
  <2> DEFINE s == Scope([v EXCEPT !.see_everyone = TRUE], [q EXCEPT !.user_id = w])
             R == Cond(T, s)
             Q == Cond(S, s)
             z == [s EXCEPT !.user_id = Null]
  <2>1. /\ user_detail(T, v, q, w) =
             [user |-> user_rows(T, z, w), totals |-> Totals(R), daily |-> Daily(R, s), heatmap |-> Heatmap(R),
              top |-> TopKinds(R, MostNames, FALSE),
              genres |-> Buckets(GenresOf(R), MostNames),
              methods |-> Buckets(MethodsOf(R), MostNames), ips |-> <<>>]
        /\ user_detail(S, v, q, w) =
             [user |-> user_rows(S, z, w), totals |-> Totals(Q), daily |-> Daily(Q, s), heatmap |-> Heatmap(Q),
              top |-> TopKinds(Q, MostNames, FALSE),
              genres |-> Buckets(GenresOf(Q), MostNames),
              methods |-> Buckets(MethodsOf(Q), MostNames), ips |-> <<>>]
    BY DEF user_detail, GenresOf, MethodsOf
  <2>2. /\ Buckets(GenresOf(R), MostNames) = Buckets(GenresOf(Q), MostNames)
        /\ Buckets(MethodsOf(R), MostNames) = Buckets(MethodsOf(Q), MostNames)
    BY <1>2
  <2>3. /\ user_rows(T, z, w) = user_rows(S, z, w) /\ Totals(R) = Totals(Q) /\ Daily(R, s) = Daily(Q, s)
        /\ Heatmap(R) = Heatmap(Q) /\ TopKinds(R, MostNames, FALSE) = TopKinds(Q, MostNames, FALSE)
    BY <1>1
  <2> HIDE DEF R, Q, s, z
  <2> QED
    BY <2>1, <2>2, <2>3
<1>7. ASSUME NEW s, NEW l
      PROVE  Tally(OfLibrary(Cond(T, s), l)) = Tally(OfLibrary(Cond(S, s), l))
  <2>1. Tally(OfLibrary(Cond(T, s), l)) = Tally(OfLibrary(Cond(S, s), l))
    <3>1. Alike(Cond(T, s), Cond(S, s))
      BY AlikeCond
    <3> QED
      BY <3>1, AlikeOf
  <2> QED
    BY <2>1
<1>8. ASSUME NEW s
      PROVE  library_rows(T, s) = library_rows(S, s)
  <2>1. library_rows(T, s) = [l \in Shelves |-> Tally(OfLibrary(Cond(T, s), l))]
    BY DEF library_rows, OfLibrary
  <2>2. library_rows(S, s) = [l \in Shelves |-> Tally(OfLibrary(Cond(S, s), l))]
    BY DEF library_rows, OfLibrary
  <2> QED
    BY <1>7, <2>1, <2>2
<1>9. library_list(T, v, q) = library_list(S, v, q)
  BY <1>8 DEF library_list
<1>10. ASSUME NEW l
       PROVE  library_detail(T, v, q, l) = library_detail(S, v, q, l)
  <2> DEFINE s == Scope(v, [q EXCEPT !.library_id = l])
             R == Cond(T, s)
             Q == Cond(S, s)
             z == [s EXCEPT !.library_id = Null]
  <2>1. /\ library_detail(T, v, q, l) = [library |-> library_rows(T, z)[l],
                                         top |-> Top(TitleOfEach(R), MostNames, FALSE), daily |-> Daily(R, s)]
        /\ library_detail(S, v, q, l) = [library |-> library_rows(S, z)[l],
                                         top |-> Top(TitleOfEach(Q), MostNames, FALSE), daily |-> Daily(Q, s)]
    BY DEF library_detail, TitleOfEach
  <2>2. Top(TitleOfEach(R), MostNames, FALSE) = Top(TitleOfEach(Q), MostNames, FALSE)
    BY <1>2
  <2>3. library_rows(T, z) = library_rows(S, z) /\ Daily(R, s) = Daily(Q, s)
    BY <1>1, <1>8
  <2> HIDE DEF R, Q, s, z
  <2> QED
    BY <2>1, <2>2, <2>3
<1>11. ASSUME NEW p
       PROVE  person_detail(T, v, q, p) = person_detail(S, v, q, p)
  <2> DEFINE s == Scope(v, q)
             R == {r \in Cond(T, s) : Title(r) \in Credits(p)}
             Q == {r \in Cond(S, s) : Title(r) \in Credits(p)}
  <2>1. Alike(Cond(T, s), Cond(S, s))
    BY AlikeCond
  <2>2. /\ R \in SUBSET Cond(T, s) /\ Q \in SUBSET Cond(S, s)
        /\ \A r \in Cond(T, s) : SamePlay(Blank(r), r) => (r \in R <=> Blank(r) \in Q)
    BY <2>1 DEF SamePlay, Alike, Blanked, Title
  <2>3. /\ person_detail(T, v, q, p) = [totals |-> Totals(R), watchers |-> PerUser(R),
                                        titles |-> [i \in Credits(p) |-> Tally(OfTitle(R, i))]]
        /\ person_detail(S, v, q, p) = [totals |-> Totals(Q), watchers |-> PerUser(Q),
                                        titles |-> [i \in Credits(p) |-> Tally(OfTitle(Q, i))]]
    BY DEF person_detail, OfTitle
  <2> HIDE DEF R, Q, s
  <2>4. Alike(R, Q)
    BY <2>1, <2>2, AlikePart
  <2>5. Totals(R) = Totals(Q) /\ PerUser(R) = PerUser(Q)
    BY <2>4, AlikeTell
  <2>6. \A i : Tally(OfTitle(R, i)) = Tally(OfTitle(Q, i))
    BY <2>4, AlikeOf
  <2>7. [i \in Credits(p) |-> Tally(OfTitle(R, i))] = [i \in Credits(p) |-> Tally(OfTitle(Q, i))]
    BY <2>6, Zenon
  <2> QED
    BY <2>3, <2>5, <2>7
<1> QED
  BY <1>3, <1>4, <1>5, <1>6, <1>9, <1>10, <1>11

LEMMA AlikeItems ==
  ASSUME NEW T, NEW S, Alike(T, S), NEW v, ~v.see_network, NEW q, NEW n \in DOMAIN Catalog
  PROVE  item_detail(T, v, q, n) = item_detail(S, v, q, n)
<1> DEFINE s == Scope(v, q)
           is_series == TypeOf(T, n) = "Series"
           R == {r \in Cond(T, s) : IF is_series THEN r.series = n ELSE r.item = n}
           Q == {r \in Cond(S, s) : IF is_series THEN r.series = n ELSE r.item = n}
           shown == {e \in Under(n) : ~Catalog[e].removed \/ Catalog[n].removed}
           flagged == {w \in Accounts : \E e \in {n} \cup Under(n) : <<w, e>> \in PlayedFlags}
           seen == IF v.see_everyone THEN flagged ELSE flagged \cap {s.user_id}
<1>1. TypeOf(T, n) = TypeOf(S, n)
  BY DEF TypeOf
<1>2. Alike(Cond(T, s), Cond(S, s))
  BY AlikeCond
<1>3. /\ R \in SUBSET Cond(T, s) /\ Q \in SUBSET Cond(S, s)
      /\ \A r \in Cond(T, s) : SamePlay(Blank(r), r) => (r \in R <=> Blank(r) \in Q)
  BY <1>2 DEF SamePlay, Alike, Blanked
<1>4. /\ item_detail(T, v, q, n) =
           [totals |-> Totals(R), watchers |-> PerUser(R), daily |-> Daily(R, s),
            episodes |-> IF is_series THEN [e \in shown |-> Tally(OfItem(R, e))] ELSE <<>>,
            played_by |-> seen]
      /\ item_detail(S, v, q, n) =
           [totals |-> Totals(Q), watchers |-> PerUser(Q), daily |-> Daily(Q, s),
            episodes |-> IF is_series THEN [e \in shown |-> Tally(OfItem(Q, e))] ELSE <<>>,
            played_by |-> seen]
  BY <1>1 DEF item_detail, OfItem
<1> HIDE DEF R, Q, s, is_series, shown, seen
<1>5. Alike(R, Q)
  BY <1>2, <1>3, AlikePart
<1>6. Totals(R) = Totals(Q) /\ PerUser(R) = PerUser(Q) /\ Daily(R, s) = Daily(Q, s)
  BY <1>5, AlikeTell, AlikeDaily
<1>7. \A i : Tally(OfItem(R, i)) = Tally(OfItem(Q, i))
  BY <1>5, AlikeOf
<1>8. [e \in shown |-> Tally(OfItem(R, e))] = [e \in shown |-> Tally(OfItem(Q, e))]
  BY <1>7, Zenon
<1> QED
  BY <1>4, <1>6, <1>8

TranscodesAfter(P, p) == MapThenSumSet(LAMBDA z : IF z.row.method = "Transcode" THEN z.delta ELSE 0, Upto(P, p))

LEMMA TranscodesAre ==
  ASSUME NEW P, NEW p, IsFiniteSet(Upto(P, p)), \A z \in Upto(P, p) : z.delta \in Int
  PROVE  IsSum([z \in Upto(P, p) |-> IF z.row.method = "Transcode" THEN z.delta ELSE 0], Upto(P, p), TranscodesAfter(P, p))
<1> DEFINE R == Upto(P, p)
           D(sums) == [Q \in SUBSET R |-> IF Q = {} THEN 0
                         ELSE (IF OneOf(Q).row.method = "Transcode" THEN OneOf(Q).delta ELSE 0) + sums[Q \ {OneOf(Q)}]]
           f == [r \in R |-> IF r.row.method = "Transcode" THEN r.delta ELSE 0]
           kept == CHOOSE sums : sums = D(sums)
<1>5. TranscodesAfter(P, p) = kept[R]
  BY DEF TranscodesAfter, MapThenSumSet, MapThenFoldSet, OneOf
<1> HIDE DEF R
<1>1. f \in [R -> Int]
  BY DEF R
<1>2. ASSUME NEW sums PROVE D(sums) = SumStep(f, R, sums)
  <2>1. \A Q \in SUBSET R : Q # {} => OneOf(Q) \in R
    BY DEF OneOf
  <2> QED
    BY <2>1 DEF SumStep
<1> HIDE DEF f
<1>3. PICK sums : AreSums(f, R, sums)
  BY <1>1, SumsExist DEF R
<1>4. sums = D(sums)
  BY <1>2, <1>3 DEF AreSums
<1> HIDE DEF D
<1>6. kept = D(kept)
  BY <1>4
<1>7. AreSums(f, R, kept)
  BY <1>2, <1>6 DEF AreSums
<1> QED
  BY <1>5, <1>7 DEF IsSum, f, R

(* Where a play begins or ends. *)
IsPoint(p, R) ==
  /\ p = [at |-> p.at, delta |-> p.delta, row |-> p.row]
  /\ p.row \in R /\ p.delta \in {1, -1} /\ p.at \in Nat
  /\ p.at = IF p.delta = 1 THEN p.row.start ELSE p.row.end

BlankPoint(p) == [at |-> p.at, delta |-> p.delta, row |-> Blank(p.row)]

LEMMA PointFacts ==
  ASSUME NEW R, IsTable(R)
  PROVE  /\ IsFiniteSet(Points(R))
         /\ \A p \in Points(R) : IsPoint(p, R)
         /\ \A p : p \in Points(R) <=> \E r \in R : /\ r.end > r.start
                                                     /\ \/ p = [at |-> r.start, delta |-> 1, row |-> r]
                                                        \/ p = [at |-> r.end, delta |-> -1, row |-> r]
<1> DEFINE real == {r \in R : r.end > r.start}
           first == [r \in real |-> [at |-> r.start, delta |-> 1, row |-> r]]
           last == [r \in real |-> [at |-> r.end, delta |-> -1, row |-> r]]
           begins == {[at |-> r.start, delta |-> 1, row |-> r] : r \in real}
           ends == {[at |-> r.end, delta |-> -1, row |-> r] : r \in real}
<1>1. IsFiniteSet(real)
  BY FS_Subset DEF IsTable
<1>2. first \in Surjection(real, begins) /\ last \in Surjection(real, ends)
  BY DEF Surjection
<1>3. Points(R) = begins \cup ends
  BY DEF Points
<1>4. \A r \in R : IsPlay(r)
  BY DEF IsTable
<1>5. \A p \in Points(R) : IsPoint(p, R)
  BY <1>3, <1>4 DEF IsPoint, IsPlay
<1>6. \A p : p \in Points(R) <=> \E r \in R : /\ r.end > r.start
                                              /\ \/ p = [at |-> r.start, delta |-> 1, row |-> r]
                                                 \/ p = [at |-> r.end, delta |-> -1, row |-> r]
  BY <1>3
<1> HIDE DEF first, last, begins, ends, real
<1>7. IsFiniteSet(begins) /\ IsFiniteSet(ends)
  BY <1>1, <1>2, FS_Surjection
<1>8. IsFiniteSet(Points(R))
  BY <1>3, <1>7, FS_Union
<1> QED
  BY <1>5, <1>6, <1>8

LEMMA AlikePoints ==
  ASSUME NEW R, NEW S, Alike(R, S)
  PROVE  /\ \A p \in Points(R) : BlankPoint(p) \in Points(S)
         /\ \A k \in Points(S) : \E p \in Points(R) : k = BlankPoint(p)
         /\ \A p, k \in Points(R) : BlankPoint(p) = BlankPoint(k) => p = k
         /\ \A p, k \in Points(R) : k \in Upto(Points(R), p) <=> BlankPoint(k) \in Upto(Points(S), BlankPoint(p))
<1>0. IsTable(R) /\ IsTable(S)
  BY AlikeTell
<1>1. \A r \in R : SamePlay(Blank(r), r) /\ Blank(r) \in S
  BY BlankTable DEF Alike
<1>2. \A k \in S : \E r \in R : k = Blank(r)
  BY DEF Alike, Blanked
<1>3. \A p \in Points(R) : IsPoint(p, R)
  BY <1>0, PointFacts
<1>4. ASSUME NEW p \in Points(R)
      PROVE  BlankPoint(p) \in Points(S)
  <2>1. PICK r \in R : /\ r.end > r.start
                       /\ \/ p = [at |-> r.start, delta |-> 1, row |-> r]
                          \/ p = [at |-> r.end, delta |-> -1, row |-> r]
    BY <1>0, PointFacts
  <2>2. Blank(r) \in S /\ Blank(r).end > Blank(r).start /\ Blank(r).start = r.start /\ Blank(r).end = r.end
    BY <1>1, <2>1 DEF SamePlay
  <2>3. \/ BlankPoint(p) = [at |-> Blank(r).start, delta |-> 1, row |-> Blank(r)]
        \/ BlankPoint(p) = [at |-> Blank(r).end, delta |-> -1, row |-> Blank(r)]
    BY <2>1, <2>2 DEF BlankPoint
  <2> QED
    BY <1>0, <2>2, <2>3, PointFacts
<1>5. ASSUME NEW k \in Points(S)
      PROVE  \E p \in Points(R) : k = BlankPoint(p)
  <2>1. PICK q \in S : /\ q.end > q.start
                       /\ \/ k = [at |-> q.start, delta |-> 1, row |-> q]
                          \/ k = [at |-> q.end, delta |-> -1, row |-> q]
    BY <1>0, PointFacts
  <2>2. PICK r \in R : q = Blank(r) /\ r.start = q.start /\ r.end = q.end
    BY <1>1, <1>2 DEF SamePlay
  <2>3. CASE k = [at |-> q.start, delta |-> 1, row |-> q]
    <3> DEFINE p == [at |-> r.start, delta |-> 1, row |-> r]
    <3>1. p \in Points(R)
      BY <1>0, <2>1, <2>2, PointFacts
    <3> QED
      BY <2>2, <2>3, <3>1 DEF BlankPoint
  <2>4. CASE k = [at |-> q.end, delta |-> -1, row |-> q]
    <3> DEFINE p == [at |-> r.end, delta |-> -1, row |-> r]
    <3>1. p \in Points(R)
      BY <1>0, <2>1, <2>2, PointFacts
    <3> QED
      BY <2>2, <2>4, <3>1 DEF BlankPoint
  <2> QED
    BY <2>1, <2>3, <2>4
<1>6. ASSUME NEW p \in Points(R), NEW k \in Points(R), BlankPoint(p) = BlankPoint(k)
      PROVE  p = k
  <2>1. IsPoint(p, R) /\ IsPoint(k, R)
    BY <1>3
  <2>2. p.at = k.at /\ p.delta = k.delta /\ Blank(p.row) = Blank(k.row)
    BY <1>6 DEF BlankPoint
  <2>3. p.row.id = k.row.id
    BY <1>1, <2>1, <2>2 DEF SamePlay, IsPoint
  <2>4. p.row = k.row
    BY <1>0, <2>1, <2>3 DEF IsTable, IsPoint
  <2> QED
    BY <2>1, <2>2, <2>4 DEF IsPoint
<1>7. ASSUME NEW p \in Points(R), NEW k \in Points(R)
      PROVE  k \in Upto(Points(R), p) <=> BlankPoint(k) \in Upto(Points(S), BlankPoint(p))
  <2>1. /\ BlankPoint(p).at = p.at /\ BlankPoint(p).delta = p.delta /\ BlankPoint(p).row = Blank(p.row)
        /\ BlankPoint(k).at = k.at /\ BlankPoint(k).delta = k.delta /\ BlankPoint(k).row = Blank(k.row)
    BY DEF BlankPoint
  <2>2. Blank(p.row).id = p.row.id /\ Blank(k.row).id = k.row.id
    BY <1>1, <1>3 DEF SamePlay, IsPoint
  <2> QED
    BY <1>4, <2>1, <2>2 DEF Upto
<1> QED
  BY <1>4, <1>5, <1>6, <1>7

LEMMA AlikeLive ==
  ASSUME NEW R, NEW S, Alike(R, S), NEW p \in Points(R)
  PROVE  /\ LiveAfter(Points(R), p) = LiveAfter(Points(S), BlankPoint(p))
         /\ TranscodesAfter(Points(R), p) = TranscodesAfter(Points(S), BlankPoint(p))
<1> DEFINE U == Upto(Points(R), p)
           W == Upto(Points(S), BlankPoint(p))
           h == [k \in U |-> BlankPoint(k)]
<1>0. IsTable(R) /\ IsTable(S)
  BY AlikeTell
<1>1. U \subseteq Points(R) /\ W \subseteq Points(S)
  BY DEF Upto
<1>2. IsFiniteSet(U) /\ IsFiniteSet(W)
  BY <1>0, <1>1, PointFacts, FS_Subset
<1>3. /\ h \in [U -> W] /\ \A k, z \in U : h[k] = h[z] => k = z
      /\ Image(h, U) = W
  <2>1. \A k \in U : BlankPoint(k) \in W
    BY <1>1, AlikePoints
  <2>2. \A k, z \in U : BlankPoint(k) = BlankPoint(z) => k = z
    BY <1>1, AlikePoints
  <2>3. ASSUME NEW k \in W
        PROVE  \E z \in U : k = BlankPoint(z)
    <3>1. PICK z \in Points(R) : k = BlankPoint(z)
      BY <1>1, AlikePoints
    <3>2. z \in U
      BY <3>1, AlikePoints
    <3> QED
      BY <3>1, <3>2
  <2> HIDE DEF U, W
  <2> QED
    BY <2>1, <2>2, <2>3 DEF Image
<1>4. /\ \A k \in U : k.delta \in Int /\ k.row \in R
      /\ \A k \in W : k.delta \in Int
  BY <1>0, <1>1, PointFacts DEF IsPoint
<1>5. \A k \in U : h[k].delta = k.delta /\ h[k].row.method = k.row.method
  BY <1>4, BlankTable DEF Alike, BlankPoint, SamePlay
<1> HIDE DEF h
<1>6. LiveAfter(Points(R), p) = LiveAfter(Points(S), BlankPoint(p))
  <2> DEFINE f == [k \in U |-> k.delta]
             g == [k \in W |-> k.delta]
  <2>1. IsSum(f, U, LiveAfter(Points(R), p)) /\ IsSum(g, W, LiveAfter(Points(S), BlankPoint(p)))
    BY <1>2, <1>4, LiveAfterIs
  <2> HIDE DEF U, W
  <2>2. f \in [U -> Int] /\ g \in [W -> Int] /\ \A k \in U : g[h[k]] = f[k]
    BY <1>3, <1>4, <1>5
  <2> HIDE DEF f, g
  <2> QED
    BY <1>2, <1>3, <2>1, <2>2, SumMoved
<1>7. TranscodesAfter(Points(R), p) = TranscodesAfter(Points(S), BlankPoint(p))
  <2> DEFINE f == [k \in U |-> IF k.row.method = "Transcode" THEN k.delta ELSE 0]
             g == [k \in W |-> IF k.row.method = "Transcode" THEN k.delta ELSE 0]
  <2>1. IsSum(f, U, TranscodesAfter(Points(R), p)) /\ IsSum(g, W, TranscodesAfter(Points(S), BlankPoint(p)))
    BY <1>2, <1>4, TranscodesAre
  <2> HIDE DEF U, W
  <2>2. f \in [U -> Int] /\ g \in [W -> Int] /\ \A k \in U : g[h[k]] = f[k]
    BY <1>3, <1>4, <1>5
  <2> HIDE DEF f, g
  <2> QED
    BY <1>2, <1>3, <2>1, <2>2, SumMoved
<1> QED
  BY <1>6, <1>7

Starts(P) == {p \in P : p.delta > 0}
HighestOf(S) == Max(S \cup {0})
MostOn(R, s, d) == HighestOf({LiveAfter(Points(R), p) : p \in {z \in Starts(Points(R)) : DateOf(R, s, z.at) = d}})

LEMMA ConcurrencyIs ==
  ASSUME NEW R, NEW s
  PROVE  Concurrency(R, s) =
           [peak |-> HighestOf({LiveAfter(Points(R), p) : p \in Starts(Points(R))}),
            peak_transcodes |-> HighestOf({TranscodesAfter(Points(R), p) : p \in Starts(Points(R))}),
            series |-> [d \in ChartDates(R, s) |-> MostOn(R, s, d)]]
BY DEF Concurrency, Starts, HighestOf, MostOn, TranscodesAfter

LEMMA AlikeConcurrency ==
  ASSUME NEW R, NEW S, Alike(R, S), NEW s
  PROVE  Concurrency(R, s) = Concurrency(S, s)
<1> DEFINE P == Points(R)
           K == Points(S)
<1>1. ASSUME NEW p \in P
      PROVE  /\ BlankPoint(p) \in K /\ BlankPoint(p).delta = p.delta /\ BlankPoint(p).at = p.at
             /\ LiveAfter(P, p) = LiveAfter(K, BlankPoint(p))
             /\ TranscodesAfter(P, p) = TranscodesAfter(K, BlankPoint(p))
  <2>1. BlankPoint(p).delta = p.delta /\ BlankPoint(p).at = p.at
    BY DEF BlankPoint
  <2>2. BlankPoint(p) \in K
    BY AlikePoints
  <2>3. /\ LiveAfter(P, p) = LiveAfter(K, BlankPoint(p))
        /\ TranscodesAfter(P, p) = TranscodesAfter(K, BlankPoint(p))
    BY AlikeLive
  <2> QED
    BY <2>1, <2>2, <2>3
<1>2. \A k \in K : \E p \in P : k = BlankPoint(p)
  BY AlikePoints
<1>3. ChartDates(R, s) = ChartDates(S, s) /\ \A t : DateOf(R, s, t) = DateOf(S, s, t)
  BY AlikeDaily
<1>4. /\ Concurrency(R, s) =
           [peak |-> HighestOf({LiveAfter(P, p) : p \in Starts(P)}),
            peak_transcodes |-> HighestOf({TranscodesAfter(P, p) : p \in Starts(P)}),
            series |-> [d \in ChartDates(R, s) |-> MostOn(R, s, d)]]
      /\ Concurrency(S, s) =
           [peak |-> HighestOf({LiveAfter(K, p) : p \in Starts(K)}),
            peak_transcodes |-> HighestOf({TranscodesAfter(K, p) : p \in Starts(K)}),
            series |-> [d \in ChartDates(S, s) |-> MostOn(S, s, d)]]
  BY ConcurrencyIs
<1>5. \A d : MostOn(R, s, d) = HighestOf({LiveAfter(P, p) : p \in {z \in Starts(P) : DateOf(R, s, z.at) = d}})
  BY DEF MostOn
<1>6. \A d : MostOn(S, s, d) = HighestOf({LiveAfter(K, p) : p \in {z \in Starts(K) : DateOf(S, s, z.at) = d}})
  BY DEF MostOn
<1> HIDE DEF P, K
<1>7. {LiveAfter(P, p) : p \in Starts(P)} = {LiveAfter(K, p) : p \in Starts(K)}
  BY <1>1, <1>2 DEF Starts
<1>8. {TranscodesAfter(P, p) : p \in Starts(P)} = {TranscodesAfter(K, p) : p \in Starts(K)}
  BY <1>1, <1>2 DEF Starts
<1>9. ASSUME NEW d
      PROVE  {LiveAfter(P, p) : p \in {z \in Starts(P) : DateOf(R, s, z.at) = d}}
               = {LiveAfter(K, p) : p \in {z \in Starts(K) : DateOf(S, s, z.at) = d}}
  BY <1>1, <1>2, <1>3 DEF Starts
<1>10. \A d : MostOn(R, s, d) = MostOn(S, s, d)
  BY <1>5, <1>6, <1>9
<1>11. [d \in ChartDates(R, s) |-> MostOn(R, s, d)] = [d \in ChartDates(S, s) |-> MostOn(S, s, d)]
  BY <1>3, <1>10
<1> QED
  BY <1>4, <1>7, <1>8, <1>11

LEMMA AlikeCompletion ==
  ASSUME NEW R, NEW S, Alike(R, S)
  PROVE  Completion(R) = Completion(S)
<1> DEFINE done(r) == Min({r.runtime_s, IF r.position_s # Null THEN r.position_s ELSE r.duration_s})
           Timed(Q) == {r \in Q : r.type \in {"Movie", "Episode"} /\ r.runtime_s > 0}
           Share1(Q) == {r \in Timed(Q) : 10 * done(r) < r.runtime_s}
           Share2(Q) == {r \in Timed(Q) : 10 * done(r) >= r.runtime_s /\ 2 * done(r) < r.runtime_s}
           Share3(Q) == {r \in Timed(Q) : 2 * done(r) >= r.runtime_s /\ 10 * done(r) < 9 * r.runtime_s}
           Share4(Q) == {r \in Timed(Q) : 10 * done(r) >= 9 * r.runtime_s}
<1>1. \A r \in R : SamePlay(Blank(r), r) /\ Blank(r) \in S
  BY BlankTable DEF Alike
<1>2. \A r \in R : done(Blank(r)) = done(r)
  <2> SUFFICES ASSUME NEW r \in R PROVE done(Blank(r)) = done(r)
    OBVIOUS
  <2>1. Blank(r).runtime_s = r.runtime_s /\ Blank(r).position_s = r.position_s /\ Blank(r).duration_s = r.duration_s
    BY <1>1 DEF SamePlay
  <2> QED
    BY <2>1
<1>3. \A Q : Completion(Q) = <<Cardinality(Share1(Q)), Cardinality(Share2(Q)), Cardinality(Share3(Q)), Cardinality(Share4(Q))>>
  BY DEF Completion
<1> HIDE DEF done
<1>4. \A r \in R : r \in Timed(R) <=> Blank(r) \in Timed(S)
  BY <1>1 DEF SamePlay
<1>5. \A r \in R : Blank(r).runtime_s = r.runtime_s
  BY <1>1 DEF SamePlay
<1>6. \A Q : Timed(Q) \in SUBSET Q
  OBVIOUS
<1> HIDE DEF Timed
<1>7. Cardinality(Share1(R)) = Cardinality(Share1(S))
  <2>1. Share1(R) \in SUBSET R /\ Share1(S) \in SUBSET S /\ \A r \in R : r \in Share1(R) <=> Blank(r) \in Share1(S)
    BY <1>2, <1>4, <1>5, <1>6
  <2> HIDE DEF Share1
  <2> QED
    BY <2>1, AlikePart
<1>8. Cardinality(Share2(R)) = Cardinality(Share2(S))
  <2>1. Share2(R) \in SUBSET R /\ Share2(S) \in SUBSET S /\ \A r \in R : r \in Share2(R) <=> Blank(r) \in Share2(S)
    BY <1>2, <1>4, <1>5, <1>6
  <2> HIDE DEF Share2
  <2> QED
    BY <2>1, AlikePart
<1>9. Cardinality(Share3(R)) = Cardinality(Share3(S))
  <2>1. Share3(R) \in SUBSET R /\ Share3(S) \in SUBSET S /\ \A r \in R : r \in Share3(R) <=> Blank(r) \in Share3(S)
    BY <1>2, <1>4, <1>5, <1>6
  <2> HIDE DEF Share3
  <2> QED
    BY <2>1, AlikePart
<1>10. Cardinality(Share4(R)) = Cardinality(Share4(S))
  <2>1. Share4(R) \in SUBSET R /\ Share4(S) \in SUBSET S /\ \A r \in R : r \in Share4(R) <=> Blank(r) \in Share4(S)
    BY <1>2, <1>4, <1>5, <1>6
  <2> HIDE DEF Share4
  <2> QED
    BY <2>1, AlikePart
<1> HIDE DEF Share1, Share2, Share3, Share4
<1> QED
  BY <1>3, <1>7, <1>8, <1>9, <1>10

ByClient(R, client, method) == {r \in R : r.client = client /\ r.method = method}
ClientsIn(R) == {r.client : r \in R} \ {Null}

LEMMA AlikeInsights ==
  ASSUME NEW T, NEW S, Alike(T, S), NEW v, ~v.see_network, NEW q
  PROVE  insights(T, v, q) = insights(S, v, q)
<1> DEFINE s == Scope(v, q)
           R == Cond(T, s)
           Q == Cond(S, s)
           Methods(P) == [client \in ClientsIn(P) |->
                            [method \in {"DirectPlay", "Transcode"} |-> Cardinality(ByClient(P, client, method))]]
           Measured(P) == {r \in P : ~r.active}
<1>1. /\ insights(T, v, q) = [concurrency |-> Concurrency(R, s), completion |-> Completion(R),
                              genres |-> Buckets(GenresOf(R), MostNames), network |-> <<>>,
                              client_methods |-> Methods(R), measured |-> Cardinality(Measured(R))]
      /\ insights(S, v, q) = [concurrency |-> Concurrency(Q, s), completion |-> Completion(Q),
                              genres |-> Buckets(GenresOf(Q), MostNames), network |-> <<>>,
                              client_methods |-> Methods(Q), measured |-> Cardinality(Measured(Q))]
  BY DEF insights, GenresOf, ByClient, ClientsIn
<1>2. Alike(R, Q)
  BY AlikeCond
<1> HIDE DEF R, Q, s
<1>3. Concurrency(R, s) = Concurrency(Q, s) /\ Completion(R) = Completion(Q)
  BY <1>2, AlikeConcurrency, AlikeCompletion
<1>4. Buckets(GenresOf(R), MostNames) = Buckets(GenresOf(Q), MostNames)
  BY <1>2, AlikeGenres
<1>5. \A r \in R : SamePlay(Blank(r), r) /\ Blank(r) \in Q
  BY <1>2, BlankTable DEF Alike
<1>6. ClientsIn(R) = ClientsIn(Q)
  BY <1>2, AlikeTell DEF ClientsIn, SamePlay
<1>7. ASSUME NEW client, NEW method
      PROVE  Cardinality(ByClient(R, client, method)) = Cardinality(ByClient(Q, client, method))
  <2>1. /\ ByClient(R, client, method) \in SUBSET R /\ ByClient(Q, client, method) \in SUBSET Q
        /\ \A r \in R : r \in ByClient(R, client, method) <=> Blank(r) \in ByClient(Q, client, method)
    BY <1>5 DEF ByClient, SamePlay
  <2> QED
    BY <1>2, <2>1, AlikePart
<1>8. Methods(R) = Methods(Q)
  <2> DEFINE Played(P, client) == [method \in {"DirectPlay", "Transcode"} |-> Cardinality(ByClient(P, client, method))]
  <2>1. \A client : Played(R, client) = Played(Q, client)
    BY <1>7
  <2>2. \A P : Methods(P) = [client \in ClientsIn(P) |-> Played(P, client)]
    OBVIOUS
  <2> HIDE DEF Played, Methods
  <2> QED
    BY <1>6, <2>1, <2>2
<1>9. Cardinality(Measured(R)) = Cardinality(Measured(Q))
  <2>1. \A r \in R : Blank(r).active = r.active
    BY <1>5 DEF SamePlay
  <2>2. /\ Measured(R) \in SUBSET R /\ Measured(Q) \in SUBSET Q
        /\ \A r \in R : r \in Measured(R) <=> Blank(r) \in Measured(Q)
    BY <1>5, <2>1
  <2> HIDE DEF Measured
  <2> QED
    BY <1>2, <2>2, AlikePart
<1> HIDE DEF Methods, Measured
<1> QED
  BY <1>1, <1>3, <1>4, <1>8, <1>9

LEMMA AlikeSummary ==
  ASSUME NEW T, NEW S, Alike(T, S), NEW v
  PROVE  summary(T, v) = summary(S, v)
<1> DEFINE Theirs(P) == {r \in P : MaySee(v, r.user)}
           Live(P) == {r \in Theirs(P) : r.active}
<1>1. \A r \in T : SamePlay(Blank(r), r) /\ Blank(r) \in S
  BY BlankTable DEF Alike
<1>2. /\ Theirs(T) \in SUBSET T /\ Theirs(S) \in SUBSET S
      /\ \A r \in T : r \in Theirs(T) <=> Blank(r) \in Theirs(S)
  BY <1>1 DEF SamePlay, MaySee
<1>3. \A r \in T : Blank(r).active = r.active
  BY <1>1 DEF SamePlay
<1>4. summary(T, v) = [plays_total |-> Cardinality(Theirs(T)), active_sessions |-> Cardinality(Live(T))]
  BY DEF summary
<1>5. summary(S, v) = [plays_total |-> Cardinality(Theirs(S)), active_sessions |-> Cardinality(Live(S))]
  BY DEF summary
<1> HIDE DEF Theirs
<1>6. /\ Live(T) \in SUBSET T /\ Live(S) \in SUBSET S
      /\ \A r \in T : r \in Live(T) <=> Blank(r) \in Live(S)
  BY <1>2, <1>3
<1> HIDE DEF Live
<1>7. Cardinality(Theirs(T)) = Cardinality(Theirs(S)) /\ Cardinality(Live(T)) = Cardinality(Live(S))
  <2>1. Cardinality(Theirs(T)) = Cardinality(Theirs(S))
    BY <1>2, AlikePart
  <2>2. Cardinality(Live(T)) = Cardinality(Live(S))
    BY <1>6, AlikePart
  <2> QED
    BY <2>1, <2>2
<1> QED
  BY <1>4, <1>5, <1>7

LEMMA AlikeShown ==
  ASSUME NEW T, NEW S, Alike(T, S), NEW v, ~v.see_network, NEW n
  PROVE  activity_detail(T, v, n) = activity_detail(S, v, n)
<1>1. \A r \in T : SamePlay(Blank(r), r) /\ Blank(r) \in S /\ Blank(Blank(r)) = Blank(r)
  BY BlankTable, BlankPlay DEF Alike, IsTable
<1>2. \A k \in S : \E r \in T : k = Blank(r)
  BY DEF Alike, Blanked
<1>3. \A r : Decorated(v, r) = Blank(r)
  BY DEF Decorated, Blank
<1>4. \A P : activity_detail(P, v, n) = {Blank(r) : r \in {p \in P : p.id = n /\ MaySee(v, p.user)}}
  BY <1>3 DEF activity_detail
<1>5. {Blank(r) : r \in {p \in T : p.id = n /\ MaySee(v, p.user)}} = {Blank(r) : r \in {p \in S : p.id = n /\ MaySee(v, p.user)}}
  BY <1>1, <1>2 DEF SamePlay
<1> QED
  BY <1>4, <1>5

Before(R, sort, r) == {p \in R : p # r /\ Precedes(sort, p, r)}
PlaceIn(R, sort, r) == Cardinality(Before(R, sort, r))
SortOf(v, f) == IF f.sort = "ip" /\ ~v.see_network THEN "when" ELSE f.sort
OnPage(R, sort, page) == {r \in R : (page - 1) * PerPage <= PlaceIn(R, sort, r) /\ PlaceIn(R, sort, r) < page * PerPage}

LEMMA AlikeActivity ==
  ASSUME NEW T, NEW S, Alike(T, S), NEW v, ~v.see_network, NEW q, NEW f, NEW page
  PROVE  Activity(T, v, q, f, page) = Activity(S, v, q, f, page)
<1> DEFINE R == Filtered(T, v, q, f)
           Q == Filtered(S, v, q, f)
           sort == SortOf(v, f)
<1>1. sort # "ip"
  BY DEF SortOf
<1>2. Alike(R, Q)
  <2>1. Alike(Cond(T, Scope(v, q)), Cond(S, Scope(v, q)))
    BY AlikeCond
  <2>2. \A r \in Cond(T, Scope(v, q)) : SamePlay(Blank(r), r) => (r \in R <=> Blank(r) \in Q)
    <3> SUFFICES ASSUME NEW r \in Cond(T, Scope(v, q)), SamePlay(Blank(r), r) PROVE r \in R <=> Blank(r) \in Q
      OBVIOUS
    <3>1. Blank(r) \in Cond(S, Scope(v, q))
      BY <2>1 DEF Alike, Blanked
    <3>2. Texts(v, Blank(r)) = Texts(v, r) /\ TypeGroup(Blank(r)) = TypeGroup(r)
      BY DEF Texts, TypeGroup, SamePlay
    <3> QED
      BY <3>1, <3>2 DEF Filtered
  <2>3. R \in SUBSET Cond(T, Scope(v, q)) /\ Q \in SUBSET Cond(S, Scope(v, q))
    BY DEF Filtered
  <2> HIDE DEF R, Q
  <2> QED
    BY <2>1, <2>2, <2>3, AlikePart
<1>3. /\ Activity(T, v, q, f, page) = [total |-> Cardinality(R), rows |-> {<<PlaceIn(R, sort, r), Decorated(v, r)>> : r \in OnPage(R, sort, page)}]
      /\ Activity(S, v, q, f, page) = [total |-> Cardinality(Q), rows |-> {<<PlaceIn(Q, sort, r), Decorated(v, r)>> : r \in OnPage(Q, sort, page)}]
  BY DEF Activity, PlaceIn, Before, SortOf, OnPage
<1> HIDE DEF R, Q, sort
<1>4. \A r \in R : SamePlay(Blank(r), r) /\ Blank(r) \in Q /\ Blank(Blank(r)) = Blank(r)
  BY <1>2, BlankTable, BlankPlay DEF Alike, IsTable
<1>5. \A k \in Q : \E r \in R : k = Blank(r)
  BY <1>2 DEF Alike, Blanked
<1>6. ASSUME NEW r \in R
      PROVE  PlaceIn(Q, sort, Blank(r)) = PlaceIn(R, sort, r)
  <2>1. \A p \in R : Precedes(sort, p, r) <=> Precedes(sort, Blank(p), Blank(r))
    BY <1>1, <1>4 DEF Precedes, SamePlay
  <2>2. \A p \in R : p # r <=> Blank(p) # Blank(r)
    <3>1. \A p \in R : Blank(p) = Blank(r) => p.id = r.id
      BY <1>4 DEF SamePlay
    <3> QED
      BY <3>1, <1>2 DEF Alike, IsTable
  <2>3. /\ Before(R, sort, r) \in SUBSET R /\ Before(Q, sort, Blank(r)) \in SUBSET Q
        /\ \A p \in R : p \in Before(R, sort, r) <=> Blank(p) \in Before(Q, sort, Blank(r))
    BY <1>4, <2>1, <2>2 DEF Before
  <2>4. Cardinality(Before(R, sort, r)) = Cardinality(Before(Q, sort, Blank(r)))
    BY <1>2, <2>3, AlikePart
  <2> QED
    BY <2>4 DEF PlaceIn
<1>7. \A r \in R : Decorated(v, Blank(r)) = Decorated(v, r)
  BY <1>4 DEF Decorated, Blank
<1>8. \A r \in R : r \in OnPage(R, sort, page) <=> Blank(r) \in OnPage(Q, sort, page)
  BY <1>4, <1>6 DEF OnPage
<1>9. {<<PlaceIn(R, sort, r), Decorated(v, r)>> : r \in OnPage(R, sort, page)}
        = {<<PlaceIn(Q, sort, r), Decorated(v, r)>> : r \in OnPage(Q, sort, page)}
  <2> DEFINE A == OnPage(R, sort, page)
             B == OnPage(Q, sort, page)
             Shows(P, r) == <<PlaceIn(P, sort, r), Decorated(v, r)>>
  <2>1. \A r \in A : r \in R
    BY DEF OnPage
  <2>2. \A k \in B : \E r \in A : k = Blank(r)
    <3>1. \A k \in B : k \in Q
      BY DEF OnPage
    <3> QED
      BY <3>1, <1>5, <1>8
  <2>3. \A r \in A : Blank(r) \in B /\ Shows(Q, Blank(r)) = Shows(R, r)
    BY <1>6, <1>7, <1>8, <2>1
  <2> HIDE DEF A, B, Shows
  <2>4. {Shows(R, r) : r \in A} = {Shows(Q, r) : r \in B}
    BY <2>2, <2>3
  <2> QED
    BY <2>4 DEF A, B, Shows
<1>10. Cardinality(R) = Cardinality(Q)
  BY <1>2, AlikeTell
<1> QED
  BY <1>3, <1>9, <1>10

(* Without "see network" no address makes a difference. *)
LEMMA AddressesMakeNoDifference ==
  ASSUME RowsInv, NEW v, ~v.see_network
  PROVE  SameTo({[r EXCEPT !.ip = Null, !.local = Null] : r \in rows}, v)
<1> DEFINE T == {[r EXCEPT !.ip = Null, !.local = Null] : r \in rows}
<1>1. Alike(rows, T)
  BY RowsAreTable DEF Alike, Blanked, Blank
<1> HIDE DEF T
<1>2. ASSUME NEW q
      PROVE  Answers(rows, v, q) = Answers(T, v, q)
  <2>1. /\ overview(rows, v, q) = overview(T, v, q)
        /\ playback(rows, v, q) = playback(T, v, q)
        /\ user_list(rows, v, q) = user_list(T, v, q)
        /\ \A w : user_detail(rows, v, q, w) = user_detail(T, v, q, w)
        /\ library_list(rows, v, q) = library_list(T, v, q)
        /\ \A l : library_detail(rows, v, q, l) = library_detail(T, v, q, l)
        /\ \A p : person_detail(rows, v, q, p) = person_detail(T, v, q, p)
    BY <1>1, AlikePages
  <2>2. \A n \in DOMAIN Catalog : item_detail(rows, v, q, n) = item_detail(T, v, q, n)
    BY <1>1, AlikeItems
  <2>3. insights(rows, v, q) = insights(T, v, q) /\ summary(rows, v) = summary(T, v)
    BY <1>1, AlikeInsights, AlikeSummary
  <2>4. \A n : activity_detail(rows, v, n) = activity_detail(T, v, n)
    BY <1>1, AlikeShown
  <2> QED
    BY <2>1, <2>2, <2>3, <2>4 DEF Answers
<1>3. ASSUME NEW f
      PROVE  Lists(rows, v, f) = Lists(T, v, f)
  <2> DEFINE q == [days |-> 0, user_id |-> Null, library_id |-> Null]
  <2>1. \A n : Activity(rows, v, q, f, n) = Activity(T, v, q, f, n)
    BY <1>1, AlikeActivity
  <2> HIDE DEF q
  <2>2. {Activity(rows, v, q, f, n) : n \in 1..2} = {Activity(T, v, q, f, n) : n \in 1..2}
    BY <2>1
  <2> QED
    BY <2>2 DEF Lists, q
<1> QED
  BY <1>2, <1>3 DEF SameTo, T

-----------------------------------------------------------------------------
(* What somebody may not see.                                                *)

(* The plays of T that are w's own. *)
OwnOf(T, w) == {r \in T : r.user = w}

(* A page about one person asks the table for that person's plays.           *)
LEMMA OwnScope ==
  ASSUME NEW T, NEW w \in Accounts, NEW s, s.user_id = w
  PROVE  /\ Cond(T, s) = Cond(OwnOf(T, w), s)
         /\ Previous(T, s) = Previous(OwnOf(T, w), s)
<1>1. w # Null
  BY PagesAssumption
<1>2. Base(T, s) = Base(OwnOf(T, w), s)
  BY <1>1 DEF Base, OwnOf
<1> QED
  BY <1>2 DEF Cond, Previous

(* Whoever may not see everyone asks for their own, whatever they ask for.   *)
LEMMA AsksForOwn ==
  ASSUME NEW v \in Readers, ~v.see_everyone, NEW q \in Queries, NEW l
  PROVE  /\ v.id \in Accounts
         /\ Scope(v, q).user_id = v.id
         /\ Scope(v, [q EXCEPT !.library_id = l]).user_id = v.id
         /\ Scope([v EXCEPT !.see_everyone = TRUE], [q EXCEPT !.user_id = v.id]).user_id = v.id
<1>1. /\ v \in [id : Accounts, see_everyone : BOOLEAN, see_network : BOOLEAN]
      /\ q \in [days : DaysAsked, user_id : Accounts \cup {Null}, library_id : Shelves \cup {Null}]
  BY DEF Readers, Queries
<1>2. /\ [v EXCEPT !.see_everyone = TRUE].see_everyone
      /\ [q EXCEPT !.user_id = v.id].user_id = v.id
  BY <1>1
<1> QED
  BY <1>1, <1>2 DEF Scope, pinned_user

(* The list of people shows a person what their own plays say of them.       *)
LEMMA OwnUserRow ==
  ASSUME NEW T, NEW s, NEW w \in Accounts
  PROVE  user_rows(T, s, w) = user_rows(OwnOf(T, w), s, w)
<1> DEFINE own == OwnOf(T, w)
           A == {y \in Accounts : w # Null => y = w}
<1>1. A = {w}
  BY PagesAssumption
<1>2. {r \in Cond(T, s) : r.user = w} = {r \in Cond(own, s) : r.user = w}
  BY DEF Cond, Base, OwnOf
<1>3. /\ (\E r \in T : r.user = w) <=> (\E r \in own : r.user = w)
      /\ {y \in T : y.user = w} = {y \in own : y.user = w}
  BY DEF OwnOf
<1> DEFINE Of(R, y) == [plays |-> Tally({r \in Cond(R, s) : r.user = y}),
                        latest |-> IF \E r \in R : r.user = y THEN Max({r.end : r \in {z \in R : z.user = y}}) ELSE Null]
<1>4. Of(T, w) = Of(own, w)
  BY <1>2, <1>3
<1>5. /\ user_rows(T, s, w) = [y \in A |-> Of(T, y)]
      /\ user_rows(own, s, w) = [y \in A |-> Of(own, y)]
  BY DEF user_rows
<1> HIDE DEF own, A, Of
<1> QED
  BY <1>1, <1>4, <1>5 DEF own

LEMMA OwnPages ==
  ASSUME NEW T, NEW v \in Readers, ~v.see_everyone, NEW q \in Queries
  PROVE  LET mine == OwnOf(T, v.id) IN
         /\ overview(T, v, q) = overview(mine, v, q)
         /\ playback(T, v, q) = playback(mine, v, q)
         /\ user_list(T, v, q) = user_list(mine, v, q)
         /\ user_detail(T, v, q, v.id) = user_detail(mine, v, q, v.id)
         /\ library_list(T, v, q) = library_list(mine, v, q)
         /\ \A l : library_detail(T, v, q, l) = library_detail(mine, v, q, l)
         /\ \A n \in DOMAIN Catalog : item_detail(T, v, q, n) = item_detail(mine, v, q, n)
         /\ \A p : person_detail(T, v, q, p) = person_detail(mine, v, q, p)
         /\ summary(T, v) = summary(mine, v)
         /\ insights(T, v, q) = insights(mine, v, q)
         /\ \A n : activity_detail(T, v, n) = activity_detail(mine, v, n)
<1> DEFINE mine == OwnOf(T, v.id)
           s == Scope(v, q)
<1>1. v.id \in Accounts /\ s.user_id = v.id
  BY AsksForOwn
<1>2. Cond(T, s) = Cond(mine, s) /\ Previous(T, s) = Previous(mine, s)
  BY <1>1, OwnScope
<1>3. /\ overview(T, v, q) = overview(mine, v, q)
      /\ playback(T, v, q) = playback(mine, v, q)
      /\ insights(T, v, q) = insights(mine, v, q)
  BY <1>2 DEF overview, playback, insights
<1>4. user_list(T, v, q) = user_list(mine, v, q)
  BY <1>1, OwnUserRow DEF user_list
<1>5. user_detail(T, v, q, v.id) = user_detail(mine, v, q, v.id)
  <2> DEFINE z == Scope([v EXCEPT !.see_everyone = TRUE], [q EXCEPT !.user_id = v.id])
  <2>1. z.user_id = v.id
    BY AsksForOwn
  <2>2. Cond(T, z) = Cond(mine, z)
    BY <1>1, <2>1, OwnScope
  <2>3. user_rows(T, [z EXCEPT !.user_id = Null], v.id) = user_rows(mine, [z EXCEPT !.user_id = Null], v.id)
    BY <1>1, OwnUserRow
  <2> QED
    BY <2>2, <2>3 DEF user_detail
<1>6. library_list(T, v, q) = library_list(mine, v, q)
  <2> DEFINE z == Scope(v, [q EXCEPT !.library_id = Null])
  <2>1. Cond(T, z) = Cond(mine, z)
    BY <1>1, AsksForOwn, OwnScope
  <2> QED
    BY <2>1 DEF library_list, library_rows
<1>7. ASSUME NEW l
      PROVE  library_detail(T, v, q, l) = library_detail(mine, v, q, l)
  <2> DEFINE z == Scope(v, [q EXCEPT !.library_id = l])
             y == [z EXCEPT !.library_id = Null]
  <2>1. z.user_id = v.id
    BY AsksForOwn
  <2>2. y.user_id = v.id
    BY <2>1 DEF Scope
  <2>3. Cond(T, z) = Cond(mine, z) /\ Cond(T, y) = Cond(mine, y)
    BY <1>1, <2>1, <2>2, OwnScope
  <2>4. library_rows(T, y) = library_rows(mine, y)
    BY <2>3 DEF library_rows
  <2> QED
    BY <2>3, <2>4 DEF library_detail
<1>8. ASSUME NEW n \in DOMAIN Catalog
      PROVE  item_detail(T, v, q, n) = item_detail(mine, v, q, n)
  <2>1. TypeOf(T, n) = TypeOf(mine, n)
    BY DEF TypeOf
  <2> QED
    BY <1>2, <2>1 DEF item_detail
<1>9. \A p : person_detail(T, v, q, p) = person_detail(mine, v, q, p)
  BY <1>2 DEF person_detail
<1>10. summary(T, v) = summary(mine, v)
  <2>1. {r \in T : MaySee(v, r.user)} = {r \in mine : MaySee(v, r.user)}
    BY DEF MaySee, OwnOf
  <2> QED
    BY <2>1 DEF summary
<1>11. \A n : activity_detail(T, v, n) = activity_detail(mine, v, n)
  <2>1. \A n : {p \in T : p.id = n /\ MaySee(v, p.user)} = {p \in mine : p.id = n /\ MaySee(v, p.user)}
    BY DEF MaySee, OwnOf
  <2> QED
    BY <2>1 DEF activity_detail
<1> QED
  BY <1>3, <1>4, <1>5, <1>6, <1>7, <1>8, <1>9, <1>10, <1>11

(* And so is the list of plays.                                              *)
LEMMA OwnList ==
  ASSUME NEW T, NEW v, v.id \in Accounts, NEW q, Scope(v, q).user_id = v.id, NEW f, NEW n
  PROVE  Activity(T, v, q, f, n) = Activity(OwnOf(T, v.id), v, q, f, n)
<1> DEFINE mine == OwnOf(T, v.id)
           R == Filtered(T, v, q, f)
           OfPage(P) == [total |-> Cardinality(P), rows |-> {<<PlaceIn(P, SortOf(v, f), r), Decorated(v, r)>> : r \in OnPage(P, SortOf(v, f), n)}]
<1>1. Cond(T, Scope(v, q)) = Cond(mine, Scope(v, q))
  BY OwnScope
<1>2. Filtered(mine, v, q, f) = R
  BY <1>1 DEF Filtered
<1>3. \A P : Activity(P, v, q, f, n) = OfPage(Filtered(P, v, q, f))
  BY DEF Activity, PlaceIn, Before, SortOf, OnPage
<1> HIDE DEF R, OfPage
<1> QED
  BY <1>2, <1>3 DEF R

(* The answers to somebody who may not see everyone are made of their plays. *)
LEMMA OthersMakeNoDifference ==
  ASSUME NEW v \in Readers, ~v.see_everyone
  PROVE  SameTo({r \in rows : r.user = v.id}, v)
<1> DEFINE T == {r \in rows : r.user = v.id}
<1>1. T = OwnOf(rows, v.id)
  BY DEF OwnOf
<1> HIDE DEF T
<1>2. ASSUME NEW q \in Queries
      PROVE  Answers(rows, v, q) = Answers(T, v, q)
  <2>1. /\ overview(rows, v, q) = overview(T, v, q)
        /\ playback(rows, v, q) = playback(T, v, q)
        /\ user_list(rows, v, q) = user_list(T, v, q)
        /\ user_detail(rows, v, q, v.id) = user_detail(T, v, q, v.id)
        /\ library_list(rows, v, q) = library_list(T, v, q)
        /\ \A l : library_detail(rows, v, q, l) = library_detail(T, v, q, l)
        /\ \A n \in DOMAIN Catalog : item_detail(rows, v, q, n) = item_detail(T, v, q, n)
        /\ \A p : person_detail(rows, v, q, p) = person_detail(T, v, q, p)
        /\ summary(rows, v) = summary(T, v)
        /\ insights(rows, v, q) = insights(T, v, q)
        /\ \A n : activity_detail(rows, v, n) = activity_detail(T, v, n)
    BY <1>1, OwnPages
  <2>2. \A w : MaySee(v, w) => w = v.id
    BY DEF MaySee
  <2>3. \A w \in {z \in Accounts : MaySee(v, z)} : user_detail(rows, v, q, w) = user_detail(T, v, q, w)
    BY <2>1, <2>2
  <2> QED
    BY <2>1, <2>3 DEF Answers
<1>3. ASSUME NEW f
      PROVE  Lists(rows, v, f) = Lists(T, v, f)
  <2> DEFINE q == [days |-> 0, user_id |-> Null, library_id |-> Null]
  <2>1. v.id \in Accounts /\ Scope(v, q).user_id = v.id
    BY DEF Readers, Scope, pinned_user
  <2>2. \A n : Activity(rows, v, q, f, n) = Activity(T, v, q, f, n)
    BY <1>1, <2>1, OwnList
  <2> HIDE DEF q
  <2>3. {Activity(rows, v, q, f, n) : n \in 1..2} = {Activity(T, v, q, f, n) : n \in 1..2}
    BY <2>2
  <2> QED
    BY <2>3 DEF Lists, q
<1> QED
  BY <1>2, <1>3 DEF SameTo, T

(* A year in review is told from the plays of its scope alone. *)
PeriodFrom(P, year) ==
  LET years == {Year(Day(r.start)) : r \in P}
      y == IF year = Null THEN default_year(today, years) ELSE year
  IN  IF year = Last12 THEN [from |-> FirstOf(Month(today) - YearLength), to |-> Now + 1]
      ELSE [from |-> FirstOf(y * YearLength), to |-> FirstOf((y + 1) * YearLength)]

RecapFrom(P, year) ==
  LET period == PeriodFrom(P, year)
      R == {r \in P : In(r, period)}
      day == {Day(r.start) : r \in R}
  IN  [totals  |-> Totals(R), active_days |-> Cardinality(day),
       days    |-> [d \in day |-> Tally({r \in R : Day(r.start) = d})],
       months  |-> months(R, period), rhythm |-> rhythm(R), records |-> records(R), rewatches |-> rewatch(R),
       top_series |-> top_titles(R, "Episode"), top_movies |-> top_titles(R, "Movie"),
       discovery |-> discovery(P, R, period)]

LEMMA RecapIsFrom ==
  ASSUME NEW T, NEW w, NEW y
  PROVE  recap(T, w, y) = RecapFrom(RecapScope(T, w), y)
<1>1. Period(T, w, y) = PeriodFrom(RecapScope(T, w), y)
  BY DEF Period, PeriodFrom, RecapYears
<1> QED
  BY <1>1 DEF recap, RecapFrom

WorthIn(T, w) == {r \in T : r.user = w /\ r.duration_s >= MinPlay /\ Beyond(r, Null)}

Along(S) == InOrder(S, LAMBDA z0, z1 : Older(z1, z0))

CountedIn(T, marks, w, n, state) ==
  Cardinality({e \in EpisodesOf(n) : [k \in EpisodesOf(n) |-> EpisodeState(T, marks, w, k)][e] = state})

LEMMA OwnStories ==
  ASSUME NEW T, NEW w
  PROVE  /\ \A y : recap(T, w, y) = recap(OwnOf(T, w), w, y)
         /\ streaks(T, w) = streaks(OwnOf(T, w), w)
         /\ \A marks : user_shows(T, marks, w) = user_shows(OwnOf(T, w), marks, w)
         /\ TrailPage(T, w, Null) = TrailPage(OwnOf(T, w), w, Null)
<1> DEFINE mine == OwnOf(T, w)
<1>1. ASSUME NEW y
      PROVE  recap(T, w, y) = recap(mine, w, y)
  <2>1. RecapScope(T, w) = RecapScope(mine, w)
    BY DEF RecapScope, OwnOf
  <2> QED
    BY <2>1, RecapIsFrom
<1>2. streaks(T, w) = streaks(mine, w)
  <2>1. DaysOf(T, w) = DaysOf(mine, w)
    BY DEF DaysOf, OwnOf
  <2> QED
    BY <2>1 DEF streaks
<1>3. ASSUME NEW marks
      PROVE  user_shows(T, marks, w) = user_shows(mine, marks, w)
  <2>1. ASSUME NEW e
        PROVE  EpisodeState(T, marks, w, e) = EpisodeState(mine, marks, w, e)
    <3>1. Watched(T, w, e) <=> Watched(mine, w, e)
      BY DEF Watched, OwnOf
    <3>2. (\E r \in T : r.user = w /\ r.item = e) <=> (\E r \in mine : r.user = w /\ r.item = e)
      BY DEF OwnOf
    <3> QED
      BY <3>1, <3>2 DEF EpisodeState
  <2>2. ASSUME NEW n, NEW state
        PROVE  CountedIn(T, marks, w, n, state) = CountedIn(mine, marks, w, n, state)
    <3>1. [k \in EpisodesOf(n) |-> EpisodeState(T, marks, w, k)] = [k \in EpisodesOf(n) |-> EpisodeState(mine, marks, w, k)]
      BY <2>1, Zenon
    <3> QED
      BY <3>1 DEF CountedIn
  <2> DEFINE Seasons(P, n) == [total |-> Cardinality(EpisodesOf(n)), seen |-> CountedIn(P, marks, w, n, "seen"),
                              started |-> CountedIn(P, marks, w, n, "started")]
             begun(P) == {n \in {i \in DOMAIN Catalog : Catalog[i].type = "Series"} :
                            CountedIn(P, marks, w, n, "seen") + CountedIn(P, marks, w, n, "started") > 0}
  <2>3. ASSUME NEW P
        PROVE  user_shows(P, marks, w) = [n \in begun(P) |-> Seasons(P, n)]
    BY DEF user_shows, CountedIn
  <2>4. \A n : Seasons(T, n) = Seasons(mine, n)
    BY <2>2
  <2>5. begun(T) = begun(mine)
    BY <2>2
  <2> HIDE DEF mine, Seasons, begun
  <2>6. user_shows(T, marks, w) = [n \in begun(T) |-> Seasons(T, n)] /\ user_shows(mine, marks, w) = [n \in begun(mine) |-> Seasons(mine, n)]
    BY <2>3
  <2> QED
    BY <2>4, <2>5, <2>6
<1>4. TrailPage(T, w, Null) = TrailPage(mine, w, Null)
  <2>1. WorthIn(T, w) = WorthIn(mine, w)
    BY DEF WorthIn, OwnOf
  <2>2. \A P : Trodden(P, w, Null) = Along(WorthIn(P, w))
    BY DEF Trodden, WorthIn, Along
  <2>3. Trodden(T, w, Null) = Trodden(mine, w, Null)
    BY <2>1, <2>2
  <2> QED
    BY <2>3 DEF TrailPage
<1> QED
  BY <1>1, <1>2, <1>3, <1>4

LEMMA StoriesAreTheirOwn == OnlyTheirStories
<1> SUFFICES ASSUME NEW v \in Readers, NEW asked_for \in Accounts \cup {Null}
             PROVE  LET mine == {r \in rows : r.user = v.id} IN
                    /\ \A y \in {Null, Last12} :
                         recap(rows, RecapOf(v, FALSE, asked_for), y) = recap(mine, v.id, y)
                    /\ \A w \in Accounts : (MaySee(v, w) /\ ~v.see_everyone) =>
                         /\ streaks(rows, w) = streaks(mine, w)
                         /\ user_shows(rows, manual_seen, w) = user_shows(mine, manual_seen, w)
                         /\ TrailPage(rows, w, Null) = TrailPage(mine, w, Null)
  BY DEF OnlyTheirStories
<1> DEFINE mine == {r \in rows : r.user = v.id}
<1>1. mine = OwnOf(rows, v.id)
  BY DEF OwnOf
<1>2. RecapOf(v, FALSE, asked_for) = v.id
  BY DEF RecapOf
<1>3. \A w : MaySee(v, w) /\ ~v.see_everyone => w = v.id
  BY DEF MaySee
<1> HIDE DEF mine
<1>4. \A y : recap(rows, v.id, y) = recap(mine, v.id, y)
  BY <1>1, OwnStories
<1>5. /\ streaks(rows, v.id) = streaks(mine, v.id)
      /\ user_shows(rows, manual_seen, v.id) = user_shows(mine, manual_seen, v.id)
      /\ TrailPage(rows, v.id, Null) = TrailPage(mine, v.id, Null)
  BY <1>1, OwnStories
<1> QED
  BY <1>2, <1>3, <1>4, <1>5 DEF mine

(* Who is asked about, by somebody who may not see everyone. *)
LEMMA HintsOfOwn ==
  ASSUME NEW v \in Asking, ~v.see_everyone
  PROVE  /\ v.id \in Accounts /\ v.id # Null
         /\ \A who : pinned_user(v, who) = v.id
         /\ \A who : SeenBy(v, who) = {r \in requests : r.user_id = v.id}
<1>1. v.id \in Accounts /\ v.id # Null
  BY PagesAssumption DEF Asking
<1>2. \A who : pinned_user(v, who) = v.id
  BY DEF pinned_user
<1> QED
  BY <1>1, <1>2 DEF SeenBy

FollowedBy(T, e) == IF e.kind = "episode" THEN followers(T, e.numbers[1]) ELSE {}

LEMMA OwnUpcoming ==
  ASSUME NEW T, NEW v \in Asking, ~v.see_everyone, NEW days, NEW who, NEW mine
  PROVE  upcoming(T, v, days, who, mine) = upcoming(OwnOf(T, v.id), v, days, v.id, mine)
<1> DEFINE own == OwnOf(T, v.id)
           Hint(P, e) == [entry |-> e, you_follow |-> v.id \in FollowedBy(P, e), followers |-> {}]
           shown(P) == {e \in entries(days, Null) : mine => v.id \in FollowedBy(P, e)}
<1>1. \A e : v.id \in FollowedBy(T, e) <=> v.id \in FollowedBy(own, e)
  BY DEF FollowedBy, followers, OwnOf
<1>2. First(pinned_user(v, who), v.id) = v.id /\ First(pinned_user(v, v.id), v.id) = v.id
  BY HintsOfOwn DEF First
<1>3. upcoming(T, v, days, who, mine) = {Hint(T, e) : e \in shown(T)}
  BY <1>2 DEF upcoming, FollowedBy
<1>4. upcoming(own, v, days, v.id, mine) = {Hint(own, e) : e \in shown(own)}
  BY <1>2 DEF upcoming, FollowedBy
<1>5. \A e : Hint(T, e) = Hint(own, e)
  <2>1. \A e : (v.id \in FollowedBy(T, e)) = (v.id \in FollowedBy(own, e))
    BY <1>1
  <2> QED
    BY <2>1
<1>6. shown(T) = shown(own)
  BY <1>1
<1> HIDE DEF Hint, shown, own
<1> QED
  BY <1>3, <1>4, <1>5, <1>6 DEF own

(* What is told of a request to somebody who may not see everyone. *)
RequestTold(T, r) ==
  [request |-> r, state |-> State(r), plays |-> Cardinality(Mine(T, r)),
   first |-> IF Mine(T, r) = {} THEN Null ELSE Min({p.start : p \in Mine(T, r)}), any |-> Null]

LEMMA OwnRequest ==
  ASSUME NEW T, NEW w, NEW r, r.user_id = w
  PROVE  /\ Mine(T, r) = Mine(OwnOf(T, w), r)
         /\ RequestTold(T, r) = RequestTold(OwnOf(T, w), r)
<1>1. Mine(T, r) = Mine(OwnOf(T, w), r)
  BY DEF Mine, PlaysOf, OwnOf
<1> QED
  BY <1>1 DEF RequestTold

(* The list, of whatever is told of each request. *)
FirstPlay(T, r) == request_json(T, r, FALSE).first
LaterAsked(r, k) == r.requested_at > k.requested_at \/ (r.requested_at = k.requested_at /\ r.id > k.id)
Leads(T, sort, r, k) ==
  IF sort = "when" \/ FirstPlay(T, r) = FirstPlay(T, k) THEN LaterAsked(r, k)
  ELSE FirstPlay(T, k) = Null \/ (FirstPlay(T, r) # Null /\ FirstPlay(T, r) < FirstPlay(T, k))
RequestPlace(T, R, sort, r) == Cardinality({k \in R : k # r /\ Leads(T, sort, k, r)})
RequestsOn(T, R, sort, page) ==
  {k \in R : (page - 1) * PerPage <= RequestPlace(T, R, sort, k) /\ RequestPlace(T, R, sort, k) < page * PerPage}
RowTold(T, R, sort, r) == <<RequestPlace(T, R, sort, r), RequestTold(T, r)>>
ListTold(T, R, sort, page) == {RowTold(T, R, sort, r) : r \in RequestsOn(T, R, sort, page)}

LEMMA PageTold ==
  ASSUME NEW T, NEW v, ~v.see_everyone, NEW who, NEW sort, NEW page
  PROVE  requests_page(T, v, who, Null, sort, page) =
           [total |-> Cardinality(SeenBy(v, who)), rows |-> ListTold(T, SeenBy(v, who), sort, page)]
<1> DEFINE R == {r \in SeenBy(v, who) : Null # Null => State(r) \in StatesOf(Null)}
           Placed(r) == <<RequestPlace(T, R, sort, r), request_json(T, r, v.see_everyone)>>
<1>1. requests_page(T, v, who, Null, sort, page) = [total |-> Cardinality(R), rows |-> {Placed(r) : r \in RequestsOn(T, R, sort, page)}]
  BY DEF requests_page, RequestsOn, RequestPlace, Leads, LaterAsked, FirstPlay
<1>2. \A r : request_json(T, r, v.see_everyone) = RequestTold(T, r)
  BY DEF request_json, RequestTold
<1>3. R = SeenBy(v, who)
  OBVIOUS
<1> HIDE DEF R
<1>4. \A r : Placed(r) = RowTold(T, R, sort, r)
  BY <1>2 DEF RowTold
<1> HIDE DEF Placed
<1>5. {Placed(r) : r \in RequestsOn(T, R, sort, page)} = ListTold(T, R, sort, page)
  BY <1>4 DEF ListTold
<1> QED
  BY <1>1, <1>3, <1>5

LEMMA OwnRequests ==
  ASSUME NEW T, NEW v \in Asking, ~v.see_everyone, NEW who, NEW sort, NEW page
  PROVE  /\ requests_page(T, v, who, Null, sort, page) = requests_page(OwnOf(T, v.id), v, v.id, Null, sort, page)
         /\ \A k \in requests_page(T, v, who, Null, sort, page).rows : k[2].request.user_id = v.id
<1> DEFINE own == OwnOf(T, v.id)
           R == {r \in requests : r.user_id = v.id}
<1>1. SeenBy(v, who) = R /\ SeenBy(v, v.id) = R
  BY HintsOfOwn
<1> HIDE DEF R
<1>2. requests_page(T, v, who, Null, sort, page) = [total |-> Cardinality(R), rows |-> ListTold(T, R, sort, page)]
  BY <1>1, PageTold
<1>3. requests_page(own, v, v.id, Null, sort, page) = [total |-> Cardinality(R), rows |-> ListTold(own, R, sort, page)]
  BY <1>1, PageTold
<1>4. \A r \in R : RequestTold(T, r) = RequestTold(own, r) /\ r.user_id = v.id
  BY OwnRequest DEF R
<1>5. \A r \in R : FirstPlay(T, r) = FirstPlay(own, r)
  <2>1. \A P, r : FirstPlay(P, r) = RequestTold(P, r).first
    BY DEF FirstPlay, request_json, RequestTold
  <2> QED
    BY <1>4, <2>1
<1> HIDE DEF own
<1>6. \A r \in R : RequestPlace(T, R, sort, r) = RequestPlace(own, R, sort, r)
  <2> SUFFICES ASSUME NEW r \in R PROVE RequestPlace(T, R, sort, r) = RequestPlace(own, R, sort, r)
    OBVIOUS
  <2>1. {k \in R : k # r /\ Leads(T, sort, k, r)} = {k \in R : k # r /\ Leads(own, sort, k, r)}
    BY <1>5 DEF Leads
  <2> QED
    BY <2>1 DEF RequestPlace
<1>7. RequestsOn(T, R, sort, page) = RequestsOn(own, R, sort, page) /\ \A r \in RequestsOn(T, R, sort, page) : r \in R
  BY <1>6 DEF RequestsOn
<1>8. \A r \in R : RowTold(T, R, sort, r) = RowTold(own, R, sort, r) /\ RowTold(T, R, sort, r)[2].request.user_id = v.id
  BY <1>4, <1>6 DEF RowTold, RequestTold
<1>9. ListTold(T, R, sort, page) = ListTold(own, R, sort, page) /\ \A k \in ListTold(T, R, sort, page) : k[2].request.user_id = v.id
  BY <1>7, <1>8 DEF ListTold
<1> QED
  BY <1>2, <1>3, <1>9 DEF own

LEMMA OwnTitle ==
  ASSUME NEW T, NEW v \in Asking, ~v.see_everyone, NEW i,
         \A r \in requests : r.requested_at \in Nat
  PROVE  /\ request_for_item(T, v, i) = request_for_item(OwnOf(T, v.id), v, i)
         /\ \A k \in request_for_item(T, v, i) : k.request.user_id = v.id
<1> DEFINE own == OwnOf(T, v.id)
           R == {r \in SeenBy(v, Null) : i \in CopiesOf(r)}
           first == CHOOSE r \in R : \A k \in R : r.requested_at <= k.requested_at
<1>1. \A P : request_for_item(P, v, i) = IF R = {} THEN {} ELSE {RequestTold(P, first)}
  <2>1. \A P : request_json(P, first, v.see_everyone) = RequestTold(P, first)
    BY DEF request_json, RequestTold
  <2> QED
    BY <2>1 DEF request_for_item
<1>2. \A r \in R : r \in requests /\ r.user_id = v.id
  BY HintsOfOwn
<1>3. CASE R # {}
  <2> DEFINE asked == {r.requested_at : r \in R}
  <2>1. asked # {} /\ asked \subseteq Nat
    BY <1>2, <1>3
  <2> HIDE DEF asked
  <2>2. PICK n \in asked : \A k \in asked : n <= k
    BY <2>1, SmallestOf
  <2>3. PICK r \in R : \A k \in R : r.requested_at <= k.requested_at
    BY <2>2 DEF asked
  <2>4. first \in R
    BY <2>3
  <2>5. first.user_id = v.id
    BY <1>2, <2>4
  <2> HIDE DEF R, first
  <2>6. RequestTold(T, first) = RequestTold(own, first) /\ RequestTold(T, first).request = first
    BY <2>5, OwnRequest DEF RequestTold
  <2> QED
    BY <1>1, <1>3, <2>5, <2>6
<1>4. CASE R = {}
  BY <1>1, <1>4
<1> QED
  BY <1>3, <1>4

(* The parts of the figures that ask what was played. *)
ArrivedIn(R, w) == \E r \in R : WishOf(r) = w /\ State(r) = "available"
WatchedIn(T, R) ==
  Cardinality({w \in {WishOf(r) : r \in R} : ArrivedIn(R, w) /\ \E r \in R : WishOf(r) = w /\ Mine(T, r) # {}})
SettledIn(R) ==
  {r \in R : /\ State(r) = "available" /\ r.available_at # Null
             /\ r.available_at <= Now - SettledDays * DayLength}
NeverIn(T, v, R) ==
  {<<r.media, r.numbers[1]>> : r \in {q \in SettledIn(R) : IF v.see_everyone THEN PlaysOf(T, q) = {} ELSE ~(Mine(T, q) # {})}}
(* ... and those that do not. *)
Asked(R) ==
  [requests |-> Cardinality(R), titles |-> Cardinality({WishOf(r) : r \in R}),
   open |-> Cardinality({w \in {WishOf(r) : r \in R} : (\E r \in R : WishOf(r) = w /\ State(r) \in Open) /\ ~ArrivedIn(R, w)}),
   arrived |-> Cardinality({w \in {WishOf(r) : r \in R} : ArrivedIn(R, w)}),
   trend |-> [k \in {Month(Day(r.requested_at)) : r \in {z \in R : z.available_at # Null}} |->
                Cardinality({r \in {z \in R : z.available_at # Null} : Month(Day(r.requested_at)) = k})]]

LEMMA SummaryIs ==
  ASSUME NEW T, NEW v, ~v.see_everyone, NEW who, NEW R, R = {r \in SeenBy(v, who) : 0 > 0 => r.requested_at >= Now - 0 * DayLength}
  PROVE  summary_of(T, v, who, 0) =
           [requests |-> Asked(R).requests, titles |-> Asked(R).titles, open |-> Asked(R).open, arrived |-> Asked(R).arrived,
            watched |-> WatchedIn(T, R), by_anyone |-> Null, trend |-> Asked(R).trend, never |-> NeverIn(T, v, R), people |-> <<>>]
BY DEF summary_of, Asked, WatchedIn, NeverIn, SettledIn, ArrivedIn

LEMMA OwnSummary ==
  ASSUME NEW T, NEW v \in Asking, ~v.see_everyone, NEW who
  PROVE  summary_of(T, v, who, 0) = summary_of(OwnOf(T, v.id), v, v.id, 0)
<1> DEFINE own == OwnOf(T, v.id)
           R == {r \in SeenBy(v, who) : 0 > 0 => r.requested_at >= Now - 0 * DayLength}
           Q == {r \in SeenBy(v, v.id) : 0 > 0 => r.requested_at >= Now - 0 * DayLength}
<1>1. R = Q /\ \A r \in R : r.user_id = v.id
  BY HintsOfOwn
<1>2. /\ summary_of(T, v, who, 0) =
           [requests |-> Asked(R).requests, titles |-> Asked(R).titles, open |-> Asked(R).open, arrived |-> Asked(R).arrived,
            watched |-> WatchedIn(T, R), by_anyone |-> Null, trend |-> Asked(R).trend, never |-> NeverIn(T, v, R), people |-> <<>>]
      /\ summary_of(own, v, v.id, 0) =
           [requests |-> Asked(Q).requests, titles |-> Asked(Q).titles, open |-> Asked(Q).open, arrived |-> Asked(Q).arrived,
            watched |-> WatchedIn(own, Q), by_anyone |-> Null, trend |-> Asked(Q).trend, never |-> NeverIn(own, v, Q), people |-> <<>>]
  BY SummaryIs
<1> HIDE DEF R, Q, own
<1>3. \A r \in R : Mine(T, r) = Mine(own, r)
  BY <1>1, OwnRequest DEF own
<1>4. WatchedIn(T, R) = WatchedIn(own, R)
  <2>1. {w \in {WishOf(r) : r \in R} : ArrivedIn(R, w) /\ \E r \in R : WishOf(r) = w /\ Mine(T, r) # {}}
          = {w \in {WishOf(r) : r \in R} : ArrivedIn(R, w) /\ \E r \in R : WishOf(r) = w /\ Mine(own, r) # {}}
    BY <1>3
  <2> QED
    BY <2>1 DEF WatchedIn
<1>5. NeverIn(T, v, R) = NeverIn(own, v, R)
  <2>1. {q \in SettledIn(R) : IF v.see_everyone THEN PlaysOf(T, q) = {} ELSE ~(Mine(T, q) # {})}
          = {q \in SettledIn(R) : IF v.see_everyone THEN PlaysOf(own, q) = {} ELSE ~(Mine(own, q) # {})}
    BY <1>3 DEF SettledIn
  <2> QED
    BY <2>1 DEF NeverIn
<1> QED
  BY <1>1, <1>2, <1>4, <1>5 DEF own

LEMMA RequestsAreTheirOwn ==
  ASSUME \A r \in requests : r.requested_at \in Nat
  PROVE  NothingIsHinted
<1> SUFFICES ASSUME NEW v \in {z \in Asking : ~z.see_everyone}, NEW asked_for \in Accounts \cup {Null}
             PROVE  LET mine == {r \in rows : r.user = v.id} IN
                    /\ \A k \in BOOLEAN : upcoming(rows, v, 2, asked_for, k) = upcoming(mine, v, 2, v.id, k)
                    /\ summary_of(rows, v, asked_for, 0) = summary_of(mine, v, v.id, 0)
                    /\ \A sort \in {"when", "watched"} :
                         LET page == requests_page(rows, v, asked_for, Null, sort, 1)
                         IN  /\ page = requests_page(mine, v, v.id, Null, sort, 1)
                             /\ \A k \in page.rows : k[2].request.user_id = v.id
                    /\ \A i \in DOMAIN NumbersOf : /\ request_for_item(rows, v, i) = request_for_item(mine, v, i)
                                                   /\ \A k \in request_for_item(rows, v, i) : k.request.user_id = v.id
  BY DEF NothingIsHinted
<1> DEFINE mine == {r \in rows : r.user = v.id}
<1>1. mine = OwnOf(rows, v.id)
  BY DEF OwnOf
<1> HIDE DEF mine
<1>2. \A k : upcoming(rows, v, 2, asked_for, k) = upcoming(mine, v, 2, v.id, k)
  BY <1>1, OwnUpcoming
<1>3. summary_of(rows, v, asked_for, 0) = summary_of(mine, v, v.id, 0)
  BY <1>1, OwnSummary
<1>4. \A sort : /\ requests_page(rows, v, asked_for, Null, sort, 1) = requests_page(mine, v, v.id, Null, sort, 1)
                /\ \A k \in requests_page(rows, v, asked_for, Null, sort, 1).rows : k[2].request.user_id = v.id
  BY <1>1, OwnRequests
<1>5. \A i : /\ request_for_item(rows, v, i) = request_for_item(mine, v, i)
             /\ \A k \in request_for_item(rows, v, i) : k.request.user_id = v.id
  BY <1>1, OwnTitle
<1> QED
  BY <1>2, <1>3, <1>4, <1>5 DEF mine

-----------------------------------------------------------------------------
(* What is coming in. *)

IsRequest(r) ==
  /\ DOMAIN r = RequestFields /\ DOMAIN r.numbers \subseteq Nat
  /\ r.requested_at \in Nat /\ r.media_added_at \in Nat \cup {Null} /\ r.seen_available_at \in Int \cup {Null}

IsLinked(r) ==
  /\ r.item_id \in DOMAIN NumbersOf \cup {Null}
  /\ r.available_at # Null => r.available_at >= r.requested_at

IsEntry(e) == DOMAIN e = EntryFields /\ DOMAIN e.numbers \subseteq Nat

OnePerId(R) == \A r, k \in R : r.service = k.service /\ r.id = k.id => r = k

RequestsInv ==
  /\ IsFiniteSet(requests) /\ OnePerId(requests)
  /\ \A r \in requests : IsRequest(r) /\ IsLinked(r)
  /\ \A e \in calendar : IsEntry(e) /\ e.item_id \in DOMAIN NumbersOf \cup {Null}
  /\ enabled \subseteq Services /\ gone \subseteq DOMAIN NumbersOf /\ external \subseteq AllNumbers
  /\ news \in 0 .. MaxNews

LEMMA LandsThere ==
  ASSUME NEW ext \in SUBSET AllNumbers, NEW numbers, DOMAIN numbers \subseteq Nat
  PROVE  Landing(ext, numbers) \in DOMAIN NumbersOf \cup {Null}
<1> DEFINE found == {k \in DOMAIN numbers : Copies(ext, numbers[k]) # {}}
<1>1. CASE found = {}
  BY <1>1 DEF Landing
<1>2. CASE found # {}
  <2>1. found \in SUBSET Nat
    OBVIOUS
  <2> HIDE DEF found
  <2>2. Min(found) \in found
    BY <1>2, <2>1, SmallestOf
  <2> DEFINE C == Copies(ext, numbers[Min(found)])
  <2>3. C # {}
    BY <2>2 DEF found
  <2>4. C \subseteq DOMAIN NumbersOf
    BY DEF Copies, AllNumbers
  <2>5. Landing(ext, numbers) = CHOOSE i \in C : TRUE
    BY <1>2 DEF Landing, found
  <2> HIDE DEF C
  <2> QED
    BY <2>3, <2>4, <2>5
<1> QED
  BY <1>1, <1>2

LEMMA AddedIsTime ==
  ASSUME NEW i \in DOMAIN NumbersOf, NEW seasons
  PROVE  Added(i, seasons) \in Nat \cup {Null}
<1> DEFINE E == {e \in Under(i) : ~Catalog[e].removed /\ (Catalog[e].season \in seasons \/ seasons = {})}
           D == IF Catalog[i].type = "Movie" THEN {Catalog[i].created} ELSE {Catalog[e].created : e \in E}
<1>1. D \in SUBSET Nat
  BY IncomingAssumption DEF Under
<1>2. Added(i, seasons) = IF D = {} THEN Null ELSE Min(D)
  BY DEF Added
<1> HIDE DEF D
<1> QED
  BY <1>1, <1>2, SmallestOf

(* Linking fills what it derives and leaves the rest of a request as it is.  *)
LEMMA LinkedIs ==
  ASSUME NEW ext \in SUBSET AllNumbers, NEW r, IsRequest(r)
  PROVE  /\ IsRequest(Linked(r, ext)) /\ IsLinked(Linked(r, ext))
         /\ Linked(r, ext).service = r.service /\ Linked(r, ext).id = r.id
<1> DEFINE i == IF r.names \in DOMAIN NumbersOf \ gone THEN r.names ELSE Landing(ext, r.numbers)
           added == IF i = Null THEN Null ELSE Added(i, r.seasons)
           who == IF r.asked_by \in Accounts THEN r.asked_by ELSE Null
           k == [r EXCEPT !.user_id = who, !.item_id = i, !.available_at = available_at(r, added)]
<1>1. Linked(r, ext) = k
  BY DEF Linked
<1>2. i \in DOMAIN NumbersOf \cup {Null}
  BY LandsThere DEF IsRequest
<1> HIDE DEF i
<1>3. added \in Nat \cup {Null}
  BY <1>2, AddedIsTime
<1> HIDE DEF added, who
<1>4. available_at(r, added) # Null => available_at(r, added) >= r.requested_at
  <2> DEFINE at == First(First(r.media_added_at, added), r.seen_available_at)
  <2>1. at \in Int \cup {Null}
    BY <1>3 DEF First, IsRequest
  <2> HIDE DEF at
  <2>2. available_at(r, added) = IF r.media_status # AVAILABLE \/ at = Null THEN Null ELSE Max({at, r.requested_at})
    BY DEF available_at, at
  <2>3. CASE at \in Int
    <3>1. r.requested_at \in Int
      BY DEF IsRequest
    <3>2. Max({at, r.requested_at}) >= r.requested_at
      <4>1. ASSUME NEW p \in Int, NEW q \in Int
            PROVE  Max({p, q}) >= q
        <5>1. CASE p <= q
          <6>1. Max({p, q}) = q
            BY <5>1, SmallerAndLarger
          <6> QED
            BY <6>1
        <5>2. CASE q <= p
          <6>1. {p, q} = {q, p}
            OBVIOUS
          <6>2. Max({q, p}) = p
            BY <5>2, SmallerAndLarger
          <6> QED
            BY <5>2, <6>1, <6>2
        <5> QED
          BY <5>1, <5>2
      <4> QED
        BY <2>3, <3>1, <4>1
    <3> QED
      BY <2>2, <3>2
  <2> QED
    BY <2>1, <2>2, <2>3
<1> DEFINE at == available_at(r, added)
<1> HIDE DEF at
<1>5. k = [r EXCEPT !.user_id = who, !.item_id = i, !.available_at = at]
  BY DEF at
<1> HIDE DEF k
<1>6. /\ DOMAIN k = RequestFields
      /\ \A n \in RequestFields \ {"user_id", "item_id", "available_at"} : k[n] = r[n]
      /\ k.item_id = i /\ k.available_at = at
  BY <1>5 DEF IsRequest, RequestFields
<1>7. /\ k.service = r.service /\ k.id = r.id /\ k.numbers = r.numbers /\ k.requested_at = r.requested_at
      /\ k.media_added_at = r.media_added_at /\ k.seen_available_at = r.seen_available_at
  BY <1>6 DEF RequestFields
<1>8. IsRequest(k)
  BY <1>6, <1>7 DEF IsRequest
<1>9. IsLinked(k)
  BY <1>2, <1>4, <1>6, <1>7 DEF IsLinked, at
<1> QED
  BY <1>1, <1>7, <1>8, <1>9

LEMMA LinkStep ==
  ASSUME NEW R, IsFiniteSet(R), OnePerId(R), \A r \in R : IsRequest(r),
         NEW C, \A e \in C : IsEntry(e),
         enabled' \subseteq Services, gone' \subseteq DOMAIN NumbersOf, news' \in 0 .. MaxNews,
         link(R, C)
  PROVE  RequestsInv'
<1> DEFINE ext == rebuild_external
           h == [r \in R |-> Linked(r, ext)]
<1>1. ext \in SUBSET AllNumbers
  BY DEF rebuild_external
<1>2. external' = ext /\ requests' = {Linked(r, ext) : r \in R} /\ calendar' = {[e EXCEPT !.item_id = Landing(ext, e.numbers)] : e \in C}
  BY DEF link
<1> HIDE DEF ext
<1>3. IsFiniteSet(requests')
  <2>1. h \in Surjection(R, requests')
    BY <1>2 DEF Surjection
  <2> HIDE DEF h
  <2> QED
    BY <2>1, FS_Surjection
<1>4. \A r \in R : /\ IsRequest(Linked(r, ext)) /\ IsLinked(Linked(r, ext))
                   /\ Linked(r, ext).service = r.service /\ Linked(r, ext).id = r.id
  BY <1>1, LinkedIs
<1>5. OnePerId(requests') /\ \A r \in requests' : IsRequest(r) /\ IsLinked(r)
  BY <1>2, <1>4 DEF OnePerId
<1>6. ASSUME NEW e \in C
      PROVE  /\ IsEntry([e EXCEPT !.item_id = Landing(ext, e.numbers)])
             /\ [e EXCEPT !.item_id = Landing(ext, e.numbers)].item_id \in DOMAIN NumbersOf \cup {Null}
  <2> DEFINE at == Landing(ext, e.numbers)
  <2>1. IsEntry(e)
    OBVIOUS
  <2>2. at \in DOMAIN NumbersOf \cup {Null}
    BY <1>1, <2>1, LandsThere DEF IsEntry
  <2> HIDE DEF at
  <2>3. /\ DOMAIN [e EXCEPT !.item_id = at] = EntryFields /\ [e EXCEPT !.item_id = at].numbers = e.numbers
        /\ [e EXCEPT !.item_id = at].item_id = at
    BY <2>1 DEF IsEntry, EntryFields
  <2> QED
    BY <2>1, <2>2, <2>3 DEF IsEntry, at
<1>7. \A e \in calendar' : IsEntry(e) /\ e.item_id \in DOMAIN NumbersOf \cup {Null}
  BY <1>2, <1>6
<1> QED
  BY <1>1, <1>2, <1>3, <1>5, <1>7 DEF RequestsInv, OnePerId, IsLinked, IsRequest, IsEntry

(* How far the history of downloads is known, and what a pass over it holds. *)
HistoryInv ==
  /\ happened \subseteq GrabsToCome /\ IsFiniteSet(happened) /\ grabs \subseteq happened
  /\ grabs_since \in Int \cup {Null}
  /\ grabs_since # Null => \E g \in happened : g.at >= grabs_since
  /\ NothingIsPassedOver
  /\ reading # Null =>
       /\ DOMAIN reading = {"left", "newest"}
       /\ reading.left \subseteq happened /\ reading.newest \in Int \cup {Null}
       /\ reading.newest # Null => \E g \in happened : g.at = reading.newest
       /\ reading.newest # Null => \A g \in happened \ (grabs \cup reading.left) : g.at >= reading.newest

LEMMA HistoryHappens ==
  ASSUME HistoryInv, GrabHappens
  PROVE  HistoryInv'
<1>1. PICK g \in GrabsToCome \ happened : /\ \A h \in happened : h.at <= g.at
                                          /\ happened' = happened \cup {g}
                                          /\ UNCHANGED <<grabs, grabs_since, reading>>
  BY DEF GrabHappens, Tells
<1>2. \A h \in happened' : h.at \in Nat
  BY <1>1, IncomingAssumption DEF HistoryInv
<1>3. IsFiniteSet(happened')
  BY <1>1, FS_AddElement DEF HistoryInv
<1>4. NothingIsPassedOver'
  <2> SUFFICES ASSUME NEW h \in happened' \ grabs', grabs_since' # Null PROVE h.at >= grabs_since'
    BY DEF NothingIsPassedOver
  <2>1. PICK k \in happened : k.at >= grabs_since
    BY <1>1 DEF HistoryInv
  <2>2. grabs_since \in Int
    BY <1>1 DEF HistoryInv
  <2> QED
    BY <1>1, <1>2, <2>1, <2>2 DEF HistoryInv, NothingIsPassedOver
<1>5. ASSUME reading # Null, reading.newest # Null
      PROVE  \A h \in happened' \ (grabs \cup reading.left) : h.at >= reading.newest
  <2>1. PICK k \in happened : k.at = reading.newest
    BY <1>5 DEF HistoryInv
  <2> QED
    BY <1>1, <1>2, <1>5, <2>1 DEF HistoryInv
<1> QED
  BY <1>1, <1>3, <1>4, <1>5 DEF HistoryInv

LEMMA HistoryRead ==
  ASSUME HistoryInv, read_history
  PROVE  HistoryInv'
<1> DEFINE answer == {g \in happened : grabs_since # Null => g.at >= grabs_since}
           newest == IF answer = {} THEN Null ELSE Max({g.at : g \in answer})
<1>1. reading' = [left |-> answer, newest |-> newest] /\ UNCHANGED <<happened, grabs, grabs_since>>
  BY DEF read_history, Quiet
<1>2. happened \ (grabs \cup answer) = {}
  BY DEF HistoryInv, NothingIsPassedOver
<1>3. answer # {} => newest \in Int /\ \E g \in happened : g.at = newest
  <2> SUFFICES ASSUME answer # {} PROVE newest \in Int /\ \E g \in happened : g.at = newest
    OBVIOUS
  <2> DEFINE times == {g.at : g \in answer}
             at == [g \in answer |-> g.at]
  <2>1. times \in SUBSET Nat /\ times # {}
    BY IncomingAssumption DEF HistoryInv
  <2>2. IsFiniteSet(answer)
    BY FS_Subset DEF HistoryInv
  <2>3. at \in Surjection(answer, times)
    BY DEF Surjection
  <2>4. newest = Max(times)
    OBVIOUS
  <2>5. \A t \in times : \E g \in happened : g.at = t
    OBVIOUS
  <2> HIDE DEF at, times, answer, newest
  <2>6. IsFiniteSet(times)
    BY <2>2, <2>3, FS_Surjection
  <2>7. PICK n \in Nat : \A t \in times : t <= n
    BY <2>1, <2>6, BoundOf
  <2>8. Max(times) \in times
    BY <2>1, <2>7, GreatestOf
  <2>9. newest \in times
    BY <2>4, <2>8
  <2>10. newest \in Int
    BY <2>1, <2>9
  <2> QED
    BY <2>5, <2>9, <2>10
<1>4. newest \in Int \cup {Null} /\ (newest # Null => \E g \in happened : g.at = newest)
  BY <1>3
<1>5. answer \subseteq happened
  OBVIOUS
<1> HIDE DEF answer, newest
<1>6. /\ DOMAIN reading' = {"left", "newest"} /\ reading'.left = answer /\ reading'.newest = newest
  BY <1>1
<1>7. NothingIsPassedOver'
  BY <1>1 DEF NothingIsPassedOver, HistoryInv
<1> QED
  BY <1>1, <1>2, <1>4, <1>5, <1>6, <1>7 DEF HistoryInv

LEMMA HistoryWritten ==
  ASSUME HistoryInv, sync_grabs
  PROVE  HistoryInv'
<1>1. reading # Null /\ happened' = happened
  BY DEF sync_grabs, Quiet
<1>2. /\ DOMAIN reading = {"left", "newest"}
      /\ reading.left \subseteq happened /\ reading.newest \in Int \cup {Null}
      /\ reading.newest # Null => \E g \in happened : g.at = reading.newest
      /\ reading.newest # Null => \A g \in happened \ (grabs \cup reading.left) : g.at >= reading.newest
  BY <1>1 DEF HistoryInv
<1>3. ASSUME NEW g \in reading.left, grabs' = grabs \cup {g}, reading' = [reading EXCEPT !.left = @ \ {g}], grabs_since' = grabs_since
      PROVE  HistoryInv'
  <2>1. /\ DOMAIN reading' = {"left", "newest"} /\ reading'.newest = reading.newest /\ reading'.left = reading.left \ {g}
    BY <1>2, <1>3
  <2>2. grabs' \subseteq happened
    BY <1>2, <1>3 DEF HistoryInv
  <2>3. NothingIsPassedOver'
    BY <1>1, <1>3 DEF NothingIsPassedOver, HistoryInv
  <2>4. \A h \in happened \ (grabs' \cup reading'.left) : h \in happened \ (grabs \cup reading.left)
    BY <1>3, <2>1
  <2> QED
    BY <1>1, <1>2, <1>3, <2>1, <2>2, <2>3, <2>4 DEF HistoryInv
<1>4. ASSUME reading.left = {}, reading' = Null, grabs' = grabs,
             grabs_since' = IF reading.newest = Null THEN grabs_since ELSE NewSince(reading.newest)
      PROVE  HistoryInv'
  <2>1. CASE reading.newest = Null
    BY <1>1, <1>4, <2>1 DEF HistoryInv, NothingIsPassedOver
  <2>2. CASE reading.newest # Null
    <3>1. reading.newest \in Int /\ grabs_since' = reading.newest - 1
      BY <1>2, <1>4, <2>2 DEF NewSince
    <3>2. \A g \in happened : g.at \in Nat
      BY IncomingAssumption DEF HistoryInv
    <3>3. NothingIsPassedOver'
      BY <1>1, <1>2, <1>4, <2>2, <3>1, <3>2 DEF NothingIsPassedOver
    <3>4. \E g \in happened : g.at >= grabs_since'
      BY <1>2, <2>2, <3>1, <3>2
    <3> QED
      BY <1>1, <1>4, <3>1, <3>3, <3>4 DEF HistoryInv
  <2> QED
    BY <2>1, <2>2
<1> QED
  BY <1>3, <1>4 DEF sync_grabs

LEMMA HistoryStays ==
  ASSUME HistoryInv, UNCHANGED <<happened, grabs, grabs_since>>, reading' \in {reading, Null}
  PROVE  HistoryInv'
BY DEF HistoryInv, NothingIsPassedOver

LEMMA IncomingInitially == IncomingInit => RequestsInv /\ HistoryInv
  BY FS_EmptySet, IncomingAssumption
     DEF IncomingInit, RequestsInv, HistoryInv, OnePerId, NothingIsPassedOver

LEMMA IncomingStep ==
  ASSUME RowsInv, RequestsInv, HistoryInv, IncomingNext
  PROVE  RequestsInv' /\ HistoryInv'
<1>1. news \in Nat /\ MaxNews \in Nat
  BY IncomingAssumption DEF RequestsInv
<1>2. ASSUME NEW P, Tells(P)
      PROVE  news' \in 0 .. MaxNews /\ P
  BY <1>1, <1>2 DEF Tells, RequestsInv
<1>3. CASE StoreRequest
  <2>1. PICK r \in RequestsToCome :
          LET known == {q \in requests : q.service = r.service /\ q.id = r.id}
              first_seen == IF known = {} THEN Null ELSE (CHOOSE q \in known : TRUE).seen_available_at
          IN  /\ Tells(link((requests \ known) \cup
                   {[r EXCEPT !.seen_available_at = IF r.media_status = AVAILABLE THEN First(first_seen, Now) ELSE Null]}, calendar))
              /\ UNCHANGED <<enabled, gone, history>>
    BY <1>3 DEF StoreRequest
  <2> DEFINE known == {q \in requests : q.service = r.service /\ q.id = r.id}
             first_seen == IF known = {} THEN Null ELSE (CHOOSE q \in known : TRUE).seen_available_at
             seen == IF r.media_status = AVAILABLE THEN First(first_seen, Now) ELSE Null
             stored == [r EXCEPT !.seen_available_at = seen]
             R == (requests \ known) \cup {stored}
  <2>2. first_seen \in Int \cup {Null}
    BY DEF RequestsInv, IsRequest
  <2>3. Now \in Int
    BY NowGrows DEF Now, RowsInv, PagesTypeOK
  <2>4. seen \in Int \cup {Null}
    BY <2>2, <2>3 DEF First
  <2>5. link(R, calendar) /\ news' \in 0 .. MaxNews /\ UNCHANGED <<enabled, gone, history>>
    BY <1>1, <2>1 DEF Tells, RequestsInv
  <2> HIDE DEF seen
  <2>6. DOMAIN r = RequestFields /\ DOMAIN r.numbers \subseteq Nat /\ r.requested_at \in Nat /\ r.media_added_at \in Nat \cup {Null}
    BY IncomingAssumption
  <2>7. /\ DOMAIN stored = RequestFields /\ stored.numbers = r.numbers /\ stored.requested_at = r.requested_at
        /\ stored.media_added_at = r.media_added_at /\ stored.seen_available_at = seen
        /\ stored.service = r.service /\ stored.id = r.id
    BY <2>6 DEF RequestFields
  <2> HIDE DEF stored
  <2>8. IsRequest(stored)
    BY <2>4, <2>6, <2>7 DEF IsRequest
  <2>9. OnePerId(R) /\ \A k \in R : IsRequest(k)
    BY <2>7, <2>8 DEF OnePerId, RequestsInv
  <2>10. IsFiniteSet(requests \ known)
    BY FS_Subset DEF RequestsInv
  <2> HIDE DEF known
  <2>11. IsFiniteSet(R)
    BY <2>10, FS_AddElement
  <2> HIDE DEF R
  <2>12. RequestsInv'
    BY <2>5, <2>9, <2>11, LinkStep DEF RequestsInv
  <2> QED
    BY <2>5, <2>12, HistoryStays DEF history
<1>4. CASE DropRequest
  <2>1. PICK r \in requests : /\ Tells(link((requests \ {r}) \cup {[r EXCEPT !.removed = TRUE]}, calendar))
                              /\ UNCHANGED <<enabled, gone, history>>
    BY <1>4 DEF DropRequest
  <2> DEFINE dropped == [r EXCEPT !.removed = TRUE]
             R == (requests \ {r}) \cup {dropped}
  <2>2. IsRequest(r)
    BY DEF RequestsInv
  <2>3. /\ DOMAIN dropped = RequestFields /\ dropped.numbers = r.numbers /\ dropped.requested_at = r.requested_at
        /\ dropped.media_added_at = r.media_added_at /\ dropped.seen_available_at = r.seen_available_at
        /\ dropped.service = r.service /\ dropped.id = r.id
    BY <2>2 DEF RequestFields, IsRequest
  <2>4. link(R, calendar) /\ news' \in 0 .. MaxNews /\ UNCHANGED <<enabled, gone, history>>
    BY <1>1, <2>1 DEF Tells, RequestsInv
  <2> HIDE DEF dropped
  <2>5. IsRequest(dropped)
    BY <2>2, <2>3 DEF IsRequest
  <2>6. OnePerId(R) /\ \A k \in R : IsRequest(k)
    BY <2>3, <2>5 DEF OnePerId, RequestsInv
  <2>7. IsFiniteSet(R)
    BY FS_RemoveElement, FS_AddElement DEF RequestsInv
  <2> HIDE DEF R
  <2>8. RequestsInv'
    BY <2>4, <2>6, <2>7, LinkStep DEF RequestsInv
  <2> QED
    BY <2>4, <2>8, HistoryStays DEF history
<1>5. CASE StoreCalendar
  <2>0. PICK s \in enabled : \E announced \in SUBSET {e \in CalendarToCome : e.service = s} :
          /\ Tells(link(requests, {e \in calendar : e.service # s} \cup {e \in announced : today - Behind <= e.day /\ e.day <= today + Ahead}))
          /\ UNCHANGED <<enabled, gone, history>>
    BY <1>5 DEF StoreCalendar
  <2>1. PICK announced \in SUBSET {e \in CalendarToCome : e.service = s} :
          /\ Tells(link(requests, {e \in calendar : e.service # s} \cup {e \in announced : today - Behind <= e.day /\ e.day <= today + Ahead}))
          /\ UNCHANGED <<enabled, gone, history>>
    BY <2>0
  <2> DEFINE C == {e \in calendar : e.service # s} \cup {e \in announced : today - Behind <= e.day /\ e.day <= today + Ahead}
  <2>2. \A e \in C : IsEntry(e)
    BY IncomingAssumption DEF IsEntry, RequestsInv
  <2>3. link(requests, C) /\ news' \in 0 .. MaxNews /\ UNCHANGED <<enabled, gone, history>>
    BY <1>1, <2>1 DEF Tells, RequestsInv
  <2> HIDE DEF C
  <2>4. RequestsInv'
    BY <2>2, <2>3, LinkStep DEF RequestsInv
  <2> QED
    BY <2>3, <2>4, HistoryStays DEF history
<1>6. CASE LibraryLinked
  <2>1. link(requests, calendar) /\ UNCHANGED <<enabled, gone, history, news>>
    BY <1>6 DEF LibraryLinked
  <2>2. RequestsInv'
    BY <2>1, LinkStep DEF RequestsInv
  <2> QED
    BY <2>1, <2>2, HistoryStays DEF history
<1>7. ASSUME UNCHANGED <<external, requests, calendar>>, enabled' \subseteq Services, gone' \subseteq DOMAIN NumbersOf, news' \in 0 .. MaxNews
      PROVE  RequestsInv'
  BY <1>7 DEF RequestsInv, OnePerId, IsLinked, IsRequest, IsEntry
<1>8. CASE GrabHappens
  <2>1. UNCHANGED <<external, requests, calendar, enabled, gone>> /\ news' \in 0 .. MaxNews
    BY <1>1, <1>8 DEF GrabHappens, Tells, RequestsInv
  <2> QED
    BY <1>7, <1>8, <2>1, HistoryHappens DEF RequestsInv
<1>9. CASE read_history \/ sync_grabs \/ GrabsFail
  <2>1. UNCHANGED <<external, requests, calendar, enabled, gone, news>>
    BY <1>9 DEF read_history, sync_grabs, GrabsFail, Quiet
  <2>2. RequestsInv'
    BY <1>7, <2>1 DEF RequestsInv
  <2>3. GrabsFail => HistoryInv'
    BY HistoryStays DEF GrabsFail, Quiet
  <2> QED
    BY <1>9, <2>2, <2>3, HistoryRead, HistoryWritten
<1>10. CASE LibraryChanges
  <2>1. UNCHANGED <<external, requests, calendar, enabled, history>> /\ gone' \subseteq DOMAIN NumbersOf /\ news' \in 0 .. MaxNews
    BY <1>1, <1>10 DEF LibraryChanges, Tells, RequestsInv
  <2> QED
    BY <1>7, <2>1, HistoryStays DEF RequestsInv, history
<1>11. CASE SwitchService
  <2>1. UNCHANGED <<external, requests, calendar, gone, history>> /\ enabled' \subseteq Services /\ news' \in 0 .. MaxNews
    BY <1>1, <1>11 DEF SwitchService, Tells, RequestsInv
  <2> QED
    BY <1>7, <2>1, HistoryStays DEF RequestsInv, history
<1>12. CASE UNCHANGED incomingVars
  BY <1>7, <1>12, HistoryStays DEF incomingVars, history, RequestsInv
<1> QED
  BY <1>3, <1>4, <1>5, <1>6, <1>8, <1>9, <1>10, <1>11, <1>12 DEF IncomingNext

-----------------------------------------------------------------------------
(* The parts together.                                                       *)

-----------------------------------------------------------------------------
(* All of it together. *)

RowsKnown == RowsInv /\ RequestsInv /\ HistoryInv

LEMMA KnownInitially == ReportsInit => RowsKnown
<1> SUFFICES ASSUME ReportsInit PROVE RowsKnown
  OBVIOUS
<1>1. PagesInit /\ IncomingInit
  BY DEF ReportsInit, StoriesInit
<1>2. RowsInv
  BY <1>1, FS_EmptySet, PlaysAssumption DEF PagesInit, RowsInv, PagesTypeOK
<1> QED
  BY <1>1, <1>2, IncomingInitially DEF RowsKnown

LEMMA OthersLeaveIncoming ==
  ASSUME RequestsInv, HistoryInv, UNCHANGED incomingVars
  PROVE  RequestsInv' /\ HistoryInv'
<1>1. UNCHANGED <<enabled, gone, external, requests, calendar, news, happened, grabs, grabs_since, reading>>
  BY DEF incomingVars, history
<1>2. HistoryInv'
  BY <1>1, HistoryStays
<1>3. RequestsInv'
  BY <1>1 DEF RequestsInv, OnePerId, IsLinked, IsRequest, IsEntry
<1> QED
  BY <1>2, <1>3

LEMMA AlertsMoveRows ==
  ASSUME AlertsNext
  PROVE  Recorded \/ DayPasses \/ UNCHANGED <<rows, today>>
<1>1. CASE PlayIsSeen \/ DayPasses
  BY <1>1 DEF PlayIsSeen
<1>2. CASE LogIsRead \/ CheckBegins \/ LookAt \/ file_alerts
  BY <1>2 DEF LogIsRead, CheckBegins, LookAt, file_alerts, Same
<1>3. CASE resolve \/ reopen \/ resolve_all
  BY <1>3 DEF resolve, reopen, resolve_all, Answer, Same
<1> QED
  BY <1>1, <1>2, <1>3 DEF AlertsNext

LEMMA IncomingMovesRows ==
  ASSUME IncomingNext
  PROVE  Recorded \/ DayPasses \/ UNCHANGED <<rows, today>>
<1>1. CASE StoreRequest \/ DropRequest \/ StoreCalendar \/ GrabHappens \/ LibraryChanges \/ LibraryLinked \/ SwitchService
  BY <1>1 DEF StoreRequest, DropRequest, StoreCalendar, GrabHappens, LibraryChanges, LibraryLinked, SwitchService, Elsewhere
<1>2. CASE read_history \/ sync_grabs \/ GrabsFail
  BY <1>2 DEF read_history, sync_grabs, GrabsFail, Quiet, Elsewhere
<1> QED
  BY <1>1, <1>2 DEF IncomingNext

LEMMA KnownStep == RowsKnown /\ [ReportsNext]_reportsVars => RowsKnown'
<1> SUFFICES ASSUME RowsKnown, [ReportsNext]_reportsVars PROVE RowsKnown'
  OBVIOUS
<1>1. RowsInv /\ RequestsInv /\ HistoryInv
  BY DEF RowsKnown
<1>2. CASE UNCHANGED <<storiesVars, incomingVars>>
  <2>1. UNCHANGED <<rows, today>>
    BY <1>2 DEF storiesVars, pagesVars
  <2> QED
    BY <1>1, <1>2, <2>1, RowsStep, OthersLeaveIncoming DEF RowsKnown
<1>3. CASE StoriesNext /\ UNCHANGED incomingVars
  <2>1. PagesNext \/ UNCHANGED <<rows, today>>
    BY <1>3 DEF StoriesNext, OpenTrail, TurnTrail, mark_seen, pagesVars
  <2> QED
    BY <1>1, <1>3, <2>1, RowsStep, OthersLeaveIncoming DEF RowsKnown, PagesNext
<1>4. CASE IncomingNext
  BY <1>1, <1>4, IncomingMovesRows, RowsStep, IncomingStep DEF RowsKnown
<1>5. CASE AlertsNext /\ UNCHANGED incomingVars
  BY <1>1, <1>5, AlertsMoveRows, RowsStep, OthersLeaveIncoming DEF RowsKnown
<1> QED
  BY <1>2, <1>3, <1>4, <1>5 DEF ReportsNext, reportsVars

(* The requests, the calendar and the history of downloads are in order.     *)
THEOREM RowsStayKnown == ReportsSpec => []RowsKnown
  BY KnownInitially, KnownStep, PTL DEF ReportsSpec

(* However the passes over Sonarr and Radarr fail, end early or follow each  *)
(* other, what was downloaded and has not been read is not behind the cursor *)
(* from which the next pass reads (`read_history`, `sync_grabs`).            *)
THEOREM NothingIsPassedBy == ReportsSpec => []NothingIsPassedOver
<1>1. RowsKnown => NothingIsPassedOver
  BY DEF RowsKnown, HistoryInv
<1> QED
  BY RowsStayKnown, <1>1, PTL

(* What somebody may not see makes no difference to any page, story, list or *)
(* figure they are shown: not other people's plays, not the addresses, and   *)
(* nobody's requests but their own, whoever the URL asks for.                *)
THEOREM WhatIsNotTheirsIsNotShown == ReportsSpec => []TheirOwn
<1>1. ASSUME RowsKnown PROVE TheirOwn
  <2>1. OnlyTheirOwn
    BY <1>1, AddressesMakeNoDifference, OthersMakeNoDifference DEF RowsKnown, OnlyTheirOwn
  <2>2. \A r \in requests : r.requested_at \in Nat
    BY <1>1 DEF RowsKnown, RequestsInv, IsRequest
  <2>3. NothingIsHinted
    BY <2>2, RequestsAreTheirOwn
  <2> QED
    BY <2>1, <2>3, StoriesAreTheirOwn DEF TheirOwn
<1>2. RowsKnown => TheirOwn
  BY <1>1
<1> QED
  BY RowsStayKnown, <1>2, PTL

-----------------------------------------------------------------------------
(* Alerts. *)

AlertFields == {"kind", "user", "at", "about", "dedupe", "open", "muted"}
AlertKinds == {"impossible_travel", "new_country"}

IsAlert(al) == DOMAIN al = AlertFields /\ al.user \in Accounts /\ al.kind \in AlertKinds /\ (al.muted => ~al.open)

IsFound(f, who) == f.user = who /\ f.kind \in AlertKinds

AlertsOK ==
  /\ logged \in 0..Len(Log)
  /\ \A al \in alerts : IsAlert(al)
  /\ \A al, bl \in alerts : al.dedupe = bl.dedupe => al = bl
  /\ \A bst \in told : bst.of \subseteq 1..logged
  /\ due \subseteq Accounts
  /\ DOMAIN check = {"todo", "found"} /\ check.todo \subseteq Accounts
  /\ \A f \in check.found : \E w \in Accounts : IsFound(f, w)
  /\ answers \in 0..MaxAnswers

(* g is how `detect` goes through the sightings.                             *)
NothingNoted == [found |-> {}, last |-> {}, countries |-> {}, longest |-> {}, prev |-> {}]

IsWatch(g, n, s, user, muted) ==
  /\ g = [k \in 0 .. n |-> g[k]] /\ g[0] = NothingNoted
  /\ \A k \in 1 .. n : g[k] = Noted(g[k - 1], user, s[k], muted)

LEMMA WatchExists ==
  ASSUME NEW N \in Nat, NEW s, NEW user, NEW muted
  PROVE  \E g : IsWatch(g, N, s, user, muted)
<1> DEFINE T == {n \in Nat : \E g : IsWatch(g, n, s, user, muted)}
<1>1. 0 \in T
  <2> DEFINE g == [k \in 0 .. 0 |-> NothingNoted]
  <2>1. g = [k \in 0 .. 0 |-> g[k]] /\ g[0] = NothingNoted
    OBVIOUS
  <2>2. \A k \in 1 .. 0 : FALSE
    OBVIOUS
  <2> HIDE DEF g
  <2>3. IsWatch(g, 0, s, user, muted)
    BY <2>1, <2>2 DEF IsWatch
  <2> QED
    BY <2>3
<1>2. ASSUME NEW n \in Nat, n \in T
      PROVE  n + 1 \in T
  <2>1. PICK f : IsWatch(f, n, s, user, muted)
    BY <1>2
  <2> DEFINE last == Noted(f[n], user, s[n + 1], muted)
             g == [k \in 0 .. n + 1 |-> IF k = n + 1 THEN last ELSE f[k]]
  <2> HIDE DEF last
  <2>2. g = [k \in 0 .. n + 1 |-> g[k]]
    OBVIOUS
  <2>3. /\ g[0] = f[0] /\ g[n + 1] = last /\ g[n] = f[n]
        /\ \A k \in 0 .. n : g[k] = f[k]
    OBVIOUS
  <2> HIDE DEF g
  <2>4. ASSUME NEW k \in 1 .. n + 1
        PROVE  g[k] = Noted(g[k - 1], user, s[k], muted)
    <3>1. CASE k = n + 1
      <4>1. k - 1 = n
        BY <3>1
      <4> QED
        BY <2>3, <3>1, <4>1 DEF last
    <3>2. CASE k # n + 1
      <4>1. k \in 1 .. n /\ k - 1 \in 0 .. n /\ k \in 0 .. n
        BY <3>2
      <4>2. f[k] = Noted(f[k - 1], user, s[k], muted)
        BY <2>1, <4>1 DEF IsWatch
      <4>3. g[k] = f[k] /\ g[k - 1] = f[k - 1]
        BY <2>3, <4>1
      <4> QED
        BY <4>2, <4>3
    <3> QED
      BY <3>1, <3>2
  <2>5. IsWatch(g, n + 1, s, user, muted)
    BY <2>1, <2>2, <2>3, <2>4 DEF IsWatch
  <2> QED
    BY <2>5
<1> HIDE DEF T
<1>3. Nat \subseteq T
  BY <1>1, <1>2, NatByStep
<1> QED
  BY <1>3 DEF T

LEMMA DetectIs ==
  ASSUME NEW s, Len(s) \in Nat, NEW user, NEW muted
  PROVE  \E g : IsWatch(g, Len(s), s, user, muted) /\ detect(user, s, muted) = g[Len(s)].found
<1> DEFINE N == Len(s)
           Goes(f) == [i \in 0 .. N |-> IF i = 0 THEN NothingNoted ELSE Noted(f[i - 1], user, s[i], muted)]
           kept == CHOOSE f : f = Goes(f)
<1>1. detect(user, s, muted) = kept[N].found
  BY DEF detect, NothingNoted
<1>2. PICK g : IsWatch(g, N, s, user, muted)
  BY WatchExists
<1>3. \A f : f = Goes(f) <=> IsWatch(f, N, s, user, muted)
  <2> SUFFICES ASSUME NEW f PROVE f = Goes(f) <=> IsWatch(f, N, s, user, muted)
    OBVIOUS
  <2>1. ASSUME f = Goes(f) PROVE IsWatch(f, N, s, user, muted)
    <3>1. \A i \in 0 .. N : f[i] = IF i = 0 THEN NothingNoted ELSE Noted(f[i - 1], user, s[i], muted)
      BY <2>1
    <3>2. f = [i \in 0 .. N |-> f[i]]
      BY <2>1
    <3>3. 0 \in 0 .. N /\ \A i \in 1 .. N : i \in 0 .. N /\ i # 0
      OBVIOUS
    <3> QED
      BY <3>1, <3>2, <3>3 DEF IsWatch
  <2>2. ASSUME IsWatch(f, N, s, user, muted) PROVE f = Goes(f)
    <3>1. \A i \in 0 .. N : i = 0 \/ i \in 1 .. N
      OBVIOUS
    <3>2. \A i \in 0 .. N : f[i] = IF i = 0 THEN NothingNoted ELSE Noted(f[i - 1], user, s[i], muted)
      BY <2>2, <3>1 DEF IsWatch
    <3>3. f = [i \in 0 .. N |-> f[i]]
      BY <2>2 DEF IsWatch
    <3> QED
      BY <3>2, <3>3
  <2> QED
    BY <2>1, <2>2
<1> HIDE DEF Goes
<1>4. kept = Goes(kept)
  BY <1>2, <1>3
<1> HIDE DEF kept
<1>5. IsWatch(kept, N, s, user, muted)
  BY <1>3, <1>4
<1> QED
  BY <1>1, <1>5

(* What `detect` finds is of the one it looks at.                            *)
LEMMA FoundIsTheirs ==
  ASSUME NEW s, Len(s) \in Nat, NEW user, NEW muted
  PROVE  \A f \in detect(user, s, muted) : IsFound(f, user)
<1>1. PICK g : IsWatch(g, Len(s), s, user, muted) /\ detect(user, s, muted) = g[Len(s)].found
  BY DetectIs
<1>2. ASSUME NEW before, NEW at
      PROVE  \A f \in Noted(before, user, at, muted).found : f \in before.found \/ IsFound(f, user)
  BY DEF Noted, IsFound, AlertKinds
<1> DEFINE T == {k \in Nat : k <= Len(s) => \A f \in g[k].found : IsFound(f, user)}
<1>3. 0 \in T
  BY <1>1 DEF IsWatch, NothingNoted
<1>4. ASSUME NEW k \in Nat, k \in T
      PROVE  k + 1 \in T
  <2> SUFFICES ASSUME k + 1 <= Len(s) PROVE \A f \in g[k + 1].found : IsFound(f, user)
    OBVIOUS
  <2>1. k <= Len(s) /\ k + 1 \in 1 .. Len(s) /\ (k + 1) - 1 = k
    OBVIOUS
  <2>2. g[k + 1] = Noted(g[k], user, s[k + 1], muted)
    BY <1>1, <2>1 DEF IsWatch
  <2> QED
    BY <1>2, <1>4, <2>1, <2>2
<1> HIDE DEF T
<1>5. Nat \subseteq T
  BY <1>3, <1>4, NatByStep
<1> QED
  BY <1>1, <1>5 DEF T

LEMMA SightingsAreList ==
  ASSUME RowsInv, logged \in 0 .. Len(Log), NEW w
  PROVE  Len(sightings_of(rows, w)) \in Nat
<1> DEFINE P == {p \in rows : p.user = w /\ p.ip # Null}
           E == {y \in server_events(logged) : y.user = w /\ y.type \in SIGN_IN_TYPES}
           ofPlay == [r \in P |-> [at |-> r.start, until |-> r.end, spot |-> Spot(r.ip, r.local), id |-> <<1, r.id>>]]
           ofEvent == [e \in E |-> [at |-> e.at, until |-> e.at, spot |-> Spot(e.ip, e.local), id |-> <<0, e.id>>]]
           plays == {[at |-> r.start, until |-> r.end, spot |-> Spot(r.ip, r.local), id |-> <<1, r.id>>] : r \in P}
           signed == {[at |-> e.at, until |-> e.at, spot |-> Spot(e.ip, e.local), id |-> <<0, e.id>>] : e \in E}
           S == {s \in plays \cup signed : s.spot # Null}
           list == sightings_of(rows, w)
<1>1. IsFiniteSet(P)
  BY FS_Subset DEF RowsInv
<1>2. IsFiniteSet(E)
  BY EventsAreFinite, FS_Subset
<1>3. IsFiniteSet(plays) /\ IsFiniteSet(signed)
  <2>1. ofPlay \in Surjection(P, plays) /\ ofEvent \in Surjection(E, signed)
    BY DEF Surjection
  <2> HIDE DEF P, E, plays, signed, ofPlay, ofEvent
  <2> QED
    BY <1>1, <1>2, <2>1, FS_Surjection
<1>4. \E h : list = [i \in 1 .. Cardinality(S) |-> h[i]]
  <2> DEFINE Sooner(s, t) == s.at < t.at \/ (s.at = t.at /\ (s.id[1] < t.id[1] \/ (s.id[1] = t.id[1] /\ s.id[2] < t.id[2])))
             at(i) == CHOOSE s \in S : Cardinality({t \in S : Sooner(t, s)}) = i - 1
             h == [i \in 1 .. Cardinality(S) |-> at(i)]
  <2>1. list = h
    BY DEF sightings_of, InOrder
  <2> HIDE DEF at
  <2>2. h = [i \in 1 .. Cardinality(S) |-> h[i]]
    OBVIOUS
  <2> QED
    BY <2>1, <2>2
<1> HIDE DEF list, plays, signed
<1>5. IsFiniteSet(S)
  BY <1>3, FS_Union, FS_Subset
<1> HIDE DEF S
<1>6. Cardinality(S) \in Nat
  BY <1>5, FS_CardinalityType
<1>7. PICK h : list = [i \in 1 .. Cardinality(S) |-> h[i]]
  BY <1>4
<1>8. list \in Seq({h[i] : i \in 1 .. Cardinality(S)})
  BY <1>6, <1>7
<1> QED
  BY <1>8 DEF list

LEMMA AlertsInitially == AlertsInit => AlertsOK
  BY AlertsAssumption DEF AlertsInit, AlertsOK, Idle

(* What a manager answers keeps each alert what it is.                       *)
LEMMA AnswersKeep ==
  ASSUME \A al \in alerts : IsAlert(al),
         \A al, bl \in alerts : al.dedupe = bl.dedupe => al = bl,
         NEW h, DOMAIN h = alerts, alerts' = {h[al] : al \in alerts},
         \A al \in alerts : IsAlert(h[al]) /\ h[al].dedupe = al.dedupe
  PROVE  (\A al \in alerts : IsAlert(al))' /\ (\A al, bl \in alerts : al.dedupe = bl.dedupe => al = bl)'
OBVIOUS

LEMMA AnswerStep ==
  ASSUME AlertsOK, resolve \/ reopen \/ resolve_all
  PROVE  AlertsOK'
<1>1. /\ \A al \in alerts : IsAlert(al)
      /\ \A al, bl \in alerts : al.dedupe = bl.dedupe => al = bl
  BY DEF AlertsOK
<1>2. ASSUME NEW A, Answer(A),
             (\A al \in alerts : IsAlert(al))', (\A al, bl \in alerts : al.dedupe = bl.dedupe => al = bl)'
      PROVE  AlertsOK'
  <2>1. UNCHANGED <<logged, told, due, check>> /\ answers' \in 0 .. MaxAnswers
    BY <1>2, AlertsAssumption DEF Answer, AlertsOK
  <2> QED
    BY <1>2, <2>1 DEF AlertsOK
<1>3. ASSUME NEW x0 \in alerts, NEW muted \in BOOLEAN, x0.kind \in AlertKinds
      PROVE  LET y == [x0 EXCEPT !.open = FALSE, !.muted = muted] IN IsAlert(y) /\ y.dedupe = x0.dedupe
  BY <1>1 DEF IsAlert, AlertFields
<1>4. ASSUME NEW x0 \in alerts
      PROVE  /\ LET y == [x0 EXCEPT !.open = FALSE] IN IsAlert(y) /\ y.dedupe = x0.dedupe
             /\ LET y == [x0 EXCEPT !.open = TRUE, !.muted = FALSE] IN IsAlert(y) /\ y.dedupe = x0.dedupe
             /\ IsAlert(x0) /\ x0.kind \in AlertKinds
  BY <1>1 DEF IsAlert, AlertFields
<1>5. CASE resolve
  <2>1. PICK al \in alerts : \E mute \in BOOLEAN :
          LET mutes == mute /\ al.kind = "impossible_travel"
              Also(y) == mutes /\ y.user = al.user /\ y.kind = al.kind /\ y.about = al.about
          IN  Answer({IF y = al THEN [y EXCEPT !.open = FALSE, !.muted = mutes]
                      ELSE IF Also(y) THEN [y EXCEPT !.open = FALSE] ELSE y : y \in alerts})
    BY <1>5 DEF resolve
  <2>2. PICK mute \in BOOLEAN :
          LET mutes == mute /\ al.kind = "impossible_travel"
              Also(y) == mutes /\ y.user = al.user /\ y.kind = al.kind /\ y.about = al.about
          IN  Answer({IF y = al THEN [y EXCEPT !.open = FALSE, !.muted = mutes]
                      ELSE IF Also(y) THEN [y EXCEPT !.open = FALSE] ELSE y : y \in alerts})
    BY <2>1
  <2> DEFINE mutes == mute /\ al.kind = "impossible_travel"
             Also(y) == mutes /\ y.user = al.user /\ y.kind = al.kind /\ y.about = al.about
             At(y) == IF y = al THEN [y EXCEPT !.open = FALSE, !.muted = mutes]
                      ELSE IF Also(y) THEN [y EXCEPT !.open = FALSE] ELSE y
             h == [y \in alerts |-> At(y)]
             A == {At(y) : y \in alerts}
  <2>3. Answer(A)
    BY <2>2
  <2>4. mutes \in BOOLEAN
    OBVIOUS
  <2> HIDE DEF mutes
  <2>5. \A y \in alerts : IsAlert(At(y)) /\ At(y).dedupe = y.dedupe
    BY <1>3, <1>4, <2>4
  <2> HIDE DEF At
  <2>6. DOMAIN h = alerts /\ A = {h[y] : y \in alerts} /\ \A y \in alerts : h[y] = At(y)
    OBVIOUS
  <2> HIDE DEF h, A
  <2>7. alerts' = {h[y] : y \in alerts}
    BY <2>3, <2>6 DEF Answer
  <2>8. (\A y \in alerts : IsAlert(y))' /\ (\A y, z \in alerts : y.dedupe = z.dedupe => y = z)'
    BY <1>1, <2>5, <2>6, <2>7, AnswersKeep
  <2> QED
    BY <1>2, <2>3, <2>8
<1>6. CASE reopen
  <2>1. PICK al \in alerts : Answer((alerts \ {al}) \cup {[al EXCEPT !.open = TRUE, !.muted = FALSE]})
    BY <1>6 DEF reopen
  <2> DEFINE opened == [al EXCEPT !.open = TRUE, !.muted = FALSE]
             A == (alerts \ {al}) \cup {opened}
  <2>2. IsAlert(opened) /\ opened.dedupe = al.dedupe
    BY <1>4
  <2> HIDE DEF opened
  <2>3. alerts' = A
    BY <2>1 DEF Answer, opened
  <2>4. (\A y \in alerts : IsAlert(y))' /\ (\A y, z \in alerts : y.dedupe = z.dedupe => y = z)'
    BY <1>1, <2>2, <2>3
  <2> QED
    BY <1>2, <2>1, <2>4 DEF opened
<1>7. CASE resolve_all
  <2> DEFINE h == [y \in alerts |-> [y EXCEPT !.open = FALSE]]
  <2>1. Answer({[y EXCEPT !.open = FALSE] : y \in alerts})
    BY <1>7 DEF resolve_all
  <2>2. DOMAIN h = alerts /\ \A y \in alerts : h[y] = [y EXCEPT !.open = FALSE]
    OBVIOUS
  <2>3. alerts' = {h[y] : y \in alerts}
    BY <2>1 DEF Answer
  <2>4. \A y \in alerts : IsAlert(h[y]) /\ h[y].dedupe = y.dedupe
    BY <1>4, <2>2
  <2> HIDE DEF h
  <2>5. (\A y \in alerts : IsAlert(y))' /\ (\A y, z \in alerts : y.dedupe = z.dedupe => y = z)'
    BY <1>1, <2>2, <2>3, <2>4, AnswersKeep
  <2> QED
    BY <1>2, <2>1, <2>5
<1> QED
  BY <1>5, <1>6, <1>7

LEMMA AlertsStep ==
  ASSUME RowsInv, RowsInv', AlertsOK, AlertsNext
  PROVE  AlertsOK'
<1>1. logged \in 0 .. Len(Log) /\ Len(Log) \in Nat
  BY AlertsAssumption DEF AlertsOK
<1>2. CASE PlayIsSeen
  <2>1. UNCHANGED <<logged, alerts, told, check, answers>> /\ due' = due \cup {r.user : r \in rows' \ rows}
    BY <1>2 DEF PlayIsSeen
  <2>2. \A r \in rows' : r.user \in Accounts
    BY AlertsAssumption, PlaysAssumption DEF RowsInv, PagesTypeOK
  <2> QED
    BY <2>1, <2>2 DEF AlertsOK
<1>3. CASE LogIsRead
  <2>1. PICK n \in logged .. Len(Log) : logged' = n
    BY <1>3 DEF LogIsRead
  <2>2. UNCHANGED <<alerts, check, answers, today>> /\ due' = Accounts /\ scan_sign_ins
    BY <1>3 DEF LogIsRead, Same
  <2>3. logged' \in 0 .. Len(Log) /\ 1 .. logged \subseteq 1 .. logged'
    BY <1>1, <2>1
  <2>4. today \in Nat
    BY PlaysAssumption DEF RowsInv, PagesTypeOK
  <2>5. Now - BurstLookback \in Int /\ Now' = Now
    <3>1. Now \in Int /\ Now' = Now
      BY <2>2, <2>4, NowGrows DEF Now
    <3>2. BurstLookback \in Nat
      BY AlertsAssumption
    <3> QED
      BY <3>1, <3>2
  <2>6. \A bst \in bursts(logged', Now - BurstLookback) : bst.of \subseteq 1 .. logged'
    BY <2>3, <2>5, OneScan DEF InBurst
  <2>7. told' \subseteq told \cup bursts(logged', Now - BurstLookback)
    BY <2>2, <2>5 DEF scan_sign_ins
  <2>8. \A bst \in told' : bst.of \subseteq 1 .. logged'
    BY <2>3, <2>6, <2>7 DEF AlertsOK
  <2> QED
    BY <2>2, <2>3, <2>8 DEF AlertsOK
<1>4. CASE CheckBegins
  <2>1. PICK W \in {Accounts} \cup {{w} : w \in due} : check' = [Idle EXCEPT !.todo = W] /\ due' = due \ W
    BY <1>4 DEF CheckBegins
  <2>2. UNCHANGED <<logged, alerts, told, answers>>
    BY <1>4 DEF CheckBegins
  <2>3. W \subseteq Accounts
    BY DEF AlertsOK
  <2>4. DOMAIN check' = {"todo", "found"} /\ check'.todo = W /\ check'.found = {}
    BY <2>1 DEF Idle
  <2> QED
    BY <2>1, <2>2, <2>3, <2>4 DEF AlertsOK
<1>5. CASE LookAt
  <2>1. PICK w \in check.todo : check' = [todo |-> check.todo \ {w}, found |-> detect(w, sightings_of(rows, w), Muted(w))]
    BY <1>5 DEF LookAt
  <2>2. UNCHANGED <<logged, alerts, told, due, answers>>
    BY <1>5 DEF LookAt
  <2>3. \A f \in detect(w, sightings_of(rows, w), Muted(w)) : IsFound(f, w)
    BY <1>1, SightingsAreList, FoundIsTheirs
  <2>4. w \in Accounts
    BY DEF AlertsOK
  <2>5. DOMAIN check' = {"todo", "found"} /\ check'.todo \subseteq check.todo /\ check'.found = detect(w, sightings_of(rows, w), Muted(w))
    BY <2>1
  <2> QED
    BY <2>2, <2>3, <2>4, <2>5 DEF AlertsOK
<1>6. CASE file_alerts
  <2>1. PICK f \in check.found :
          /\ check' = [check EXCEPT !.found = @ \ {f}]
          /\ alerts' = IF \E al \in alerts : al.dedupe = f.dedupe THEN alerts
                       ELSE alerts \cup {[kind |-> f.kind, user |-> f.user, at |-> f.at, about |-> f.about, dedupe |-> f.dedupe, open |-> TRUE, muted |-> FALSE]}
    BY <1>6 DEF file_alerts
  <2>2. UNCHANGED <<logged, told, due, answers>>
    BY <1>6 DEF file_alerts
  <2> DEFINE new == [kind |-> f.kind, user |-> f.user, at |-> f.at, about |-> f.about, dedupe |-> f.dedupe, open |-> TRUE, muted |-> FALSE]
  <2>3. f.user \in Accounts /\ f.kind \in AlertKinds
    BY DEF AlertsOK, IsFound
  <2>4. IsAlert(new) /\ new.dedupe = f.dedupe
    BY <2>3 DEF IsAlert, AlertFields
  <2>5. alerts' = IF \E al \in alerts : al.dedupe = f.dedupe THEN alerts ELSE alerts \cup {new}
    BY <2>1
  <2> HIDE DEF new
  <2>6. (\A y \in alerts : IsAlert(y))' /\ (\A y, z \in alerts : y.dedupe = z.dedupe => y = z)'
    BY <2>4, <2>5 DEF AlertsOK
  <2>7. DOMAIN check' = {"todo", "found"} /\ check'.todo = check.todo /\ check'.found \subseteq check.found
    BY <2>1 DEF AlertsOK
  <2> QED
    BY <2>2, <2>6, <2>7 DEF AlertsOK
<1>7. CASE resolve \/ reopen \/ resolve_all
  BY <1>7, AnswerStep
<1>8. CASE UNCHANGED alertsVars
  BY <1>8 DEF alertsVars, AlertsOK
<1> QED
  BY <1>2, <1>3, <1>4, <1>5, <1>6, <1>7, <1>8 DEF AlertsNext

-----------------------------------------------------------------------------
(* The parts together. *)

MarksOK == manual_seen \subseteq Markers \X Episodes

PartsInv ==
  /\ RowsKnown /\ LibraryOK /\ AlertsOK /\ BurstsInv /\ TrailInv /\ MarksOK
  /\ part # "pages" => trail = Null

LEMMA PartsInitially == ReportsInit => PartsInv
<1> SUFFICES ASSUME ReportsInit PROVE PartsInv
  OBVIOUS
<1>1. StoriesInit /\ AlertsInit /\ Init
  BY DEF ReportsInit
<1>2. TrailInv /\ MarksOK /\ trail = Null
  BY <1>1, StoriesInitially DEF StoriesInit, StoriesInv, MarksOK
<1>3. BurstsInv
  BY <1>1, BurstsInitially DEF StoriesInit
<1> QED
  BY <1>1, <1>2, <1>3, KnownInitially, LibraryInitially, AlertsInitially DEF PartsInv

LEMMA NoTrail ==
  ASSUME trail = Null, trail' = Null
  PROVE  TrailInv'
BY DEF TrailInv

LEMMA SameBursts ==
  ASSUME BurstsInv, UNCHANGED <<told, logged, today>>
  PROVE  BurstsInv'
BY DEF BurstsInv, FoundBy, Now

LEMMA SameAlerts ==
  ASSUME AlertsOK, UNCHANGED alertsVars
  PROVE  AlertsOK'
BY DEF AlertsOK, alertsVars

LEMMA SameLibrary ==
  ASSUME LibraryOK, UNCHANGED vars
  PROVE  LibraryOK'
BY LibraryStep

(* What moves the day or the rows moves nothing of the bursts but what they  *)
(* are looked back from.                                                     *)
LEMMA RowsMoveBursts ==
  ASSUME BurstsInv, UNCHANGED alertsVars, Recorded \/ Ended \/ activity_delete \/ DayPasses \/ UNCHANGED <<rows, today>>
  PROVE  BurstsInv'
<1>1. CASE DayPasses
  <2>1. AlertsNext
    BY <1>1 DEF AlertsNext
  <2> QED
    BY <2>1, BurstsStep
<1>2. CASE Recorded \/ Ended \/ activity_delete \/ UNCHANGED <<rows, today>>
  <2>1. UNCHANGED <<told, logged, today>>
    BY <1>2 DEF Recorded, Ended, activity_delete, alertsVars
  <2> QED
    BY <2>1, SameBursts
<1> QED
  BY <1>1, <1>2

LEMMA MarksStep ==
  ASSUME MarksOK, StoriesNext
  PROVE  MarksOK'
<1>1. ASSUME NEW who \in Markers, NEW its \in SUBSET Episodes, NEW seen \in BOOLEAN, mark_seen(who, its, seen)
      PROVE  MarksOK'
  BY <1>1 DEF mark_seen, MarksOK
<1>2. ASSUME UNCHANGED manual_seen PROVE MarksOK'
  BY <1>2 DEF MarksOK
<1> QED
  BY <1>1, <1>2 DEF StoriesNext, OpenTrail, TurnTrail

LEMMA PartsStep == PartsInv /\ [ReportsNext]_reportsVars => PartsInv'
<1> SUFFICES ASSUME PartsInv, [ReportsNext]_reportsVars PROVE PartsInv'
  OBVIOUS
<1>1. RowsKnown /\ LibraryOK /\ AlertsOK /\ BurstsInv /\ TrailInv /\ MarksOK /\ RowsInv
  BY DEF PartsInv, RowsKnown
<1>2. RowsKnown' /\ RowsInv'
  <2>1. RowsKnown'
    BY <1>1, KnownStep
  <2> QED
    BY <2>1 DEF RowsKnown
<1>3. part' = part
  BY DEF ReportsNext, reportsVars
<1>4. CASE part = "sync" /\ Next /\ UNCHANGED <<storiesVars, incomingVars, alertsVars>>
  <2>1. LibraryOK'
    BY <1>1, <1>4, LibraryStep
  <2>2. UNCHANGED <<rows, today, manual_seen, trail>>
    BY <1>4 DEF storiesVars, pagesVars
  <2>3. trail' = Null /\ trail = Null
    BY <1>4, <2>2 DEF PartsInv
  <2> QED
    BY <1>1, <1>2, <1>3, <1>4, <2>1, <2>2, <2>3, NoTrail, SameAlerts, RowsMoveBursts DEF PartsInv, MarksOK
<1>5. CASE part = "pages" /\ StoriesNext /\ UNCHANGED <<vars, incomingVars, alertsVars>>
  <2>1. TrailInv'
    BY <1>1, <1>5, StoriesStep DEF StoriesInv
  <2>2. MarksOK'
    BY <1>1, <1>5, MarksStep
  <2>3. Recorded \/ Ended \/ activity_delete \/ DayPasses \/ UNCHANGED <<rows, today>>
    BY <1>5 DEF StoriesNext, PagesNext, OpenTrail, TurnTrail, mark_seen, pagesVars
  <2> QED
    BY <1>1, <1>2, <1>3, <1>5, <2>1, <2>2, <2>3, SameAlerts, SameLibrary, RowsMoveBursts DEF PartsInv
<1>6. CASE part = "incoming" /\ IncomingNext /\ UNCHANGED <<vars, manual_seen, trail, alertsVars>>
  <2>1. trail' = Null /\ trail = Null /\ MarksOK'
    BY <1>1, <1>6 DEF PartsInv, MarksOK
  <2> QED
    BY <1>1, <1>2, <1>3, <1>6, <2>1, NoTrail, SameAlerts, SameLibrary, RowsMoveBursts, IncomingMovesRows DEF PartsInv
<1>7. CASE part = "alerts" /\ AlertsNext /\ UNCHANGED <<vars, manual_seen, trail, incomingVars>>
  <2>1. trail' = Null /\ trail = Null /\ MarksOK'
    BY <1>1, <1>7 DEF PartsInv, MarksOK
  <2> QED
    BY <1>1, <1>2, <1>3, <1>7, <2>1, NoTrail, SameLibrary, AlertsStep, BurstsStep DEF PartsInv
<1>8. CASE UNCHANGED reportsVars
  <2>1. UNCHANGED <<rows, today, manual_seen, trail, vars, alertsVars>> /\ UNCHANGED storiesVars
    BY <1>8 DEF reportsVars, storiesVars, pagesVars
  <2>2. TrailInv'
    BY <1>1, <2>1, StoriesStep DEF StoriesInv
  <2> QED
    BY <1>1, <1>2, <1>3, <2>1, <2>2, SameAlerts, SameLibrary, RowsMoveBursts DEF PartsInv, MarksOK
<1> QED
  BY <1>4, <1>5, <1>6, <1>7, <1>8 DEF ReportsNext

LEMMA StoriesTyped == RowsInv /\ TrailInv /\ MarksOK => StoriesTypeOK
<1> SUFFICES ASSUME RowsInv, TrailInv, MarksOK PROVE StoriesTypeOK
  OBVIOUS
<1>1. trail # Null => TrailShape
  BY DEF TrailInv
<1>2. trail # Null => /\ trail.told \in Seq(SUBSET {r.id : r \in PlaysToCome})
                      /\ trail.there \subseteq {r.id : r \in rows}
  BY <1>1 DEF TrailShape, KnownIds, Ids
<1> QED
  BY <1>2 DEF StoriesTypeOK, RowsInv, MarksOK

LEMMA IncomingTyped == RequestsInv /\ HistoryInv => IncomingTypeOK
BY DEF RequestsInv, HistoryInv, IncomingTypeOK, OnePerId, IsLinked

LEMMA AlertsTyped == AlertsOK => AlertsTypeOK
BY DEF AlertsOK, AlertsTypeOK, IsAlert, AlertKinds

(* Each table keeps its shape, whatever happens to it: one request per id,   *)
(* none that was there before it was asked for, one alert per key, the log   *)
(* of downloads within what happened, no item in two libraries.              *)
THEOREM ReportsTyped == ReportsSpec => []ReportsTypeOK
<1>1. PartsInv => ReportsTypeOK
  BY LibraryTyped, StoriesTyped, IncomingTyped, AlertsTyped DEF PartsInv, RowsKnown, ReportsTypeOK
<1> QED
  BY PartsInitially, PartsStep, <1>1, PTL DEF ReportsSpec

(* The timeline and the bursts of failed sign-ins keep their word also where *)
(* they are one of several.                                                  *)
THEOREM PartsKeepTheirWord == ReportsSpec => [](TimelineIsWhole /\ BurstsApart)
<1>1. PartsInv => TimelineIsWhole /\ BurstsApart
  BY ToldAsPromised, BurstsAreApart DEF PartsInv, RowsKnown, StoriesInv
<1> QED
  BY PartsInitially, PartsStep, <1>1, PTL DEF ReportsSpec
=============================================================================
