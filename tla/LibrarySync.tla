----------------------------- MODULE LibrarySync ----------------------------
(***************************************************************************)
(* `sync_libraries`: the library as finstats keeps it, read from Jellyfin  *)
(* page by page, and the guard that refuses to believe a broken read.      *)
(*                                                                         *)
(* The task reads the list of libraries, then per library the items in     *)
(* pages, then the cast and crew of its films and shows in pages of their  *)
(* own, and marks removed what it has not seen.  Each page is a request of *)
(* its own: Jellyfin changes in between, answers a page with nothing in it *)
(* (which is what anything that cannot be parsed becomes), or does not     *)
(* answer.  A read that is refused halts the process.                      *)
(*                                                                         *)
(* `updated_at < started` is "not seen by this pass": a pass is taken to   *)
(* begin in a later second than the one in which the last one ended.  What *)
(* is stored of an item is its library and whether it is there.            *)
(*                                                                         *)
(* A definition whose name ends in _slip is the one below it with a        *)
(* mistake in it.  No action uses it: it is there to see that the          *)
(* properties notice.                                                      *)
(***************************************************************************)
EXTENDS Integers, Sequences, FiniteSets, SequencesExt

CONSTANTS
  Libs,         \* libraries that are neither collections nor playlists
  Items,
  Titles,       \* the items that are films or shows
  Page,         \* PAGE
  EmptyFloor,   \* EMPTY_FLOOR
  WipeFloor,    \* WIPE_FLOOR
  Share,        \* a twentieth, in `trustworthy_removal`
  AllowShrink,  \* FINSTATS_ALLOW_LIBRARY_SHRINK
  NoRow, NoLib,
  (* the bounds of the model *)
  MaxChanges,   \* what happens in Jellyfin
  MaxBroken,    \* answers that are empty and should not be
  MaxErrors,    \* requests and writes that fail
  MaxStops      \* how often the process is stopped or halts

ASSUME LibraryAssumption ==
  /\ IsFiniteSet(Libs) /\ IsFiniteSet(Items)
  /\ Titles \subseteq Items
  /\ Page \in Nat \ {0} /\ Share \in Nat \ {0}
  /\ EmptyFloor \in Nat /\ WipeFloor \in Nat
  /\ AllowShrink \in BOOLEAN
  /\ NoLib \notin Libs
  /\ MaxChanges \in Nat /\ MaxBroken \in Nat /\ MaxErrors \in Nat /\ MaxStops \in Nat

VARIABLES
  (* Jellyfin *)
  listed,    \* the libraries it has
  jf,        \* the items of each, oldest first
  (* the tables *)
  libraries, \* what is known of each: nothing, kept or removed
  items,
  fresh,     \* the rows this pass has written: updated_at >= started
  (* the task *)
  pc,
  todo,      \* libraries still to be read
  lib,       \* the one being read
  start,     \* how many of its items have been read
  people,    \* how many of its films and shows have been read
  (* history *)
  stayed,    \* what was in `lib` all the while it is read, if nothing left it and no
             \* answer was broken
  spent      \* how much of each bound is used

jellyfin == <<listed, jf>>
tables   == <<libraries, items, fresh>>
task     == <<pc, todo, lib, start, people>>
vars     == <<listed, jf, libraries, items, fresh, pc, todo, lib, start, people, stayed, spent>>

Row == [lib : Libs, removed : BOOLEAN]

ASSUME NoRowAssumption == NoRow \notin Row

Bound == [changes |-> MaxChanges, broken |-> MaxBroken, errors |-> MaxErrors, stops |-> MaxStops]

TypeOK ==
  /\ listed \subseteq Libs
  /\ jf \in [Libs -> Seq(Items)]
  /\ \A l \in Libs : IsInjective(jf[l])
  /\ \A l, m \in Libs : l # m => ToSet(jf[l]) \cap ToSet(jf[m]) = {}
  /\ libraries \in [Libs -> {"unknown", "kept", "removed"}]
  /\ items \in [Items -> Row \cup {NoRow}]
  /\ fresh \subseteq {i \in Items : items[i] # NoRow /\ ~items[i].removed}
  /\ pc \in {"down", "idle", "folders", "items", "people", "remove", "link", "halted"}
  /\ todo \subseteq Libs
  /\ lib \in Libs \cup {NoLib}
  /\ (pc \in {"items", "people", "remove"}) <=> (lib # NoLib)
  /\ start \in 0..Cardinality(Items) /\ people \in 0..Cardinality(Items)
  /\ stayed \subseteq Items
  /\ \A b \in DOMAIN Bound : spent[b] \in 0..Bound[b]

Init ==
  /\ listed = Libs
  /\ jf \in {f \in [Libs -> {SetToSeq(S) : S \in SUBSET Items}] :
               /\ \A l, m \in Libs : l # m => ToSet(f[l]) \cap ToSet(f[m]) = {}
               /\ UNION {ToSet(f[l]) : l \in Libs} = Items}
  /\ libraries = [l \in Libs |-> "unknown"]
  /\ items = [i \in Items |-> NoRow]
  /\ fresh = {}
  /\ pc = "idle" /\ todo = {} /\ lib = NoLib /\ start = 0 /\ people = 0
  /\ stayed = {}
  /\ spent = [b \in DOMAIN Bound |-> 0]

Spend(b) == spent[b] < Bound[b] /\ spent' = [spent EXCEPT ![b] = @ + 1]

-----------------------------------------------------------------------------
(* Jellyfin. *)

(* A change in library l; a passing item shifts what comes after it to an   *)
(* earlier page.                                                            *)
Changes(l) == Spend("changes") /\ UNCHANGED <<tables, task>> /\ stayed' = IF l = lib THEN {} ELSE stayed

Leaves(i) == \E l \in listed : \E k \in DOMAIN jf[l] :
  /\ jf[l][k] = i
  /\ jf' = [jf EXCEPT ![l] = RemoveAt(@, k)]
  /\ Changes(l)
  /\ UNCHANGED listed

Arrives(i) == \E l \in listed :
  /\ \A m \in Libs : ~Contains(jf[m], i)
  /\ jf' = [jf EXCEPT ![l] = Append(@, i)]
  /\ Spend("changes")
  /\ UNCHANGED <<listed, tables, task, stayed>>

Unlists(l) ==
  /\ l \in listed
  /\ listed' = listed \ {l}
  /\ jf' = [jf EXCEPT ![l] = <<>>]
  /\ Changes(l)

Relists(l) ==
  /\ l \in Libs \ listed
  /\ listed' = listed \cup {l}
  /\ Spend("changes")
  /\ UNCHANGED <<jf, tables, task, stayed>>

-----------------------------------------------------------------------------
(* Whether a read is a basis for removing what it did not return. *)

Trustworthy(seen, current) ==
  \/ current <= 0
  \/ seen = 0 /\ current < EmptyFloor
  \/ seen > 0 /\ ~(current - seen >= WipeFloor /\ seen * Share < current)

WholeSetVanished(seen, current) == current > 0 /\ seen = 0

Held(l) == {i \in Items : items[i] # NoRow /\ items[i].lib = l /\ ~items[i].removed}

-----------------------------------------------------------------------------
(* The task. *)

(* `Tasks::try_start`: nothing when it is running already. *)
Begin ==
  /\ pc = "idle"
  /\ pc' = "folders"
  /\ fresh' = {}
  /\ UNCHANGED <<jellyfin, libraries, items, todo, lib, start, people, stayed, spent>>

Rest(to) ==
  /\ pc' = to
  /\ todo' = {} /\ lib' = NoLib /\ start' = 0 /\ people' = 0 /\ stayed' = {}

(* `request_halt`: the serve loop ends, the process exits with the reason.  *)
Halt == Rest("halted")

(* The next library of the list, or the end of the pass. *)
NextLibrary(left) ==
  /\ start' = 0 /\ people' = 0
  /\ \/ /\ left = {}
        /\ pc' = "link" /\ lib' = NoLib /\ todo' = {} /\ stayed' = {}
     \/ \E l \in left : /\ pc' = "items" /\ lib' = l /\ todo' = left \ {l}
                        /\ stayed' = ToSet(jf[l])

(* Upsert what was listed, then mark the others.                             *)
Relabelled(seen) ==
  [l \in Libs |-> CASE l \in seen -> "kept"
                     [] l \notin seen /\ libraries[l] = "kept" -> "removed"
                     [] OTHER -> libraries[l]]

Known == {l \in Libs : libraries[l] = "kept"}

MarkLibraries_slip(seen) == libraries' = Relabelled(seen)   \* any list is as good as another

(* One transaction, rolled back when the whole set has vanished.             *)
MarkLibraries(seen) ==
  /\ AllowShrink \/ ~WholeSetVanished(Cardinality(seen), Cardinality(Known \cup seen))
  /\ libraries' = Relabelled(seen)

(* What Jellyfin answers when it is asked for a list: the list, or nothing. *)
Answered(truth, got, nothing) ==
  \/ got = truth /\ UNCHANGED spent
  \/ got = nothing /\ truth # nothing /\ Spend("broken")

ReadFolders ==
  /\ pc = "folders"
  /\ \E seen \in {listed, {}} :
       /\ Answered(listed, seen, {})
       /\ MarkLibraries(seen)
       /\ NextLibrary(seen)
  /\ UNCHANGED <<jellyfin, items, fresh>>

RefuseFolders ==
  /\ pc = "folders"
  /\ ~AllowShrink
  /\ WholeSetVanished(0, Cardinality(Known))
  /\ Answered(listed, {}, {})
  /\ Halt
  /\ UNCHANGED <<jellyfin, tables>>

Upserted_slip(page) ==   \* one that comes back stays removed
  [i \in Items |-> IF i \notin ToSet(page) THEN items[i]
                   ELSE [lib |-> lib, removed |-> items[i] # NoRow /\ items[i].removed]]

Upserted(page) ==
  [i \in Items |-> IF i \in ToSet(page) THEN [lib |-> lib, removed |-> FALSE] ELSE items[i]]

PageOf(s, from) == SubSeq(s, from + 1, IF from + Page < Len(s) THEN from + Page ELSE Len(s))

LastPage_slip(page) == Len(page) <= Page   \* one page is the library
LastPage(page) == Len(page) < Page

(* A page of items; a short one is the last. *)
ReadItems ==
  /\ pc = "items"
  /\ \E page \in {PageOf(jf[lib], start), <<>>} :
       /\ Answered(PageOf(jf[lib], start), page, <<>>)
       /\ stayed' = IF page = PageOf(jf[lib], start) THEN stayed ELSE {}
       /\ items' = Upserted(page)
       /\ fresh' = fresh \cup ToSet(page)
       /\ start' = start + Len(page)
       /\ pc' = IF LastPage(page) THEN "people" ELSE "items"
  /\ UNCHANGED <<jellyfin, libraries, todo, lib, people>>

TitlesOf(l) == ToSet(jf[l]) \cap Titles

(* How many the next page of them has. *)
PeopleOnPage ==
  LET left == Cardinality(TitlesOf(lib)) - people
  IN  IF left > Page THEN Page ELSE IF left > 0 THEN left ELSE 0

(* A page of films and shows with their people, whom nothing here depends   *)
(* on.  A read that fails ends this part and nothing else.                  *)
ReadPeople ==
  /\ pc = "people"
  /\ \/ \E n \in {PeopleOnPage, 0} :
          /\ Answered(PeopleOnPage, n, 0)
          /\ people' = people + n
          /\ pc' = IF n < Page THEN "remove" ELSE "people"
     \/ /\ Spend("errors")
        /\ pc' = "remove"
        /\ UNCHANGED people
  /\ UNCHANGED <<jellyfin, tables, todo, lib, start, stayed>>

(* `let seen = start`, where the `start` in scope is the one of the loop     *)
(* over people.                                                              *)
Seen == people

MarkItems == [i \in Items |-> IF i \in Held(lib) \ fresh
                              THEN [items[i] EXCEPT !.removed = TRUE] ELSE items[i]]

RemoveUnseen ==
  /\ pc = "remove"
  /\ AllowShrink \/ Trustworthy(Seen, Cardinality(Held(lib)))
  /\ items' = MarkItems
  /\ NextLibrary(todo)
  /\ UNCHANGED <<jellyfin, libraries, fresh, spent>>

RefuseItems ==
  /\ pc = "remove"
  /\ ~AllowShrink /\ ~Trustworthy(Seen, Cardinality(Held(lib)))
  /\ Halt
  /\ UNCHANGED <<jellyfin, tables, spent>>

(* Plays get the library they lacked and the time of this pass is noted.     *)
Link ==
  /\ pc = "link"
  /\ Rest("idle")
  /\ UNCHANGED <<jellyfin, tables, spent>>

(* A request or a write that fails ends the pass: `Tasks::finish` with the   *)
(* error.  Pages already written stay written.                               *)
Fails ==
  /\ pc \in {"folders", "items", "people", "remove", "link"}
  /\ Spend("errors")
  /\ Rest("idle")
  /\ UNCHANGED <<jellyfin, tables>>

Killed ==
  /\ pc \notin {"down", "halted"}
  /\ Spend("stops")
  /\ Rest("down")
  /\ UNCHANGED <<jellyfin, tables>>

Restarted ==
  /\ \/ pc = "down" /\ UNCHANGED spent
     \/ pc = "halted" /\ Spend("stops")
  /\ Rest("idle")
  /\ UNCHANGED <<jellyfin, tables>>

Work == \/ ReadFolders \/ RefuseFolders \/ ReadItems \/ ReadPeople
        \/ RemoveUnseen \/ RefuseItems \/ Link \/ Fails

Next ==
  \/ \E i \in Items : Leaves(i) \/ Arrives(i)
  \/ \E l \in Libs : Unlists(l) \/ Relists(l)
  \/ Begin
  \/ Work
  \/ Killed
  \/ Restarted

(* A pass that has begun is carried on, and there is always another one: the *)
(* scheduler's timer, or once a week its safety net.                         *)
Fairness == WF_vars(Begin) /\ WF_vars(Work) /\ WF_vars(pc = "down" /\ Restarted)

Spec == Init /\ [][Next]_vars /\ Fairness

-----------------------------------------------------------------------------
(* Properties *)

(* "Not seen" is proof of removal: when nothing left a library while it was  *)
(* read and every answer was what Jellyfin had, what was there all along is  *)
(* not marked, and neither is anything of another library.                   *)
Marked == {i \in Items : items[i] # NoRow /\ ~items[i].removed /\ items'[i].removed}

ProofOfRemoval ==
  [][Marked \subseteq Held(lib) \ stayed]_vars

(* The libraries finstats knows are never all gone at once ("you do not lose *)
(* every library at once").                                                  *)
NeverAllAtOnce == [][Known # {} => Known' # {}]_vars

(* Once Jellyfin stops changing and answers, finstats has what Jellyfin has, *)
(* whatever was missed, broken or interrupted before, unless it has halted.  *)
Agrees ==
  /\ listed \subseteq Known
  /\ listed # {} => Known \subseteq listed
  /\ \A l \in listed : Held(l) = ToSet(jf[l])

EventuallyAgrees == <>[](pc = "halted" \/ Agrees)

(* Whether what was not seen may be removed is judged by how many items this *)
(* pass saw ("`start` is how many items this pass actually saw; if that is a *)
(* fraction of what finstats holds, the read is broken", sync.rs:575).       *)
JudgedByWhatItSaw ==
  [][pc = "remove" =>
       /\ pc' = "halted" => ~Trustworthy(start, Cardinality(Held(lib)))
       /\ pc' \in {"items", "link"} => Trustworthy(start, Cardinality(Held(lib)))]_vars
=============================================================================
