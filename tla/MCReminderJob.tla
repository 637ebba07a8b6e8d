--------------------------- MODULE MCReminderJob ---------------------------
(* Two members, the second with a key that cannot be read; two characters, *)
(* of which the first has nothing beside what its member hides.            *)
EXTENDS ReminderJob, TLC

CONSTANTS m1, m2, c1, c2, k1, k2

AContent(name, now, max, type, quest) ==
  [name |-> name, now |-> now, max |-> max, type |-> type, quest |-> quest, registered |-> TRUE]
ABoss(name, complete, cycle) ==
  [name |-> name, complete |-> complete, cycle |-> cycle, registered |-> TRUE]

(* A card as large as its estimate is small: a boss of each cycle.  A quest *)
(* that is locked and a content nobody registered are no homework.         *)
Full ==
  [daily |-> {AContent("quest1", 0, 0, "quest", "1"), AContent("park", 1, 2, "contents", "")},
   weekly |-> {AContent("quest1", 0, 0, "quest", "0"), AContent("quest2", 0, 0, "quest", "2"),
               AContent("park", 1, 1, "contents", ""),
               [AContent("visit", 0, 1, "contents", "") EXCEPT !.registered = FALSE]},
   boss |-> {ABoss("boss1", FALSE, "bossWeekly"), ABoss("boss2", TRUE, "bossDaily"),
             ABoss("boss3", FALSE, "bossMonthly"), ABoss("boss4", FALSE, "")},
   challengers |-> TRUE]
MCAnswer ==
  (c1 :> {Full})
  @@ (c2 :> {[Full EXCEPT !.weekly = @ \cup {AContent("guild1", 0, 0, "contents", "")}]})

Hide(buckets) == [b \in Bucket |-> IF b \in buckets THEN "off" ELSE "unset"]
MCChoices == {Hide({"guild"})}

MCCaller == [k \in {k1, k2} |-> m1]
MCOwned == (m1 :> {c1, c2}) @@ (m2 :> {c2})
MCStored == {(m1 :> [hour |-> 1, excluded |-> <<"daily", "weekly", "boss">>])
              @@ (m2 :> [hour |-> 1, excluded |-> <<"boss">>])}
MCKeys == {(m1 :> "good") @@ (m2 :> "lost")}

MCName == {"quest1", "quest2", "park", "visit", "guild1", "boss1", "boss2",
           "boss3", "boss4"}
=============================================================================
