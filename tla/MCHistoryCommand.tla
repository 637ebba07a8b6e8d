-------------------------- MODULE MCHistoryCommand --------------------------
(* Five members: two with a readable key, one without, one who left the    *)
(* server and one whose key is unreadable.  Four stars, of which those     *)
(* from the second on may destroy; an item is back at the second then.     *)
EXTENDS HistoryCommand, TLC

CONSTANTS ann, bob, keyless, gone, lost, k1, k2

MCSymmetry == Permutations({k1, k2})

MCItem == {"hat", "cape", "ring", "sword", "rag"}
MCSetLevel == [i \in MCItem |-> IF i = "hat" THEN 200 ELSE 0]
MCSeedLevel == [i \in MCItem |-> IF i = "rag" THEN 90 ELSE 0]
MCProb == 0 :> <<10, 10, 0>> @@ 1 :> <<10, 10, 0>> @@ 2 :> <<6, 4, 10>> @@ 3 :> <<5, 5, 10>>
MCPrice == [l \in {90, 150, 200} |-> [s \in 0 .. 3 |-> s + 1]]
MCResetPrice == [k \in Kind |-> [br \in {1, 160, 200, 250} |-> [gr \in 1 .. 4 |-> gr]]]

Nothing == [i \in MCItem |-> 0]
Of(key, present, worn) ==
  [rows |-> "characters", key |-> key, present |-> present, equipped |-> worn]
MCInfo == ann :> Of("good", TRUE, [Nothing EXCEPT !["sword"] = 150]) @@ bob :> Of("good", TRUE, Nothing)
  @@ keyless :> Of("none", TRUE, Nothing) @@ gone :> Of("good", FALSE, Nothing) @@ lost :> Of("lost", TRUE, Nothing)

Attempt(char, item, before, after, at, effects) ==
  [char |-> char, item |-> item, before |-> before, after |-> after, at |-> at,
   scroll |-> FALSE, events |-> {[stars |-> {3}, effects |-> effects]}]

(* A climb that fell and came back, during an event, one that went on      *)
(* without, what is excluded, and with a scroll in it.                     *)
Fell == {Attempt("c1", "sword", 2, 3, 1, {}), Attempt("c1", "sword", 3, 2, 2, {"destroy", "cost"}),
         Attempt("c1", "sword", 2, 3, 3, {}), Attempt("c1", "rag", 3, 4, 4, {}),
         Attempt("c2", "sword", 1, 2, 5, {})}
Rose == {Attempt("c1", "hat", 3, 4, 1, {}), Attempt("c1", "cape", 0, 1, 2, {}),
         [Attempt("c1", "hat", 0, 4, 3, {}) EXCEPT !.scroll = TRUE]}
Unknown == {Attempt("c1", "cape", 2, 3, 1, {}), Attempt("c1", "sword", 2, 3, 1, {})}
MCAttempts == ann :> {Fell} @@ bob :> {Rose, Unknown} @@ keyless :> {} @@ gone :> {} @@ lost :> {}

Roll(cube, kind, level, before, grade) ==
  [cube |-> cube, kind |-> kind, level |-> level, success |-> TRUE, special |-> FALSE,
   before |-> [pot |-> before, add |-> {1}], grade |-> [pot |-> grade, add |-> 1]]
MCRolls == ann :> {{Roll(TRUE, "add", 200, {2, 3}, 3), Roll(FALSE, "pot", 130, {0}, 4)},
                 {[Roll(TRUE, "pot", 250, {3}, 4) EXCEPT !.special = TRUE]}}
  @@ bob :> {} @@ keyless :> {} @@ gone :> {} @@ lost :> {}

ByOne(k, u, named) == [kind |-> k, author |-> u, named |-> named]
(* Two options name the one who left, and two name ann. *)
MCGiven == {ByOne("starforce", bob, <<>>),
            ByOne("starforce", keyless, <<ann, gone, ann, keyless, gone>>),
            ByOne("potential", bob, <<ann, keyless>>)}
=============================================================================
