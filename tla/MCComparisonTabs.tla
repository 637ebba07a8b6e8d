-------------------------- MODULE MCComparisonTabs --------------------------
(* Three or four registered members, where a wide tab shows three and the  *)
(* spec tab two; the author is late in the table, or not registered.       *)
EXTENDS ComparisonTabs, TLC

CONSTANTS k1, k2

Row(u, o, level) == [user |-> u, ocid |-> o, nick |-> IF u = "u3" THEN "three" ELSE "other", level |-> level, created |-> 0]
MCUser == {"u1", "u2", "u3", "u4", "new"}
MCOcid == {"o1", "o2", "o3", "o4", "o5"}
MCNick == {"three", "stranger", "other"}
Three == <<Row("u1", "o1", 100), Row("u2", "o2", 90), Row("u3", "o3", 80), Row("u3", "o5", -1)>>
Four == <<Row("u1", "o1", 100), Row("u2", "o2", 90), Row("u4", "o4", 70), Row("u3", "o3", 80)>>
Mine == <<Row("u3", "o3", 80), Row("u1", "o1", 100), Row("u3", "o5", 85), Row("u3", "o4", 70)>>
Unpinned == [u \in MCUser |-> NoPin]

Fine(level) ==
  [basic |-> None, power |-> level, days |-> <<level + 1>>, union |-> <<level, 0>>, champion |-> None, item |-> None]
Rising == ("o1" :> Fine(1)) @@ ("o2" :> Fine(2)) @@ ("o3" :> Fine(3)) @@ ("o4" :> Fine(4)) @@ ("o5" :> Fine(0))
(* Late: nothing of yesterday is ready, and two characters fail. *)
Late == [o \in MCOcid |->
           [Rising[o] EXCEPT !.days = <<NotReady>>, !.union = <<NotReady, IF o = "o1" THEN NotReady ELSE 1>>,
                             !.basic = IF o = "o2" THEN Raised ELSE None,
                             !.item = IF o \in {"o3", "o5"} THEN Raised ELSE None]]
Given(tab, table, author, users, names, answers) ==
  [tab |-> tab, slot |-> IF tab = "item" THEN "cap" ELSE NoSlot, solo |-> FALSE, table |-> table,
   pin |-> Unpinned, author |-> author, users |-> users, names |-> names, answers |-> answers]
Alone(tab, names) == [Given(tab, Mine, "u3", <<>>, names, {Rising, Late}) EXCEPT !.solo = TRUE]

MCCalls == <<
  Given("spec", Four, "u3", <<>>, <<>>, {Rising}), Given("union", Three, "new", <<>>, <<>>, {Late}),
  [Given("item", Three, "u3", <<>>, <<>>, {Rising}) EXCEPT !.pin["u3"] = "o5"],
  Given("item", Three, "u3", <<"new">>, <<"stranger">>, {Late}),
  Given("item", <<>>, "new", <<>>, <<>>, {}), Given("union", Three, "u1", <<"u3", "u3">>, <<>>, {}),
  Given("spec", Three, "u1", <<"u2">>, <<"three", "three", "stranger">>, {}),
  Alone("spec", <<>>), Alone("item", <<"o5", "o2", "o5">>)>>
=============================================================================
