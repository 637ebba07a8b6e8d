-------------------------- MODULE ManageHubProofs --------------------------
(***************************************************************************)
(* Theorems about ManageHub, for any set of characters, any page size, cap *)
(* and number of clicks under way.                                         *)
(***************************************************************************)
EXTENDS ManageHub, FiniteSetTheorems, TLAPS

(* A view that may follow the present one: its picks fit what it knows, and *)
(* a hub has none.                                                         *)
Fit(v) ==
  /\ v \in View
  /\ v.kind = view.kind
  /\ v.kind = "hub" => v.picked = {}
  /\ v.picked \subseteq Candidates(v.known)
  /\ Cardinality(v.picked) <= Room(v.known)

(* No component of a hub picks for import. *)
OfferedTo(kind, c) == kind = "hub" => c.on # "pickImport"

Inv ==
  /\ TypeOK
  /\ Fit(view)
  /\ \A c \in screen : OfferedTo(view.kind, c)
  /\ \A i \in 1..Len(clicks) : OfferedTo(view.kind, clicks[i])
  /\ view.pending # {} => ~spent
  /\ act.stage = "idle" => act.targets = {}

-----------------------------------------------------------------------------
(* What the operators of a view return *)

LEMMA Finite ==
  ASSUME NEW s \in SUBSET Ocid
  PROVE  IsFiniteSet(s) /\ Cardinality(s) \in Nat
BY HubAssumption, FS_Subset, FS_CardinalityType

LEMMA RoomType ==
  ASSUME NEW known \in SUBSET Ocid
  PROVE  Room(known) \in Nat
BY Finite, HubAssumption DEF Room

LEMMA PageItemsType ==
  ASSUME NEW v \in View
  PROVE  PageItems(v) \subseteq Candidates(v.known) /\ Candidates(v.known) \subseteq Ocid
BY HubAssumption DEF PageItems, Candidates

(* As many as there is room for, whatever n is. *)
LEMMA FirstOfFits ==
  ASSUME NEW s \in SUBSET Ocid, NEW n \in Int, NEW t \in FirstOf(s, n)
  PROVE  t \subseteq s /\ Cardinality(t) <= n
BY Finite DEF FirstOf

LEMMA UnionBound ==
  ASSUME NEW s \in SUBSET Ocid, NEW t \in SUBSET Ocid
  PROVE  Cardinality(s \cup t) <= Cardinality(s) + Cardinality(t)
<1>1. Cardinality(s \cup t) = Cardinality(s) + Cardinality(t) - Cardinality(s \cap t)
  BY Finite, FS_Union
<1>2. Cardinality(s \cap t) \in Nat /\ Cardinality(s) \in Nat /\ Cardinality(t) \in Nat
  BY Finite
<1> QED BY <1>1, <1>2

(* The clicks of a screen are clicks, and a hub offers none for an import. *)
LEMMA DrawnType ==
  ASSUME NEW v \in View
  PROVE  Drawn(v) \subseteq Click /\ \A c \in Drawn(v) : OfferedTo(v.kind, c)
<1> DEFINE home == Component \ {"pickImport"}
<1>1. ASSUME NEW names \in SUBSET home
      PROVE  Buttons(names) \subseteq Click /\ \A c \in Buttons(names) : c.on # "pickImport"
  BY <1>1 DEF Buttons, Button, Click
<1>2. ASSUME NEW on \in Component, NEW s \in SUBSET Ocid
      PROVE  Selects(on, s) \subseteq Click /\ \A c \in Selects(on, s) : c.on = on
  BY <1>2 DEF Selects, Click
<1>3. CASE v.mode = "home" /\ v.kind = "hub"
  <2> DEFINE names == (IF v.hasKey THEN {"sync", "key"} ELSE {})
                      \cup (IF v.known # {} THEN {"select", "representative"} ELSE {})
  <2>1. names \in SUBSET home
    BY DEF Component
  <2>2. Drawn(v) = Buttons(names)
    BY <1>3 DEF Drawn, HomeOfHub
  <2> HIDE DEF names
  <2> QED BY <1>1, <2>1, <2>2, <1>3 DEF OfferedTo
<1>4. CASE v.mode = "home" /\ v.kind # "hub"
  <2> DEFINE names == {"leave"}
             \cup (IF v.picked # {} THEN {"confirmImport"} ELSE {})
             \cup (IF Missing(v.known) # {} THEN {"select"} ELSE {})
             \cup (IF PageItems(v) # {} /\ v.page # 0 THEN {"prev"} ELSE {})
             \cup (IF PageItems(v) # {} /\ v.page < Pages(v.known) - 1 THEN {"next"} ELSE {})
  <2>1. names \in SUBSET home
    BY DEF Component
  <2>2. Drawn(v) \subseteq Buttons(names) \cup Selects("pickImport", PageItems(v))
    BY <1>4 DEF Drawn, HomeOfSync
  <2>3. Buttons(names) \subseteq Click
    <3> HIDE DEF names
    <3> QED BY <1>1, <2>1
  <2>4. Selects("pickImport", PageItems(v)) \subseteq Click
    BY <1>2, PageItemsType DEF Component
  <2> QED BY <2>2, <2>3, <2>4, <1>4 DEF OfferedTo
<1>5. CASE v.mode = "select"
  <2>1. Deletable(v) \in SUBSET Ocid
    BY DEF Deletable, Missing, View
  <2>2. Drawn(v) \subseteq Buttons({"cancel"}) \cup Selects("pickDelete", Deletable(v))
    BY <1>5 DEF Drawn
  <2>3. {"cancel"} \in SUBSET home /\ "pickDelete" \in Component
    BY DEF Component
  <2> QED BY <1>1, <1>2, <2>1, <2>2, <2>3 DEF OfferedTo
<1>6. CASE v.mode \in {"confirmDelete", "representative", "confirmKey"}
  <2>1. PICK names \in SUBSET home : Drawn(v) = Buttons(names)
    <3>1. /\ {"cancel", "confirmDelete"} \in SUBSET home
          /\ {"cancel", "pickRepresentative"} \in SUBSET home
          /\ {"cancel", "confirmKey"} \in SUBSET home
      BY DEF Component
    <3> QED BY <1>6, <3>1 DEF Drawn
  <2> QED BY <1>1, <2>1 DEF OfferedTo
<1> QED BY <1>3, <1>4, <1>5, <1>6 DEF View, Mode

-----------------------------------------------------------------------------
(* The inductive invariant *)

(* What a step must show to keep the invariant, whichever it is. *)
LEMMA StepInv ==
  ASSUME Inv,
         rows' \subseteq Ocid, hasKey' \in BOOLEAN, over' \in BOOLEAN, spent' \in BOOLEAN,
         Fit(view'), view'.pending # {} => ~spent',
         busy' \in BOOLEAN, act' \in Acting, busy' <=> act'.stage # "idle",
         act'.stage = "idle" => act'.targets = {},
         screen' \in {screen, Drawn(view'), {}},
         \/ clicks' = clicks
         \/ clicks # <<>> /\ clicks' = Tail(clicks)
         \/ \E c \in screen : clicks' = Append(clicks, c)
  PROVE  Inv'
<1>1. view' \in View /\ view'.kind = view.kind
  BY DEF Fit
<1>2. screen' \subseteq Click /\ \A c \in screen' : OfferedTo(view'.kind, c)
  BY <1>1, DrawnType DEF Inv, TypeOK
<1>3. clicks' \in Seq(Click) /\ \A i \in 1..Len(clicks') : OfferedTo(view'.kind, clicks'[i])
  <2>1. clicks \in Seq(Click) /\ \A i \in 1..Len(clicks) : OfferedTo(view.kind, clicks[i])
    BY DEF Inv, TypeOK
  <2>2. CASE clicks' = clicks
    BY <2>1, <2>2, <1>1
  <2>3. CASE clicks # <<>> /\ clicks' = Tail(clicks)
    BY <2>1, <2>3, <1>1
  <2>4. CASE \E c \in screen : clicks' = Append(clicks, c)
    <3>1. PICK c \in screen : clicks' = Append(clicks, c)
      BY <2>4
    <3>2. c \in Click /\ OfferedTo(view.kind, c)
      BY DEF Inv, TypeOK
    <3> QED BY <2>1, <3>1, <3>2, <1>1
  <2> QED BY <2>2, <2>3, <2>4
<1>4. TypeOK'
  BY <1>1, <1>2, <1>3 DEF TypeOK
<1>5. Fit(view)'
  BY DEF Fit, Candidates, Room
<1> QED BY <1>2, <1>3, <1>4, <1>5 DEF Inv

(* A view that knows the same and picks the same fits as well. *)
LEMMA StillFit ==
  ASSUME Inv, NEW v \in View,
         v.kind = view.kind, v.known = view.known, v.picked = view.picked
  PROVE  Fit(v)
BY DEF Inv, Fit

LEMMA FewerFit ==
  ASSUME Inv, NEW v \in View,
         v.kind = view.kind, v.known = view.known, v.picked = {}
  PROVE  Fit(v)
<1>1. Cardinality({}) = 0
  BY FS_EmptySet
<1>2. Room(view.known) \in Nat
  BY RoomType DEF Inv, TypeOK, View
<1> QED BY <1>1, <1>2 DEF Inv, Fit

(* The answer to a click that redraws the view. *)
LEMMA ShowInv ==
  ASSUME Inv, NEW v, Fit(v), Show(v), NEW on, Turn(on),
         spent' \in BOOLEAN, v.pending # {} => ~spent'
  PROVE  Inv'
<1>1. /\ view' = v /\ screen' \in {screen, Drawn(v), {}}
      /\ UNCHANGED <<rows, hasKey, busy, act, over>>
      /\ clicks # <<>> /\ clicks' = Tail(clicks)
  BY DEF Show, Turn, Sent
<1> QED BY <1>1, StepInv DEF Inv, TypeOK

(* The answer to a click that starts an action, or finds one at work. *)
LEMMA ActInv ==
  ASSUME Inv, NEW v, Fit(v), NEW on \in Component, NEW targets \in SUBSET Ocid,
         Act(v, on, targets), Turn(on),
         spent' \in BOOLEAN, v.pending # {} => ~spent'
  PROVE  Inv'
<1>1. /\ view' = v /\ busy' = TRUE
      /\ UNCHANGED <<rows, hasKey, screen, over>>
      /\ clicks # <<>> /\ clicks' = Tail(clicks)
  BY DEF Act, Turn
<1>2. act' \in Acting /\ act'.stage # "idle"
  BY DEF Act, Inv, TypeOK, Acting
<1> QED BY <1>1, <1>2, StepInv DEF Inv, TypeOK

(* The click to be answered. *)
LEMMA HeadFacts ==
  ASSUME Inv, NEW on, Turn(on)
  PROVE  Values \in SUBSET Ocid /\ OfferedTo(view.kind, Head(clicks)) /\ Head(clicks).on = on
<1>1. clicks \in Seq(Click) /\ clicks # <<>> /\ \A i \in 1..Len(clicks) : OfferedTo(view.kind, clicks[i])
  BY DEF Inv, TypeOK, Turn
<1>2. Head(clicks) \in Click /\ Head(clicks) = clicks[1] /\ 1 \in 1..Len(clicks)
  BY <1>1
<1> QED BY <1>1, <1>2 DEF Turn, Values, Click

LEMMA CancelInv ==
  ASSUME Inv, Cancel
  PROVE  Inv'
<1> DEFINE v == [Home(view) EXCEPT !.pending = {}]
<1>1. v \in View /\ v.kind = view.kind /\ v.known = view.known
      /\ v.picked = view.picked /\ v.pending = {}
  BY DEF Inv, TypeOK, View, Home, Mode
<1>2. Turn("cancel") /\ Show(v) /\ spent' = spent
  BY DEF Cancel
<1> HIDE DEF v
<1> QED BY <1>1, <1>2, StillFit, ShowInv DEF Inv, TypeOK

LEMMA OpenInv ==
  ASSUME Inv, NEW on, NEW mode \in Mode, Open(on, mode)
  PROVE  Inv'
<1> DEFINE v == [view EXCEPT !.mode = mode]
<1>1. v \in View /\ v.kind = view.kind /\ v.known = view.known
      /\ v.picked = view.picked /\ v.pending = view.pending
  BY DEF Inv, TypeOK, View
<1>2. Turn(on) /\ Show(v) /\ spent' = spent
  BY DEF Open
<1> HIDE DEF v
<1> QED BY <1>1, <1>2, StillFit, ShowInv DEF Inv, TypeOK

LEMMA PickDeleteInv ==
  ASSUME Inv, PickDelete
  PROVE  Inv'
<1> DEFINE v == [view EXCEPT !.mode = "confirmDelete", !.pending = Values]
<1>1. Turn("pickDelete") /\ Show(v) /\ spent' = FALSE
  BY DEF PickDelete
<1>2. Values \in SUBSET Ocid
  BY <1>1, HeadFacts
<1>3. v \in View /\ v.kind = view.kind /\ v.known = view.known /\ v.picked = view.picked
  BY <1>2 DEF Inv, TypeOK, View, Mode
<1> HIDE DEF v
<1> QED BY <1>1, <1>3, StillFit, ShowInv

LEMMA ConfirmDeleteInv ==
  ASSUME Inv, ConfirmDelete
  PROVE  Inv'
<1>1. Forget \in View /\ Forget.kind = view.kind /\ Forget.known = view.known
      /\ Forget.picked = view.picked /\ Forget.pending = {}
  BY DEF Inv, TypeOK, View, Forget
<1>2. view.pending \in SUBSET Ocid /\ "confirmDelete" \in Component
  BY DEF Inv, TypeOK, View, Component
<1>3. Turn("confirmDelete") /\ Act(Forget, "confirmDelete", view.pending) /\ spent' = TRUE
  BY DEF ConfirmDelete
<1> QED BY <1>1, <1>2, <1>3, StillFit, ActInv

LEMMA ActAtOnceInv ==
  ASSUME Inv, NEW on \in Component, ActAtOnce(on)
  PROVE  Inv'
<1>1. Turn(on) /\ Act(view, on, {}) /\ spent' = spent
  BY DEF ActAtOnce
<1> QED BY <1>1, ActInv DEF Inv, TypeOK

LEMMA PageTurned ==
  ASSUME Inv, NEW on, NEW p \in Int, Turn(on), Show([Home(view) EXCEPT !.page = p]), UNCHANGED spent
  PROVE  Inv'
<1> DEFINE v == [Home(view) EXCEPT !.page = p]
<1>1. v \in View /\ v.kind = view.kind /\ v.known = view.known
      /\ v.picked = view.picked /\ v.pending = view.pending
  BY DEF Inv, TypeOK, View, Home, Mode
<1>2. Show(v)
  OBVIOUS
<1> HIDE DEF v
<1> QED BY <1>1, <1>2, StillFit, ShowInv DEF Inv, TypeOK

LEMMA PagesType ==
  ASSUME NEW known \in SUBSET Ocid
  PROVE  Pages(known) \in Int
<1>1. Cardinality(Candidates(known)) \in Nat
  BY Finite, HubAssumption DEF Candidates
<1> QED BY <1>1, HubAssumption DEF Pages

LEMMA PrevNextInv ==
  ASSUME Inv, PrevPage \/ NextPage
  PROVE  Inv'
<1>1. view.page \in Int /\ Pages(view.known) \in Int
  BY PagesType DEF Inv, TypeOK, View
<1>2. Larger(view.page - 1, 0) \in Int /\ Smaller(view.page + 1, Pages(view.known) - 1) \in Int
  BY <1>1 DEF Larger, Smaller
<1> QED BY <1>2, PageTurned DEF PrevPage, NextPage

(* The picks of the other pages and the ones room is left for on this page *)
(* fit together: the room left is not negative as the old picks fitted.     *)
LEMMA PickImportInv ==
  ASSUME Inv, PickImport
  PROVE  Inv'
<1> DEFINE others == view.picked \ PageItems(view)
<1>1. PICK chosen \in FirstOf(Values \cap PageItems(view), Allowed(view)) :
        Show([Home(view) EXCEPT !.picked = others \cup chosen])
  BY DEF PickImport
<1> DEFINE v == [Home(view) EXCEPT !.picked = others \cup chosen]
<1>2. Turn("pickImport") /\ spent' = spent
  BY DEF PickImport
<1>3. Values \in SUBSET Ocid /\ view.kind # "hub"
  BY <1>2, HeadFacts DEF OfferedTo
<1>4. PageItems(view) \subseteq Candidates(view.known) /\ Candidates(view.known) \subseteq Ocid
  BY PageItemsType DEF Inv, TypeOK
<1>5. view.picked \subseteq Candidates(view.known)
  BY DEF Inv, Fit
<1>6. others \in SUBSET Ocid /\ Cardinality(others) \in Nat
  BY <1>4, <1>5, Finite
<1>7. Room(view.known) \in Nat
  BY RoomType DEF Inv, TypeOK, View
<1>8. chosen \subseteq Values \cap PageItems(view) /\ Cardinality(chosen) <= Allowed(view)
  BY <1>3, <1>6, <1>7, FirstOfFits DEF Allowed
<1>9. chosen \in SUBSET Ocid /\ Cardinality(chosen) \in Nat
  BY <1>3, <1>8, Finite
<1>10. Cardinality(others \cup chosen) <= Room(view.known)
  <2>1. Cardinality(others \cup chosen) <= Cardinality(others) + Cardinality(chosen)
    BY <1>6, <1>9, UnionBound
  <2>2. others \cup chosen \in SUBSET Ocid
    BY <1>6, <1>9
  <2>3. Cardinality(others \cup chosen) \in Nat
    BY <2>2, Finite
  <2> QED BY <2>1, <2>3, <1>6, <1>7, <1>8, <1>9 DEF Allowed
<1>11. v \in View /\ v.kind = view.kind /\ v.known = view.known
       /\ v.picked = others \cup chosen /\ v.pending = view.pending
  <2>1. others \cup chosen \in SUBSET Ocid
    BY <1>6, <1>9
  <2> HIDE DEF others
  <2> QED BY <2>1 DEF Inv, TypeOK, View, Home, Mode
<1>12. others \cup chosen \subseteq Candidates(view.known)
  BY <1>4, <1>5, <1>8
<1>13. Show(v)
  BY <1>1
<1> HIDE DEF v, others
<1>14. Fit(v)
  BY <1>3, <1>10, <1>11, <1>12 DEF Fit
<1> QED BY <1>2, <1>11, <1>13, <1>14, ShowInv DEF Inv, TypeOK

LEMMA ConfirmImportInv ==
  ASSUME Inv, ConfirmImport
  PROVE  Inv'
<1> DEFINE v == [view EXCEPT !.picked = {}]
<1>1. v \in View /\ v.kind = view.kind /\ v.known = view.known
      /\ v.picked = {} /\ v.pending = view.pending
  BY DEF Inv, TypeOK, View
<1>2. view.picked \in SUBSET Ocid /\ "confirmImport" \in Component
  BY DEF Inv, TypeOK, View, Component
<1>3. Turn("confirmImport") /\ Act(v, "confirmImport", view.picked) /\ spent' = spent
  BY DEF ConfirmImport
<1> HIDE DEF v
<1> QED BY <1>1, <1>2, <1>3, FewerFit, ActInv DEF Inv, TypeOK

-----------------------------------------------------------------------------
(* The action at work, and the other steps *)

(* A stage of the action that leaves the view alone. *)
LEMMA StageInv ==
  ASSUME Inv, At("respond") \/ At("work") \/ At("sync"),
         NEW stage \in {"work", "reload", "apologize"}, Go(stage),
         rows' \subseteq Ocid, hasKey' \in BOOLEAN,
         screen' \in {screen, Drawn(view), {}},
         UNCHANGED <<view, busy, clicks, over, spent>>
  PROVE  Inv'
<1>1. act' \in Acting /\ act'.stage # "idle" /\ busy' = TRUE
  BY DEF Inv, TypeOK, Acting, At, Go
<1>2. Fit(view') /\ Drawn(view') = Drawn(view)
  BY DEF Inv, Fit
<1> QED BY <1>1, <1>2, StepInv DEF Inv, TypeOK

LEMMA RespondInv ==
  ASSUME Inv, Respond
  PROVE  Inv'
BY StageInv DEF Respond, Sent, Inv, TypeOK

LEMMA WorkInv ==
  ASSUME Inv, Work
  PROVE  Inv'
<1>1. rows \in SUBSET Ocid /\ act.targets \in SUBSET Ocid /\ hasKey \in BOOLEAN
  BY DEF Inv, TypeOK, Acting
<1>2. rows' \subseteq Ocid /\ hasKey' \in BOOLEAN
  BY <1>1 DEF Work, FirstOf
<1> QED BY <1>2, StageInv DEF Work

LEMMA SyncFailedInv ==
  ASSUME Inv, SyncFailed
  PROVE  Inv'
BY StageInv DEF SyncFailed, Sent, Inv, TypeOK

(* What is read anew is cut off at the room there is now. *)
LEMMA ReloadInv ==
  ASSUME Inv, Reload
  PROVE  Inv'
<1>1. PICK picked \in FirstOf(view.picked \cap Candidates(rows), Room(rows)) :
        view' = Reloaded(picked)
  BY DEF Reload
<1>2. rows \in SUBSET Ocid /\ Room(rows) \in Nat
  BY RoomType DEF Inv, TypeOK
<1>3. view.picked \cap Candidates(rows) \in SUBSET Ocid
  BY DEF Inv, TypeOK, View
<1>4. picked \subseteq view.picked \cap Candidates(rows) /\ Cardinality(picked) <= Room(rows)
  BY <1>2, <1>3, FirstOfFits
<1>5. Smaller(view.page, Larger(Pages(rows) - 1, 0)) \in Int
  BY <1>2, PagesType DEF Inv, TypeOK, View, Smaller, Larger
<1>6. /\ view' \in View /\ view'.kind = view.kind /\ view'.known = rows
      /\ view'.picked = picked /\ view'.pending = view.pending
  BY <1>1, <1>2, <1>3, <1>4, <1>5 DEF Inv, TypeOK, View, Reloaded, Home, Mode
<1>7. Fit(view')
  BY <1>4, <1>6 DEF Inv, Fit
<1>8. act' \in Acting /\ act'.stage # "idle" /\ busy = TRUE
  BY DEF Inv, TypeOK, Acting, At, Go, Reload
<1> QED BY <1>6, <1>7, <1>8, StepInv DEF Inv, TypeOK, Reload, Sent

(* A hub that failed between its two readings has no picks to fit. *)
LEMMA FailInv ==
  ASSUME Inv, Fail
  PROVE  Inv'
<1>1. PICK known \in {view.known} \cup (IF At("reload") /\ view.kind = "hub" THEN {rows} ELSE {}) :
        view' = [Home(view) EXCEPT !.pending = {}, !.known = known]
  BY DEF Fail
<1>2. known \in SUBSET Ocid /\ (known = view.known \/ view.kind = "hub")
  BY DEF Inv, TypeOK, View
<1>3. /\ view' \in View /\ view'.kind = view.kind /\ view'.known = known
      /\ view'.picked = view.picked /\ view'.pending = {}
  BY <1>1, <1>2 DEF Inv, TypeOK, View, Home, Mode
<1>4. Fit(view')
  <2>1. CASE known = view.known
    BY <1>3, <2>1, StillFit
  <2>2. CASE view.kind = "hub"
    <3>1. view'.picked = {} /\ Cardinality({}) = 0 /\ Room(known) \in Nat
      BY <1>2, <1>3, <2>2, FS_EmptySet, RoomType DEF Inv, Fit
    <3> QED BY <3>1, <1>3 DEF Fit
  <2> QED BY <1>2, <2>1, <2>2
<1>5. act' \in Acting /\ act'.stage # "idle" /\ busy = TRUE
  BY DEF Inv, TypeOK, Acting, Go, Fail
<1> QED BY <1>3, <1>4, <1>5, StepInv DEF Inv, TypeOK, Fail, Sent

(* The last step of an action. *)
LEMMA FinishInv ==
  ASSUME Inv, Redraw \/ Apologize \/ SyncOpened
  PROVE  Inv'
<1>1. /\ act' = NoAct /\ busy' = FALSE /\ over' \in BOOLEAN
      /\ UNCHANGED <<rows, hasKey, view, screen, clicks, spent>>
  BY DEF Redraw, Apologize, SyncOpened, Finish, Inv, TypeOK
<1>2. NoAct \in Acting /\ NoAct.stage = "idle" /\ NoAct.targets = {}
  BY DEF NoAct, Acting
<1>3. Fit(view')
  BY <1>1 DEF Inv, Fit
<1> QED BY <1>1, <1>2, <1>3, StepInv DEF Inv, TypeOK

LEMMA OpenSyncInv ==
  ASSUME Inv, OpenSync
  PROVE  Inv'
<1>1. act' \in Acting /\ act'.stage # "idle" /\ busy' = TRUE
  BY DEF OpenSync, NoAct, Inv, TypeOK, Acting, Component
<1>2. /\ clicks # <<>> /\ clicks' = Tail(clicks)
      /\ UNCHANGED <<rows, hasKey, view, screen, over, spent>>
  BY DEF OpenSync, Turn
<1>3. Fit(view')
  BY <1>2 DEF Inv, Fit
<1> QED BY <1>1, <1>2, <1>3, StepInv DEF Inv, TypeOK

(* The steps that change neither the view nor the action. *)
LEMMA OutsideInv ==
  ASSUME Inv, Leave \/ Elsewhere \/ Timeout \/ (\E c \in screen : Press(c)) \/ UNCHANGED vars
  PROVE  Inv'
<1>1. /\ UNCHANGED <<hasKey, view, busy, act, screen, spent>>
      /\ over' \in BOOLEAN
      /\ \/ clicks' = clicks
         \/ clicks # <<>> /\ clicks' = Tail(clicks)
         \/ \E c \in screen : clicks' = Append(clicks, c)
  BY DEF Leave, Elsewhere, Timeout, Press, Turn, vars, Inv, TypeOK
<1>2. rows' \subseteq Ocid
  BY HubAssumption DEF Leave, Elsewhere, Timeout, Press, vars, Inv, TypeOK
<1>3. Fit(view')
  BY <1>1 DEF Inv, Fit
<1> QED BY <1>1, <1>2, <1>3, StepInv DEF Inv, TypeOK

LEMMA InitInv ==
  ASSUME Init
  PROVE  Inv
<1>1. PICK kind \in {"hub", "sync"} : view = Opened(kind)
  BY DEF Init
<1>2. /\ view \in View /\ view.known = rows /\ view.picked = {} /\ view.pending = {}
      /\ rows \in SUBSET Ocid
  BY <1>1 DEF Init, Opened, View, Mode
<1>3. Cardinality({}) = 0 /\ Room(rows) \in Nat
  BY <1>2, FS_EmptySet, RoomType
<1>4. Fit(view)
  BY <1>2, <1>3 DEF Fit
<1>5. screen \subseteq Click /\ \A c \in screen : OfferedTo(view.kind, c)
  BY <1>2, DrawnType DEF Init
<1>6. NoAct \in Acting /\ NoAct.stage = "idle" /\ NoAct.targets = {}
  BY DEF NoAct, Acting
<1>7. clicks \in Seq(Click) /\ Len(clicks) = 0
  BY DEF Init
<1>8. TypeOK
  BY <1>2, <1>5, <1>6, <1>7 DEF Init, TypeOK
<1>9. \A i \in 1..Len(clicks) : OfferedTo(view.kind, clicks[i])
  BY <1>7
<1>10. view.pending = {} /\ act.targets = {}
  BY <1>2, <1>6 DEF Init
<1> QED BY <1>4, <1>5, <1>8, <1>9, <1>10 DEF Inv

LEMMA NextInv ==
  ASSUME Inv, [Next]_vars
  PROVE  Inv'
<1>1. CASE Answer
  <2>1. {"select", "representative", "confirmKey"} \subseteq Mode
        /\ {"pickRepresentative", "confirmKey"} \subseteq Component
    BY DEF Mode, Component
  <2> QED BY <1>1, <2>1, CancelInv, OpenInv, PickDeleteInv, ConfirmDeleteInv, ActAtOnceInv,
             PrevNextInv, PickImportInv, ConfirmImportInv, OpenSyncInv, OutsideInv
          DEF Answer
<1>2. CASE ActStep
  BY <1>2, RespondInv, WorkInv, ReloadInv, FinishInv, FailInv, SyncFailedInv DEF ActStep
<1>3. CASE Elsewhere \/ Timeout \/ (\E c \in screen : Press(c)) \/ UNCHANGED vars
  BY <1>3, OutsideInv
<1> QED BY <1>1, <1>2, <1>3 DEF Next

-----------------------------------------------------------------------------
(* The theorems *)

THEOREM Invariant == Spec => []Inv
<1>1. Init => Inv
  BY InitInv
<1>2. Inv /\ [Next]_vars => Inv'
  BY NextInv
<1> QED BY <1>1, <1>2, PTL DEF Spec

(* View, action, screen and clicks keep their types, and the view is busy  *)
(* exactly while an action is at work.                                     *)
THEOREM TypeCorrect == Spec => []TypeOK
<1>1. Inv => TypeOK
  BY DEF Inv
<1> QED BY <1>1, Invariant, PTL

(* What is picked over all pages fits the room there is, as the view last   *)
(* read it, and is not registered: _picked_import never cuts off at a       *)
(* negative room.                                                          *)
THEOREM PicksFit == Spec => []PickedFits
<1>1. Inv => PickedFits
  BY DEF Inv, Fit, PickedFits
<1> QED BY <1>1, Invariant, PTL

(* A pick for deletion is acted upon once: the confirmation forgets it      *)
(* before it asks whether another action is at work.                       *)
THEOREM DeletedOnce == Spec => OneDeletionPerPick
<1> DEFINE Once == act'.on = "confirmDelete" /\ act.stage = "idle" /\ act'.targets # {} => ~spent
<1>1. Inv /\ [Next]_vars => [Once]_vars
  <2> SUFFICES ASSUME Inv, Next, act'.on = "confirmDelete", act.stage = "idle",
                      act'.targets # {}
               PROVE  ~spent
    OBVIOUS
  <2>1. act' # act
    BY DEF Inv
  <2>2. CASE ConfirmDelete
    <3>1. act'.targets = view.pending
      BY <2>2 DEF ConfirmDelete, Act, Inv, TypeOK
    <3> QED BY <3>1 DEF Inv
  <2>3. CASE ConfirmImport
    BY <2>3, <2>1 DEF ConfirmImport, Act
  <2>4. CASE ActAtOnce("pickRepresentative") \/ ActAtOnce("confirmKey")
    BY <2>4, <2>1 DEF ActAtOnce, Act
  <2>5. CASE OpenSync
    BY <2>5, <2>1 DEF OpenSync
  <2>6. CASE Cancel \/ PickDelete \/ PrevPage \/ NextPage \/ PickImport \/ Leave
             \/ Open("select", "select") \/ Open("representative", "representative")
             \/ Open("key", "confirmKey")
    BY <2>6, <2>1 DEF Cancel, PickDelete, PrevPage, NextPage, PickImport, Leave, Open, Show
  <2>7. CASE ActStep
    BY <2>7 DEF ActStep, Respond, Work, Reload, Redraw, Fail, Apologize, SyncOpened,
                SyncFailed, At
  <2>8. CASE Elsewhere \/ Timeout \/ (\E c \in screen : Press(c))
    BY <2>8, <2>1 DEF Elsewhere, Timeout, Press
  <2> QED BY <2>2, <2>3, <2>4, <2>5, <2>6, <2>7, <2>8 DEF Next, Answer
<1> QED BY <1>1, Invariant, PTL DEF Spec, OneDeletionPerPick

=============================================================================
