------------------------ MODULE ComparisonTabsProofs ------------------------
(***************************************************************************)
(* Theorems about ComparisonTabs, for any commands, clicks, slots and any  *)
(* two limits of which the one of the token is the longer and at most      *)
(* twice the other.  First those about the view, for which it is of no     *)
(* account who is shown; then that whoever is to be shown is: for any      *)
(* characters registered, anybody named and anything that Nexon answers.   *)
(***************************************************************************)
EXTENDS ComparisonTabs, FiniteSetTheorems, SequenceTheorems, TLAPS

CallOK(r) == r \in CallRecord(r)
ClickOK(r) == r \in ClickRecord(r.page)
MessageOK(r) == r \in MessageRecord(r.page)

AtWork(k) == clicks[k].pc \in {"responding", "building", "editing", "restoring"}

(* The view is busy with the last click that came when it was not.         *)
OneAtWork ==
  /\ \A k \in Click : AtWork(k) <=> view.busy /\ view.last = k
  /\ view.busy => view.last # Nobody
  /\ view.last # Nobody => clicks[view.last].pc \notin {"unused", "sent"}

(* Before the message is sent there is no view and no click. *)
NothingYet ==
  call.pc # "sent" =>
    /\ view = NoView /\ \A k \in Click : clicks[k].pc = "unused"
    /\ call.pc \in {"called", "building", "built"} => clock = call.took

(* How old the token of a click is, as long as it matters. *)
Aged ==
  \A k \in Click :
    /\ clicks[k].pc \in {"unused", "sent"} => clicks[k].took = 0
    /\ clicks[k].pc = "sent" => clicks[k].born = clock
    /\ AtWork(k) => clock = clicks[k].born + clicks[k].took

(* The view outlives the click at work, and the token it is cleared with    *)
(* outlives the view, unless what was fetched took too long.               *)
Outlived ==
  /\ view.open => clock <= view.deadline
  /\ view.clearing => ~view.open /\ clock = view.deadline
  /\ \A k \in Click : AtWork(k) =>
       /\ clicks[k].born + Timeout <= view.deadline
       /\ ~SomeOverran => view.open
  /\ (view.open \/ view.clearing) /\ ~SomeOverran => view.deadline < LastToken + TokenLife

(* What the message shows while a click is at work. *)
Restorable ==
  \A k \in Click : AtWork(k) =>
    /\ clicks[k].pc # "editing" =>
         view.current = clicks[k].tabWas /\ view.slot = clicks[k].slotWas
    /\ clicks[k].pc = "editing" => view.current = clicks[k].tab /\ view.slot = clicks[k].slot
    /\ ~fault.shown /\ ~SomeOverran =>
         /\ message.tab = clicks[k].tabWas /\ message.slot = clicks[k].slotWas
         /\ clicks[k].pc = "responding" => message.components = "live"

TabsInv ==
  /\ TypeOK /\ OneAtWork /\ NothingYet /\ Aged /\ Outlived /\ Restorable
  /\ ShownIsCurrent /\ TimeoutClears

-----------------------------------------------------------------------------
(* Steps of the command *)

LEMMA Limits ==
  /\ Timeout \in Nat /\ TokenLife \in Nat
  /\ Timeout < TokenLife /\ TokenLife <= 2 * Timeout /\ Nobody \notin Click
  BY TabsAssumption

LEMMA InitInv == Init => TabsInv
<1> SUFFICES ASSUME Init PROVE TabsInv
  OBVIOUS
<1>1. /\ clock = 0 /\ call.pc = "called" /\ call.took = 0 /\ view = NoView /\ ~view.open
      /\ ~view.busy /\ ~view.clearing /\ view.last = Nobody
  BY DEF Init, NoView
<1>2. \A k \in Click : clicks[k].pc = "unused" /\ clicks[k].took = 0
  BY DEF Init, NoClick
<1>3. TypeOK
  <2>1. ClickOK(NoClick) /\ MessageOK(NoMessage) /\ CallOK(call)
    BY DEF Init, ClickOK, ClickRecord, NoClick, MessageOK, MessageRecord, NoMessage, CallOK, CallRecord, Tab
  <2> QED
    BY <2>1 DEF Init, TypeOK, ViewRecord, NoView, Tab, CallOK, ClickOK, MessageOK
<1> QED
  BY <1>1, <1>2, <1>3 DEF TabsInv, OneAtWork, AtWork, NothingYet, Aged, Outlived, Restorable,
     ShownIsCurrent, TimeoutClears

(* What is resolved and built before the message is sent is the command's. *)
LEMMA BeforeSending ==
  ASSUME TabsInv, call.pc # "sent", CallOK(call'), call'.pc # "sent", call'.took = call.took,
         call'.pc \in {"called", "building", "built"} => call.pc \in {"called", "building", "built"},
         UNCHANGED <<clock, view, message, clicks, fault>>
  PROVE  TabsInv'
<1>1. SomeOverran' <=> SomeOverran
  BY DEF SomeOverran, Overran
<1>2. LastToken' = LastToken
  BY DEF LastToken
<1>3. TypeOK'
  BY DEF TabsInv, TypeOK, CallOK, ClickOK, MessageOK
<1> QED
  BY <1>1, <1>2, <1>3 DEF TabsInv, OneAtWork, AtWork, NothingYet, Aged, Outlived, Restorable,
     ShownIsCurrent, TimeoutClears

LEMMA HandleInv ==
  ASSUME TabsInv,
         Refuse \/ HandleSpec \/ HandleItem \/ HandleUnion \/ HandleMySpec \/ HandleMyItem
           \/ BuildFirst \/ SendTooLate
  PROVE  TabsInv'
<1>0. CallOK(call)
  BY DEF TabsInv, TypeOK, CallOK, ClickOK, MessageOK
<1>1. ASSUME NEW tab, NEW cap, Handle(tab, cap) PROVE TabsInv'
  <2>0. PICK pc \in {"nobody", "building"} : \E targets, missing, notes :
          call' = [call EXCEPT !.pc = pc, !.targets = targets, !.missing = missing, !.notes = notes]
    BY <1>1 DEF Handle
  <2>1. PICK targets, missing, notes :
          call' = [call EXCEPT !.pc = pc, !.targets = targets, !.missing = missing, !.notes = notes]
    BY <2>0
  <2>2. CallOK(call') /\ call'.pc = pc /\ call'.took = call.took
    BY <1>0, <2>1 DEF CallOK, CallRecord
  <2> QED
    BY <1>1, <2>1, <2>2, BeforeSending DEF Handle
<1>2. ASSUME call.pc = "called", call' = ResolveMyTargets,
             UNCHANGED <<clock, view, message, clicks, powers, fault>>
      PROVE  TabsInv'
  <2>0. PICK pc \in {"nobody", "building"} : \E targets, notes :
          call' = [call EXCEPT !.pc = pc, !.targets = targets, !.notes = notes]
    BY <1>2 DEF ResolveMyTargets
  <2>1. PICK targets, notes :
          call' = [call EXCEPT !.pc = pc, !.targets = targets, !.notes = notes]
    BY <2>0
  <2>2. CallOK(call') /\ call'.pc = pc /\ call'.took = call.took
    BY <1>0, <2>1 DEF CallOK, CallRecord
  <2> QED
    BY <1>2, <2>1, <2>2, BeforeSending
<1>3. CASE Refuse
  BY <1>0, <1>3, BeforeSending DEF Refuse, CallOK, CallRecord
<1>4. CASE BuildFirst
  <2>1. PICK r \in {[call EXCEPT !.pc = "failed"]}
                     \cup {[call EXCEPT !.pc = "built", !.page = Built(By.tab, call.targets, call.notes, a)] :
                             a \in By.answers} : call' = r
    BY <1>4 DEF BuildFirst
  <2>2. CallOK(r) /\ r.took = call.took /\ r.pc \in {"built", "failed"}
    BY <1>0, <2>1 DEF CallOK, CallRecord
  <2> QED
    BY <1>4, <2>1, <2>2, BeforeSending DEF BuildFirst
<1>5. CASE SendTooLate
  BY <1>0, <1>5, BeforeSending DEF SendTooLate, CallOK, CallRecord
<1> QED
  BY <1>1, <1>2, <1>3, <1>4, <1>5
     DEF HandleSpec, HandleItem, HandleUnion, HandleMySpec, HandleMyItem

LEMMA SendInv == ASSUME TabsInv, Send PROVE TabsInv'
<1>0. CallOK(call) /\ call.pc = "built" /\ clock \in Nat /\ clock = call.took
  BY DEF TabsInv, TypeOK, CallOK, NothingYet, Send, ClickOK, MessageOK
<1>1. CASE call' = [call EXCEPT !.pc = "failed"] /\ UNCHANGED <<view, message>>
  BY <1>0, <1>1, BeforeSending DEF Send, CallOK, CallRecord
<1>2. CASE /\ message' = [tab |-> By.tab, slot |-> By.slot, page |-> call.page,
                       components |-> IF By.solo THEN "none" ELSE "live"]
           /\ view' = [NoView EXCEPT !.open = ~By.solo, !.current = By.tab,
                                  !.slot = By.slot, !.deadline = clock + Timeout]
           /\ call' = [call EXCEPT !.pc = "sent"]
  <2>1. By.tab \in Tab /\ By.slot \in Slot \cup {NoSlot} /\ By.solo \in BOOLEAN
    BY <1>0, TabsAssumption DEF CallOK, CallRecord, By
  <2>2. /\ view'.open = ~By.solo /\ ~view'.clearing /\ ~view'.busy /\ view'.last = Nobody
        /\ view'.current = By.tab /\ view'.slot = By.slot /\ view'.deadline = clock + Timeout
    BY <1>2 DEF NoView
  <2>3. /\ CallOK(call') /\ call'.pc = "sent" /\ call'.took = call.took
        /\ UNCHANGED <<clock, clicks, fault>>
    BY <1>0, <1>2 DEF CallOK, CallRecord, Send
  <2>4. TypeOK'
    <3>1. MessageOK(message')
      BY <1>2, <2>1 DEF MessageOK, MessageRecord
    <3> DEFINE solo == By.solo  tab == By.tab  slot == By.slot  end == clock + Timeout
    <3>2. view' = [open |-> ~solo, clearing |-> FALSE, current |-> tab, slot |-> slot,
                   busy |-> FALSE, last |-> Nobody, deadline |-> end]
      BY <1>2 DEF NoView
    <3>3. end \in Nat /\ (~solo) \in BOOLEAN /\ tab \in Tab /\ slot \in Slot \cup {NoSlot}
      BY <1>0, <2>1, Limits
    <3> HIDE DEF solo, tab, slot, end
    <3>4. view' \in ViewRecord
      BY <3>2, <3>3 DEF ViewRecord
    <3> QED
      BY <2>3, <3>1, <3>4 DEF TabsInv, TypeOK, CallOK, ClickOK, MessageOK
  <2>5. SomeOverran' <=> SomeOverran
    BY <2>3 DEF SomeOverran, Overran
  <2>6. \A k \in Click : clicks[k].pc = "unused"
    BY <1>0 DEF TabsInv, NothingYet
  <2>7. ~SomeOverran => clock + Timeout < TokenLife
    BY <1>0, Limits DEF SomeOverran, Overran, CallOK, CallRecord
  <2>8. OneAtWork' /\ NothingYet' /\ Aged' /\ Restorable'
    BY <2>2, <2>3, <2>6 DEF TabsInv, OneAtWork, AtWork, NothingYet, Aged, Restorable
  <2>9. Outlived'
    BY <1>0, <2>2, <2>3, <2>5, <2>6, <2>7, Limits DEF Outlived, AtWork, LastToken
  <2>10. ShownIsCurrent' /\ TimeoutClears'
    BY <1>2, <2>1, <2>2 DEF ShownIsCurrent, TimeoutClears
  <2> QED
    BY <2>4, <2>8, <2>9, <2>10 DEF TabsInv
<1> QED
  BY <1>1, <1>2 DEF Send

-----------------------------------------------------------------------------
(* Steps of a click *)

LEMMA NewClick == NoClick \in ClickRecord(NoPage) /\ NoClick.took = 0 /\ NoClick.page = NoPage
  BY DEF ClickRecord, NoClick, Tab

(* One click goes on, for as long as before. *)
LEMMA OneClickMoves ==
  ASSUME TypeOK, NEW k \in Click, NEW q, ClickOK(q), q.took = clicks[k].took,
         clicks' = [clicks EXCEPT ![k] = q], call' = call
  PROVE  /\ clicks' = [j \in Click |-> clicks'[j]] /\ \A j \in Click : ClickOK(clicks'[j])
         /\ clicks'[k] = q /\ \A j \in Click : j # k => clicks'[j] = clicks[j]
         /\ SomeOverran' <=> SomeOverran
<1>1. clicks'[k] = q /\ \A j \in Click : j # k => clicks'[j] = clicks[j]
  BY DEF TypeOK, CallOK, ClickOK, MessageOK
<1>2. clicks' = [j \in Click |-> clicks'[j]] /\ \A j \in Click : ClickOK(clicks'[j])
  BY <1>1 DEF TypeOK, CallOK, ClickOK, MessageOK
<1>3. \A j \in Click : clicks'[j].took = clicks[j].took
  BY <1>1
<1> QED
  BY <1>1, <1>2, <1>3 DEF SomeOverran, Overran

(* A view, or a click, comes after the message. *)
LEMMA Sent ==
  ASSUME TabsInv,
         view.open \/ view.clearing \/ view.busy \/ \E k \in Click : clicks[k].pc # "unused"
  PROVE  call.pc = "sent"
  BY DEF TabsInv, NothingYet, NoView

LEMMA PressInv == ASSUME TabsInv, NEW k \in Click, Press(k) PROVE TabsInv'
<1>1. PICK tab \in Tab, slot \in Slot \cup {NoSlot} :
        clicks' = [clicks EXCEPT ![k] = [NoClick EXCEPT !.pc = "sent", !.tab = tab,
                                                        !.slot = slot, !.born = clock]]
  BY DEF Press
<1> DEFINE q == [NoClick EXCEPT !.pc = "sent", !.tab = tab, !.slot = slot, !.born = clock]
<1>2. /\ clicks[k].pc = "unused" /\ view.open /\ UNCHANGED <<clock, call, view, message, fault>>
      /\ clicks[k].took = 0 /\ call.pc = "sent" /\ clock \in Nat
  BY Sent DEF Press, TabsInv, Aged, TypeOK, CallOK, ClickOK, MessageOK
<1>3. ClickOK(q) /\ q.took = clicks[k].took /\ q.pc = "sent" /\ q.born = clock
  <2>1. q = [NoClick EXCEPT !.pc = "sent", !.tab = tab, !.slot = slot, !.born = clock]
    OBVIOUS
  <2> HIDE DEF q
  <2> QED
    BY <1>2, <2>1, NewClick DEF ClickOK, ClickRecord
<1> HIDE DEF q
<1>4. /\ clicks' = [j \in Click |-> clicks'[j]] /\ \A j \in Click : ClickOK(clicks'[j])
      /\ clicks'[k] = q /\ \A j \in Click : j # k => clicks'[j] = clicks[j]
      /\ SomeOverran' <=> SomeOverran
  BY <1>1, <1>2, <1>3, OneClickMoves DEF q, TabsInv
<1>5. view.last # k
  BY <1>2, Limits DEF TabsInv, OneAtWork
<1>6. LastToken' = LastToken
  BY <1>2, <1>4, <1>5 DEF LastToken, TabsInv, TypeOK, ViewRecord, CallOK, ClickOK, MessageOK
<1>7. TypeOK'
  BY <1>2, <1>4 DEF TabsInv, TypeOK, CallOK, ClickOK, MessageOK
<1>8. OneAtWork' /\ NothingYet' /\ Aged' /\ Restorable'
  <2>1. ~AtWork(k) /\ ~AtWork(k)' /\ clicks'[k].pc = "sent" /\ clicks'[k].born = clock
    BY <1>2, <1>3, <1>4 DEF AtWork
  <2>2. OneAtWork'
    BY <1>2, <1>4, <1>5, <2>1, Limits DEF TabsInv, OneAtWork, AtWork, TypeOK, ViewRecord, CallOK, ClickOK, MessageOK
  <2>3. Aged' /\ Restorable'
    BY <1>2, <1>3, <1>4, <2>1 DEF TabsInv, AtWork, Aged, Restorable
  <2> QED
    BY <1>2, <2>2, <2>3 DEF NothingYet
<1>9. Outlived'
  BY <1>2, <1>3, <1>4, <1>5, <1>6 DEF TabsInv, Outlived, AtWork
<1>10. ShownIsCurrent' /\ TimeoutClears'
  BY <1>2, <1>4 DEF TabsInv, ShownIsCurrent, TimeoutClears
<1> QED
  BY <1>7, <1>8, <1>9, <1>10 DEF TabsInv

LEMMA OverFacts ==
  ASSUME TypeOK, NEW k \in Click, clicks' = Over(k), call' = call
  PROVE  /\ clicks' = [j \in Click |-> clicks'[j]] /\ \A j \in Click : ClickOK(clicks'[j])
         /\ \A j \in Click : j # k => clicks'[j] = clicks[j]
         /\ clicks'[k].pc = "done" /\ clicks'[k].born = clicks[k].born
         /\ SomeOverran' <=> SomeOverran
<1> DEFINE born == clicks[k].born
           took == clicks[k].took
           q == [NoClick EXCEPT !.pc = "done", !.born = born, !.took = took]
<1>1. born \in Nat /\ took \in Nat
  BY DEF TypeOK, ClickOK, ClickRecord, CallOK, MessageOK
<1>2. clicks' = [clicks EXCEPT ![k] = q]
  BY DEF Over
<1> HIDE DEF born, took
<1>3. ClickOK(q) /\ q.took = took /\ q.pc = "done" /\ q.born = born
  <2>1. q = [NoClick EXCEPT !.pc = "done", !.born = born, !.took = took]
    OBVIOUS
  <2> HIDE DEF q
  <2> QED
    BY <1>1, <2>1, NewClick DEF ClickOK, ClickRecord
<1> HIDE DEF q
<1> QED
  BY <1>2, <1>3, OneClickMoves DEF born, took

LEMMA ArriveInv == ASSUME TabsInv, NEW k \in Click, Arrive(k) PROVE TabsInv'
<1>1. /\ clicks[k].pc = "sent" /\ UNCHANGED <<clock, call, message, fault>> /\ call.pc = "sent"
      /\ clicks[k].born = clock /\ clock \in Nat
      /\ view.last # k /\ Timeout \in Nat /\ (clock + Timeout) \in Nat
  BY Sent, Limits DEF Arrive, TabsInv, OneAtWork, Aged, TypeOK, CallOK, ClickOK, MessageOK
<1>2. CASE view.open /\ ~Busy
  <2> DEFINE tabWas == view.current
             slotWas == view.slot
             q == [clicks[k] EXCEPT !.pc = "responding", !.tabWas = tabWas, !.slotWas = slotWas]
             end == clock + Timeout
  <2>1. /\ clicks' = [clicks EXCEPT ![k] = q]
        /\ view' = [view EXCEPT !.busy = TRUE, !.last = k, !.deadline = end]
    BY <1>2 DEF Arrive
  <2>2. tabWas \in Tab /\ slotWas \in Slot \cup {NoSlot} /\ ClickOK(clicks[k]) /\ end \in Nat
        /\ view \in ViewRecord
    BY <1>1 DEF TabsInv, TypeOK, ViewRecord, CallOK, ClickOK, MessageOK
  <2> HIDE DEF tabWas, slotWas, end
  <2>3. /\ ClickOK(q) /\ q.pc = "responding" /\ q.tabWas = tabWas /\ q.slotWas = slotWas
        /\ q.born = clicks[k].born /\ q.took = clicks[k].took
    <3> DEFINE r == clicks[k]
    <3>1. q = [r EXCEPT !.pc = "responding", !.tabWas = tabWas, !.slotWas = slotWas]
      OBVIOUS
    <3> HIDE DEF q, r
    <3>2. ClickOK(r)
      BY <2>2 DEF r
    <3>3. /\ ClickOK(q) /\ q.pc = "responding" /\ q.tabWas = tabWas /\ q.slotWas = slotWas
          /\ q.born = r.born /\ q.took = r.took
      BY <2>2, <3>1, <3>2 DEF ClickOK, ClickRecord
    <3> QED
      BY <3>3 DEF r
  <2>4. /\ view' \in ViewRecord /\ view'.busy /\ view'.last = k /\ view'.deadline = end
        /\ view'.open = view.open /\ view'.clearing = view.clearing
        /\ view'.current = tabWas /\ view'.slot = slotWas
    BY <2>1, <2>2 DEF ViewRecord, tabWas, slotWas
  <2> HIDE DEF q
  <2>5. /\ clicks' = [j \in Click |-> clicks'[j]] /\ \A j \in Click : ClickOK(clicks'[j])
        /\ clicks'[k] = q /\ \A j \in Click : j # k => clicks'[j] = clicks[j]
        /\ SomeOverran' <=> SomeOverran
    BY <1>1, <2>1, <2>3, OneClickMoves DEF TabsInv
  <2>6. ~view.busy /\ view.open
    BY <1>2 DEF Busy
  <2>7. \A j \in Click : ~AtWork(j)
    BY <2>6 DEF TabsInv, OneAtWork
  <2>8. TypeOK'
    BY <1>1, <2>4, <2>5 DEF TabsInv, TypeOK, CallOK, ClickOK, MessageOK
  <2>9. OneAtWork' /\ NothingYet'
    BY <1>1, <2>3, <2>4, <2>5, <2>7, Limits DEF TabsInv, OneAtWork, AtWork, NothingYet
  <2>10. Aged'
    <3>1. q.took = 0
      BY <1>1, <2>3 DEF TabsInv, Aged
    <3>2. clock = clock + 0
      BY <1>1
    <3>3. ~AtWork(k)' \/ clock' = clicks'[k].born + clicks'[k].took
      BY <1>1, <2>3, <2>5, <3>1, <3>2
    <3>4. ASSUME NEW j \in Click, j # k PROVE clicks'[j] = clicks[j] /\ ~AtWork(j)'
      BY <2>5, <2>7, <3>4 DEF AtWork
    <3>5. clicks'[k].pc = "responding"
      BY <2>3, <2>5
    <3> QED
      BY <1>1, <3>3, <3>4, <3>5 DEF TabsInv, Aged
  <2>11. Outlived'
    <3>1. LastToken' = clock
      BY <1>1, <2>3, <2>4, <2>5, Limits DEF LastToken
    <3> QED
      BY <1>1, <2>3, <2>4, <2>5, <2>6, <2>7, <3>1, Limits DEF TabsInv, AtWork, Outlived, end
  <2>12. Restorable' /\ ShownIsCurrent' /\ TimeoutClears'
    <3>1. ~fault.shown /\ ~SomeOverran =>
            message.tab = tabWas /\ message.slot = slotWas /\ message.components = "live"
      BY <2>6 DEF TabsInv, ShownIsCurrent, tabWas, slotWas
    <3>2. \A j \in Click : j # k => ~AtWork(j)'
      BY <2>5, <2>7 DEF AtWork
    <3>3. Restorable'
      BY <1>1, <2>3, <2>4, <2>5, <3>1, <3>2 DEF Restorable
    <3> QED
      BY <1>1, <2>4, <2>6, <3>3 DEF ShownIsCurrent, TimeoutClears
  <2> QED
    BY <2>8, <2>9, <2>10, <2>11, <2>12 DEF TabsInv
<1>3. CASE ~(view.open /\ ~Busy)
  <2> DEFINE end == IF view.open THEN clock + Timeout ELSE view.deadline
  <2>1. /\ clicks' = Over(k)
        /\ view' = IF view.open THEN [view EXCEPT !.deadline = clock + Timeout] ELSE view
    BY <1>3 DEF Arrive
  <2>2. /\ clicks' = [j \in Click |-> clicks'[j]] /\ \A j \in Click : ClickOK(clicks'[j])
        /\ \A j \in Click : j # k => clicks'[j] = clicks[j]
        /\ clicks'[k].pc = "done" /\ clicks'[k].born = clicks[k].born
        /\ SomeOverran' <=> SomeOverran
    BY <1>1, <2>1, OverFacts DEF TabsInv
  <2>3. view \in ViewRecord
    BY DEF TabsInv, TypeOK, CallOK, ClickOK, MessageOK
  <2>4. /\ view' \in ViewRecord /\ view'.busy = view.busy /\ view'.last = view.last
        /\ view'.deadline = end /\ view'.open = view.open /\ view'.clearing = view.clearing
        /\ view'.current = view.current /\ view'.slot = view.slot
    BY <1>1, <2>1, <2>3 DEF ViewRecord
  <2>5. LastToken' = LastToken
    BY <1>1, <2>2, <2>3, <2>4, Limits DEF LastToken, ViewRecord
  <2>6. TypeOK'
    BY <1>1, <2>2, <2>4 DEF TabsInv, TypeOK, CallOK, ClickOK, MessageOK
  <2>7. OneAtWork' /\ NothingYet' /\ Aged'
    <3>1. OneAtWork'
      BY <1>1, <2>2, <2>3, <2>4, Limits DEF TabsInv, OneAtWork, AtWork, ViewRecord
    <3>2. Aged'
      BY <1>1, <2>2, <2>4 DEF TabsInv, AtWork, Aged
    <3> QED
      BY <1>1, <3>1, <3>2 DEF NothingYet
  <2>8. Outlived'
    <3>1. ASSUME view.open, ~SomeOverran PROVE end < LastToken + TokenLife
      <4>1. PICK j \in Click : view.last = j /\ AtWork(j)
        BY <1>3, <2>3, <3>1 DEF TabsInv, OneAtWork, Busy, ViewRecord
      <4>2. LastToken = clicks[j].born /\ clicks[j].born \in Nat /\ clicks[j].took \in Nat
        BY <4>1, Limits DEF LastToken, TabsInv, TypeOK, ClickOK, ClickRecord, CallOK, MessageOK
      <4>3. clock = clicks[j].born + clicks[j].took /\ clicks[j].took < TokenLife - Timeout
        BY <3>1, <4>1, <4>2, Limits DEF TabsInv, Aged, SomeOverran, Overran
      <4> QED
        BY <1>1, <3>1, <4>2, <4>3, Limits
    <3>2. \A j \in Click : AtWork(j)' => AtWork(j) /\ clicks'[j] = clicks[j]
      BY <2>2 DEF AtWork
    <3>3. ASSUME NEW j \in Click, AtWork(j) PROVE clicks[j].born + Timeout <= end
      <4>1. clock = clicks[j].born + clicks[j].took /\ clicks[j].born \in Nat /\ clicks[j].took \in Nat
        BY <3>3 DEF TabsInv, Aged, TypeOK, ClickOK, ClickRecord, CallOK, MessageOK
      <4>2. clicks[j].born + Timeout <= view.deadline
        BY <3>3 DEF TabsInv, Outlived
      <4> QED
        BY <1>1, <4>1, <4>2
    <3>4. view.clearing => ~view.open
      BY DEF TabsInv, Outlived
    <3> QED
      BY <1>1, <2>2, <2>4, <2>5, <3>1, <3>2, <3>3, <3>4 DEF TabsInv, Outlived
  <2>9. Restorable' /\ ShownIsCurrent' /\ TimeoutClears'
    BY <1>1, <2>2, <2>4 DEF TabsInv, AtWork, Restorable, ShownIsCurrent, TimeoutClears
  <2> QED
    BY <2>6, <2>7, <2>8, <2>9 DEF TabsInv
<1> QED
  BY <1>2, <1>3

(* The click at work goes on, and the view stays busy with it. *)
LEMMA StillAtWork ==
  ASSUME TabsInv, NEW k \in Click, AtWork(k), NEW q, ClickOK(q),
         clicks' = [clicks EXCEPT ![k] = q], UNCHANGED <<clock, call>>,
         q.pc \in {"building", "editing", "restoring"},
         q.born = clicks[k].born, q.took = clicks[k].took,
         view' \in ViewRecord, view'.open = view.open, view'.clearing = view.clearing,
         view'.busy = view.busy, view'.last = view.last, view'.deadline = view.deadline,
         MessageOK(message'), fault' \in [shown : BOOLEAN, clear : BOOLEAN],
         IF q.pc = "editing" THEN view'.current = q.tab /\ view'.slot = q.slot
         ELSE view'.current = q.tabWas /\ view'.slot = q.slotWas,
         ~fault'.shown /\ ~SomeOverran => message'.tab = q.tabWas /\ message'.slot = q.slotWas
  PROVE  TabsInv'
<1>1. /\ view.busy /\ view.last = k /\ (~SomeOverran => view.open)
      /\ clock = clicks[k].born + clicks[k].took /\ clicks[k].born + Timeout <= view.deadline
      /\ call.pc = "sent"
  BY Sent DEF TabsInv, OneAtWork, Outlived, Aged
<1>2. /\ clicks' = [j \in Click |-> clicks'[j]] /\ \A j \in Click : ClickOK(clicks'[j])
      /\ clicks'[k] = q /\ \A j \in Click : j # k => clicks'[j] = clicks[j]
      /\ SomeOverran' <=> SomeOverran
  BY OneClickMoves DEF TabsInv
<1>3. LastToken' = LastToken /\ AtWork(k)' /\ \A j \in Click : j # k => ~AtWork(j)'
  BY <1>1, <1>2, Limits DEF LastToken, AtWork, TabsInv, OneAtWork
<1>4. TypeOK'
  BY <1>2 DEF TabsInv, TypeOK, CallOK, ClickOK, MessageOK
<1>5. OneAtWork' /\ NothingYet' /\ Aged'
  <2>1. OneAtWork'
    BY <1>1, <1>2, <1>3, Limits DEF OneAtWork
  <2>2. Aged'
    BY <1>1, <1>2, <1>3 DEF TabsInv, Aged, AtWork
  <2> QED
    BY <1>1, <2>1, <2>2 DEF NothingYet
<1>6. Outlived'
  BY <1>1, <1>2, <1>3 DEF TabsInv, Outlived
<1>7. Restorable'
  BY <1>2, <1>3 DEF Restorable
<1>8. ShownIsCurrent' /\ TimeoutClears'
  BY <1>1, <1>2 DEF ShownIsCurrent, TimeoutClears
<1> QED
  BY <1>4, <1>5, <1>6, <1>7, <1>8 DEF TabsInv

(* The click at work is over, and the view is free. *)
LEMMA WorkEnds ==
  ASSUME TabsInv, NEW k \in Click, AtWork(k), clicks' = Over(k), view' = Finally(view),
         UNCHANGED <<clock, call>>,
         MessageOK(message'), fault' \in [shown : BOOLEAN, clear : BOOLEAN],
         ~fault'.shown /\ ~SomeOverran =>
           message'.tab = view.current /\ message'.slot = view.slot /\ message'.components = "live"
  PROVE  TabsInv'
<1>1. /\ view.busy /\ view.last = k /\ (~SomeOverran => view.open)
      /\ call.pc = "sent" /\ view \in ViewRecord
  BY Sent DEF TabsInv, OneAtWork, Outlived, TypeOK
<1>2. /\ clicks' = [j \in Click |-> clicks'[j]] /\ \A j \in Click : ClickOK(clicks'[j])
      /\ \A j \in Click : j # k => clicks'[j] = clicks[j]
      /\ clicks'[k].pc = "done" /\ clicks'[k].born = clicks[k].born
      /\ SomeOverran' <=> SomeOverran
  BY OverFacts DEF TabsInv
<1>3. /\ view' \in ViewRecord /\ ~view'.busy /\ view'.last = view.last
      /\ view'.deadline = view.deadline /\ view'.open = view.open
      /\ view'.clearing = view.clearing /\ view'.current = view.current /\ view'.slot = view.slot
  BY <1>1 DEF Finally, ViewRecord
<1>4. LastToken' = LastToken /\ \A j \in Click : ~AtWork(j)'
  BY <1>1, <1>2, <1>3, Limits DEF LastToken, AtWork, TabsInv, OneAtWork
<1>5. TypeOK'
  BY <1>2, <1>3 DEF TabsInv, TypeOK, CallOK, ClickOK, MessageOK
<1>6. OneAtWork' /\ NothingYet' /\ Aged'
  <2>1. OneAtWork'
    BY <1>1, <1>2, <1>3, <1>4 DEF OneAtWork
  <2>2. Aged'
    BY <1>2, <1>4 DEF TabsInv, Aged
  <2> QED
    BY <1>1, <2>1, <2>2 DEF NothingYet
<1>7. Outlived' /\ Restorable'
  BY <1>2, <1>3, <1>4 DEF TabsInv, Outlived, Restorable
<1>8. ShownIsCurrent' /\ TimeoutClears'
  BY <1>1, <1>2, <1>3 DEF ShownIsCurrent, TimeoutClears
<1> QED
  BY <1>5, <1>6, <1>7, <1>8 DEF TabsInv

LEMMA RaiseInv ==
  ASSUME TabsInv, NEW k \in Click, AtWork(k), Raise(k), UNCHANGED <<clock, call>>,
         MessageOK(message'), fault' \in [shown : BOOLEAN, clear : BOOLEAN],
         ~fault'.shown => message' = message /\ fault'.shown = fault.shown
  PROVE  TabsInv'
<1> DEFINE r == clicks[k]
           q == [r EXCEPT !.pc = "restoring"]
           tab == r.tabWas
           slot == r.slotWas
<1>1. clicks' = [clicks EXCEPT ![k] = q] /\ view' = [view EXCEPT !.current = tab, !.slot = slot]
  BY DEF Raise, At, Restored
<1>2. /\ ClickOK(r) /\ view \in ViewRecord
      /\ ~fault.shown /\ ~SomeOverran => message.tab = r.tabWas /\ message.slot = r.slotWas
  BY DEF TabsInv, TypeOK, ClickOK, Restorable
<1> HIDE DEF r
<1>3. /\ ClickOK(q) /\ q.pc = "restoring" /\ q.tabWas = tab /\ q.slotWas = slot
      /\ q.born = r.born /\ q.took = r.took /\ tab \in Tab /\ slot \in Slot \cup {NoSlot}
  BY <1>2 DEF ClickOK, ClickRecord
<1> HIDE DEF q
<1>4. ~fault'.shown /\ ~SomeOverran => message'.tab = q.tabWas /\ message'.slot = q.slotWas
  BY <1>2, <1>3
<1> HIDE DEF tab, slot
<1>5. /\ view' \in ViewRecord /\ view'.open = view.open /\ view'.clearing = view.clearing
      /\ view'.busy = view.busy /\ view'.last = view.last /\ view'.deadline = view.deadline
      /\ view'.current = tab /\ view'.slot = slot
  BY <1>1, <1>2, <1>3 DEF ViewRecord
<1> QED
  BY <1>1, <1>3, <1>4, <1>5, StillAtWork DEF r

LEMMA Messages ==
  ASSUME TabsInv
  PROVE  /\ MessageOK(message) /\ fault \in [shown : BOOLEAN, clear : BOOLEAN]
         /\ \A c \in {"none", "live", "disabled"} :
              LET m == [message EXCEPT !.components = c]
              IN MessageOK(m) /\ m.tab = message.tab /\ m.slot = message.slot /\ m.components = c
<1>1. MessageOK(message) /\ fault \in [shown : BOOLEAN, clear : BOOLEAN]
  BY DEF TabsInv, TypeOK, MessageOK
<1> QED
  BY <1>1 DEF MessageOK, MessageRecord

LEMMA RespondInv == ASSUME TabsInv, NEW k \in Click, Respond(k) PROVE TabsInv'
<1>1. AtWork(k) /\ clicks[k].pc = "responding" /\ UNCHANGED <<clock, call>>
  BY DEF Respond, AtWork
<1>2. CASE Raise(k) /\ UNCHANGED <<message, fault>>
  BY <1>1, <1>2, RaiseInv, Messages
<1>3. CASE /\ clicks' = At(k, "building") /\ message' = [message EXCEPT !.components = "disabled"]
           /\ UNCHANGED <<view, fault>>
  <2> DEFINE r == clicks[k]
             q == [r EXCEPT !.pc = "building"]
  <2>1. clicks' = [clicks EXCEPT ![k] = q]
    BY <1>3 DEF At
  <2>2. /\ ClickOK(r) /\ view \in ViewRecord /\ view.current = r.tabWas /\ view.slot = r.slotWas
        /\ ~fault.shown /\ ~SomeOverran => message.tab = r.tabWas /\ message.slot = r.slotWas
    BY <1>1 DEF TabsInv, TypeOK, ClickOK, Restorable
  <2> HIDE DEF r
  <2>3. /\ ClickOK(q) /\ q.pc = "building" /\ q.tabWas = r.tabWas /\ q.slotWas = r.slotWas
        /\ q.born = r.born /\ q.took = r.took
    BY <2>2 DEF ClickOK, ClickRecord
  <2> HIDE DEF q
  <2>4. MessageOK(message') /\ message'.tab = message.tab /\ message'.slot = message.slot
    <3> HIDE DEF MessageOK
    <3> QED
      BY <1>3, Messages
  <2>5. ~fault'.shown /\ ~SomeOverran => message'.tab = q.tabWas /\ message'.slot = q.slotWas
    BY <1>3, <2>2, <2>3, <2>4
  <2>6. fault' \in [shown : BOOLEAN, clear : BOOLEAN]
    BY <1>3, Messages
  <2> QED
    BY <1>1, <1>3, <2>1, <2>2, <2>3, <2>4, <2>5, <2>6, StillAtWork DEF r
<1> QED
  BY <1>2, <1>3 DEF Respond

LEMMA BuildInv == ASSUME TabsInv, NEW k \in Click, Build(k) PROVE TabsInv'
<1>1. AtWork(k) /\ clicks[k].pc = "building" /\ UNCHANGED <<clock, call, message, fault>>
  BY DEF Build, AtWork
<1>2. CASE Raise(k)
  BY <1>1, <1>2, RaiseInv, Messages
<1>3. CASE \E answers \in By.answers :
             /\ clicks' = [clicks EXCEPT ![k].pc = "editing",
                  ![k].page = Built(clicks[k].tab, Shown(clicks[k].tab), ShownNotes(clicks[k].tab), answers)]
             /\ view' = [view EXCEPT !.current = clicks[k].tab, !.slot = clicks[k].slot]
  <2>1. PICK page : clicks' = [clicks EXCEPT ![k].pc = "editing", ![k].page = page]
    BY <1>3
  <2> DEFINE r == clicks[k]
             q == [r EXCEPT !.pc = "editing", !.page = page]
             tab == r.tab
             slot == r.slot
  <2>2. clicks' = [clicks EXCEPT ![k] = q] /\ view' = [view EXCEPT !.current = tab, !.slot = slot]
    BY <1>3, <2>1
  <2>3. /\ ClickOK(r) /\ view \in ViewRecord
        /\ ~fault.shown /\ ~SomeOverran => message.tab = r.tabWas /\ message.slot = r.slotWas
    BY <1>1 DEF TabsInv, TypeOK, ClickOK, Restorable
  <2> HIDE DEF r
  <2>4. /\ ClickOK(q) /\ q.pc = "editing" /\ q.tabWas = r.tabWas /\ q.slotWas = r.slotWas
        /\ q.born = r.born /\ q.took = r.took /\ q.tab = tab /\ q.slot = slot
        /\ tab \in Tab /\ slot \in Slot \cup {NoSlot}
    BY <2>3 DEF ClickOK, ClickRecord
  <2> HIDE DEF q, tab, slot
  <2>5. /\ view' \in ViewRecord /\ view'.open = view.open /\ view'.clearing = view.clearing
        /\ view'.busy = view.busy /\ view'.last = view.last /\ view'.deadline = view.deadline
        /\ view'.current = tab /\ view'.slot = slot
    BY <2>2, <2>3, <2>4 DEF ViewRecord
  <2>6. ~fault'.shown /\ ~SomeOverran => message'.tab = q.tabWas /\ message'.slot = q.slotWas
    BY <1>1, <2>3, <2>4
  <2>7. MessageOK(message') /\ fault' \in [shown : BOOLEAN, clear : BOOLEAN]
    <3> HIDE DEF MessageOK
    <3> QED
      BY <1>1, Messages DEF MessageOK
  <2> QED
    BY <1>1, <2>2, <2>4, <2>5, <2>6, <2>7, StillAtWork DEF r
<1> QED
  BY <1>2, <1>3 DEF Build

(* What the message becomes: the tab that was clicked. *)
LEMMA Shows ==
  ASSUME TabsInv, NEW k \in Click
  PROVE  /\ MessageOK(Payload(k)) /\ Payload(k).tab = clicks[k].tab
         /\ Payload(k).slot = clicks[k].slot /\ Payload(k).components = "live"
<1>1. clicks[k].tab \in Tab /\ clicks[k].slot \in Slot \cup {NoSlot}
  BY DEF TabsInv, TypeOK, ClickRecord
<1> QED
  BY <1>1 DEF Payload, MessageOK, MessageRecord

LEMMA Faults ==
  ASSUME TabsInv
  PROVE  /\ \A b \in BOOLEAN : LET f == [fault EXCEPT !.shown = b]
              IN f \in [shown : BOOLEAN, clear : BOOLEAN] /\ f.shown = b
         /\ LET f == [fault EXCEPT !.clear = TRUE]
              IN f \in [shown : BOOLEAN, clear : BOOLEAN] /\ f.shown = fault.shown /\ f.clear
  BY DEF TabsInv, TypeOK

LEMMA EditInv == ASSUME TabsInv, NEW k \in Click, Edit(k) PROVE TabsInv'
<1>1. AtWork(k) /\ clicks[k].pc = "editing" /\ UNCHANGED <<clock, call>>
  BY DEF Edit, AtWork
<1>2. CASE /\ message' = Payload(k) /\ clicks' = Over(k) /\ view' = Finally(view)
           /\ fault' = [fault EXCEPT !.shown = FALSE]
  <2>1. view.current = clicks[k].tab /\ view.slot = clicks[k].slot
    BY <1>1 DEF TabsInv, Restorable
  <2>2. MessageOK(message') /\ message'.tab = view.current /\ message'.slot = view.slot
        /\ message'.components = "live" /\ fault' \in [shown : BOOLEAN, clear : BOOLEAN]
    <3> HIDE DEF MessageOK
    <3> QED
      BY <1>2, <2>1, Shows, Faults
  <2> QED
    BY <1>1, <1>2, <2>2, WorkEnds
<1>3. CASE Raise(k) /\ UNCHANGED <<message, fault>>
  BY <1>1, <1>3, RaiseInv, Messages
<1>4. CASE message' = Payload(k) /\ Raise(k) /\ fault' = [fault EXCEPT !.shown = TRUE]
  <2>1. MessageOK(message') /\ fault' \in [shown : BOOLEAN, clear : BOOLEAN] /\ fault'.shown
    <3> HIDE DEF MessageOK
    <3> QED
      BY <1>4, Shows, Faults
  <2> QED
    BY <1>1, <1>4, <2>1, RaiseInv
<1> QED
  BY <1>2, <1>3, <1>4 DEF Edit

(* Without an overrun the token of the click at work is good until the end. *)
LEMMA TokenLasts ==
  ASSUME TabsInv, NEW k \in Click, AtWork(k), Expired(clicks[k].born)
  PROVE  SomeOverran
<1>1. /\ clicks[k].born \in Nat /\ clicks[k].took \in Nat
      /\ clock = clicks[k].born + clicks[k].took
  BY DEF TabsInv, TypeOK, ClickRecord, Aged
<1> QED
  BY <1>1, Limits DEF Expired, SomeOverran, Overran

LEMMA RestoreInv == ASSUME TabsInv, NEW k \in Click, Restore(k) PROVE TabsInv'
<1>1. /\ AtWork(k) /\ clicks[k].pc = "restoring" /\ UNCHANGED <<clock, call>>
      /\ clicks' = Over(k) /\ view' = Finally(view)
  BY DEF Restore, AtWork
<1>2. /\ view.current = clicks[k].tabWas /\ view.slot = clicks[k].slotWas
      /\ ~fault.shown /\ ~SomeOverran =>
           message.tab = clicks[k].tabWas /\ message.slot = clicks[k].slotWas
  BY <1>1 DEF TabsInv, Restorable
<1>3. CASE message' = [message EXCEPT !.components = "live"] /\ UNCHANGED fault
  <2>1. MessageOK(message') /\ message'.tab = message.tab /\ message'.slot = message.slot
        /\ message'.components = "live" /\ fault' \in [shown : BOOLEAN, clear : BOOLEAN]
    <3> HIDE DEF MessageOK
    <3> QED
      BY <1>3, Messages
  <2> QED
    BY <1>1, <1>2, <1>3, <2>1, WorkEnds
<1>4. CASE Expired(clicks[k].born) /\ UNCHANGED <<message, fault>>
  BY <1>1, <1>4, TokenLasts, WorkEnds, Messages
<1>5. CASE fault' = [fault EXCEPT !.shown = TRUE] /\ UNCHANGED message
  BY <1>1, <1>5, Faults, WorkEnds, Messages
<1> QED
  BY <1>3, <1>4, <1>5 DEF Restore

-----------------------------------------------------------------------------
(* The end of the view, and time *)

LEMMA TimeOutInv == ASSUME TabsInv, TimeOut PROVE TabsInv'
<1>1. /\ view.open /\ clock = view.deadline /\ view \in ViewRecord /\ call.pc = "sent"
      /\ UNCHANGED <<clock, call, message, clicks, fault>>
  BY Sent DEF TimeOut, TabsInv, Outlived, TypeOK, ViewRecord
<1>2. /\ view' \in ViewRecord /\ ~view'.open /\ view'.clearing /\ view'.busy = view.busy
      /\ view'.last = view.last /\ view'.deadline = view.deadline
      /\ view'.current = view.current /\ view'.slot = view.slot
  BY <1>1 DEF TimeOut, ViewRecord
<1>3. SomeOverran' <=> SomeOverran
  BY <1>1 DEF SomeOverran, Overran
<1>4. ASSUME NEW k \in Click, AtWork(k) PROVE SomeOverran
  <2>1. /\ clicks[k].born \in Nat /\ clicks[k].took \in Nat
        /\ clock = clicks[k].born + clicks[k].took /\ clicks[k].born + Timeout <= view.deadline
    BY <1>4 DEF TabsInv, TypeOK, ClickRecord, Aged, Outlived
  <2> QED
    BY <1>1, <2>1, Limits DEF SomeOverran, Overran
<1>5. LastToken' = LastToken /\ \A k \in Click : AtWork(k)' <=> AtWork(k)
  BY <1>1, <1>2 DEF LastToken, AtWork
<1>6. TypeOK'
  BY <1>1, <1>2 DEF TabsInv, TypeOK
<1>7. OneAtWork' /\ NothingYet' /\ Aged' /\ Restorable'
  BY <1>1, <1>2, <1>3, <1>5 DEF TabsInv, OneAtWork, NothingYet, Aged, Restorable
<1>8. Outlived'
  BY <1>1, <1>2, <1>3, <1>4, <1>5 DEF TabsInv, Outlived
<1>9. ShownIsCurrent' /\ TimeoutClears'
  BY <1>2 DEF ShownIsCurrent, TimeoutClears
<1> QED
  BY <1>6, <1>7, <1>8, <1>9 DEF TabsInv

LEMMA ClearInv == ASSUME TabsInv, Clear PROVE TabsInv'
<1>1. /\ view.clearing /\ ~view.open /\ clock = view.deadline /\ view \in ViewRecord
      /\ call.pc = "sent" /\ UNCHANGED <<clock, call, clicks>>
  BY Sent DEF Clear, TabsInv, Outlived, TypeOK
<1>2. /\ view' \in ViewRecord /\ ~view'.open /\ ~view'.clearing /\ view'.busy = view.busy
      /\ view'.last = view.last /\ view'.deadline = view.deadline
      /\ view'.current = view.current /\ view'.slot = view.slot
  BY <1>1 DEF Clear, ViewRecord
<1>3. SomeOverran' <=> SomeOverran
  BY <1>1 DEF SomeOverran, Overran
<1>4. \A k \in Click : AtWork(k) => SomeOverran
  BY <1>1 DEF TabsInv, Outlived
<1>5. LastToken' = LastToken /\ \A k \in Click : AtWork(k)' <=> AtWork(k)
  BY <1>1, <1>2 DEF LastToken, AtWork
<1>6. LastToken \in Nat /\ clock \in Nat
  BY DEF TabsInv, TypeOK, ViewRecord, ClickRecord, LastToken
<1>7. Expired(LastToken) => SomeOverran
  BY <1>1, <1>6, Limits DEF TabsInv, Outlived, Expired
<1>8. /\ MessageOK(message') /\ fault' \in [shown : BOOLEAN, clear : BOOLEAN]
      /\ fault'.shown = fault.shown /\ message'.tab = message.tab /\ message'.slot = message.slot
      /\ ~fault'.clear /\ ~SomeOverran => message'.components = "none"
  <2> HIDE DEF MessageOK
  <2> QED
    BY <1>7, Messages, Faults DEF Clear
<1>9. TypeOK'
  BY <1>1, <1>2, <1>8 DEF TabsInv, TypeOK, MessageOK
<1>10. OneAtWork' /\ NothingYet' /\ Aged'
  BY <1>1, <1>2, <1>5 DEF TabsInv, OneAtWork, NothingYet, Aged
<1>11. Outlived' /\ Restorable'
  BY <1>1, <1>2, <1>3, <1>4, <1>5, <1>8 DEF TabsInv, Outlived, Restorable
<1>12. ShownIsCurrent' /\ TimeoutClears'
  BY <1>2, <1>3, <1>8 DEF ShownIsCurrent, TimeoutClears
<1> QED
  BY <1>9, <1>10, <1>11, <1>12 DEF TabsInv

LEMMA TickInv == ASSUME TabsInv, Tick PROVE TabsInv'
<1> DEFINE more == IF call.pc = "building" THEN call.took + 1 ELSE call.took
<1>1. /\ clock' = clock + 1 /\ clock \in Nat /\ UNCHANGED <<view, message, fault>>
      /\ call' = [call EXCEPT !.took = more] /\ CallOK(call)
      /\ call.pc \in {"building", "sent"} /\ ~view.clearing /\ (view.open => clock < view.deadline)
      /\ \A k \in Click : clicks[k].pc \in {"unused", "building", "done"}
  BY DEF Tick, TabsInv, TypeOK, CallOK
<1>2. more \in Nat /\ more >= call.took /\ call.took \in Nat
  BY <1>1 DEF CallOK, CallRecord
<1> HIDE DEF more
<1>3. CallOK(call') /\ call'.pc = call.pc /\ call'.took = more
  BY <1>1, <1>2 DEF CallOK, CallRecord
<1>4. /\ clicks' = [k \in Click |-> clicks'[k]]
      /\ \A k \in Click : clicks'[k] = IF clicks[k].pc = "building"
                                       THEN [clicks[k] EXCEPT !.took = clicks[k].took + 1] ELSE clicks[k]
  BY DEF Tick
<1>5. ASSUME NEW k \in Click
      PROVE  /\ ClickOK(clicks'[k]) /\ clicks'[k].pc = clicks[k].pc
             /\ clicks'[k].born = clicks[k].born
             /\ clicks'[k].tab = clicks[k].tab /\ clicks'[k].slot = clicks[k].slot
             /\ clicks'[k].tabWas = clicks[k].tabWas /\ clicks'[k].slotWas = clicks[k].slotWas
             /\ clicks[k].took \in Nat /\ clicks[k].born \in Nat
             /\ clicks'[k].took = IF clicks[k].pc = "building" THEN clicks[k].took + 1 ELSE clicks[k].took
  <2> DEFINE r == clicks[k]
             q == clicks'[k]
             took == r.took + 1
  <2>1. ClickOK(r)
    BY DEF TabsInv, TypeOK, ClickOK
  <2>2. q = IF r.pc = "building" THEN [r EXCEPT !.took = took] ELSE r
    BY <1>4
  <2>3. r.took \in Nat /\ took \in Nat /\ r.born \in Nat
    BY <2>1 DEF ClickOK, ClickRecord
  <2> HIDE DEF q, r, took
  <2>4. /\ ClickOK(q) /\ q.pc = r.pc /\ q.born = r.born /\ q.tab = r.tab /\ q.slot = r.slot
        /\ q.tabWas = r.tabWas /\ q.slotWas = r.slotWas
        /\ q.took = IF r.pc = "building" THEN took ELSE r.took
    BY <2>1, <2>2, <2>3 DEF ClickOK, ClickRecord
  <2> QED
    BY <2>3, <2>4 DEF q, r, took
<1>6. SomeOverran => SomeOverran'
  <2>1. CASE Overran(call.took)
    BY <1>2, <1>3, <2>1, Limits DEF SomeOverran, Overran
  <2>2. ASSUME NEW k \in Click, Overran(clicks[k].took) PROVE SomeOverran'
    BY <1>5, <2>2, Limits DEF SomeOverran, Overran
  <2> QED
    BY <2>1, <2>2 DEF SomeOverran
<1>7. LastToken' = LastToken
  BY <1>1, <1>5 DEF LastToken, TabsInv, TypeOK, ViewRecord
<1>8. \A k \in Click : AtWork(k)' <=> AtWork(k)
  BY <1>5 DEF AtWork
<1>9. TypeOK'
  BY <1>1, <1>3, <1>4, <1>5 DEF TabsInv, TypeOK, CallOK, ClickOK
<1>10. OneAtWork'
  BY <1>1, <1>5, <1>8 DEF TabsInv, TypeOK, ViewRecord, OneAtWork
<1>11. NothingYet'
  BY <1>1, <1>2, <1>3, <1>5 DEF TabsInv, NothingYet, more
<1>12. Aged'
  <2>1. ASSUME NEW k \in Click, AtWork(k) PROVE clock' = clicks'[k].born + clicks'[k].took
    <3>1. clicks[k].pc = "building" /\ clock = clicks[k].born + clicks[k].took
      BY <1>1, <2>1 DEF AtWork, TabsInv, Aged
    <3> QED
      BY <1>1, <1>5, <3>1
  <2> QED
    BY <1>1, <1>5, <1>8, <2>1 DEF TabsInv, Aged
<1>13. Outlived'
  <2>1. (view.open => clock' <= view.deadline) /\ ~view.clearing
    BY <1>1 DEF TabsInv, TypeOK, ViewRecord
  <2> QED
    BY <1>1, <1>5, <1>6, <1>7, <1>8, <2>1 DEF TabsInv, Outlived
<1>14. Restorable'
  BY <1>1, <1>5, <1>6, <1>8 DEF TabsInv, Restorable
<1>15. ShownIsCurrent' /\ TimeoutClears'
  BY <1>1, <1>3, <1>6 DEF TabsInv, ShownIsCurrent, TimeoutClears
<1> QED
  BY <1>9, <1>10, <1>11, <1>12, <1>13, <1>14, <1>15 DEF TabsInv

-----------------------------------------------------------------------------
(* TabsInv holds at first and every step keeps it. *)
LEMMA NextInv == TabsInv /\ [Next]_vars => TabsInv'
<1> SUFFICES ASSUME TabsInv, [Next]_vars PROVE TabsInv'
  OBVIOUS
<1>1. CASE UNCHANGED vars
  BY <1>1 DEF vars, TabsInv, TypeOK, OneAtWork, AtWork, NothingYet, Aged, Outlived, Restorable,
     ShownIsCurrent, TimeoutClears, SomeOverran, LastToken
<1>2. ASSUME NEW k \in Click, Press(k) \/ Switch(k) PROVE TabsInv'
  BY <1>2, PressInv, ArriveInv, RespondInv, BuildInv, EditInv, RestoreInv DEF Switch
<1> QED
  BY <1>1, <1>2, HandleInv, SendInv, TimeOutInv, ClearInv, TickInv DEF Next

LEMMA Invariant == Spec => []TabsInv
  BY InitInv, NextInv, PTL DEF Spec

(* Every variable keeps its type, whatever the answers make of the pages. *)
THEOREM TypeCorrect == Spec => []TypeOK
<1>1. TabsInv => TypeOK
  BY DEF TabsInv
<1> QED
  BY <1>1, Invariant, PTL

(* The message shows the tab that the view is at, with its buttons live,   *)
(* whenever no click is at work: after a click that was shown, that was    *)
(* refused, that failed anywhere, or that came while another was at work.  *)
THEOREM TabShown == Spec => []ShownIsCurrent
<1>1. TabsInv => ShownIsCurrent
  BY DEF TabsInv
<1> QED
  BY <1>1, Invariant, PTL

(* The token with which on_timeout removes the buttons has not expired.    *)
THEOREM ButtonsCleared == Spec => []TimeoutClears
<1>1. TabsInv => TimeoutClears
  BY DEF TabsInv
<1> QED
  BY <1>1, Invariant, PTL

-----------------------------------------------------------------------------
(* Lists.  These lemmas are about data, so that an induction would be due;  *)
(* the least natural number of a set, and counting, stand for it.          *)

LEMMA LeastNatural ==
  ASSUME NEW T, T \subseteq Nat, T # {}
  PROVE  \E n \in T : \A m \in T : n <= m
<1>1. PICK n \in T : \A m \in T : <<m, n>> \notin OpToRel(<, Nat)
  BY NatLessThanWellFounded, WFMin
<1>2. \A m \in T : ~(m < n)
  BY <1>1 DEF OpToRel
<1> QED BY <1>2

(* In a strict order a finite set has an element that nothing is ahead of. *)
LEMMA Topmost ==
  ASSUME NEW S, IsFiniteSet(S), S # {}, NEW R,
         \A x \in S : <<x, x>> \notin R,
         \A x, y, z \in S : <<x, y>> \in R /\ <<y, z>> \in R => <<x, z>> \in R
  PROVE  \E x \in S : \A y \in S : <<y, x>> \notin R
<1> DEFINE ahead(x) == {y \in S : <<y, x>> \in R}
           counts == {Cardinality(ahead(x)) : x \in S}
<1>1. \A x \in S : IsFiniteSet(ahead(x)) /\ Cardinality(ahead(x)) \in Nat
  <2>1. ASSUME NEW x \in S PROVE IsFiniteSet(ahead(x))
    BY FS_Subset
  <2> QED BY <2>1, FS_CardinalityType
<1>a. counts \subseteq Nat /\ counts # {}
  <2> HIDE DEF ahead
  <2> QED BY <1>1
<1>b. \A x \in S : Cardinality(ahead(x)) \in counts
  OBVIOUS
<1>c. \A n \in counts : \E x \in S : n = Cardinality(ahead(x))
  OBVIOUS
<1> HIDE DEF counts
<1>2. PICK n \in counts : \A m \in counts : n <= m
  BY <1>a, LeastNatural
<1>3. PICK x \in S : n = Cardinality(ahead(x))
  BY <1>c
<1>4. ASSUME NEW y \in S, <<y, x>> \in R PROVE FALSE
  <2>1. ahead(y) \subseteq ahead(x) /\ y \in ahead(x) /\ y \notin ahead(y)
    BY <1>4
  <2>2. ahead(y) # ahead(x)
    BY <2>1
  <2>3. Cardinality(ahead(y)) <= Cardinality(ahead(x)) /\ Cardinality(ahead(y)) # Cardinality(ahead(x))
    <3> HIDE DEF ahead
    <3> QED BY <1>1, <2>1, <2>2, FS_Subset
  <2>4. n <= Cardinality(ahead(y))
    BY <1>2, <1>b
  <2>5. Cardinality(ahead(y)) \in Nat /\ Cardinality(ahead(x)) \in Nat
    BY <1>1
  <2> HIDE DEF ahead
  <2> QED BY <1>3, <2>3, <2>4, <2>5
<1> QED BY <1>4

(* A finite set of integers has a maximum. *)
LEMMA MaxInteger ==
  ASSUME NEW S, IsFiniteSet(S), S # {}, S \subseteq Int
  PROVE  Max(S) \in S /\ \A y \in S : y <= Max(S)
<1> DEFINE R == {p \in S \X S : p[1] > p[2]}
<1>1. \A x, y \in S : <<x, y>> \in R <=> x > y
  OBVIOUS
<1> HIDE DEF R
<1>2. /\ \A x \in S : <<x, x>> \notin R
      /\ \A x, y, z \in S : <<x, y>> \in R /\ <<y, z>> \in R => <<x, z>> \in R
  BY <1>1
<1>3. PICK x \in S : \A y \in S : <<y, x>> \notin R
  BY <1>2, Topmost
<1>4. ASSUME NEW y \in S PROVE x >= y
  <2>1. ~(y > x)
    BY <1>1, <1>3
  <2>2. x \in Int /\ y \in Int
    OBVIOUS
  <2> QED BY <2>1, <2>2
<1> QED BY <1>4 DEF Max

LEMMA UpTo == ASSUME NEW n \in Nat PROVE IsFiniteSet(1 .. n) /\ Cardinality(1 .. n) = n
BY FS_Interval

(* The places of a sort are numbered from one on, lower keys first. *)
LEMMA Placed ==
  ASSUME NEW I, IsFiniteSet(I), I \subseteq Int, NEW key \in [I -> Int]
  PROVE  /\ Cardinality(I) \in Nat
         /\ \A i \in I : Place(I, key, i) \in 1 .. Cardinality(I)
         /\ \A i, j \in I : key[j] < key[i] \/ (key[j] = key[i] /\ j < i) =>
              Place(I, key, j) < Place(I, key, i)
         /\ \A n \in 1 .. Cardinality(I) : \E i \in I : Place(I, key, i) = n
<1> DEFINE upto(i) == {j \in I : key[j] < key[i] \/ (key[j] = key[i] /\ j <= i)}
           place == [i \in I |-> Cardinality(upto(i))]
<1>1. \A i \in I : Place(I, key, i) = Cardinality(upto(i)) /\ place[i] = Place(I, key, i)
  BY DEF Place
<1>2. \A i \in I : upto(i) \in SUBSET I /\ i \in upto(i)
  OBVIOUS
<1>3. ASSUME NEW i \in I, NEW j \in I, key[j] < key[i] \/ (key[j] = key[i] /\ j < i)
      PROVE  upto(j) \subseteq upto(i) /\ i \notin upto(j)
  <2>1. \A l \in I : key[l] \in Int /\ l \in Int
    OBVIOUS
  <2>2. ASSUME NEW l \in I, key[l] < key[j] \/ (key[l] = key[j] /\ l <= j)
        PROVE  key[l] < key[i] \/ (key[l] = key[i] /\ l <= i)
    BY <1>3, <2>1, <2>2
  <2>3. ~(key[i] < key[j] \/ (key[i] = key[j] /\ i <= j))
    BY <1>3, <2>1
  <2> QED BY <2>2, <2>3
<1> HIDE DEF upto
<1>4. Cardinality(I) \in Nat
  BY FS_CardinalityType
<1>5. ASSUME NEW i \in I
      PROVE  IsFiniteSet(upto(i)) /\ Cardinality(upto(i)) \in 1 .. Cardinality(I)
  <2>1. IsFiniteSet(upto(i)) /\ Cardinality(upto(i)) <= Cardinality(I)
    BY <1>2, FS_Subset
  <2>2. Cardinality(upto(i)) \in Nat /\ Cardinality(upto(i)) # 0
    BY <1>2, <2>1, FS_CardinalityType, FS_EmptySet
  <2> QED BY <1>4, <2>1, <2>2
<1>6. ASSUME NEW i \in I, NEW j \in I, key[j] < key[i] \/ (key[j] = key[i] /\ j < i)
      PROVE  Cardinality(upto(j)) < Cardinality(upto(i))
  <2>1. upto(j) \in SUBSET upto(i) /\ upto(j) # upto(i)
    BY <1>2, <1>3, <1>6
  <2>2. Cardinality(upto(j)) <= Cardinality(upto(i)) /\ Cardinality(upto(j)) # Cardinality(upto(i))
    BY <1>5, <2>1, FS_Subset
  <2> QED BY <1>5, <2>2
<1>7. \A i, j \in I : i # j => place[i] # place[j]
  <2>1. \A i, j \in I : i # j =>
          \/ key[j] < key[i] \/ (key[j] = key[i] /\ j < i)
          \/ key[i] < key[j] \/ (key[i] = key[j] /\ i < j)
    OBVIOUS
  <2> QED BY <1>5, <1>6, <2>1
<1>8. IsFiniteSet(1 .. Cardinality(I)) /\ Cardinality(1 .. Cardinality(I)) = Cardinality(I)
  BY <1>4, FS_Interval
<1>9. place \in Injection(I, 1 .. Cardinality(I))
  BY <1>5, <1>7 DEF Injection, IsInjective
<1>10. place \in Surjection(I, 1 .. Cardinality(I))
  BY <1>8, <1>9, FS_Injection
<1>11. \A n \in 1 .. Cardinality(I) : \E i \in I : place[i] = n
  BY <1>10 DEF Surjection
<1> QED BY <1>1, <1>4, <1>5, <1>6, <1>11

(* What is arranged are the entries at the places, each as often as it is   *)
(* there, one with a lowest key at the head.                               *)
TheEntries(a, S, s, I) ==
  /\ a \in Seq(S) /\ Len(a) = Cardinality(I) /\ Len(a) <= Len(s)
  /\ Range(a) = {s[i] : i \in I}
  /\ (\A i, j \in I : s[i] = s[j] => i = j) => IsInjective(a)

Headed(a, s, I, key) ==
  a # <<>> => \E i \in I : a[1] = s[i] /\ \A j \in I : key[i] <= key[j]

LEMMA Arranging ==
  ASSUME NEW S, NEW s \in Seq(S), NEW I, I \subseteq DOMAIN s, NEW key, key \in [I -> Int]
  PROVE  TheEntries(Arranged(s, I, key), S, s, I) /\ Headed(Arranged(s, I, key), s, I, key)
<1> DEFINE from(n) == CHOOSE i \in I : Place(I, key, i) = n
           N == Cardinality(I)
           a == Arranged(s, I, key)
<1>1. Len(s) \in Nat /\ DOMAIN s = 1 .. Len(s) /\ \A i \in 1 .. Len(s) : s[i] \in S
  BY LenProperties, ElementOfSeq
<1>2. I \subseteq Int /\ IsFiniteSet(I) /\ N <= Len(s) /\ N \in Nat
  <2>2. IsFiniteSet(1 .. Len(s)) /\ Cardinality(1 .. Len(s)) = Len(s)
    BY <1>1, UpTo
  <2>3. I \in SUBSET (1 .. Len(s))
    BY <1>1
  <2>4. IsFiniteSet(I) /\ N <= Len(s)
    BY <2>2, <2>3, FS_Subset
  <2> QED BY <2>3, <2>4, FS_CardinalityType
<1>3. \A n \in 1 .. N : from(n) \in I /\ Place(I, key, from(n)) = n
  BY <1>2, Placed
<1>4. \A i \in I : from(Place(I, key, i)) = i /\ Place(I, key, i) \in 1 .. N
  <2>1. \A i, j \in I : i # j => Place(I, key, i) # Place(I, key, j)
    <3>1. \A i, j \in I : i # j =>
            \/ key[j] < key[i] \/ (key[j] = key[i] /\ j < i)
            \/ key[i] < key[j] \/ (key[i] = key[j] /\ i < j)
      BY <1>2
    <3>2. \A i \in I : Place(I, key, i) \in Int
      BY <1>2, Placed
    <3>3. ASSUME NEW i \in I, NEW j \in I, key[j] < key[i] \/ (key[j] = key[i] /\ j < i)
          PROVE  Place(I, key, i) # Place(I, key, j)
      <4>1. Place(I, key, j) < Place(I, key, i)
        BY <1>2, <3>3, Placed
      <4> QED BY <3>2, <4>1
    <3> QED BY <3>1, <3>3
  <2>2. \A i \in I : Place(I, key, i) \in 1 .. N
    BY <1>2, Placed
  <2> HIDE DEF from
  <2> QED BY <1>3, <2>1, <2>2
<1>5. a = [n \in 1 .. N |-> s[from(n)]]
  BY DEF Arranged
<1> HIDE DEF from, a
<1>6. a \in Seq(S) /\ Len(a) = N /\ DOMAIN a = 1 .. N
  <2>1. a \in [1 .. N -> S]
    BY <1>1, <1>3, <1>5
  <2> QED BY <1>2, <2>1, SeqDef
<1>7. Range(a) = {s[i] : i \in I}
  <2>1. ASSUME NEW i \in I PROVE \E n \in 1 .. N : a[n] = s[i]
    BY <1>4, <1>5
  <2>2. \A n \in 1 .. N : \E i \in I : a[n] = s[i]
    BY <1>3, <1>5
  <2>3. Range(a) = {a[n] : n \in 1 .. N}
    BY <1>6 DEF Range
  <2> HIDE DEF N
  <2> QED BY <2>1, <2>2, <2>3
<1>8. (\A i, j \in I : s[i] = s[j] => i = j) => IsInjective(a)
  BY <1>3, <1>5, <1>6 DEF IsInjective
<1>9. ASSUME a # <<>> PROVE \E i \in I : a[1] = s[i] /\ \A j \in I : key[i] <= key[j]
  <2>1. 1 \in 1 .. N
    BY <1>2, <1>6, <1>9, EmptySeq
  <2>2. a[1] = s[from(1)] /\ from(1) \in I /\ Place(I, key, from(1)) = 1
    BY <1>3, <1>5, <2>1
  <2>3. ASSUME NEW j \in I PROVE ~(key[j] < key[from(1)])
    <3>1. Place(I, key, j) \in 1 .. N
      BY <1>4
    <3>2. key[j] < key[from(1)] => Place(I, key, j) < 1
      BY <1>2, <2>2, Placed
    <3> QED BY <1>2, <3>1, <3>2
  <2> QED BY <2>2, <2>3
<1> QED BY <1>2, <1>6, <1>7, <1>8, <1>9 DEF TheEntries, Headed, a

LEMMA EntriesOf ==
  ASSUME NEW S, NEW s \in Seq(S), NEW I, I \subseteq DOMAIN s
  PROVE  TheEntries(Entries(s, I), S, s, I)
<1> DEFINE key == [i \in I |-> 0]
<1>1. key \in [I -> Int]
  OBVIOUS
<1>2. Entries(s, I) = Arranged(s, I, key)
  BY DEF Entries
<1> HIDE DEF key
<1> QED BY <1>1, <1>2, Arranging

(* The elements of a list, and how many. *)
LEMMA Elements ==
  ASSUME NEW S, NEW s \in Seq(S)
  PROVE  /\ Range(s) \subseteq S /\ IsFiniteSet(Range(s))
         /\ IsInjective(s) => Cardinality(Range(s)) = Len(s)
         /\ \A T : Range(s) \subseteq T => s \in Seq(T)
<1>1. Len(s) \in Nat /\ DOMAIN s = 1 .. Len(s) /\ s \in [1 .. Len(s) -> S]
  BY LenProperties
<1>2. Range(s) = {s[i] : i \in 1 .. Len(s)}
  BY <1>1 DEF Range
<1>3. s \in [1 .. Len(s) -> Range(s)]
  BY <1>1, <1>2
<1>4. s \in Surjection(1 .. Len(s), Range(s))
  BY <1>2, <1>3 DEF Surjection
<1>5. IsFiniteSet(1 .. Len(s)) /\ Cardinality(1 .. Len(s)) = Len(s)
  BY <1>1, UpTo
<1>6. IsFiniteSet(Range(s))
  BY <1>4, <1>5, FS_Surjection
<1>7. ASSUME IsInjective(s) PROVE Cardinality(Range(s)) = Len(s)
  <2>1. s \in Injection(1 .. Len(s), Range(s))
    BY <1>3, <1>7 DEF Injection
  <2> QED BY <1>4, <1>5, <2>1, FS_Surjection
<1>8. ASSUME NEW T, Range(s) \subseteq T PROVE s \in Seq(T)
  <2>1. s \in [1 .. Len(s) -> T]
    BY <1>3, <1>8
  <2> QED BY <1>1, <2>1, SeqDef
<1>9. Range(s) \subseteq S
  BY <1>1, <1>2
<1> QED BY <1>6, <1>7, <1>8, <1>9

(* One list after the other. *)
LEMMA Joined ==
  ASSUME NEW S, NEW a \in Seq(S), NEW b \in Seq(S), IsInjective(a), IsInjective(b),
         Range(a) \cap Range(b) = {}
  PROVE  /\ a \o b \in Seq(S) /\ IsInjective(a \o b) /\ Len(a \o b) = Len(a) + Len(b)
         /\ Range(a \o b) = Range(a) \cup Range(b)
<1> DEFINE c == a \o b
<1>1. Len(a) \in Nat /\ DOMAIN a = 1 .. Len(a) /\ Len(b) \in Nat /\ DOMAIN b = 1 .. Len(b)
  BY LenProperties
<1>2. /\ c \in Seq(S) /\ Len(c) = Len(a) + Len(b) /\ DOMAIN c = 1 .. Len(a) + Len(b)
      /\ \A i \in 1 .. Len(a) + Len(b) : c[i] = IF i <= Len(a) THEN a[i] ELSE b[i - Len(a)]
  BY ConcatProperties, LenProperties
<1> HIDE DEF c
<1>3. Range(a) = {a[i] : i \in 1 .. Len(a)} /\ Range(b) = {b[i] : i \in 1 .. Len(b)}
  BY <1>1 DEF Range
<1>4. Range(c) = {c[i] : i \in 1 .. Len(a) + Len(b)}
  BY <1>2 DEF Range
<1>5. \A i \in 1 .. Len(a) : i \in 1 .. Len(a) + Len(b) /\ c[i] = a[i]
  BY <1>1, <1>2
<1>6. \A i \in 1 .. Len(b) : Len(a) + i \in 1 .. Len(a) + Len(b) /\ c[Len(a) + i] = b[i]
  <2>1. \A m, n \in Nat : \A i \in 1 .. n :
          m + i \in 1 .. m + n /\ ~(m + i <= m) /\ (m + i) - m = i
    OBVIOUS
  <2>2. \A i \in 1 .. Len(b) :
          Len(a) + i \in 1 .. Len(a) + Len(b) /\ ~(Len(a) + i <= Len(a)) /\ (Len(a) + i) - Len(a) = i
    BY <1>1, <2>1
  <2> QED BY <1>2, <2>2
<1>7. \A i \in 1 .. Len(a) + Len(b) :
        i \in 1 .. Len(a) \/ (i - Len(a) \in 1 .. Len(b) /\ i = Len(a) + (i - Len(a)))
  <2>1. \A m, n \in Nat : \A i \in 1 .. m + n :
          i \in 1 .. m \/ (i - m \in 1 .. n /\ i = m + (i - m))
    OBVIOUS
  <2> QED BY <1>1, <2>1
<1>8. Range(c) = Range(a) \cup Range(b)
  <2>1. \A x \in Range(a) : x \in Range(c)
    BY <1>3, <1>4, <1>5
  <2>2. \A x \in Range(b) : x \in Range(c)
    BY <1>3, <1>4, <1>6
  <2>3. ASSUME NEW i \in 1 .. Len(a) + Len(b) PROVE c[i] \in Range(a) \cup Range(b)
    <3>1. CASE i \in 1 .. Len(a)
      BY <1>3, <1>5, <3>1
    <3>2. CASE i - Len(a) \in 1 .. Len(b) /\ i = Len(a) + (i - Len(a))
      <4>1. c[i] = b[i - Len(a)]
        BY <1>6, <3>2
      <4> QED BY <1>3, <3>2, <4>1
    <3> QED BY <1>7, <3>1, <3>2
  <2>4. Range(c) \subseteq Range(a) \cup Range(b)
    BY <1>4, <2>3
  <2> QED BY <2>1, <2>2, <2>4
<1>9. ASSUME NEW i \in 1 .. Len(a) + Len(b), NEW j \in 1 .. Len(a) + Len(b), c[i] = c[j]
      PROVE  i = j
  <2>1. \A x, y \in 1 .. Len(a) : a[x] = a[y] => x = y
    BY <1>1 DEF IsInjective
  <2>2. \A x, y \in 1 .. Len(b) : b[x] = b[y] => x = y
    BY <1>1 DEF IsInjective
  <2>3. \A x \in 1 .. Len(a), y \in 1 .. Len(b) : a[x] # b[y]
    BY <1>3
  <2>4. CASE i \in 1 .. Len(a) /\ j \in 1 .. Len(a)
    BY <1>5, <1>9, <2>1, <2>4
  <2>5. CASE i - Len(a) \in 1 .. Len(b) /\ j - Len(a) \in 1 .. Len(b)
    <3>0. i = Len(a) + (i - Len(a)) /\ j = Len(a) + (j - Len(a))
      BY <1>1
    <3>1. c[i] = b[i - Len(a)] /\ c[j] = b[j - Len(a)]
      BY <1>6, <2>5, <3>0
    <3>2. i - Len(a) = j - Len(a)
      BY <1>9, <2>2, <2>5, <3>1
    <3> QED BY <1>1, <3>2
  <2>6. CASE i \in 1 .. Len(a) /\ j - Len(a) \in 1 .. Len(b)
    <3>1. c[i] = a[i] /\ c[j] = b[j - Len(a)]
      BY <1>1, <1>5, <1>6, <1>7, <2>6
    <3> QED BY <1>9, <2>3, <2>6, <3>1
  <2>7. CASE j \in 1 .. Len(a) /\ i - Len(a) \in 1 .. Len(b)
    <3>1. c[j] = a[j] /\ c[i] = b[i - Len(a)]
      BY <1>1, <1>5, <1>6, <1>7, <2>7
    <3> QED BY <1>9, <2>3, <2>7, <3>1
  <2> QED BY <1>7, <2>4, <2>5, <2>6, <2>7
<1>10. IsInjective(c)
  BY <1>2, <1>9 DEF IsInjective
<1> QED BY <1>2, <1>8, <1>10 DEF c

(* The first few of a list. *)
LEMMA FirstFew ==
  ASSUME NEW S, NEW s \in Seq(S), NEW n \in 0 .. Len(s)
  PROVE  LET a == SubSeq(s, 1, n)
         IN /\ a \in Seq(S) /\ Len(a) = n /\ Range(a) \subseteq Range(s)
            /\ IsInjective(s) => IsInjective(a)
            /\ 0 < n => s[1] \in Range(a)
<1> DEFINE a == SubSeq(s, 1, n)
<1>1. Len(s) \in Nat /\ DOMAIN s = 1 .. Len(s) /\ \A i \in 1 .. Len(s) : s[i] \in S
  BY LenProperties, ElementOfSeq
<1>2. a \in Seq(S) /\ Len(a) = n /\ \A i \in 1 .. n : a[i] = s[i]
  <2>1. \A i \in 1 .. n : s[i] \in S
    BY <1>1
  <2>2. 1 \in Int /\ n \in Int
    BY <1>1
  <2>3. /\ a \in Seq(S) /\ Len(a) = IF 1 <= n THEN n - 1 + 1 ELSE 0
        /\ \A i \in 1 .. n - 1 + 1 : a[i] = s[1 + i - 1]
    BY <2>1, <2>2, SubSeqProperties
  <2> HIDE DEF a
  <2>4. \A i \in 1 .. n : i \in 1 .. n - 1 + 1 /\ 1 + i - 1 = i
    BY <1>1
  <2> QED BY <1>1, <2>3, <2>4
<1> HIDE DEF a
<1>3. DOMAIN a = 1 .. n /\ \A i \in 1 .. n : i \in DOMAIN s
  BY <1>1, <1>2, LenProperties
<1>4. Range(a) \subseteq Range(s) /\ (0 < n => s[1] \in Range(a))
  BY <1>1, <1>2, <1>3 DEF Range
<1>5. IsInjective(s) => IsInjective(a)
  BY <1>2, <1>3 DEF IsInjective
<1> QED BY <1>2, <1>4, <1>5 DEF a

(* Each once: every element has a first place. *)
LEMMA EachOnce ==
  ASSUME NEW S, NEW s \in Seq(S)
  PROVE  /\ FirstPlaces(s) \in Seq(S) /\ IsInjective(FirstPlaces(s))
         /\ Range(FirstPlaces(s)) = Range(s) /\ Len(FirstPlaces(s)) <= Len(s)
<1> DEFINE I == {i \in DOMAIN s : \A j \in 1 .. i - 1 : s[j] # s[i]}
<1>1. Len(s) \in Nat /\ DOMAIN s = 1 .. Len(s)
  BY LenProperties
<1>2. TheEntries(FirstPlaces(s), S, s, I)
  BY EntriesOf DEF FirstPlaces
<1>3. \A i, j \in I : s[i] = s[j] => i = j
  <2>1. \A i, j \in I : i < j => s[i] # s[j]
    BY <1>1
  <2> QED BY <1>1, <2>1
<1>4. ASSUME NEW k \in DOMAIN s PROVE \E i \in I : s[i] = s[k]
  <2> DEFINE T == {i \in DOMAIN s : s[i] = s[k]}
  <2>1. T \subseteq Nat /\ T # {}
    BY <1>1
  <2>2. PICK n \in T : \A m \in T : n <= m
    BY <2>1, LeastNatural
  <2>3. \A j \in 1 .. n - 1 : j \in DOMAIN s /\ ~(n <= j)
    BY <1>1, <2>2
  <2> QED BY <2>2, <2>3
<1> HIDE DEF I
<1>5. I \subseteq DOMAIN s
  BY DEF I
<1>6. {s[i] : i \in I} = Range(s)
  BY <1>4, <1>5 DEF Range
<1> QED BY <1>2, <1>3, <1>6 DEF TheEntries

(* The same from the end, of some. *)
LastOnes(s, W) == {i \in DOMAIN s : s[i] \in W /\ \A j \in i + 1 .. Len(s) : s[j] # s[i]}

LEMMA EachOnceFromTheEnd ==
  ASSUME NEW S, NEW s \in Seq(S), NEW W, NEW a, a = Entries(s, LastOnes(s, W))
  PROVE  a \in Seq(S) /\ IsInjective(a) /\ Range(a) = Range(s) \cap W /\ Len(a) <= Len(s)
<1> DEFINE I == {i \in DOMAIN s : s[i] \in W /\ \A j \in i + 1 .. Len(s) : s[j] # s[i]}
<1>0. LastOnes(s, W) = I
  BY DEF LastOnes
<1>1. Len(s) \in Nat /\ DOMAIN s = 1 .. Len(s)
  BY LenProperties
<1>2. TheEntries(a, S, s, I)
  BY <1>0, EntriesOf
<1>3. \A i, j \in I : s[i] = s[j] => i = j
  <2>1. \A i, j \in I : i < j => s[i] # s[j]
    BY <1>1
  <2> QED BY <1>1, <2>1
<1>4. ASSUME NEW k \in DOMAIN s, s[k] \in W PROVE \E i \in I : s[i] = s[k]
  <2> DEFINE T == {n \in 0 .. Len(s) : Len(s) - n \in DOMAIN s /\ s[Len(s) - n] = s[k]}
  <2>1. T \subseteq Nat /\ Len(s) - k \in T
    BY <1>1
  <2>2. PICK n \in T : \A m \in T : n <= m
    BY <2>1, LeastNatural
  <2>3. ASSUME NEW j \in Len(s) - n + 1 .. Len(s), s[j] = s[k] PROVE FALSE
    <3>1. Len(s) - j \in 0 .. Len(s) /\ Len(s) - (Len(s) - j) = j /\ j \in DOMAIN s /\ Len(s) - j < n
      BY <1>1, <2>2
    <3>2. Len(s) - j \in T
      BY <2>3, <3>1
    <3> QED BY <1>1, <2>2, <3>1, <3>2
  <2>4. Len(s) - n \in I /\ s[Len(s) - n] = s[k]
    BY <1>4, <2>2, <2>3
  <2> QED BY <2>4
<1>5. I \subseteq DOMAIN s /\ \A i \in I : s[i] \in W
  OBVIOUS
<1> HIDE DEF I
<1>6. {s[i] : i \in I} = Range(s) \cap W
  BY <1>4, <1>5 DEF Range
<1> QED BY <1>2, <1>3, <1>6 DEF TheEntries

-----------------------------------------------------------------------------
(* Whom a command compares *)

Owners(table) == {table[i].user : i \in DOMAIN table}

(* Some characters have a main one among them. *)
LEMMA RepresentativeIsOne ==
  ASSUME NEW C, C \subseteq Character, IsFiniteSet(C), C # {}, NEW pin
  PROVE  PickRepresentative(C, pin) \in C
<1> DEFINE pinned == {c \in C : c.ocid = pin}
           pool == IF pinned # {} THEN pinned ELSE C
           R == {p \in C \X C : ~Ahead(p[2], p[1])}
<1>1. \A c \in C : c.level \in Int /\ c.created \in Int
  BY DEF Character
<1>2. \A x, y \in C : <<x, y>> \in R <=> ~Ahead(y, x)
  OBVIOUS
<1>3. \A x \in C : <<x, x>> \notin R
  BY <1>1, <1>2 DEF Ahead
<1>4. \A x, y, z \in C : <<x, y>> \in R /\ <<y, z>> \in R => <<x, z>> \in R
  <2> SUFFICES ASSUME NEW x \in C, NEW y \in C, NEW z \in C, ~Ahead(y, x), ~Ahead(z, y)
               PROVE  ~Ahead(z, x)
    BY <1>2
  <2> QED BY <1>1 DEF Ahead
<1> HIDE DEF R
<1>5. PICK x \in C : \A y \in C : <<y, x>> \notin R
  BY <1>3, <1>4, Topmost
<1>6. \A y \in C : Ahead(x, y)
  BY <1>2, <1>5
<1>7. \E c \in pool : \A d \in C : c.ocid = pin \/ Ahead(c, d)
  <2>1. CASE pinned # {}
    BY <2>1
  <2>2. CASE pinned = {}
    BY <1>6, <2>2
  <2> QED BY <2>1, <2>2
<1>8. PickRepresentative(C, pin) = CHOOSE c \in pool : \A d \in C : c.ocid = pin \/ Ahead(c, d)
  BY DEF PickRepresentative
<1>9. PickRepresentative(C, pin) \in pool
  <2> HIDE DEF pool
  <2> QED BY <1>7, <1>8
<1> QED BY <1>9

LEMMA OwnersTarget ==
  ASSUME NEW table \in Seq(Character), NEW u \in Owners(table), NEW pin,
         NEW t, t = ToTarget(PickRepresentative(OwnedBy(table, u), pin))
  PROVE  t \in Target /\ t.user = u
<1>1. Len(table) \in Nat /\ DOMAIN table = 1 .. Len(table) /\ \A i \in DOMAIN table : table[i] \in Character
  BY LenProperties, ElementOfSeq
<1>2. IsFiniteSet(Range(table)) /\ Range(table) \subseteq Character
  BY Elements
<1>3. OwnedBy(table, u) \subseteq Range(table)
  BY DEF OwnedBy, Range
<1>4. OwnedBy(table, u) # {} /\ \A c \in OwnedBy(table, u) : c.user = u
  BY DEF OwnedBy, Owners
<1>5. IsFiniteSet(OwnedBy(table, u))
  BY <1>2, <1>3, FS_Subset
<1>6. PickRepresentative(OwnedBy(table, u), pin) \in OwnedBy(table, u)
  BY <1>2, <1>3, <1>4, <1>5, RepresentativeIsOne
<1> QED BY <1>2, <1>3, <1>4, <1>6 DEF ToTarget, Target, Character

(* A target for each of the members, in their order. *)
Mains(table, pin, w) == [i \in DOMAIN w |-> ToTarget(PickRepresentative(OwnedBy(table, w[i]), pin[w[i]]))]

LEMMA TargetForEach ==
  ASSUME NEW table \in Seq(Character), NEW pin, NEW w \in Seq(User),
         Range(w) \subseteq Owners(table), IsInjective(w),
         NEW T, T = Mains(table, pin, w)
  PROVE  /\ T \in Seq(Target) /\ Len(T) = Len(w)
         /\ \A i, j \in DOMAIN T : T[i].user = T[j].user => i = j
         /\ Users(T) = Range(w)
<1>1. Len(w) \in Nat /\ DOMAIN w = 1 .. Len(w) /\ \A i \in DOMAIN w : w[i] \in Range(w)
  BY LenProperties DEF Range
<1>2. ASSUME NEW i \in DOMAIN w PROVE T[i] \in Target /\ T[i].user = w[i]
  <2>1. T[i] = ToTarget(PickRepresentative(OwnedBy(table, w[i]), pin[w[i]]))
    BY DEF Mains
  <2> QED BY <1>1, <2>1, OwnersTarget
<1>3. T \in [1 .. Len(w) -> Target]
  BY <1>1, <1>2 DEF Mains
<1>4. T \in Seq(Target) /\ Len(T) = Len(w) /\ DOMAIN T = DOMAIN w
  BY <1>1, <1>3, SeqDef
<1>5. \A i, j \in DOMAIN T : T[i].user = T[j].user => i = j
  BY <1>2, <1>4 DEF IsInjective
<1>6. Users(T) = Range(w)
  BY <1>2, <1>4 DEF Users, Range
<1> QED BY <1>4, <1>5, <1>6

LEMMA GotTargets ==
  ASSUME NEW table \in Seq(Character), NEW pin, NEW users \in Seq(User),
         NEW T, T = GetTargets(table, pin, users)
  PROVE  /\ T \in Seq(Target)
         /\ \A i, j \in DOMAIN T : T[i].user = T[j].user => i = j
         /\ Users(T) = IF users = <<>> THEN Owners(table) ELSE Range(users) \cap Owners(table)
         /\ users # <<>> => Len(T) <= Len(users)
<1> DEFINE owners == [i \in DOMAIN table |-> table[i].user]
           last == Entries(users, {i \in DOMAIN users :
                                     /\ users[i] \in Range(owners)
                                     /\ \A j \in i + 1 .. Len(users) : users[j] # users[i]})
           w == IF users = <<>> THEN FirstPlaces(owners) ELSE last
<1>1. Len(table) \in Nat /\ DOMAIN table = 1 .. Len(table) /\ \A i \in DOMAIN table : table[i] \in Character
  BY LenProperties, ElementOfSeq
<1>2. owners \in Seq(User) /\ Range(owners) = Owners(table)
  <2>1. owners \in [1 .. Len(table) -> User]
    BY <1>1 DEF Character
  <2>2. Range(owners) = Owners(table)
    BY DEF Range, Owners
  <2> HIDE DEF owners
  <2> QED BY <1>1, <2>1, <2>2, SeqDef
<1>3. T = Mains(table, pin, w)
  BY DEF GetTargets, Mains
<1> HIDE DEF owners
<1>4. CASE users = <<>>
  <2>0. w = FirstPlaces(owners)
    BY <1>4
  <2> HIDE DEF w
  <2>1. w \in Seq(User) /\ Range(w) = Owners(table) /\ IsInjective(w)
    BY <1>2, <2>0, EachOnce
  <2>2. Range(w) \subseteq Owners(table)
    BY <2>1
  <2>3. /\ T \in Seq(Target) /\ Users(T) = Owners(table)
        /\ \A i, j \in DOMAIN T : T[i].user = T[j].user => i = j
    BY <1>3, <2>1, <2>2, TargetForEach
  <2> QED BY <1>4, <2>3
<1>5. CASE users # <<>>
  <2>0. w = last
    BY <1>5
  <2> HIDE DEF w
  <2>1. last \in Seq(User) /\ Range(last) = Range(users) \cap Range(owners) /\ IsInjective(last) /\ Len(last) <= Len(users)
    <3>1. last = Entries(users, LastOnes(users, Range(owners)))
      BY DEF LastOnes
    <3> HIDE DEF last
    <3> QED BY <3>1, EachOnceFromTheEnd
  <2> HIDE DEF last
  <2>2. w \in Seq(User) /\ Range(w) = Range(users) \cap Owners(table) /\ IsInjective(w) /\ Len(w) <= Len(users)
    BY <1>2, <2>0, <2>1
  <2>3. Range(w) \subseteq Owners(table)
    BY <2>2
  <2>4. /\ T \in Seq(Target) /\ Users(T) = Range(w) /\ Len(T) = Len(w)
        /\ \A i, j \in DOMAIN T : T[i].user = T[j].user => i = j
    BY <1>3, <2>2, <2>3, TargetForEach
  <2>5. Len(T) <= Len(users) /\ Users(T) = Range(users) \cap Owners(table)
    BY <2>2, <2>4
  <2>6. Users(T) = IF users = <<>> THEN Owners(table) ELSE Range(users) \cap Owners(table)
    BY <1>5, <2>5
  <2>7. \A i, j \in DOMAIN T : T[i].user = T[j].user => i = j
    BY <2>4
  <2> QED BY <2>4, <2>5, <2>6, <2>7
<1> QED BY <1>4, <1>5

LEMMA InjectiveByUser ==
  ASSUME NEW T, \A i, j \in DOMAIN T : T[i].user = T[j].user => i = j
  PROVE  IsInjective(T)
BY DEF IsInjective

(* Who is named is among the targets or missing. *)
LEMMA Resolved ==
  ASSUME NEW table \in Seq(Character), NEW pin, NEW users \in Seq(User),
         NEW r, r = ResolveTargets(table, pin, users)
  PROVE  /\ r.targets = GetTargets(table, pin, users) /\ r.missing \in Seq(User)
         /\ \A i \in DOMAIN users : users[i] \in Users(r.targets) \/ users[i] \in Range(r.missing)
         /\ users = <<>> => r.missing = <<>>
<1> DEFINE T == GetTargets(table, pin, users)
           I == {i \in DOMAIN users : users[i] \notin Users(T)}
<1>1. r = [targets |-> T, missing |-> Entries(users, I)]
  BY DEF ResolveTargets
<1> HIDE DEF T
<1>2. TheEntries(Entries(users, I), User, users, I)
  BY EntriesOf
<1>3. Len(users) \in Nat /\ DOMAIN users = 1 .. Len(users)
  BY LenProperties
<1>4. users = <<>> => Len(Entries(users, I)) = 0
  <2> SUFFICES ASSUME users = <<>> PROVE Len(Entries(users, I)) = 0
    OBVIOUS
  <2>1. Len(users) = 0
    BY EmptySeq
  <2>2. I = {}
    BY <1>3, <2>1
  <2> HIDE DEF I
  <2> QED BY <1>2, <2>2, FS_EmptySet DEF TheEntries
<1>5. users = <<>> => Entries(users, I) = <<>>
  BY <1>2, <1>4, EmptySeq DEF TheEntries
<1>6. \A i \in DOMAIN users : users[i] \in Users(T) \/ users[i] \in Range(Entries(users, I))
  BY <1>2 DEF TheEntries
<1> HIDE DEF I
<1> QED BY <1>1, <1>2, <1>5, <1>6 DEF TheEntries, T

LEMMA Followed == ASSUME NEW S, NEW a \in Seq(S), NEW b \in Seq(S)
  PROVE  a \o b \in Seq(S) /\ Range(a) \subseteq Range(a \o b)
<1>1. /\ Len(a) \in Nat /\ DOMAIN a = 1 .. Len(a) /\ Len(b) \in Nat
      /\ a \o b \in Seq(S) /\ DOMAIN (a \o b) = 1 .. Len(a) + Len(b)
      /\ \A i \in 1 .. Len(a) + Len(b) : (a \o b)[i] = IF i <= Len(a) THEN a[i] ELSE b[i - Len(a)]
  BY ConcatProperties, LenProperties
<1>2. \A i \in 1 .. Len(a) : i \in 1 .. Len(a) + Len(b) /\ (a \o b)[i] = a[i]
  BY <1>1
<1> QED BY <1>1, <1>2 DEF Range

(* A nickname names a registered character, a guest or nobody. *)
LEMMA NicknamesNamed ==
  ASSUME NEW table \in Seq(Character), NEW names \in Seq(Nick), NEW found,
         \A n \in Nick : found[n] \in Target \cup {NoTarget},
         NEW named, named = Nicknamed(table, names, found)
  PROVE  named \in Seq(Target \cup {NoTarget}) /\ Len(named) = Len(names) /\ DOMAIN named = DOMAIN names
<1>1. Len(names) \in Nat /\ DOMAIN names = 1 .. Len(names) /\ \A i \in DOMAIN names : names[i] \in Nick
  BY LenProperties, ElementOfSeq
<1>2. Range(table) \subseteq Character
  BY Elements
<1>3. ASSUME NEW n PROVE MatchNickname(table, n) \in Target \cup {NoTarget}
  <2> DEFINE rows == {c \in Range(table) : c.nick = n}
  <2>1. rows # {} => (CHOOSE c \in rows : TRUE) \in rows
    OBVIOUS
  <2>2. rows # {} => (CHOOSE c \in rows : TRUE) \in Character
    BY <1>2, <2>1
  <2>3. \A c \in Character : ToTarget(c) \in Target
    BY DEF ToTarget, Target, Character
  <2>4. MatchNickname(table, n) = IF rows = {} THEN NoTarget ELSE ToTarget(CHOOSE c \in rows : TRUE)
    BY DEF MatchNickname
  <2> HIDE DEF rows
  <2> QED BY <2>2, <2>3, <2>4
<1>4. named \in [1 .. Len(names) -> Target \cup {NoTarget}]
  BY <1>1, <1>3 DEF Nicknamed
<1> QED BY <1>1, <1>4, SeqDef

(* Nobody comes twice, and who is named is among the targets or missing. *)
LEMMA Mixed ==
  ASSUME NEW table \in Seq(Character), NEW pin, NEW users \in Seq(User), NEW names \in Seq(Nick),
         NEW found, \A n \in Nick : found[n] \in Target \cup {NoTarget},
         NEW r, r = ResolveMixed(table, pin, users, names, found)
  PROVE  /\ r.targets \in Seq(Target) /\ IsInjective(r.targets)
         /\ \A i \in DOMAIN users : users[i] \in Users(r.targets) \/ users[i] \in Range(r.missing)
         /\ IF users = <<>> /\ names = <<>> THEN Users(r.targets) = Owners(table)
            ELSE Len(r.targets) <= Len(users) + Len(names)
<1> DEFINE none == [targets |-> <<>>, missing |-> <<>>]
           all == ResolveTargets(table, pin, users)
           first == IF users = <<>> /\ names # <<>> THEN none ELSE all
           named == Nicknamed(table, names, found)
           unknown == {i \in DOMAIN names : named[i] = NoTarget}
           fresh == {i \in DOMAIN names \ unknown :
                       /\ named[i].ocid \notin Ocids(first.targets)
                       /\ \A j \in 1 .. i - 1 : named[j].ocid # named[i].ocid}
           more == Entries(named, fresh)
           lost == Entries(names, unknown)
<1>1. r.targets = first.targets \o more /\ r.missing = first.missing \o lost
  BY DEF ResolveMixed
<1>2. named \in Seq(Target \cup {NoTarget}) /\ Len(named) = Len(names) /\ DOMAIN named = DOMAIN names
  BY NicknamesNamed
<1>3. Len(names) \in Nat /\ DOMAIN names = 1 .. Len(names) /\ Len(users) \in Nat /\ DOMAIN users = 1 .. Len(users)
  BY LenProperties
<1>4. /\ first.targets \in Seq(Target) /\ IsInjective(first.targets) /\ first.missing \in Seq(User)
      /\ \A i \in DOMAIN users : users[i] \in Users(first.targets) \/ users[i] \in Range(first.missing)
      /\ IF users = <<>> /\ names = <<>> THEN Users(first.targets) = Owners(table)
         ELSE Len(first.targets) <= Len(users)
  <2>1. /\ all.targets = GetTargets(table, pin, users) /\ all.missing \in Seq(User)
        /\ \A i \in DOMAIN users : users[i] \in Users(all.targets) \/ users[i] \in Range(all.missing)
    BY Resolved
  <2> HIDE DEF all
  <2>2. /\ all.targets \in Seq(Target)
        /\ \A i, j \in DOMAIN all.targets : all.targets[i].user = all.targets[j].user => i = j
        /\ Users(all.targets) = IF users = <<>> THEN Owners(table) ELSE Range(users) \cap Owners(table)
        /\ users # <<>> => Len(all.targets) <= Len(users)
    BY <2>1, GotTargets
  <2>3. IsInjective(all.targets)
    BY <2>2, InjectiveByUser
  <2>4. CASE users = <<>> /\ names # <<>>
    <3>1. first.targets = <<>> /\ first.missing = <<>>
      BY <2>4
    <3> HIDE DEF first
    <3>2. Len(users) = 0 /\ <<>> \in Seq(Target) /\ <<>> \in Seq(User) /\ IsInjective(<<>>)
      BY <2>4, EmptySeq DEF IsInjective
    <3>3. Len(first.targets) <= Len(users)
      BY <3>1, <3>2, EmptySeq
    <3>4. DOMAIN users = {}
      BY <1>3, <3>2
    <3> QED BY <2>4, <3>1, <3>2, <3>3, <3>4
  <2>5. CASE ~(users = <<>> /\ names # <<>>)
    <3>1. first = all
      BY <2>5
    <3> HIDE DEF first
    <3>2. users = <<>> => names = <<>>
      BY <2>5
    <3>3. CASE users = <<>>
      BY <2>1, <2>2, <2>3, <3>1, <3>2, <3>3
    <3>4. CASE users # <<>>
      BY <2>1, <2>2, <2>3, <3>1, <3>4
    <3> QED BY <3>3, <3>4
  <2> QED BY <2>4, <2>5
<1> HIDE DEF first, named
<1>5. /\ fresh \subseteq DOMAIN named /\ unknown \subseteq DOMAIN names
      /\ \A i \in fresh : named[i] # NoTarget /\ named[i].ocid \notin Ocids(first.targets)
  BY <1>2
<1>6. \A i, j \in fresh : named[i] = named[j] => i = j
  <2>1. \A i, j \in fresh : i < j => named[i] # named[j]
    BY <1>2, <1>3
  <2> QED BY <1>2, <1>3, <2>1
<1> HIDE DEF fresh, unknown
<1>7. TheEntries(more, Target \cup {NoTarget}, named, fresh) /\ TheEntries(lost, Nick, names, unknown)
  BY <1>2, <1>5, EntriesOf
<1> HIDE DEF more, lost
<1>8. /\ more \in Seq(Target \cup {NoTarget}) /\ Len(more) <= Len(names) /\ IsInjective(more)
      /\ Range(more) = {named[i] : i \in fresh} /\ lost \in Seq(Nick)
  BY <1>2, <1>6, <1>7 DEF TheEntries
<1>9. more \in Seq(Target) /\ Range(first.targets) \cap Range(more) = {}
  <2>1. \A i \in fresh : named[i] \in Target
    BY <1>2, <1>5, ElementOfSeq, LenProperties
  <2>2. Range(more) \subseteq Target
    BY <1>8, <2>1
  <2>3. \A t \in Range(first.targets) : t.ocid \in Ocids(first.targets)
    BY DEF Range, Ocids
  <2>4. \A t \in Range(more) : t.ocid \notin Ocids(first.targets)
    BY <1>5, <1>8
  <2> QED BY <1>8, <2>2, <2>3, <2>4, Elements
<1>10. /\ r.targets \in Seq(Target) /\ IsInjective(r.targets)
       /\ Len(r.targets) = Len(first.targets) + Len(more)
       /\ Range(r.targets) = Range(first.targets) \cup Range(more)
  BY <1>1, <1>4, <1>8, <1>9, Joined
<1>11. Range(first.missing) \subseteq Range(r.missing)
  <2>1. first.missing \in Seq(User \cup Nick) /\ lost \in Seq(User \cup Nick)
    <3>1. Range(first.missing) \subseteq User \cup Nick /\ Range(lost) \subseteq User \cup Nick
      BY <1>4, <1>8, Elements
    <3> QED BY <1>4, <1>8, <3>1, Elements
  <2> QED BY <1>1, <2>1, Followed
<1>12. Users(first.targets) \subseteq Users(r.targets)
  <2>1. \A T : Users(T) = {t.user : t \in Range(T)}
    BY DEF Users, Range
  <2> QED BY <1>10, <2>1
<1>13. ASSUME users = <<>> /\ names = <<>>
       PROVE  Users(r.targets) = Owners(table)
  <2>1. Len(more) = 0
    BY <1>3, <1>8, <1>13, EmptySeq, LenProperties
  <2>2. more = <<>>
    BY <1>8, <2>1, EmptySeq
  <2>3. r.targets = first.targets
    BY <1>1, <1>4, <2>2, ConcatEmptySeq
  <2> QED BY <1>4, <1>13, <2>3
<1>14. ASSUME ~(users = <<>> /\ names = <<>>) PROVE Len(r.targets) <= Len(users) + Len(names)
  <2>1. Len(first.targets) <= Len(users) /\ Len(first.targets) \in Nat /\ Len(more) \in Nat
    BY <1>4, <1>8, <1>14, LenProperties
  <2> QED BY <1>3, <1>8, <1>10, <2>1
<1>15. \A i \in DOMAIN users : users[i] \in Users(r.targets) \/ users[i] \in Range(r.missing)
  BY <1>4, <1>11, <1>12
<1> QED BY <1>10, <1>13, <1>14, <1>15

(* The lot leaves nobody in twice, and no more than are shown. *)
LEMMA Drawn ==
  ASSUME NEW targets \in Seq(Target), IsInjective(targets), NEW self, NEW cap \in Nat,
         NEW chosen \in SelectWithSelf(targets, self, cap)
  PROVE  chosen \in Seq(Target) /\ IsInjective(chosen) /\ Len(chosen) <= cap
<1> DEFINE I == {i \in DOMAIN targets : targets[i].user = self}
           mine == Entries(targets, I)
           others == {targets[i] : i \in {j \in DOMAIN targets : targets[j].user # self}}
<1>1. CASE Len(targets) <= cap
  BY <1>1 DEF SelectWithSelf
<1>2. CASE ~(Len(targets) <= cap)
  <2>0. PICK S \in kSubset(cap - Len(mine), others) : \E s \in SetToSeqs(S) : chosen = mine \o s
    BY <1>2 DEF SelectWithSelf
  <2>1. PICK s \in SetToSeqs(S) : chosen = mine \o s
    BY <2>0
  <2>2. I \subseteq DOMAIN targets /\ \A i \in I : targets[i].user = self
    OBVIOUS
  <2>3. others \subseteq Range(targets) /\ \A t \in others : t.user # self
    BY DEF Range
  <2> HIDE DEF I, others
  <2>4. \A i, j \in I : targets[i] = targets[j] => i = j
    BY <2>2 DEF IsInjective
  <2>5. TheEntries(mine, Target, targets, I)
    BY <2>2, EntriesOf
  <2>6. mine \in Seq(Target) /\ IsInjective(mine) /\ Len(mine) \in Nat /\ \A t \in Range(mine) : t.user = self
    BY <2>2, <2>4, <2>5, LenProperties DEF TheEntries
  <2> HIDE DEF mine
  <2>7. Range(targets) \subseteq Target /\ IsFiniteSet(Range(targets))
    BY Elements
  <2>8. S \subseteq others /\ Cardinality(S) = cap - Len(mine)
    BY <2>0 DEF kSubset
  <2>9. IsFiniteSet(S) /\ S \subseteq Target /\ Cardinality(S) \in Nat
    <3>1. S \subseteq Range(targets)
      BY <2>3, <2>8
    <3> QED BY <2>7, <3>1, FS_Subset, FS_CardinalityType
  <2>10. s \in [1 .. Cardinality(S) -> S] /\ \A i, j \in 1 .. Cardinality(S) : i # j => s[i] # s[j]
    BY <2>1 DEF SetToSeqs
  <2>11. s \in Seq(Target) /\ IsInjective(s) /\ Len(s) = Cardinality(S) /\ Range(s) \subseteq S
    <3>1. s \in [1 .. Cardinality(S) -> Target]
      BY <2>9, <2>10
    <3>2. IsInjective(s) /\ Range(s) \subseteq S
      BY <2>10 DEF IsInjective, Range
    <3>3. s \in Seq(Target)
      BY <2>9, <3>1, SeqDef
    <3>4. DOMAIN s = 1 .. Cardinality(S) /\ DOMAIN s = 1 .. Len(s) /\ Len(s) \in Nat
      BY <3>1, <3>3, LenProperties
    <3>5. Len(s) = Cardinality(S)
      BY <2>9, <3>3, <3>4
    <3> QED BY <3>2, <3>3, <3>5
  <2>12. Range(mine) \cap Range(s) = {}
    BY <2>3, <2>6, <2>8, <2>11
  <2>13. /\ chosen \in Seq(Target) /\ IsInjective(chosen) /\ Len(chosen) = Len(mine) + Len(s)
    BY <2>1, <2>6, <2>11, <2>12, Joined
  <2> QED BY <2>6, <2>8, <2>11, <2>13
<1> QED BY <1>1, <1>2

(* The characters of one member, or those of them that are named. *)
LEMMA Mine ==
  ASSUME NEW table \in Seq(Character), Keyed(table), NEW author \in User, NEW ocids \in Seq(Ocid),
         NEW T, T = MyTargets(table, author, ocids)
  PROVE  T \in Seq(Target) /\ IsInjective(T)
<1> DEFINE mine == {i \in DOMAIN table : table[i].user = author}
           key == [i \in mine |-> -table[i].level]
           sorted == Arranged(table, mine, key)
           I == {i \in DOMAIN ocids : /\ \E j \in mine : table[j].ocid = ocids[i]
                                      /\ \A j \in 1 .. i - 1 : ocids[j] # ocids[i]}
           named == Entries(ocids, I)
<1>1. T = IF ocids = <<>> THEN [i \in DOMAIN sorted |-> ToTarget(sorted[i])]
          ELSE [i \in DOMAIN named |-> [user |-> author, ocid |-> named[i]]]
  BY DEF MyTargets
<1>2. DOMAIN table = 1 .. Len(table) /\ \A i \in DOMAIN table : table[i] \in Character
  BY LenProperties, ElementOfSeq
<1>3. DOMAIN ocids = 1 .. Len(ocids) /\ Len(ocids) \in Nat
  BY LenProperties
<1>4. CASE ocids = <<>>
  <2>1. key \in [mine -> Int] /\ mine \subseteq DOMAIN table
    BY <1>2 DEF Character
  <2>2. \A i, j \in mine : table[i] = table[j] => i = j
    BY DEF Keyed
  <2>3. \A i, j \in mine : table[i].ocid = table[j].ocid => i = j
    BY DEF Keyed
  <2>4. T = [i \in DOMAIN sorted |-> ToTarget(sorted[i])]
    BY <1>1, <1>4
  <2> HIDE DEF mine, key
  <2>5. TheEntries(sorted, Character, table, mine)
    BY <2>1, Arranging
  <2> HIDE DEF sorted
  <2>6. sorted \in Seq(Character) /\ Range(sorted) = {table[i] : i \in mine} /\ IsInjective(sorted)
    BY <2>2, <2>5 DEF TheEntries
  <2>7. DOMAIN sorted = 1 .. Len(sorted) /\ Len(sorted) \in Nat /\ \A n \in DOMAIN sorted : sorted[n] \in Character
    BY <2>6, LenProperties, ElementOfSeq
  <2>8. T \in [1 .. Len(sorted) -> Target]
    BY <2>4, <2>7 DEF ToTarget, Target, Character
  <2>9. \A m, n \in DOMAIN sorted : sorted[m].ocid = sorted[n].ocid => m = n
    <3> SUFFICES ASSUME NEW m \in DOMAIN sorted, NEW n \in DOMAIN sorted, sorted[m].ocid = sorted[n].ocid
                 PROVE  m = n
      OBVIOUS
    <3>1. sorted[m] \in Range(sorted) /\ sorted[n] \in Range(sorted)
      BY DEF Range
    <3>2. PICK i \in mine, j \in mine : sorted[m] = table[i] /\ sorted[n] = table[j]
      BY <2>6, <3>1
    <3>3. i = j
      BY <2>3, <3>2
    <3> QED BY <2>6, <3>2, <3>3 DEF IsInjective
  <2>10. IsInjective(T)
    BY <2>4, <2>9 DEF IsInjective, ToTarget
  <2> QED BY <2>7, <2>8, <2>10, SeqDef
<1>5. CASE ocids # <<>>
  <2>1. T = [i \in DOMAIN named |-> [user |-> author, ocid |-> named[i]]]
    BY <1>1, <1>5
  <2>2. I \subseteq DOMAIN ocids
    OBVIOUS
  <2>3. \A i, j \in I : ocids[i] = ocids[j] => i = j
    <3>1. \A i, j \in I : i < j => ocids[i] # ocids[j]
      BY <1>3
    <3> QED BY <1>3, <3>1
  <2> HIDE DEF I, mine, sorted
  <2>4. TheEntries(named, Ocid, ocids, I)
    BY <2>2, EntriesOf
  <2> HIDE DEF named
  <2>5. named \in Seq(Ocid) /\ IsInjective(named)
    BY <2>3, <2>4 DEF TheEntries
  <2>6. DOMAIN named = 1 .. Len(named) /\ Len(named) \in Nat /\ \A n \in DOMAIN named : named[n] \in Ocid
    BY <2>5, LenProperties, ElementOfSeq
  <2>7. T \in [1 .. Len(named) -> Target]
    BY <2>1, <2>6 DEF Target
  <2>8. IsInjective(T)
    BY <2>1, <2>5 DEF IsInjective
  <2> QED BY <2>6, <2>7, <2>8, SeqDef
<1> QED BY <1>4, <1>5

LEMMA Less ==
  ASSUME NEW a \in Nat, NEW b \in Nat
  PROVE  Min({a, b}) = IF a <= b THEN a ELSE b
<1>1. \E m \in {a, b} : \A y \in {a, b} : m <= y
  OBVIOUS
<1> QED BY <1>1 DEF Min

-----------------------------------------------------------------------------
(* The figures *)

Powers == [Ocid -> [1 .. WeeklyDays -> Nat \cup {None}]]

LEMMA Figures ==
  ASSUME NEW a \in AnswerType
  PROVE  FetchSpec(a) \in Int /\ FetchUnion(a) \in Int /\ FetchItem(a) \in Int
<1>1. 1 \in 1 .. 2 /\ 2 \in 1 .. 2
  OBVIOUS
<1>2. /\ a.union \in [1 .. 2 -> Nat \cup {None, NotReady, Raised}] /\ a.power \in Nat \cup {None}
      /\ a.item \in {None, Raised} \cup Nat
  BY DEF AnswerType
<1>3. /\ a.union[1] \in Int /\ a.union[2] \in Int
  BY <1>1, <1>2 DEF None, NotReady, Raised
<1> QED BY <1>2, <1>3 DEF FetchSpec, FetchUnion, FetchItem, UnionLatest, None, NotReady, Raised

LEMMA WeeklyFigure ==
  ASSUME NEW latest \in Int, NEW kept \in [1 .. WeeklyDays -> Nat \cup {None}],
         NEW days \in [1 .. WeeklyDays -> Nat \cup {None, NotReady, Raised}]
  PROVE  FetchWeeklyMaxPower(latest, kept, days) \in Int
<1> DEFINE D == {e \in 1 .. WeeklyDays : kept[e] # None \/ days[e] # Raised}
           F == {FetchCombatPowerOn(kept[d], days[d]) : d \in D}
           S == {latest, None} \cup F
           f == [d \in D |-> FetchCombatPowerOn(kept[d], days[d])]
<1>1. \A d \in D : FetchCombatPowerOn(kept[d], days[d]) \in Int
  BY DEF FetchCombatPowerOn, None, NotReady, Raised
<1>2. IsFiniteSet(D)
  <2>1. IsFiniteSet(1 .. WeeklyDays) /\ D \subseteq 1 .. WeeklyDays
    BY TabsAssumption, UpTo
  <2> QED BY <2>1, FS_Subset
<1>3. f \in Surjection(D, F)
  <2>1. f \in [D -> F] /\ \A y \in F : \E d \in D : f[d] = y
    OBVIOUS
  <2> HIDE DEF D, F, f
  <2> QED BY <2>1 DEF Surjection
<1>4. IsFiniteSet(F)
  BY <1>2, <1>3, FS_Surjection
<1>5. IsFiniteSet(S)
  <2>1. IsFiniteSet({latest, None})
    <3>1. IsFiniteSet({} \cup {latest}) /\ IsFiniteSet({} \cup {latest} \cup {None})
      BY FS_EmptySet, FS_AddElement
    <3>2. {} \cup {latest} \cup {None} = {latest, None}
      OBVIOUS
    <3> QED BY <3>1, <3>2
  <2> QED BY <1>4, <2>1, FS_Union
<1>6. F \subseteq Int
  BY <1>1
<1>7. S \subseteq Int /\ S # {}
  BY <1>6 DEF None
<1>8. FetchWeeklyMaxPower(latest, kept, days) = Max(S)
  BY DEF FetchWeeklyMaxPower
<1> HIDE DEF S
<1> QED BY <1>5, <1>7, <1>8, MaxInteger

-----------------------------------------------------------------------------
(* The rows *)

LEMMA Succeeded ==
  ASSUME NEW T \in Seq(Target), IsInjective(T), NEW outcome
  PROVE  LET p == Successes(T, outcome)
         IN p \in Seq(Target) /\ IsInjective(p) /\ Range(p) = {t \in Range(T) : Ok(outcome[t])}
<1> DEFINE I == {i \in DOMAIN T : Ok(outcome[T[i]])}
           p == Successes(T, outcome)
<1>1. TheEntries(p, Target, T, I)
  BY EntriesOf DEF Successes
<1>2. \A i, j \in I : T[i] = T[j] => i = j
  BY DEF IsInjective
<1>3. {T[i] : i \in I} = {t \in Range(T) : Ok(outcome[t])}
  BY DEF Range
<1> HIDE DEF I, p
<1>4. p \in Seq(Target) /\ IsInjective(p) /\ Range(p) = {T[i] : i \in I}
  BY <1>1, <1>2 DEF TheEntries
<1> QED BY <1>3, <1>4 DEF p

(* The same entries in another order. *)
Reordered(a, s) == a \in Seq(Target) /\ IsInjective(a) /\ Range(a) = Range(s) /\ Len(a) = Len(s)

LEMMA RankedAgain ==
  ASSUME NEW people \in Seq(Target), IsInjective(people), NEW D, Range(people) \subseteq D,
         NEW figure \in [D -> Int]
  PROVE  Reordered(Ranked(people, figure), people)
<1> DEFINE I == DOMAIN people
           key == [i \in I |-> -figure[people[i]]]
           a == Ranked(people, figure)
<1>1. key \in [I -> Int]
  BY DEF Range
<1>2. a = Arranged(people, I, key)
  BY DEF Ranked
<1> HIDE DEF key, a
<1>3. TheEntries(a, Target, people, I)
  BY <1>1, <1>2, Arranging
<1>4. \A i, j \in I : people[i] = people[j] => i = j
  BY DEF IsInjective
<1>5. Len(people) \in Nat /\ DOMAIN people = 1 .. Len(people) /\ Cardinality(1 .. Len(people)) = Len(people)
  BY LenProperties, UpTo
<1>6. {people[i] : i \in I} = Range(people)
  BY DEF Range
<1> QED BY <1>3, <1>4, <1>5, <1>6 DEF TheEntries, Reordered, a

LEMMA OwnFirst ==
  ASSUME NEW people \in Seq(Target), IsInjective(people), NEW self
  PROVE  /\ Reordered(SelfFirst(people, self), people)
         /\ (\E t \in Range(people) : t.user = self) => SelfFirst(people, self)[1].user = self
<1> DEFINE I == DOMAIN people
           key == [i \in I |-> IF people[i].user = self THEN 0 ELSE 1]
           a == SelfFirst(people, self)
<1>1. key \in [I -> Int]
  OBVIOUS
<1>2. a = Arranged(people, I, key)
  BY DEF SelfFirst
<1>3. \A i \in I : key[i] = IF people[i].user = self THEN 0 ELSE 1
  OBVIOUS
<1> HIDE DEF key, a
<1>4. TheEntries(a, Target, people, I) /\ Headed(a, people, I, key)
  BY <1>1, <1>2, Arranging
<1>5. \A i, j \in I : people[i] = people[j] => i = j
  BY DEF IsInjective
<1>6. Len(people) \in Nat /\ DOMAIN people = 1 .. Len(people) /\ Cardinality(1 .. Len(people)) = Len(people)
  BY LenProperties, UpTo
<1>7. {people[i] : i \in I} = Range(people)
  BY DEF Range
<1>8. Reordered(a, people)
  BY <1>4, <1>5, <1>6, <1>7 DEF TheEntries, Reordered
<1>9. ASSUME NEW t \in Range(people), t.user = self PROVE a[1].user = self
  <2>1. PICK k \in I : people[k] = t
    BY <1>7
  <2>2. Len(a) = Len(people) /\ Len(people) # 0
    BY <1>6, <1>8, <2>1 DEF Reordered
  <2>3. a # <<>>
    BY <1>6, <2>2, EmptySeq
  <2>4. PICK i \in I : a[1] = people[i] /\ key[i] <= key[k]
    BY <1>4, <2>1, <2>3 DEF Headed
  <2> QED BY <1>3, <1>9, <2>1, <2>4
<1> QED BY <1>8, <1>9 DEF a

(* A page has a row or a failure for each target. *)
Fits(page, T, notes) ==
  /\ page.people \in Seq(Target) /\ IsInjective(page.people)
  /\ Range(page.people) \cap page.failed = {} /\ Range(page.people) \cup page.failed = Range(T)
  /\ page.missing = call.missing /\ (page.people # <<>> => page.notes = notes)

LEMMA Fitting ==
  ASSUME NEW T \in Seq(Target), IsInjective(T), NEW outcome, DOMAIN outcome = Range(T), NEW notes,
         NEW people, Reordered(people, Successes(T, outcome))
  PROVE  Fits(Page(people, outcome, call.missing, notes), T, notes)
<1> DEFINE failed == {t \in DOMAIN outcome : ~Ok(outcome[t])}
           p == Successes(T, outcome)
           page == Page(people, outcome, call.missing, notes)
<1>1. Range(p) = {t \in Range(T) : Ok(outcome[t])}
  BY Succeeded
<1>2. page = [people |-> people, failed |-> failed, missing |-> call.missing,
              notes |-> IF people = <<>> THEN {} ELSE notes]
  BY DEF Page
<1>3. people \in Seq(Target) /\ IsInjective(people) /\ Range(people) = Range(p)
  BY DEF Reordered
<1>4. /\ page.people = people /\ page.failed = failed /\ page.missing = call.missing
      /\ page.notes = IF people = <<>> THEN {} ELSE notes
  BY <1>2
<1> HIDE DEF page, p
<1>5. Range(people) \cap failed = {} /\ Range(people) \cup failed = Range(T)
  BY <1>1, <1>3
<1> HIDE DEF failed
<1>6. Fits(page, T, notes)
  BY <1>3, <1>4, <1>5 DEF Fits
<1> QED BY <1>6 DEF page

LEMMA TabFits ==
  ASSUME NEW tab \in Tab, NEW T \in Seq(Target), IsInjective(T), NEW notes,
         NEW answers \in [Ocid -> AnswerType], powers \in Powers,
         NEW page, page = Built(tab, T, notes, answers)
  PROVE  /\ Fits(page, T, notes)
         /\ tab = "item" /\ (\E t \in Range(page.people) : t.user = By.author) =>
              page.people[1].user = By.author
<1>1. \A t \in Range(T) : /\ t \in Target /\ t.ocid \in Ocid /\ answers[t.ocid] \in AnswerType
                          /\ powers[t.ocid] \in [1 .. WeeklyDays -> Nat \cup {None}]
  <2>1. Range(T) \subseteq Target
    BY Elements
  <2>2. \A t \in Range(T) : t \in Target /\ t.ocid \in Ocid
    BY <2>1 DEF Target
  <2> QED BY <2>2 DEF Powers
<1>2. ASSUME NEW outcome
      PROVE  LET p == Successes(T, outcome)
             IN p \in Seq(Target) /\ IsInjective(p) /\ Range(p) \subseteq Range(T) /\ Reordered(p, p)
  BY Succeeded DEF Reordered
<1>3. CASE tab = "spec"
  <2> DEFINE outcome == [t \in Range(T) |-> FetchSpec(answers[t.ocid])]
             weekly == [t \in Range(T) |-> FetchWeeklyMaxPower(outcome[t], powers[t.ocid], answers[t.ocid].days)]
             p == Successes(T, outcome)
             people == IF Compared(T, call.missing) THEN Ranked(p, weekly) ELSE p
  <2>1. page = Page(people, outcome, call.missing, notes)
    BY <1>3 DEF Built, BuildSpecMessage
  <2>2. outcome \in [Range(T) -> Int] /\ DOMAIN outcome = Range(T)
    BY <1>1, Figures
  <2>3. weekly \in [Range(T) -> Int]
    <3>1. \A t \in Range(T) : answers[t.ocid].days \in [1 .. WeeklyDays -> Nat \cup {None, NotReady, Raised}]
      BY <1>1 DEF AnswerType
    <3>2. \A t \in Range(T) : outcome[t] \in Int
      BY <2>2
    <3> HIDE DEF outcome
    <3> QED BY <1>1, <3>1, <3>2, WeeklyFigure
  <2>4. p \in Seq(Target) /\ IsInjective(p) /\ Range(p) \subseteq Range(T) /\ Reordered(p, p)
    BY <1>2
  <2> HIDE DEF outcome, weekly, p
  <2>5. Reordered(Ranked(p, weekly), p)
    BY <2>3, <2>4, RankedAgain
  <2>6. Reordered(people, p)
    BY <2>4, <2>5
  <2> HIDE DEF people
  <2>7. Reordered(people, Successes(T, outcome))
    BY <2>6 DEF p
  <2> QED BY <1>3, <2>1, <2>2, <2>7, Fitting
<1>4. CASE tab = "item"
  <2> DEFINE outcome == [t \in Range(T) |-> FetchItem(answers[t.ocid])]
             p == Successes(T, outcome)
             people == SelfFirst(p, By.author)
  <2>1. page = Page(people, outcome, call.missing, notes)
    BY <1>4 DEF Built, BuildItemMessage
  <2>2. DOMAIN outcome = Range(T)
    OBVIOUS
  <2>3. p \in Seq(Target) /\ IsInjective(p)
    BY <1>2
  <2> HIDE DEF outcome, p
  <2>4. /\ Reordered(people, p)
        /\ (\E t \in Range(p) : t.user = By.author) => people[1].user = By.author
    BY <2>3, OwnFirst
  <2> HIDE DEF people
  <2>5. Reordered(people, Successes(T, outcome)) /\ Range(people) = Range(p)
    BY <2>4 DEF p, Reordered
  <2>6. Fits(page, T, notes)
    BY <2>1, <2>2, <2>5, Fitting
  <2>7. page.people = people
    BY <2>1 DEF Page
  <2> QED BY <2>4, <2>5, <2>6, <2>7
<1>5. CASE tab = "union"
  <2> DEFINE outcome == [t \in Range(T) |-> FetchUnion(answers[t.ocid])]
             level == [t \in Range(T) |-> IF outcome[t] = 0 THEN None ELSE outcome[t]]
             p == Successes(T, outcome)
             people == IF Compared(T, call.missing) THEN Ranked(p, level) ELSE p
  <2>1. page = Page(people, outcome, call.missing, notes)
    BY <1>5 DEF Built, BuildUnionMessage
  <2>2. outcome \in [Range(T) -> Int] /\ DOMAIN outcome = Range(T)
    BY <1>1, Figures
  <2>3. level \in [Range(T) -> Int]
    <3>1. \A t \in Range(T) : outcome[t] \in Int
      BY <2>2
    <3> HIDE DEF outcome
    <3> QED BY <3>1 DEF None
  <2>4. p \in Seq(Target) /\ IsInjective(p) /\ Range(p) \subseteq Range(T) /\ Reordered(p, p)
    BY <1>2
  <2> HIDE DEF outcome, level, p
  <2>5. Reordered(Ranked(p, level), p)
    BY <2>3, <2>4, RankedAgain
  <2>6. Reordered(people, p)
    BY <2>4, <2>5
  <2> HIDE DEF people
  <2>7. Reordered(people, Successes(T, outcome))
    BY <2>6 DEF p
  <2> QED BY <1>5, <2>1, <2>2, <2>7, Fitting
<1> QED BY <1>3, <1>4, <1>5 DEF Tab

-----------------------------------------------------------------------------
(* Who is shown *)

(* The spec tab's few are the author and others of those that there are. *)
LEMMA FewShown ==
  ASSUME NEW T \in Seq(Target), IsInjective(T), NEW self, Len(T) > SpecCap,
         NEW few, few = MineFirst(T, self)
  PROVE  /\ few \in Seq(Target) /\ IsInjective(few) /\ Len(few) = SpecCap /\ Range(few) \subseteq Range(T)
         /\ (\E t \in Range(T) : t.user = self) => \E t \in Range(few) : t.user = self
<1> DEFINE a == SelfFirst(T, self)
<1>1. /\ Reordered(a, T)
      /\ (\E t \in Range(T) : t.user = self) => a[1].user = self
  BY OwnFirst
<1>2. few = SubSeq(a, 1, SpecCap)
  BY DEF MineFirst
<1> HIDE DEF a
<1>3. a \in Seq(Target) /\ IsInjective(a) /\ Range(a) = Range(T) /\ Len(a) = Len(T)
  BY <1>1 DEF Reordered
<1>4. SpecCap \in 0 .. Len(a) /\ 0 < SpecCap
  BY <1>3, LenProperties, TabsAssumption
<1>5. few \in Seq(Target) /\ Len(few) = SpecCap /\ Range(few) \subseteq Range(a) /\ IsInjective(few) /\ a[1] \in Range(few)
  BY <1>2, <1>3, <1>4, FirstFew
<1> QED BY <1>1, <1>3, <1>5

(* A page with a row or a failure for everybody shown accounts for those    *)
(* of the command.                                                         *)
LEMMA Accounted ==
  ASSUME NEW r, NEW page, NEW tab \in Tab, NEW T \in Seq(Target), IsInjective(T), NEW notes,
         r.targets \in Seq(Target), IsInjective(r.targets), Range(T) \subseteq Range(r.targets),
         IsInjective(page.people), Range(page.people) \cap page.failed = {},
         Range(page.people) \cup page.failed = Range(T), page.missing = r.missing,
         page.people # <<>> => page.notes = notes,
         tab = "item" /\ (\E t \in Range(page.people) : t.user = Calls[r.by].author) =>
           page.people[1].user = Calls[r.by].author,
         Len(T) = IF tab = "spec" /\ Len(r.targets) > SpecCap THEN SpecCap ELSE Len(r.targets),
         (\E t \in Range(r.targets) : t.user = Calls[r.by].author) =>
           \E t \in Range(T) : t.user = Calls[r.by].author,
         Range(T) # Range(r.targets) => "truncated" \in notes,
         ~Calls[r.by].solo /\ Unspecified(Calls[r.by]) =>
           ("absent" \in notes <=> Calls[r.by].author \notin {d.user : d \in ToSet(Calls[r.by].table)}),
         ~Calls[r.by].solo =>
           \A i \in DOMAIN Calls[r.by].users :
             Calls[r.by].users[i] \in Users(r.targets) \/ Calls[r.by].users[i] \in ToSet(r.missing)
  PROVE  Accounts(r, page, tab)
<1> DEFINE c == Calls[r.by]
           all == Range(r.targets)
           author == c.author
           absent == author \notin {d.user : d \in ToSet(c.table)}
<1>1. \A s : ToSet(s) = Range(s)
  BY DEF ToSet, Range
<1>2. Everybody(page) = Range(T)
  BY <1>1 DEF Everybody
<1>3. Cardinality(Range(T)) = Len(T) /\ Cardinality(all) = Len(r.targets) /\ Len(r.targets) \in Nat
  BY Elements, LenProperties
<1>4. Cardinality(Everybody(page)) =
        IF tab = "spec" THEN Min({SpecCap, Cardinality(all)}) ELSE Cardinality(all)
  BY <1>2, <1>3, Less, TabsAssumption
<1>5. author \in {t.user : t \in all} => author \in {t.user : t \in Everybody(page)}
  <2>1. author \in {t.user : t \in all} <=> \E t \in all : t.user = author
    OBVIOUS
  <2>2. author \in {t.user : t \in Everybody(page)} <=> \E t \in Range(T) : t.user = author
    BY <1>2
  <2> QED BY <2>1, <2>2
<1>6. ASSUME page.people # <<>>
      PROVE  /\ Everybody(page) # all => "truncated" \in page.notes
             /\ tab = "item" /\ author \in {t.user : t \in Range(page.people)} => page.people[1].user = author
             /\ Unspecified(c) /\ ~c.solo => ("absent" \in page.notes <=> absent)
  <2>1. author \in {t.user : t \in Range(page.people)} <=> \E t \in Range(page.people) : t.user = author
    OBVIOUS
  <2> HIDE DEF absent
  <2>2. Unspecified(c) /\ ~c.solo => ("absent" \in notes <=> absent)
    BY DEF absent
  <2> QED BY <1>2, <1>6, <2>1, <2>2
<1>7. Everybody(page) \subseteq all
  BY <1>2
<1>8. ~c.solo => \A i \in DOMAIN c.users : c.users[i] \in Users(r.targets) \/ c.users[i] \in ToSet(page.missing)
  OBVIOUS
<1>9. ToSet(page.people) = Range(page.people) /\ ToSet(r.targets) = all
  BY <1>1
<1> HIDE DEF all, c, absent
<1> QED BY <1>4, <1>5, <1>6, <1>7, <1>8, <1>9 DEF Accounts, c, absent

(* What was resolved for a command. *)
Chosen(r) ==
  LET c == Calls[r.by]
  IN /\ r.targets \in Seq(Target) /\ IsInjective(r.targets)
     /\ r.pc \in {"building", "built", "sent"} =>
          /\ c.tab = "spec" => Len(r.targets) <= SpecCap
          /\ ~c.solo => \A i \in DOMAIN c.users : c.users[i] \in Users(r.targets) \/ c.users[i] \in ToSet(r.missing)
          /\ ~c.solo /\ Unspecified(c) =>
               ("absent" \in r.notes <=> c.author \notin {d.user : d \in ToSet(c.table)})

LEMMA TabAccounted ==
  ASSUME Chosen(call), call.pc \in {"building", "sent"}, powers \in Powers, NEW tab \in Tab,
         NEW answers \in [Ocid -> AnswerType],
         NEW page, page = Built(tab, Shown(tab), ShownNotes(tab), answers)
  PROVE  Accounts(call, page, tab)
<1> DEFINE T == Shown(tab)
           notes == ShownNotes(tab)
           own(people) == \E t \in people : t.user = By.author
<1>1. call.targets \in Seq(Target) /\ IsInjective(call.targets) /\ Len(call.targets) \in Nat
  BY LenProperties DEF Chosen
<1>2. /\ T \in Seq(Target) /\ IsInjective(T) /\ Range(T) \subseteq Range(call.targets)
      /\ own(Range(call.targets)) => own(Range(T))
      /\ Len(T) = IF tab = "spec" /\ Len(call.targets) > SpecCap THEN SpecCap ELSE Len(call.targets)
  <2>1. CASE Cut(tab)
    BY <1>1, <2>1, FewShown DEF Shown, Cut
  <2>2. CASE ~Cut(tab)
    BY <1>1, <2>2 DEF Shown, Cut
  <2> QED BY <2>1, <2>2
<1>3. /\ Range(T) # Range(call.targets) => "truncated" \in notes
      /\ "absent" \in notes <=> "absent" \in call.notes
  BY DEF Shown, ShownNotes
<1> HIDE DEF T, notes
<1>4. page = Built(tab, T, notes, answers)
  BY DEF T, notes
<1>5. /\ Fits(page, T, notes)
      /\ tab = "item" /\ own(Range(page.people)) => page.people[1].user = By.author
  BY <1>2, <1>4, TabFits
<1>6. /\ IsInjective(page.people) /\ Range(page.people) \cap page.failed = {}
      /\ Range(page.people) \cup page.failed = Range(T) /\ page.missing = call.missing
      /\ page.people # <<>> => page.notes = notes
  BY <1>5 DEF Fits
<1>7. By = Calls[call.by]
  BY DEF By
<1>8. /\ ~By.solo => \A i \in DOMAIN By.users : By.users[i] \in Users(call.targets) \/ By.users[i] \in ToSet(call.missing)
      /\ ~By.solo /\ Unspecified(By) => ("absent" \in notes <=> By.author \notin {d.user : d \in ToSet(By.table)})
  BY <1>3, <1>7 DEF Chosen
<1> QED BY <1>1, <1>2, <1>3, <1>5, <1>6, <1>7, <1>8, Accounted

(* What is shown, or about to be, accounts for the people of the command. *)
PeopleInv ==
  /\ powers \in Powers /\ Chosen(call)
  /\ call.pc = "built" => Accounts(call, call.page, Calls[call.by].tab)
  /\ call.pc = "sent" => Accounts(call, message.page, message.tab)
  /\ call.pc # "sent" => message = NoMessage
  /\ \A k \in Click : clicks[k].pc = "editing" => Accounts(call, clicks[k].page, clicks[k].tab)

LEMMA SameCall ==
  ASSUME NEW r, NEW q, q.by = r.by, q.targets = r.targets, q.missing = r.missing, NEW page, NEW tab
  PROVE  Accounts(q, page, tab) <=> Accounts(r, page, tab)
BY DEF Accounts

LEMMA StillChosen ==
  ASSUME NEW r, NEW q, Chosen(r), q.by = r.by, q.targets = r.targets, q.missing = r.missing,
         q.notes = r.notes,
         q.pc \in {"building", "built", "sent"} => r.pc \in {"building", "built", "sent"}
  PROVE  Chosen(q)
BY DEF Chosen

LEMMA Command ==
  ASSUME CallOK(call)
  PROVE  /\ By.table \in Seq(Character) /\ Keyed(By.table) /\ By.author \in User /\ By.users \in Seq(User)
         /\ By.names \in Seq(IF By.solo THEN Ocid ELSE Nick) /\ By.solo \in BOOLEAN
         /\ By.answers \subseteq [Ocid -> AnswerType] /\ By.tab \in Tab /\ By = Calls[call.by]
<1>1. call.by \in DOMAIN Calls
  BY DEF CallOK, CallRecord
<1>2. By = Calls[call.by]
  BY DEF By
<1> QED BY <1>1, <1>2, TabsAssumption

LEMMA PowersKept ==
  ASSUME powers \in Powers, NEW tab, NEW T, NEW answers \in [Ocid -> AnswerType],
         KeepPowers(tab, T, answers)
  PROVE  powers' \in Powers
<1>1. ASSUME NEW o \in Ocid, NEW d \in 1 .. WeeklyDays
      PROVE  Kept(powers[o][d], answers[o].days[d]) \in Nat \cup {None}
  <2>1. powers[o][d] \in Nat \cup {None}
    BY DEF Powers
  <2>2. answers[o].days[d] \in Nat \cup {None, NotReady, Raised}
    BY DEF AnswerType
  <2> QED BY <2>1, <2>2 DEF Kept, None, NotReady, Raised
<1>2. KeptWith(T, call.missing, answers, powers) \in Powers
  <2>1. CASE ~Compared(T, call.missing)
    BY <2>1 DEF KeptWith
  <2>2. CASE Compared(T, call.missing)
    <3> DEFINE new(o) == IF \E t \in Range(T) : t.ocid = o /\ Ok(FetchSpec(answers[o]))
                         THEN [d \in 1 .. WeeklyDays |-> Kept(powers[o][d], answers[o].days[d])]
                         ELSE powers[o]
    <3>1. KeptWith(T, call.missing, answers, powers) = [o \in Ocid |-> new(o)]
      BY <2>2 DEF KeptWith
    <3>2. \A o \in Ocid : new(o) \in [1 .. WeeklyDays -> Nat \cup {None}]
      BY <1>1 DEF Powers
    <3> HIDE DEF new
    <3> QED BY <3>1, <3>2 DEF Powers
  <2> QED BY <2>1, <2>2
<1> QED BY <1>2 DEF KeepPowers

(* Before the message is sent, only the command changes. *)
LEMMA PeopleBefore ==
  ASSUME TabsInv, PeopleInv, call.pc # "sent", call'.pc # "sent", powers' \in Powers, Chosen(call'),
         call'.pc = "built" => Accounts(call', call'.page, Calls[call'.by].tab),
         UNCHANGED <<view, message, clicks>>
  PROVE  PeopleInv'
<1>1. \A k \in Click : clicks[k].pc = "unused"
  BY DEF TabsInv, NothingYet
<1> QED BY <1>1 DEF PeopleInv

LEMMA NoneChosen ==
  ASSUME NEW r, r.targets \in Seq(Target), IsInjective(r.targets), r.pc \notin {"building", "built", "sent"}
  PROVE  Chosen(r)
BY DEF Chosen

LEMMA HandlePeople ==
  ASSUME TabsInv, PeopleInv, NEW tab \in Tab, NEW cap \in Nat, Handle(tab, cap),
         tab = "spec" => cap <= SpecCap
  PROVE  PeopleInv'
<1> DEFINE names == ParseNicknames(By.names)
<1>1. /\ CallOK(call) /\ call.pc = "called" /\ ~By.solo /\ ~TooMany(By) /\ By.tab = tab
      /\ UNCHANGED <<view, message, clicks, powers>>
  BY DEF TabsInv, TypeOK, CallOK, Handle
<1>2. /\ By.table \in Seq(Character) /\ By.users \in Seq(User) /\ By.names \in Seq(Nick)
      /\ By = Calls[call.by] /\ call.by \in DOMAIN Calls
  BY <1>1, Command DEF CallOK, CallRecord
<1>3. PICK found \in [Nick -> {NoTarget} \cup {[user |-> Guest, ocid |-> o] : o \in Strangers}] :
        LET r == ResolveMixed(By.table, By.pin, By.users, names, found)
        IN \E chosen \in IF Unspecified(By) THEN SelectWithSelf(r.targets, By.author, cap)
                         ELSE {r.targets} :
             call' = [call EXCEPT !.pc = IF r.targets = <<>> THEN "nobody" ELSE "building",
                                  !.targets = chosen, !.missing = r.missing,
                                  !.notes = Notes(By, r.targets, cap)]
  BY DEF Handle
<1> DEFINE r == ResolveMixed(By.table, By.pin, By.users, names, found)
           targets == r.targets
           missing == r.missing
           notes == Notes(By, targets, cap)
           pc == IF targets = <<>> THEN "nobody" ELSE "building"
<1>4. PICK chosen \in IF Unspecified(By) THEN SelectWithSelf(targets, By.author, cap) ELSE {targets} :
        call' = [call EXCEPT !.pc = pc, !.targets = chosen, !.missing = missing, !.notes = notes]
  BY <1>3
<1>5. \A n \in Nick : found[n] \in Target \cup {NoTarget}
  BY TabsAssumption DEF Target
<1>6. names \in Seq(Nick) /\ Len(names) <= Len(By.names)
  BY <1>2, EachOnce DEF ParseNicknames
<1>7. By.names = <<>> => names = <<>>
  <2>1. Len(names) \in Nat /\ Len(By.names) \in Nat
    BY <1>2, <1>6, LenProperties
  <2> HIDE DEF names
  <2>2. ASSUME By.names = <<>> PROVE names = <<>>
    <3>1. Len(By.names) = 0
      BY <1>2, <2>2, EmptySeq
    <3> QED BY <1>6, <2>1, <3>1, EmptySeq
  <2> QED BY <2>2
<1>8. Len(By.users) + Len(names) <= MaxSpecified
  <2>1. Len(By.users) \in Nat /\ Len(names) \in Nat /\ MaxSpecified \in Nat
    BY <1>2, <1>6, LenProperties, TabsAssumption
  <2>2. ~(Len(By.users) + Len(names) > MaxSpecified)
    BY <1>1 DEF TooMany
  <2> HIDE DEF names
  <2> QED BY <2>1, <2>2
<1> HIDE DEF names
<1>9. r = ResolveMixed(By.table, By.pin, By.users, names, found)
  OBVIOUS
<1> HIDE DEF r
<1>10. /\ targets \in Seq(Target) /\ IsInjective(targets)
       /\ \A i \in DOMAIN By.users : By.users[i] \in Users(targets) \/ By.users[i] \in Range(missing)
       /\ IF By.users = <<>> /\ names = <<>> THEN Users(targets) = Owners(By.table)
          ELSE Len(targets) <= Len(By.users) + Len(names)
  <2> DEFINE table == By.table  pin == By.pin  users == By.users
  <2>1. table \in Seq(Character) /\ users \in Seq(User) /\ r = ResolveMixed(table, pin, users, names, found)
    BY <1>2, <1>9
  <2> HIDE DEF table, pin, users
  <2>2. /\ r.targets \in Seq(Target) /\ IsInjective(r.targets)
        /\ \A i \in DOMAIN users : users[i] \in Users(r.targets) \/ users[i] \in Range(r.missing)
        /\ IF users = <<>> /\ names = <<>> THEN Users(r.targets) = Owners(table)
           ELSE Len(r.targets) <= Len(users) + Len(names)
    BY <1>5, <1>6, <2>1, Mixed
  <2> QED BY <2>2 DEF table, users
<1> HIDE DEF targets, missing, pc, notes
<1>11. chosen \in Seq(Target) /\ IsInjective(chosen) /\ (tab = "spec" => Len(chosen) <= SpecCap)
  <2>1. CASE Unspecified(By)
    <3>1. chosen \in SelectWithSelf(targets, By.author, cap)
      BY <1>4, <2>1
    <3>2. chosen \in Seq(Target) /\ IsInjective(chosen) /\ Len(chosen) <= cap
      BY <1>10, <3>1, Drawn
    <3> QED BY <3>2, LenProperties, TabsAssumption
  <2>2. CASE ~Unspecified(By)
    <3>1. chosen = targets
      BY <1>4, <2>2
    <3>2. Len(targets) \in Nat
      BY <1>10, LenProperties
    <3>3. CASE By.users = <<>> /\ names = <<>>
      <4>1. By.names # <<>>
        BY <2>2, <3>3 DEF Unspecified
      <4>2. Range(names) = Range(By.names)
        BY <1>2, EachOnce DEF names, ParseNicknames
      <4>3. FALSE
        <5>1. 1 \in DOMAIN By.names
          BY <1>2, <4>1, EmptySeq, LenProperties
        <5>2. By.names[1] \in Range(names)
          BY <4>2, <5>1 DEF Range
        <5>3. DOMAIN names = {}
          BY <3>3
        <5> QED BY <5>2, <5>3 DEF Range
      <4> QED BY <4>3
    <3>4. CASE ~(By.users = <<>> /\ names = <<>>)
      <4>1. Len(targets) <= Len(By.users) + Len(names)
        BY <1>10, <3>4
      <4>2. Len(By.users) \in Nat /\ Len(names) \in Nat
        BY <1>2, <1>6, LenProperties
      <4> QED BY <1>8, <1>10, <3>1, <3>2, <4>1, <4>2, TabsAssumption
    <3> QED BY <3>3, <3>4
  <2> QED BY <2>1, <2>2
<1>12. /\ call'.pc = pc /\ call'.targets = chosen /\ call'.missing = missing /\ call'.notes = notes
       /\ call'.by = call.by /\ pc \in {"nobody", "building"}
  BY <1>1, <1>4 DEF CallOK, CallRecord, pc
<1>13. ASSUME Unspecified(By)
       PROVE  "absent" \in notes <=> By.author \notin {d.user : d \in ToSet(By.table)}
  <2>1. "absent" \in notes <=> By.author \notin Users(targets)
    BY <1>13 DEF Notes, notes
  <2>2. Users(targets) = Owners(By.table)
    BY <1>7, <1>10, <1>13 DEF Unspecified
  <2>3. {d.user : d \in ToSet(By.table)} = Owners(By.table)
    BY DEF ToSet, Owners
  <2> QED BY <2>1, <2>2, <2>3
<1>14. \A i \in DOMAIN By.users : By.users[i] \in Users(chosen) \/ By.users[i] \in ToSet(missing)
  <2>1. Range(missing) = ToSet(missing)
    BY DEF Range, ToSet
  <2>2. CASE Unspecified(By)
    <3>1. DOMAIN By.users = {}
      BY <2>2 DEF Unspecified
    <3> QED BY <3>1
  <2>3. CASE ~Unspecified(By)
    BY <1>4, <1>10, <2>1, <2>3
  <2> QED BY <2>2, <2>3
<1>15. Chosen(call')
  BY <1>1, <1>2, <1>11, <1>12, <1>13, <1>14 DEF Chosen
<1> QED BY <1>1, <1>12, <1>15, PeopleBefore DEF PeopleInv

LEMMA HandleMine ==
  ASSUME TabsInv, PeopleInv, call.pc = "called", By.solo, call' = ResolveMyTargets,
         UNCHANGED <<clock, view, message, clicks, powers, fault>>
  PROVE  PeopleInv'
<1> DEFINE mine == MyTargets(By.table, By.author, By.names)
           n == Min({MaxCompare, Len(mine)})
           few == SubSeq(mine, 1, n)
           pc == IF mine = <<>> THEN "nobody" ELSE "building"
           notes == {m \in {"truncated"} : Len(mine) > MaxCompare}
<1>1. CallOK(call)
  BY DEF TabsInv, TypeOK, CallOK
<1>2. /\ By.table \in Seq(Character) /\ Keyed(By.table) /\ By.author \in User /\ By.names \in Seq(Ocid)
      /\ By = Calls[call.by]
  BY <1>1, Command
<1>3. call' = [call EXCEPT !.pc = pc, !.targets = few, !.notes = notes]
  BY DEF ResolveMyTargets
<1>4. mine \in Seq(Target) /\ IsInjective(mine)
  BY <1>2, Mine
<1> HIDE DEF mine
<1>5. n \in 0 .. Len(mine) /\ n <= SpecCap
  <2>1. MaxCompare \in Nat /\ MaxCompare <= SpecCap /\ SpecCap \in Nat /\ Len(mine) \in Nat
    BY <1>4, LenProperties, TabsAssumption
  <2>2. n = IF MaxCompare <= Len(mine) THEN MaxCompare ELSE Len(mine)
    BY <2>1, Less
  <2> HIDE DEF n
  <2> QED BY <2>1, <2>2
<1> HIDE DEF n
<1>6. few \in Seq(Target) /\ Len(few) = n /\ IsInjective(few)
  BY <1>4, <1>5, FirstFew
<1> HIDE DEF few, notes, pc
<1>7. /\ call'.pc = pc /\ call'.targets = few /\ call'.by = call.by /\ pc \in {"nobody", "building"}
  BY <1>1, <1>3 DEF CallOK, CallRecord, pc
<1>8. Chosen(call')
  BY <1>2, <1>5, <1>6, <1>7 DEF Chosen
<1> QED BY <1>7, <1>8, PeopleBefore DEF PeopleInv

LEMMA FirstPeople ==
  ASSUME TabsInv, PeopleInv, BuildFirst \/ SendTooLate \/ Refuse PROVE PeopleInv'
<1>1. CallOK(call)
  BY DEF TabsInv, TypeOK, CallOK
<1>2. ASSUME NEW pc \in {"failed", "refused"}, call' = [call EXCEPT !.pc = pc], call.pc # "sent",
             UNCHANGED <<view, message, clicks, powers>>
      PROVE  PeopleInv'
  <2>1. /\ call'.pc = pc /\ call'.targets = call.targets
    BY <1>1, <1>2 DEF CallOK, CallRecord
  <2>2. call.targets \in Seq(Target) /\ IsInjective(call.targets)
    BY DEF PeopleInv, Chosen
  <2>3. Chosen(call')
    BY <2>1, <2>2, NoneChosen
  <2> QED BY <1>2, <2>1, <2>3, PeopleBefore DEF PeopleInv
<1>3. ASSUME NEW answers \in By.answers, call.pc = "building",
             call' = [call EXCEPT !.pc = "built", !.page = Built(By.tab, call.targets, call.notes, answers)],
             KeepPowers(By.tab, call.targets, answers), UNCHANGED <<view, message, clicks>>
      PROVE  PeopleInv'
  <2> DEFINE tab == By.tab
             page == Built(tab, call.targets, call.notes, answers)
  <2>1. By = Calls[call.by] /\ tab \in Tab /\ answers \in [Ocid -> AnswerType]
    BY <1>1, <1>3, Command
  <2>2. powers' \in Powers
    BY <1>3, <2>1, PowersKept DEF PeopleInv
  <2>3. ~Cut(tab)
    <3>1. tab = "spec" => Len(call.targets) <= SpecCap
      BY <1>3, <2>1 DEF PeopleInv, Chosen
    <3>2. Len(call.targets) \in Nat
      BY LenProperties DEF PeopleInv, Chosen
    <3> QED BY <3>1, <3>2, TabsAssumption DEF Cut
  <2>4. page = Built(tab, Shown(tab), ShownNotes(tab), answers)
    BY <2>3 DEF Shown, ShownNotes
  <2> HIDE DEF page
  <2>5. Accounts(call, page, tab)
    BY <1>3, <2>1, <2>4, TabAccounted DEF PeopleInv
  <2>6. call' = [call EXCEPT !.pc = "built", !.page = page]
    BY <1>3 DEF page
  <2>7. /\ call'.pc = "built" /\ call'.page = page /\ call'.by = call.by /\ call'.targets = call.targets
        /\ call'.missing = call.missing /\ call'.notes = call.notes
    BY <1>1, <2>6 DEF CallOK, CallRecord
  <2>8. Chosen(call')
    BY <1>3, <2>7, StillChosen DEF PeopleInv
  <2>9. Accounts(call', call'.page, Calls[call'.by].tab)
    BY <2>1, <2>5, <2>7, SameCall
  <2> QED BY <1>3, <2>2, <2>7, <2>8, <2>9, PeopleBefore
<1>4. CASE Refuse
  BY <1>2, <1>4 DEF Refuse
<1>5. CASE SendTooLate
  BY <1>2, <1>5 DEF SendTooLate
<1>6. CASE BuildFirst
  <2>1. CASE call' = [call EXCEPT !.pc = "failed"] /\ UNCHANGED powers
    BY <1>2, <1>6, <2>1 DEF BuildFirst
  <2>2. CASE \E answers \in By.answers :
               /\ call' = [call EXCEPT !.pc = "built",
                              !.page = Built(By.tab, call.targets, call.notes, answers)]
               /\ KeepPowers(By.tab, call.targets, answers)
    BY <1>3, <1>6, <2>2 DEF BuildFirst
  <2> QED BY <1>6, <2>1, <2>2 DEF BuildFirst
<1> QED BY <1>4, <1>5, <1>6

LEMMA SentPeople == ASSUME TabsInv, PeopleInv, Send PROVE PeopleInv'
<1>1. CallOK(call) /\ call.pc = "built" /\ UNCHANGED <<clicks, powers>>
  BY DEF TabsInv, TypeOK, CallOK, Send
<1>2. \A k \in Click : clicks[k].pc = "unused"
  BY <1>1 DEF TabsInv, NothingYet
<1>3. ASSUME NEW pc \in {"failed", "sent"}, call' = [call EXCEPT !.pc = pc],
             pc = "sent" => message'.page = call.page /\ message'.tab = By.tab,
             pc # "sent" => message' = message
      PROVE  PeopleInv'
  <2>1. /\ call'.pc = pc /\ call'.by = call.by /\ call'.targets = call.targets
        /\ call'.missing = call.missing /\ call'.notes = call.notes
    BY <1>1, <1>3 DEF CallOK, CallRecord
  <2>2. Chosen(call')
    BY <1>1, <2>1, StillChosen DEF PeopleInv
  <2>3. By = Calls[call.by]
    BY DEF By
  <2>4. pc = "sent" => Accounts(call', message'.page, message'.tab)
    BY <1>1, <1>3, <2>1, <2>3, SameCall DEF PeopleInv
  <2> QED BY <1>1, <1>2, <1>3, <2>1, <2>2, <2>4 DEF PeopleInv
<1>4. CASE /\ message' = [tab |-> By.tab, slot |-> By.slot, page |-> call.page,
                       components |-> IF By.solo THEN "none" ELSE "live"]
           /\ call' = [call EXCEPT !.pc = "sent"]
  BY <1>3, <1>4
<1>5. CASE call' = [call EXCEPT !.pc = "failed"] /\ UNCHANGED <<view, message>>
  BY <1>3, <1>5
<1> QED BY <1>4, <1>5 DEF Send

(* A click changes no page but the one it built, and shows that one. *)
LEMMA PeopleAfter ==
  ASSUME PeopleInv, call.pc = "sent", call' = call, powers' \in Powers,
         \/ message'.page = message.page /\ message'.tab = message.tab
         \/ Accounts(call, message'.page, message'.tab),
         \A k \in Click : clicks'[k].pc = "editing" =>
           \/ clicks[k].pc = "editing" /\ clicks'[k].page = clicks[k].page /\ clicks'[k].tab = clicks[k].tab
           \/ Accounts(call, clicks'[k].page, clicks'[k].tab)
  PROVE  PeopleInv'
<1>1. Accounts(call, message'.page, message'.tab)
  BY DEF PeopleInv
<1>2. \A k \in Click : clicks'[k].pc = "editing" => Accounts(call, clicks'[k].page, clicks'[k].tab)
  BY DEF PeopleInv
<1> QED BY <1>1, <1>2 DEF PeopleInv

LEMMA ClickPeople ==
  ASSUME TabsInv, PeopleInv, NEW k \in Click, Press(k) \/ Switch(k)
  PROVE  PeopleInv'
<1>1. /\ call.pc = "sent" /\ powers \in Powers /\ clicks = [j \in Click |-> clicks[j]] /\ ClickOK(clicks[k])
      /\ MessageOK(message)
  <2>1. call.pc = "sent"
    BY Sent DEF Press, Switch, Arrive, Respond, Build, Edit, Restore
  <2> QED BY <2>1 DEF TabsInv, PeopleInv, TypeOK, ClickOK, MessageOK
<1>2. ASSUME NEW q, clicks' = [clicks EXCEPT ![k] = q],
             q.pc = "editing" => Accounts(call, q.page, q.tab)
      PROVE  \A j \in Click : clicks'[j].pc = "editing" =>
               \/ clicks[j].pc = "editing" /\ clicks'[j].page = clicks[j].page /\ clicks'[j].tab = clicks[j].tab
               \/ Accounts(call, clicks'[j].page, clicks'[j].tab)
  BY <1>1, <1>2
<1>3. ASSUME NEW q, clicks' = [clicks EXCEPT ![k] = q], q.pc # "editing", call' = call, powers' = powers,
             \/ message'.page = message.page /\ message'.tab = message.tab
             \/ Accounts(call, message'.page, message'.tab)
      PROVE  PeopleInv'
  BY <1>1, <1>2, <1>3, PeopleAfter
<1>4. ASSUME NEW pc, clicks' = At(k, pc) PROVE \E q : clicks' = [clicks EXCEPT ![k] = q] /\ q.pc = pc
  <2>1. clicks' = [clicks EXCEPT ![k] = [clicks[k] EXCEPT !.pc = pc]]
    BY <1>4 DEF At
  <2> DEFINE q == [clicks[k] EXCEPT !.pc = pc]
  <2>2. q.pc = pc
    BY <1>1 DEF ClickOK, ClickRecord
  <2> QED BY <2>1, <2>2
<1>5. ASSUME clicks' = Over(k) PROVE \E q : clicks' = [clicks EXCEPT ![k] = q] /\ q.pc = "done"
  <2> DEFINE q == [NoClick EXCEPT !.pc = "done", !.born = clicks[k].born, !.took = clicks[k].took]
  <2>1. clicks' = [clicks EXCEPT ![k] = q]
    BY <1>5 DEF Over
  <2>2. q.pc = "done"
    BY DEF NoClick
  <2> QED BY <2>1, <2>2
<1>6. \A c : [message EXCEPT !.components = c].page = message.page /\ [message EXCEPT !.components = c].tab = message.tab
  BY <1>1 DEF MessageOK, MessageRecord
<1>7. CASE Press(k)
  <2>1. PICK tab \in Tab, slot \in Slot \cup {NoSlot} :
          clicks' = [clicks EXCEPT ![k] = [NoClick EXCEPT !.pc = "sent", !.tab = tab,
                                                          !.slot = slot, !.born = clock]]
    BY <1>7 DEF Press
  <2> DEFINE q == [NoClick EXCEPT !.pc = "sent", !.tab = tab, !.slot = slot, !.born = clock]
  <2>2. q.pc = "sent"
    BY DEF NoClick
  <2>3. clicks' = [clicks EXCEPT ![k] = q]
    BY <2>1
  <2> HIDE DEF q
  <2> QED BY <1>3, <1>7, <2>2, <2>3 DEF Press
<1>8. CASE Arrive(k)
  <2>1. CASE view.open /\ ~Busy
    <3> DEFINE q == [clicks[k] EXCEPT !.pc = "responding", !.tabWas = view.current, !.slotWas = view.slot]
    <3>1. clicks' = [clicks EXCEPT ![k] = q]
      BY <1>8, <2>1 DEF Arrive
    <3>2. q.pc = "responding"
      BY <1>1 DEF ClickOK, ClickRecord
    <3> HIDE DEF q
    <3> QED BY <1>3, <1>8, <3>1, <3>2 DEF Arrive
  <2>2. CASE ~(view.open /\ ~Busy)
    BY <1>3, <1>5, <1>8, <2>2 DEF Arrive
  <2> QED BY <2>1, <2>2
<1>9. CASE Respond(k)
  <2>1. clicks' = At(k, "building") \/ clicks' = At(k, "restoring")
    BY <1>9 DEF Respond, Raise
  <2>2. message' = message \/ message' = [message EXCEPT !.components = "disabled"]
    BY <1>9 DEF Respond
  <2>3. call' = call /\ powers' = powers
    BY <1>9 DEF Respond
  <2>4. \E q : clicks' = [clicks EXCEPT ![k] = q] /\ q.pc # "editing"
    BY <1>4, <2>1
  <2> QED BY <1>3, <1>6, <2>2, <2>3, <2>4
<1>10. CASE Build(k)
  <2>1. CASE Raise(k) /\ UNCHANGED powers
    BY <1>3, <1>4, <1>10, <2>1 DEF Build, Raise
  <2>2. CASE \E answers \in By.answers :
               /\ clicks' = [clicks EXCEPT ![k].pc = "editing",
                                ![k].page = Built(clicks[k].tab, Shown(clicks[k].tab), ShownNotes(clicks[k].tab), answers)]
               /\ KeepPowers(clicks[k].tab, Shown(clicks[k].tab), answers)
    <3> DEFINE tab == clicks[k].tab
               T == Shown(tab)
    <3>1. PICK answers \in By.answers :
            /\ clicks' = [clicks EXCEPT ![k].pc = "editing",
                             ![k].page = Built(tab, T, ShownNotes(tab), answers)]
            /\ KeepPowers(tab, T, answers)
      BY <2>2
    <3> DEFINE page == Built(tab, T, ShownNotes(tab), answers)
               q == [clicks[k] EXCEPT !.pc = "editing", !.page = page]
    <3>2. CallOK(call)
      BY DEF TabsInv, TypeOK, CallOK
    <3>3. tab \in Tab /\ answers \in [Ocid -> AnswerType]
      BY <1>1, <3>1, <3>2, Command DEF ClickOK, ClickRecord
    <3>4. Accounts(call, page, tab)
      BY <1>1, <3>3, TabAccounted DEF PeopleInv
    <3>5. powers' \in Powers
      BY <1>1, <3>1, <3>3, PowersKept
    <3>6. clicks' = [clicks EXCEPT ![k] = q]
      BY <3>1
    <3> HIDE DEF page
    <3>7. q.page = page /\ q.tab = tab
      BY <1>1 DEF ClickOK, ClickRecord
    <3> HIDE DEF tab, q
    <3>8. call' = call /\ message' = message
      BY <1>10 DEF Build
    <3>9. q.pc = "editing" => Accounts(call, q.page, q.tab)
      BY <3>4, <3>7
    <3> QED BY <1>1, <1>2, <3>5, <3>6, <3>8, <3>9, PeopleAfter
  <2> QED BY <1>10, <2>1, <2>2 DEF Build
<1>11. CASE Edit(k)
  <2>1. clicks[k].pc = "editing" /\ UNCHANGED <<clock, call, powers>>
    BY <1>11 DEF Edit
  <2>2. Payload(k).page = clicks[k].page /\ Payload(k).tab = clicks[k].tab
    BY DEF Payload
  <2>3. Accounts(call, Payload(k).page, Payload(k).tab)
    BY <2>1, <2>2 DEF PeopleInv
  <2>4. \E q : clicks' = [clicks EXCEPT ![k] = q] /\ q.pc # "editing"
    <3>1. clicks' = Over(k) \/ clicks' = At(k, "restoring")
      BY <1>11 DEF Edit, Raise
    <3> QED BY <1>4, <1>5, <3>1
  <2>5. message' = message \/ message' = Payload(k)
    BY <1>11 DEF Edit
  <2> QED BY <1>3, <2>1, <2>3, <2>4, <2>5
<1>12. CASE Restore(k)
  <2>1. message' = message \/ message' = [message EXCEPT !.components = "live"]
    BY <1>12 DEF Restore
  <2>2. clicks' = Over(k) /\ call' = call /\ powers' = powers
    BY <1>12 DEF Restore
  <2> QED BY <1>3, <1>5, <1>6, <2>1, <2>2
<1> QED BY <1>7, <1>8, <1>9, <1>10, <1>11, <1>12 DEF Switch

LEMMA TimePeople ==
  ASSUME TabsInv, PeopleInv, TimeOut \/ Clear \/ Tick
  PROVE  PeopleInv'
<1>1. /\ clicks = [j \in Click |-> clicks[j]] /\ \A k \in Click : ClickOK(clicks[k])
      /\ MessageOK(message) /\ CallOK(call)
  BY DEF TabsInv, TypeOK, ClickOK, MessageOK, CallOK
<1>2. CASE TimeOut
  BY <1>2 DEF TimeOut, PeopleInv
<1>3. CASE Clear
  <2>1. call.pc = "sent" /\ powers \in Powers
    BY <1>3, Sent DEF Clear, PeopleInv
  <2>2. /\ [message EXCEPT !.components = "none"].page = message.page
        /\ [message EXCEPT !.components = "none"].tab = message.tab
    BY <1>1 DEF MessageOK, MessageRecord
  <2>3. message' = message \/ message' = [message EXCEPT !.components = "none"]
    BY <1>3 DEF Clear
  <2> QED BY <1>3, <2>1, <2>2, <2>3, PeopleAfter DEF Clear
<1>4. CASE Tick
  <2> DEFINE took == IF call.pc = "building" THEN call.took + 1 ELSE call.took
  <2>1. call' = [call EXCEPT !.took = took] /\ UNCHANGED <<message, powers>>
    BY <1>4 DEF Tick
  <2> HIDE DEF took
  <2>2. /\ call'.pc = call.pc /\ call'.by = call.by /\ call'.targets = call.targets
        /\ call'.missing = call.missing /\ call'.notes = call.notes /\ call'.page = call.page
    BY <1>1, <2>1 DEF CallOK, CallRecord
  <2>3. \A k \in Click : clicks'[k].pc # "editing"
    <3>1. \A k \in Click : clicks[k].pc \in {"unused", "building", "done"}
      BY <1>4 DEF Tick
    <3>2. clicks' = [k \in Click |-> IF clicks[k].pc = "building"
                                     THEN [clicks[k] EXCEPT !.took = @ + 1] ELSE clicks[k]]
      BY <1>4 DEF Tick
    <3>3. ASSUME NEW k \in Click, clicks[k].pc = "building"
          PROVE  [clicks[k] EXCEPT !.took = @ + 1].pc = "building"
      BY <1>1, <3>3 DEF ClickOK, ClickRecord
    <3> QED BY <3>1, <3>2, <3>3
  <2>4. Chosen(call')
    BY <2>2, StillChosen DEF PeopleInv
  <2>5. \A page, tab : Accounts(call', page, tab) <=> Accounts(call, page, tab)
    BY <2>2, SameCall
  <2> QED BY <2>1, <2>2, <2>3, <2>4, <2>5 DEF PeopleInv
<1> QED BY <1>2, <1>3, <1>4

LEMMA PeopleStep == ASSUME TabsInv, PeopleInv, [Next]_vars PROVE PeopleInv'
<1>1. CASE HandleSpec
  BY <1>1, HandlePeople, TabsAssumption DEF HandleSpec, Tab
<1>2. CASE HandleItem
  BY <1>2, HandlePeople, TabsAssumption DEF HandleItem, Tab
<1>3. CASE HandleUnion
  BY <1>3, HandlePeople, TabsAssumption DEF HandleUnion, Tab
<1>4. CASE HandleMySpec \/ HandleMyItem
  BY <1>4, HandleMine DEF HandleMySpec, HandleMyItem
<1>5. CASE Refuse \/ BuildFirst \/ SendTooLate
  BY <1>5, FirstPeople
<1>6. CASE Send
  BY <1>6, SentPeople
<1>7. CASE \E k \in Click : Press(k) \/ Switch(k)
  BY <1>7, ClickPeople
<1>8. CASE TimeOut \/ Clear \/ Tick
  BY <1>8, TimePeople
<1>9. CASE UNCHANGED vars
  BY <1>9 DEF vars, PeopleInv
<1> QED BY <1>1, <1>2, <1>3, <1>4, <1>5, <1>6, <1>7, <1>8, <1>9 DEF Next

LEMMA InitPeople == Init => PeopleInv
<1> SUFFICES ASSUME Init PROVE PeopleInv
  OBVIOUS
<1>1. PICK i \in DOMAIN Calls :
        call = [pc |-> "called", by |-> i, targets |-> <<>>, missing |-> <<>>, notes |-> {},
                page |-> NoPage, took |-> 0]
  BY DEF Init
<1>2. <<>> \in Seq(Target) /\ IsInjective(<<>>)
  BY EmptySeq DEF IsInjective
<1>3. call.targets = <<>> /\ call.pc = "called"
  BY <1>1
<1>4. Chosen(call)
  BY <1>2, <1>3, NoneChosen
<1>5. powers \in Powers
  BY DEF Init, Powers
<1>6. \A k \in Click : clicks[k].pc = "unused"
  BY DEF Init, NoClick
<1> QED BY <1>3, <1>4, <1>5, <1>6 DEF Init, PeopleInv

(* Every tab accounts for the people of the command, each once: whoever is  *)
(* registered, whoever is named, whatever fails.                           *)
THEOREM EverybodyShown == Spec => []SamePeople
<1>1. Init => TabsInv /\ PeopleInv
  BY InitInv, InitPeople
<1>2. TabsInv /\ PeopleInv /\ [Next]_vars => (TabsInv /\ PeopleInv)'
  BY NextInv, PeopleStep
<1>3. PeopleInv => SamePeople
  BY DEF PeopleInv, Chosen, SamePeople
<1> QED BY <1>1, <1>2, <1>3, PTL DEF Spec
=============================================================================
