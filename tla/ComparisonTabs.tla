--------------------------- MODULE ComparisonTabs ---------------------------
(***************************************************************************)
(* A comparison command from the call to the message with tabs under it,   *)
(* and the tabs from then on: the people compared are resolved and chosen  *)
(* once, and every tab shows the same people again.  Clicks overlap with   *)
(* the click at work; what Discord is asked to show may not be shown; the  *)
(* view ends some time after the last click, and a token of Discord some   *)
(* time after the interaction that it came with.                           *)
(*                                                                         *)
(* The registrations do not change within a call (module Registration has  *)
(* what happens when they do); fetch_each is in module Comparison.         *)
(***************************************************************************)
EXTENDS CharacterData

CONSTANTS
  Slot,            \* the equipment slots of the item tab
  Click,           \* the clicks of the author, as they may come
  Calls,           \* a sequence of commands, each with the characters registered at
                   \* the time, the main characters the members pinned, and what
                   \* Nexon may answer for each character
  Strangers,       \* the characters Nexon may know an unregistered nickname for
  SpecCap,         \* SPEC_UNSPECIFIED_CAP, SPEC_TAB_CAP: 5
  MaxSpecified,    \* MAX_SPECIFIED_TARGETS: 5
  MaxCompare,      \* MAX_COMPARE of /내캐릭터: 5
  Timeout,         \* TABS_TIMEOUT: 10 minutes
  TokenLife,       \* of an interaction: 15 minutes
  MaxTime          \* bound

Tab == {"spec", "item", "union"}
NoSlot == "none"
Nobody == "nobody"

(* The primary key of the characters of a server. *)
Keyed(table) ==
  \A i, j \in DOMAIN table : table[i].user = table[j].user /\ table[i].ocid = table[j].ocid => i = j

ASSUME TabsAssumption ==
  /\ Strangers \subseteq Ocid
  /\ \A i \in DOMAIN Calls : LET c == Calls[i] IN
       /\ c.tab \in Tab /\ c.slot \in Slot \cup {NoSlot} /\ c.solo \in BOOLEAN
       /\ c.table \in Seq(Character) /\ Keyed(c.table) /\ c.pin \in [User -> Ocid \cup {NoPin}]
       /\ c.author \in User /\ c.users \in Seq(User)
       /\ c.names \in Seq(IF c.solo THEN Ocid ELSE Nick)
       /\ c.answers \subseteq [Ocid -> AnswerType]
  /\ SpecCap \in Nat \ {0} /\ MaxSpecified \in 0 .. SpecCap /\ MaxCompare \in 0 .. SpecCap
  /\ WideCap \in Nat /\ SpecCap <= WideCap /\ WeeklyDays \in Nat
  /\ Timeout \in Nat \ {0} /\ TokenLife \in Timeout + 1 .. 2 * Timeout /\ MaxTime \in Nat
  /\ Nobody \notin Click

VARIABLES
  clock,
  call,       \* the command: resolved, built and sent
  view,       \* ComparisonTabsView
  message,    \* what the server shows
  clicks,     \* the author's interactions with it, each a task of its own
  powers,     \* the combat powers of days past that were fetched before
  fault       \* ghost: Discord failed to put the message right, or to clear it

vars == <<clock, call, view, message, clicks, powers, fault>>

(* The pages are what module CharacterData makes of the answers. *)
CallRecord(r) ==
  [pc : {"called", "refused", "nobody", "building", "built", "failed", "sent"},
   by : DOMAIN Calls, targets : {r.targets}, missing : {r.missing}, notes : {r.notes},
   page : {r.page}, took : Nat]

ClickRecord(page) ==
  [pc : {"unused", "sent", "responding", "building", "editing", "restoring", "done"},
   tab : Tab, slot : Slot \cup {NoSlot}, page : {page}, born : Nat, took : Nat,
   tabWas : Tab, slotWas : Slot \cup {NoSlot}]

MessageRecord(page) ==
  [tab : Tab, slot : Slot \cup {NoSlot}, page : {page}, components : {"none", "live", "disabled"}]

ViewRecord ==
  [open : BOOLEAN, clearing : BOOLEAN, current : Tab, slot : Slot \cup {NoSlot},
   busy : BOOLEAN, last : Click \cup {Nobody}, deadline : Nat]

TypeOK ==
  /\ clock \in Nat
  /\ call \in CallRecord(call) /\ message \in MessageRecord(message.page)
  /\ view \in ViewRecord
  /\ clicks = [k \in Click |-> clicks[k]]
  /\ \A k \in Click : clicks[k] \in ClickRecord(clicks[k].page)
  /\ fault \in [shown : BOOLEAN, clear : BOOLEAN]

NoPage == [people |-> <<>>, failed |-> {}, missing |-> <<>>, notes |-> {}]
NoClick == [pc |-> "unused", tab |-> "spec", slot |-> NoSlot, page |-> NoPage, born |-> 0, took |-> 0,
            tabWas |-> "spec", slotWas |-> NoSlot]
NoView == [open |-> FALSE, clearing |-> FALSE, current |-> "spec", slot |-> NoSlot,
           busy |-> FALSE, last |-> Nobody, deadline |-> 0]
NoMessage == [tab |-> "spec", slot |-> NoSlot, page |-> NoPage, components |-> "none"]

Init ==
  /\ clock = 0
  /\ \E i \in DOMAIN Calls :
       call = [pc |-> "called", by |-> i, targets |-> <<>>, missing |-> <<>>, notes |-> {},
               page |-> NoPage, took |-> 0]
  /\ view = NoView /\ message = NoMessage
  /\ clicks = [k \in Click |-> NoClick]
  /\ powers = [o \in Ocid |-> [d \in 1 .. WeeklyDays |-> None]]
  /\ fault = [shown |-> FALSE, clear |-> FALSE]

-----------------------------------------------------------------------------
(* The command *)

By == Calls[call.by]
TooMany(c) == Len(c.users) + Len(ParseNicknames(c.names)) > MaxSpecified
Unspecified(c) == c.users = <<>> /\ c.names = <<>>

(* The check of the number of names comes before everything else. *)
Refuse ==
  /\ call.pc = "called" /\ ~By.solo /\ TooMany(By)
  /\ call' = [call EXCEPT !.pc = "refused"]
  /\ UNCHANGED <<clock, view, message, clicks, powers, fault>>

(* The lines above the source: how many there are, and the author's        *)
(* absence.                                                                *)
Notes(c, targets, cap) ==
  IF ~Unspecified(c) THEN {}
  ELSE {IF Len(targets) <= cap THEN "everybody" ELSE "drawn"}
       \cup {n \in {"absent"} : c.author \notin Users(targets)}

(* Up to the first fetch.  With nobody to show, or only failures, the      *)
(* command is answered and that is all.                                    *)
Handle(tab, cap) ==
  /\ call.pc = "called" /\ ~By.solo /\ ~TooMany(By) /\ By.tab = tab
  /\ \E found \in [Nick -> {NoTarget} \cup {[user |-> Guest, ocid |-> o] : o \in Strangers}] :
       LET r == ResolveMixed(By.table, By.pin, By.users, ParseNicknames(By.names), found)
       IN \E chosen \in IF Unspecified(By) THEN SelectWithSelf(r.targets, By.author, cap)
                        ELSE {r.targets} :
            call' = [call EXCEPT !.pc = IF r.targets = <<>> THEN "nobody" ELSE "building",
                                 !.targets = chosen, !.missing = r.missing,
                                 !.notes = Notes(By, r.targets, cap)]
  /\ UNCHANGED <<clock, view, message, clicks, powers, fault>>

HandleSpec == Handle("spec", SpecCap)
HandleItem == Handle("item", WideCap)
HandleUnion == Handle("union", WideCap)

(* /내캐릭터: no one but the author, the first few of the characters. *)
ResolveMyTargets ==
  LET mine == MyTargets(By.table, By.author, By.names)
      few == SubSeq(mine, 1, Min({MaxCompare, Len(mine)}))
  IN [call EXCEPT !.pc = IF mine = <<>> THEN "nobody" ELSE "building", !.targets = few,
                  !.notes = {n \in {"truncated"} : Len(mine) > MaxCompare}]

HandleMySpec ==
  /\ call.pc = "called" /\ By.solo /\ By.tab = "spec"
  /\ call' = ResolveMyTargets
  /\ UNCHANGED <<clock, view, message, clicks, powers, fault>>

HandleMyItem ==
  /\ call.pc = "called" /\ By.solo /\ By.tab = "item"
  /\ call' = ResolveMyTargets
  /\ UNCHANGED <<clock, view, message, clicks, powers, fault>>

(* make_tab_builders: the same people, fetched anew for each tab. *)
Built(tab, targets, notes, answers) ==
  IF tab = "spec" THEN BuildSpecMessage(targets, call.missing, notes, answers, powers)
  ELSE IF tab = "item" THEN BuildItemMessage(targets, call.missing, notes, answers, By.author)
  ELSE BuildUnionMessage(targets, call.missing, notes, answers)

KeepPowers(tab, targets, answers) ==
  powers' = IF tab = "spec" THEN KeptWith(targets, call.missing, answers, powers) ELSE powers

BuildFirst ==
  /\ call.pc = "building"
  /\ \/ \E answers \in By.answers :
          /\ call' = [call EXCEPT !.pc = "built",
                         !.page = Built(By.tab, call.targets, call.notes, answers)]
          /\ KeepPowers(By.tab, call.targets, answers)
     \/ call' = [call EXCEPT !.pc = "failed"] /\ UNCHANGED powers
  /\ UNCHANGED <<clock, view, message, clicks, fault>>

(* ComparisonTabsView and its send: the time of the view starts here. *)
Send ==
  /\ call.pc = "built" /\ clock < TokenLife
  /\ \/ /\ message' = [tab |-> By.tab, slot |-> By.slot, page |-> call.page,
                       components |-> IF By.solo THEN "none" ELSE "live"]
        /\ view' = [NoView EXCEPT !.open = ~By.solo, !.current = By.tab,
                                  !.slot = By.slot, !.deadline = clock + Timeout]
        /\ call' = [call EXCEPT !.pc = "sent"]
     \/ call' = [call EXCEPT !.pc = "failed"] /\ UNCHANGED <<view, message>>
  /\ UNCHANGED <<clock, clicks, powers, fault>>

SendTooLate ==
  /\ call.pc = "built" /\ clock >= TokenLife
  /\ call' = [call EXCEPT !.pc = "failed"]
  /\ UNCHANGED <<clock, view, message, clicks, powers, fault>>

-----------------------------------------------------------------------------
(* switch *)

(* The button of the tab shown is disabled, the slots never are. *)
Press(k) ==
  /\ clicks[k].pc = "unused" /\ view.open /\ message.components = "live"
  /\ \E tab \in Tab, slot \in Slot \cup {NoSlot} :
       /\ (tab = "item") <=> (slot # NoSlot)
       /\ tab = "item" \/ tab # message.tab
       /\ clicks' = [clicks EXCEPT ![k] = [NoClick EXCEPT !.pc = "sent", !.tab = tab,
                                                          !.slot = slot, !.born = clock]]
  /\ UNCHANGED <<clock, call, view, message, powers, fault>>

Expired(born) == clock - born >= TokenLife
At(k, pc) == [clicks EXCEPT ![k].pc = pc]
Over(k) == [clicks EXCEPT ![k] = [NoClick EXCEPT !.pc = "done", !.born = clicks[k].born,
                                                 !.took = clicks[k].took]]
Busy == view.busy

(* Every click of the author puts the end of the view off (discord.py,     *)
(* after interaction_check), also one that is only acknowledged.           *)
Arrive(k) ==
  /\ clicks[k].pc = "sent"
  /\ IF view.open /\ ~Busy
     THEN /\ clicks' = [clicks EXCEPT ![k].pc = "responding", ![k].tabWas = view.current,
                                      ![k].slotWas = view.slot]
          /\ view' = [view EXCEPT !.busy = TRUE, !.last = k, !.deadline = clock + Timeout]
     ELSE /\ clicks' = Over(k)
          /\ view' = IF view.open THEN [view EXCEPT !.deadline = clock + Timeout] ELSE view
  /\ UNCHANGED <<clock, call, message, powers, fault>>

(* The except branch: back to the tab before, ... *)
Unrestored(k) == view
Restored(k) == [view EXCEPT !.current = clicks[k].tabWas, !.slot = clicks[k].slotWas]

(* ... and busy is reset whatever happened. *)
StillBusy(v) == v
Finally(v) == [v EXCEPT !.busy = FALSE]

Raise(k) == clicks' = At(k, "restoring") /\ view' = Restored(k)

Respond(k) ==
  /\ clicks[k].pc = "responding"
  /\ \/ /\ clicks' = At(k, "building") /\ message' = [message EXCEPT !.components = "disabled"]
        /\ UNCHANGED <<view, fault>>
     \/ Raise(k) /\ UNCHANGED <<message, fault>>
  /\ UNCHANGED <<clock, call, powers>>

(* The spec tab is cut to its size, the author first, and says so. *)
FirstOnly(targets, self) == SubSeq(targets, 1, SpecCap)
MineFirst(targets, self) == SubSeq(SelfFirst(targets, self), 1, SpecCap)

Cut(tab) == tab = "spec" /\ Len(call.targets) > SpecCap
Shown(tab) == IF Cut(tab) THEN MineFirst(call.targets, By.author) ELSE call.targets
ShownNotes(tab) == IF Cut(tab) THEN call.notes \cup {"truncated"} ELSE call.notes

Build(k) ==
  /\ clicks[k].pc = "building"
  /\ LET tab == clicks[k].tab
     IN \/ Raise(k) /\ UNCHANGED powers
        \/ \E answers \in By.answers :
             /\ clicks' = [clicks EXCEPT ![k].pc = "editing",
                              ![k].page = Built(tab, Shown(tab), ShownNotes(tab), answers)]
             /\ view' = [view EXCEPT !.current = tab, !.slot = clicks[k].slot]
             /\ KeepPowers(tab, Shown(tab), answers)
  /\ UNCHANGED <<clock, call, message, fault>>

Payload(k) == [tab |-> clicks[k].tab, slot |-> clicks[k].slot, page |-> clicks[k].page,
               components |-> "live"]

(* An edit that raises is refused, or carried out and its answer lost. *)
Edit(k) ==
  /\ clicks[k].pc = "editing"
  /\ \/ /\ ~Expired(clicks[k].born) /\ message' = Payload(k)
        /\ clicks' = Over(k) /\ view' = Finally(view) /\ fault' = [fault EXCEPT !.shown = FALSE]
     \/ Raise(k) /\ UNCHANGED <<message, fault>>
     \/ /\ ~Expired(clicks[k].born) /\ message' = Payload(k)
        /\ Raise(k) /\ fault' = [fault EXCEPT !.shown = TRUE]
  /\ UNCHANGED <<clock, call, powers>>

Restore(k) ==
  /\ clicks[k].pc = "restoring"
  /\ clicks' = Over(k) /\ view' = Finally(view)
  /\ \/ ~Expired(clicks[k].born) /\ message' = [message EXCEPT !.components = "live"]
        /\ UNCHANGED fault
     \/ Expired(clicks[k].born) /\ UNCHANGED <<message, fault>>
     \/ ~Expired(clicks[k].born) /\ fault' = [fault EXCEPT !.shown = TRUE] /\ UNCHANGED message
  /\ UNCHANGED <<clock, call, powers>>

-----------------------------------------------------------------------------
(* on_timeout *)

TimeOut ==
  /\ view.open /\ clock >= view.deadline
  /\ view' = [view EXCEPT !.open = FALSE, !.clearing = TRUE]
  /\ UNCHANGED <<clock, call, message, clicks, powers, fault>>

(* The token of the last click, or of the command when there was none. *)
FirstToken == 0
LastToken == IF view.last = Nobody THEN 0 ELSE clicks[view.last].born

Clear ==
  /\ view.clearing
  /\ view' = [view EXCEPT !.clearing = FALSE]
  /\ \/ ~Expired(LastToken) /\ message' = [message EXCEPT !.components = "none"] /\ UNCHANGED fault
     \/ Expired(LastToken) /\ UNCHANGED <<message, fault>>
     \/ ~Expired(LastToken) /\ fault' = [fault EXCEPT !.clear = TRUE] /\ UNCHANGED message
  /\ UNCHANGED <<clock, call, clicks, powers>>

(* Time passes while somebody reads, or while something is fetched.  What  *)
(* Discord is asked takes none, and the end of the view comes on time.     *)
Tick ==
  /\ clock < MaxTime
  /\ call.pc \in {"building", "sent"} /\ ~view.clearing
  /\ \A k \in Click : clicks[k].pc \in {"unused", "building", "done"}
  /\ view.open => clock < view.deadline
  /\ clock' = clock + 1
  /\ call' = [call EXCEPT !.took = IF call.pc = "building" THEN @ + 1 ELSE @]
  /\ clicks' = [k \in Click |-> IF clicks[k].pc = "building"
                                THEN [clicks[k] EXCEPT !.took = @ + 1] ELSE clicks[k]]
  /\ UNCHANGED <<view, message, powers, fault>>

Switch(k) == Arrive(k) \/ Respond(k) \/ Build(k) \/ Edit(k) \/ Restore(k)

Next ==
  \/ Refuse \/ HandleSpec \/ HandleItem \/ HandleUnion \/ HandleMySpec \/ HandleMyItem
  \/ BuildFirst \/ Send \/ SendTooLate
  \/ \E k \in Click : Press(k) \/ Switch(k)
  \/ TimeOut \/ Clear \/ Tick

(* What is fetched comes back (NexonClient), and what Discord is asked is  *)
(* answered; no one has to click.                                          *)
Spec == Init /\ [][Next]_vars /\ \A k \in Click : WF_vars(Switch(k))

-----------------------------------------------------------------------------
(* What was fetched took longer than the two limits leave between them. *)
Overran(n) == n >= TokenLife - Timeout
SomeOverran == Overran(call.took) \/ \E k \in Click : Overran(clicks[k].took)

(* "화면은 이전 탭 그대로 — 재시도 가능하게" (comparison_tabs.py): whenever no        *)
(* click is at work the message shows the tab the view is at, with buttons *)
(* to press, whatever failed and whatever clicks came in between - unless  *)
(* Discord hid what it did, or failed the very edit that puts it right.   *)
ShownIsCurrent ==
  view.open /\ ~view.busy /\ ~fault.shown /\ ~SomeOverran =>
    /\ message.tab = view.current /\ message.slot = view.slot
    /\ message.components = "live"

(* The buttons go when the view does: the token that is used to remove     *)
(* them has not expired, unless what was fetched took longer than the      *)
(* five minutes the two limits leave.                                      *)
TimeoutClears ==
  call.pc = "sent" /\ ~view.open /\ ~view.clearing /\ ~fault.clear /\ ~SomeOverran =>
    message.components = "none"

(* Every tab accounts for the people of the command, each once, as a row   *)
(* or as a failure, and for everybody named.  Only the spec tab leaves     *)
(* somebody out, which it says, and never the author; the item tab begins  *)
(* with the author.                                                        *)
Everybody(page) == ToSet(page.people) \cup page.failed
Accounts(r, page, tab) ==
  LET c == Calls[r.by]
      all == ToSet(r.targets)
      mine(people) == c.author \in {t.user : t \in people}
  IN /\ IsInjective(page.people) /\ ToSet(page.people) \cap page.failed = {}
     /\ Everybody(page) \subseteq all /\ page.missing = r.missing
     /\ Cardinality(Everybody(page)) =
          IF tab = "spec" THEN Min({SpecCap, Cardinality(all)}) ELSE Cardinality(all)
     /\ mine(all) => mine(Everybody(page))
     /\ page.people # <<>> =>
          /\ Everybody(page) # all => "truncated" \in page.notes
          /\ tab = "item" /\ mine(ToSet(page.people)) => page.people[1].user = c.author
          /\ Unspecified(c) /\ ~c.solo =>
               ("absent" \in page.notes <=> c.author \notin {d.user : d \in ToSet(c.table)})
     /\ ~c.solo =>
          \A i \in DOMAIN c.users :
            c.users[i] \in Users(r.targets) \/ c.users[i] \in ToSet(page.missing)

SamePeople ==
  /\ IsInjective(call.targets)
  /\ message # NoMessage => Accounts(call, message.page, message.tab)

(* A click never leaves the view busy for good. *)
BusyEnds == view.busy ~> ~view.busy
=============================================================================
