----------------------------- MODULE ManageHub -----------------------------
(***************************************************************************)
(* The two screens a member manages the characters with: the hub of        *)
(* /캐릭터목록 and the account sync.  Each is a view that redraws one message *)
(* of Discord.  A click travels to the bot and is handled by the component *)
(* it was made on, though the view may have been redrawn meanwhile.  One   *)
(* action of a view works at a time: it answers first, then changes the    *)
(* rows, reads them again and redraws.                                     *)
(*                                                                         *)
(* One view is modelled from its opening until it is stopped.  What the    *)
(* view sends reaches the message at once or never (lost, or overtaken by  *)
(* what it sent earlier): a click made before a late answer is a click     *)
(* that was under way already.                                             *)
(***************************************************************************)
EXTENDS Integers, FiniteSets, Sequences

CONSTANTS
  Ocid,
  Account,        \* the characters Nexon lists for the personal key
  Importable,     \* those of them outside the challengers worlds
  Rank,           \* their order: by level, then by nickname
  PageSize,       \* _SYNC_PAGE
  MAX_CHARACTERS_PER_USER,
  Contested,      \* bound: the characters other handlers register and delete
  MaxClicks       \* bound: clicks under way

ASSUME HubAssumption ==
  /\ IsFiniteSet(Ocid)
  /\ Account \subseteq Ocid
  /\ Importable \subseteq Account
  /\ Rank \in [Importable -> Nat]
  /\ PageSize \in Nat \ {0}
  /\ MAX_CHARACTERS_PER_USER \in Nat \ {0}
  /\ Contested \subseteq Ocid
  /\ MaxClicks \in Nat \ {0}

VARIABLES
  rows, hasKey,  \* character and the personal key in registration
  view,          \* the view
  busy,          \* its busy flag
  act,           \* the coroutine that set the flag
  screen,        \* the clicks the message offers
  clicks,        \* clicks under way
  over,          \* stopped or timed out
  spent          \* ghost: the last pick for deletion was acted upon

vars == <<rows, hasKey, view, busy, act, screen, clicks, over, spent>>

-----------------------------------------------------------------------------
(* plan_sync, and what a view shows *)

Candidates(known) == Importable \ known
Missing(known) == known \ Account
Room(known) ==
  IF Cardinality(known) < MAX_CHARACTERS_PER_USER
  THEN MAX_CHARACTERS_PER_USER - Cardinality(known) ELSE 0

Pages(known) == (Cardinality(Candidates(known)) + PageSize - 1) \div PageSize

Before(o, known) == Cardinality({c \in Candidates(known) : Rank[c] > Rank[o]})

PageItems(v) ==
  {o \in Candidates(v.known) : v.page * PageSize <= Before(o, v.known)
                            /\ Before(o, v.known) < (v.page + 1) * PageSize}

Button(on) == [on |-> on, values |-> {}]
Buttons(names) == {Button(on) : on \in names}
Selects(on, offered) == {[on |-> on, values |-> s] : s \in SUBSET offered}

AllowedOnThePage(v) == Room(v.known)

(* allowed: the picks that room is left for on this page. *)
Allowed(v) == Room(v.known) - Cardinality(v.picked \ PageItems(v))

HomeOfHub(v) ==
  Buttons((IF v.hasKey THEN {"sync", "key"} ELSE {})
          \cup (IF v.known # {} THEN {"select", "representative"} ELSE {}))

HomeOfSync(v) ==
  LET items == PageItems(v)
  IN Buttons({"leave"}
             \cup (IF v.picked # {} THEN {"confirmImport"} ELSE {})
             \cup (IF Missing(v.known) # {} THEN {"select"} ELSE {})
             \cup (IF items # {} /\ v.page # 0 THEN {"prev"} ELSE {})
             \cup (IF items # {} /\ v.page < Pages(v.known) - 1 THEN {"next"} ELSE {}))
     \cup {c \in Selects("pickImport", items) :
             items # {} /\ Allowed(v) > 0 /\ Cardinality(c.values) <= Allowed(v)}

(* What is offered for deletion: by the hub everything, by the sync what   *)
(* the account does not have.                                              *)
Deletable(v) == IF v.kind = "hub" THEN v.known ELSE Missing(v.known)

(* The clicks the components of a mode allow. *)
Drawn(v) ==
  CASE v.mode = "home" -> IF v.kind = "hub" THEN HomeOfHub(v) ELSE HomeOfSync(v)
    [] v.mode = "select" ->
         Buttons({"cancel"}) \cup (Selects("pickDelete", Deletable(v)) \ {Button("pickDelete")})
    [] v.mode = "confirmDelete" -> Buttons({"cancel", "confirmDelete"})
    [] v.mode = "representative" -> Buttons({"cancel", "pickRepresentative"})
    [] v.mode = "confirmKey" -> Buttons({"cancel", "confirmKey"})

Opened(kind) ==
  [kind |-> kind, mode |-> "home", pending |-> {}, known |-> rows, hasKey |-> hasKey,
   picked |-> {}, page |-> 0]

Mode == {"home", "select", "confirmDelete", "representative", "confirmKey"}

Component ==
  {"cancel", "sync", "key", "select", "representative", "pickDelete", "confirmDelete",
   "pickRepresentative", "confirmKey", "pickImport", "confirmImport", "prev", "next",
   "leave"}

Click == [on : Component, values : SUBSET Ocid]

NoAct == [stage |-> "idle", on |-> "none", targets |-> {}]

View ==
  [kind : {"hub", "sync"}, mode : Mode,
   pending : SUBSET Ocid,   \* _pending: picked for deletion
   known : SUBSET Ocid,     \* characters, or registered
   hasKey : BOOLEAN,
   picked : SUBSET Ocid,    \* for import
   page : Int]

Acting ==
  [stage : {"idle", "sync", "respond", "work", "reload", "redraw", "apologize"},
   on : Component \cup {"none"},
   targets : SUBSET Ocid]

TypeOK ==
  /\ rows \subseteq Ocid
  /\ hasKey \in BOOLEAN
  /\ view \in View
  /\ busy \in BOOLEAN
  /\ act \in Acting
  /\ screen \subseteq Click
  /\ clicks \in Seq(Click)
  /\ over \in BOOLEAN
  /\ spent \in BOOLEAN
  /\ busy <=> act.stage # "idle"

Init ==
  /\ rows \in SUBSET Ocid
  /\ hasKey \in BOOLEAN
  /\ \E kind \in {"hub", "sync"} : view = Opened(kind)
  /\ busy = FALSE
  /\ act = NoAct
  /\ screen = Drawn(view)
  /\ clicks = <<>>
  /\ over = FALSE
  /\ spent = TRUE

-----------------------------------------------------------------------------
(* The member, Discord and the other handlers *)

(* The other handlers of the member register and delete characters. *)
Elsewhere ==
  /\ \E o \in Contested :
       rows' \in {rows \ {o}} \cup (IF Room(rows) > 0 THEN {rows \cup {o}} ELSE {})
  /\ UNCHANGED <<hasKey, view, busy, act, screen, clicks, over, spent>>

(* Several clicks may be under way: on one message, from one member. *)
Press(c) ==
  /\ c \in screen
  /\ Len(clicks) < MaxClicks
  /\ clicks' = Append(clicks, c)
  /\ UNCHANGED <<rows, hasKey, view, busy, act, screen, over, spent>>

(* on_timeout, after a time longer than any answer takes. *)
Timeout ==
  /\ ~busy /\ clicks = <<>>
  /\ over' = TRUE
  /\ UNCHANGED <<rows, hasKey, view, busy, act, screen, clicks, spent>>

-----------------------------------------------------------------------------
(* Answering a click: _show and _act *)

Turn(on) == clicks # <<>> /\ Head(clicks).on = on /\ clicks' = Tail(clicks)

Values == Head(clicks).values

Sent(drawn) == {drawn, screen}

(* The view is redrawn in any case, the message only if no action is at work. *)
Show(v) ==
  /\ view' = v
  /\ screen' \in IF busy THEN {screen} ELSE Sent(Drawn(v))
  /\ UNCHANGED <<rows, hasKey, busy, act, over>>

Act(v, on, targets) ==
  /\ view' = v
  /\ busy' = TRUE
  /\ act' = IF busy THEN act
            ELSE [stage |-> "respond", on |-> on, targets |-> targets]
  /\ UNCHANGED <<rows, hasKey, screen, over>>

Home(v) == [v EXCEPT !.mode = "home"]

Cancel ==
  /\ Turn("cancel")
  /\ Show([Home(view) EXCEPT !.pending = {}])
  /\ UNCHANGED spent

(* _open_delete, _open_cleanup, _open_rep, _open_key *)
Open(on, mode) ==
  /\ Turn(on)
  /\ Show([view EXCEPT !.mode = mode])
  /\ UNCHANGED spent

PickDelete ==
  /\ Turn("pickDelete")
  /\ Show([view EXCEPT !.mode = "confirmDelete", !.pending = Values])
  /\ spent' = FALSE

Keep == view

Forget == [view EXCEPT !.pending = {}]

(* What was picked is gone before anybody asks whether an action is at work. *)
ConfirmDelete ==
  /\ Turn("confirmDelete")
  /\ Act(Forget, "confirmDelete", view.pending)
  /\ spent' = TRUE

(* The key is removed, the representative set, at once. *)
ActAtOnce(on) ==
  /\ Turn(on)
  /\ Act(view, on, {})
  /\ UNCHANGED spent

-----------------------------------------------------------------------------
(* The pages of the account sync *)

Smaller(m, n) == IF m < n THEN m ELSE n
Larger(m, n) == IF m < n THEN n ELSE m

PrevPage ==
  /\ Turn("prev")
  /\ Show([Home(view) EXCEPT !.page = Larger(view.page - 1, 0)])
  /\ UNCHANGED spent

NextPage ==
  /\ Turn("next")
  /\ Show([Home(view) EXCEPT !.page = Smaller(view.page + 1, Pages(view.known) - 1)])
  /\ UNCHANGED spent

(* As many of s as n leaves room for; which of them, the order decides. *)
FirstOf(s, n) ==
  {t \in SUBSET s : IF Cardinality(s) <= n THEN t = s ELSE Cardinality(t) = n}

(* The picks of the other pages stay. *)
PickImport ==
  /\ Turn("pickImport")
  /\ \E chosen \in FirstOf(Values \cap PageItems(view), Allowed(view)) :
       Show([Home(view) EXCEPT !.picked = (view.picked \ PageItems(view)) \cup chosen])
  /\ UNCHANGED spent

ConfirmImport ==
  /\ Turn("confirmImport")
  /\ Act([view EXCEPT !.picked = {}], "confirmImport", view.picked)
  /\ UNCHANGED spent

-----------------------------------------------------------------------------
(* An action at work *)

At(stage) == act.stage = stage

Go(stage) == act' = [act EXCEPT !.stage = stage]

Respond ==
  /\ At("respond")
  /\ screen' \in Sent({})
  /\ Go("work")
  /\ UNCHANGED <<rows, hasKey, view, busy, clicks, over, spent>>

(* delete_characters, import_characters, remove_personal_key *)
Work ==
  /\ At("work")
  /\ \/ act.on = "confirmDelete" /\ rows' = rows \ act.targets /\ UNCHANGED hasKey
     \/ /\ act.on = "confirmImport"
        /\ \E chosen \in FirstOf(act.targets \ rows, Room(rows)) : rows' = rows \cup chosen
        /\ UNCHANGED hasKey
     \/ act.on = "confirmKey" /\ hasKey' = FALSE /\ UNCHANGED rows
     \/ act.on = "pickRepresentative" /\ UNCHANGED <<rows, hasKey>>
  /\ Go("reload")
  /\ UNCHANGED <<view, busy, screen, clicks, over, spent>>

(* _recompute: room and candidates may have become fewer. *)
Reloaded(picked) ==
  [Home(view) EXCEPT
     !.known = rows,
     !.hasKey = hasKey,
     !.picked = picked,
     !.page = Smaller(view.page, Larger(Pages(rows) - 1, 0))]

Reload ==
  /\ At("reload")
  /\ \E picked \in FirstOf(view.picked \cap Candidates(rows), Room(rows)) :
       view' = Reloaded(picked)
  /\ screen' \in Sent(Drawn(view'))
  /\ Go("redraw")
  /\ UNCHANGED <<rows, hasKey, busy, clicks, over, spent>>

StillBusy == busy' = busy

(* finally: busy = False *)
Finish == busy' = FALSE

Redraw ==
  /\ At("redraw")
  /\ act' = NoAct
  /\ Finish
  /\ UNCHANGED <<rows, hasKey, view, screen, clicks, over, spent>>

(* Any step may raise; the view goes home and forgets.  The hub may have    *)
(* read the characters before the reading of the key raised.               *)
Fail ==
  /\ act.stage \in {"respond", "work", "reload", "redraw"}
  /\ \E known \in {view.known} \cup (IF At("reload") /\ view.kind = "hub" THEN {rows} ELSE {}) :
       view' = [Home(view) EXCEPT !.pending = {}, !.known = known]
  /\ screen' \in Sent(Drawn(view'))
  /\ Go("apologize")
  /\ UNCHANGED <<rows, hasKey, busy, clicks, over, spent>>

(* The apology may fail too. *)
Apologize ==
  /\ At("apologize")
  /\ act' = NoAct
  /\ Finish
  /\ UNCHANGED <<rows, hasKey, view, screen, clicks, over, spent>>

-----------------------------------------------------------------------------
(* From screen to screen: the next one is another view *)

OpenSync ==
  /\ Turn("sync")
  /\ busy' = TRUE
  /\ act' = IF busy THEN act ELSE [NoAct EXCEPT !.stage = "sync", !.on = "sync"]
  /\ UNCHANGED <<rows, hasKey, view, screen, over, spent>>

SyncOpened ==
  /\ At("sync")
  /\ over' = TRUE
  /\ act' = NoAct
  /\ Finish
  /\ UNCHANGED <<rows, hasKey, view, screen, clicks, spent>>

(* The hub stays as clicks made it in the meantime. *)
SyncFailed ==
  /\ At("sync")
  /\ screen' \in Sent(Drawn(view))
  /\ Go("apologize")
  /\ UNCHANGED <<rows, hasKey, view, busy, clicks, over, spent>>

Leave ==
  /\ Turn("leave")
  /\ over' = ~busy
  /\ UNCHANGED <<rows, hasKey, view, busy, act, screen, spent>>

-----------------------------------------------------------------------------
Answer ==
  \/ Cancel \/ PickDelete \/ ConfirmDelete
  \/ Open("select", "select") \/ Open("representative", "representative")
  \/ Open("key", "confirmKey")
  \/ ActAtOnce("pickRepresentative") \/ ActAtOnce("confirmKey")
  \/ PrevPage \/ NextPage \/ PickImport \/ ConfirmImport
  \/ OpenSync \/ Leave

ActStep ==
  \/ Respond \/ Work \/ Reload \/ Redraw \/ Fail \/ Apologize
  \/ SyncOpened \/ SyncFailed

Next ==
  /\ ~over
  /\ \/ Answer \/ ActStep
     \/ Elsewhere \/ Timeout
     \/ \E c \in screen : Press(c)

Spec == Init /\ [][Next]_vars

(* A coroutine that may go on is resumed, and no await of it waits for ever. *)
FairSpec == Spec /\ WF_vars(~over /\ ActStep)

-----------------------------------------------------------------------------
(* One pick deletes once: a confirmation pressed twice, or handled while    *)
(* another action is at work, does not delete again what was registered     *)
(* anew in between.                                                         *)
OneDeletionPerPick ==
  [][act'.on = "confirmDelete" /\ act.stage = "idle" /\ act'.targets # {} => ~spent]_vars

(* What is picked for import can be imported: it fits the room there was at *)
(* the last reading, over all pages, and is not registered.  The picks of a *)
(* page are cut off at the room left, which must not be negative.           *)
PickedFits ==
  /\ view.picked \subseteq Candidates(view.known)
  /\ Cardinality(view.picked) <= Room(view.known)

(* Whatever fails, the view takes clicks again. *)
BusyEnds == busy ~> ~busy

=============================================================================
