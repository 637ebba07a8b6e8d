------------------------------- MODULE Sunday -------------------------------
(***************************************************************************)
(* The weekly Sunday announcement.  On Friday at 10:10 the scheduler fires *)
(* a job that announces the event to every channel and every personal      *)
(* subscriber, unless the marker says that the week is served; an operator *)
(* may announce by hand at any time, to the channels only, which marks the *)
(* week too.  The two share the marker and nothing excludes them from each *)
(* other; the schedule lives in the memory of the process.  A broadcast may *)
(* be under way when the week changes.                                     *)
(***************************************************************************)
EXTENDS Naturals

CONSTANTS
  Channel,    \* channels of the guilds
  User,       \* possible personal subscribers
  Request,    \* manual broadcasts under way at a time
  MaxWeek     \* bound: weeks that pass

ASSUME SundayAssumption ==
  /\ Channel \cap User = {}
  /\ MaxWeek \in Nat \ {0}

Week == 1 .. MaxWeek
NoWeek == 0  \* notice_state has no row yet
Recipient == Channel \cup User

VARIABLES
  week,       \* the current ISO week
  day,        \* before Friday 10:10, the rest of that Friday, or after it
  due,        \* the week of the next firing; meaningless while down
  up,         \* is the bot running?
  marker,     \* notice_state.last_identifier of the Sunday alert
  enabled,    \* recipients with the Sunday alert on
  auto,       \* run_sunday_job
  manual,     \* manual_broadcast_sunday, per request
  automatic,  \* ghost: automatic announcements of each week to each recipient
  byHand,     \* ghost: weeks marked by hand while no automatic job ran, and
              \* whose mark no later one has overwritten
  served,     \* ghost: weeks somebody was sent to, or whose job ended
  carried     \* ghost: weeks that found a broadcast on its way that had
              \* reached somebody before

sundayVars == <<week, day, due, up, marker, enabled, auto, manual,
                automatic, byHand, served, carried>>
jobs == <<auto, manual>>
world == <<week, day, due, up, enabled>>
ghosts == <<automatic, byHand, served, carried>>

NoAuto == [stage |-> "idle", left |-> {}]
NoManual == [stage |-> "idle", left |-> {}, sent |-> FALSE, week |-> NoWeek]

AutoJob == [stage : {"idle", "read", "fetch", "send"}, left : SUBSET Recipient]
ManualJob == [stage : {"idle", "send", "mark"}, left : SUBSET Channel,
              sent : BOOLEAN, week : 0 .. MaxWeek]

SundayTypeOK ==
  /\ week \in Week
  /\ day \in {"early", "friday", "late"}
  /\ due \in 1 .. MaxWeek + 1
  /\ up \in BOOLEAN
  /\ marker \in 0 .. MaxWeek
  /\ enabled \subseteq Recipient
  /\ auto \in AutoJob
  /\ manual \in [Request -> ManualJob]
  /\ automatic \in [Recipient -> [Week -> Nat]]
  /\ byHand \subseteq 0 .. MaxWeek
  /\ served \subseteq Week
  /\ carried \subseteq Week

SundayInit ==
  /\ week = 1
  /\ day = "early"
  /\ due = 1
  /\ up = TRUE
  /\ marker = NoWeek
  /\ enabled = {}
  /\ auto = NoAuto
  /\ manual = [q \in Request |-> NoManual]
  /\ automatic = [r \in Recipient |-> [w \in Week |-> 0]]
  /\ byHand = {}
  /\ served = {}
  /\ carried = {}

-----------------------------------------------------------------------------
(* The clock, the members and the process *)

TenPastTen ==
  /\ day = "early"
  /\ day' = "friday"
  /\ UNCHANGED <<week, due, up, marker, enabled, jobs, ghosts>>

(* A running scheduler fires what is due within the misfire grace, which   *)
(* ends with the day; a firing the bot was down for is dropped.            *)
FridayEnds ==
  /\ day = "friday"
  /\ ~(up /\ due = week)
  /\ day' = "late"
  /\ UNCHANGED <<week, due, up, marker, enabled, jobs, ghosts>>

(* The automatic job is over long before Monday; an operator may be at work *)
(* at midnight.                                                            *)
Monday ==
  /\ day = "late"
  /\ week < MaxWeek
  /\ auto = NoAuto
  /\ week' = week + 1
  /\ day' = "early"
  /\ carried' = carried \cup {w \in {week + 1} : \E q \in Request :
                                   manual[q].stage = "send" /\ manual[q].sent}
  /\ UNCHANGED <<due, up, marker, enabled, jobs, automatic, byHand, served>>

Toggle(r) ==
  /\ up
  /\ enabled' = IF r \in enabled THEN enabled \ {r} ELSE enabled \cup {r}
  /\ UNCHANGED <<week, day, due, up, marker, jobs, ghosts>>

Crash ==
  /\ up
  /\ up' = FALSE
  /\ auto' = NoAuto
  /\ manual' = [q \in Request |-> NoManual]
  /\ UNCHANGED <<week, day, due, marker, enabled, ghosts>>

FireAtOnce == week

(* add_job without a stored schedule: the next Friday 10:10 from now on. *)
NextFire == IF day = "early" THEN week ELSE week + 1

Boot ==
  /\ ~up
  /\ up' = TRUE
  /\ due' = NextFire
  /\ UNCHANGED <<week, day, marker, enabled, jobs, ghosts>>

-----------------------------------------------------------------------------
(* run_sunday_job *)

SentLastWeek == marker = week - 1

AlreadySentThisWeek == marker = week

Fire ==
  /\ up
  /\ day = "friday"
  /\ due = week
  /\ due' = week + 1
  /\ auto' = [stage |-> IF AlreadySentThisWeek THEN "idle" ELSE "read", left |-> {}]
  /\ UNCHANGED <<week, day, up, marker, enabled, manual, automatic, byHand, served,
                 carried>>

(* Channels and subscribers are read one after the other, from two tables: *)
(* a change between the reads is one before or after both.                 *)
ReadRecipients ==
  /\ auto.stage = "read"
  /\ auto' = IF enabled = {} THEN NoAuto ELSE [stage |-> "fetch", left |-> enabled]
  /\ UNCHANGED <<world, marker, manual, ghosts>>

(* Nexon fails, or has no Sunday event: the week is given up, unmarked. *)
NoEvents ==
  /\ auto.stage = "fetch"
  /\ auto' = NoAuto
  /\ UNCHANGED <<world, marker, manual, ghosts>>

Events ==
  /\ auto.stage = "fetch"
  /\ auto' = [stage |-> "send", left |-> auto.left]
  /\ UNCHANGED <<world, marker, manual, ghosts>>

(* Channels first; what fails is not tried again. *)
Turn(r) ==
  /\ auto.stage = "send"
  /\ r \in auto.left
  /\ r \in Channel \/ auto.left \cap Channel = {}

AutoSend(r) ==
  /\ Turn(r)
  /\ auto' = [stage |-> "send", left |-> auto.left \ {r}]
  /\ automatic' = [automatic EXCEPT ![r][week] = @ + 1]
  /\ served' = served \cup {week}
  /\ UNCHANGED <<world, marker, manual, byHand, carried>>

(* discord.HTTPException *)
AutoSendFails(r) ==
  /\ Turn(r)
  /\ auto' = [stage |-> "send", left |-> auto.left \ {r}]
  /\ UNCHANGED <<world, marker, manual, ghosts>>

AutoMark ==
  /\ auto.stage = "send"
  /\ auto.left = {}
  /\ marker' = week
  /\ auto' = NoAuto
  /\ served' = served \cup {week}
  /\ UNCHANGED <<world, manual, automatic, byHand, carried>>

(* Any other error of a send, and one of the database, ends the job where  *)
(* it is, unmarked.                                                        *)
AutoRaises ==
  /\ auto # NoAuto
  /\ auto' = NoAuto
  /\ UNCHANGED <<world, marker, manual, ghosts>>

-----------------------------------------------------------------------------
(* manual_broadcast_sunday *)

EnabledChannels == enabled \cap Channel

Sending(left, sent) ==
  [stage |-> "send", left |-> left, sent |-> sent, week |-> NoWeek]

Marking == [stage |-> "mark", left |-> {}, sent |-> TRUE, week |-> week]

ManualStart(q) ==
  /\ up
  /\ manual[q] = NoManual
  /\ EnabledChannels # {}
  /\ manual' = [manual EXCEPT ![q] = Sending(EnabledChannels, FALSE)]
  /\ UNCHANGED <<world, marker, auto, ghosts>>

ManualSend(q, c) ==
  /\ manual[q].stage = "send"
  /\ c \in manual[q].left
  /\ manual' = [manual EXCEPT ![q] = Sending(@.left \ {c}, TRUE)]
  /\ served' = served \cup {week}
  /\ UNCHANGED <<world, marker, auto, automatic, byHand, carried>>

ManualSendFails(q, c) ==
  /\ manual[q].stage = "send"
  /\ c \in manual[q].left
  /\ manual' = [manual EXCEPT ![q] = Sending(@.left \ {c}, @.sent)]
  /\ UNCHANGED <<world, marker, auto, ghosts>>

MarkAnyway(q) == Marking

(* Only a broadcast that reached a channel marks a week: the one in which  *)
(* its sends have ended.                                                   *)
Sent(q) == IF manual[q].sent THEN Marking ELSE NoManual

ManualSent(q) ==
  /\ manual[q].stage = "send"
  /\ manual[q].left = {}
  /\ manual' = [manual EXCEPT ![q] = Sent(q)]
  /\ UNCHANGED <<world, marker, auto, ghosts>>

(* A mark made after the week has changed overwrites one made in the new.  *)
ManualMark(q) ==
  /\ manual[q].stage = "mark"
  /\ marker' = manual[q].week
  /\ manual' = [manual EXCEPT ![q] = NoManual]
  /\ byHand' = IF manual[q].week = week
               THEN byHand \cup {w \in {week} : auto = NoAuto}
               ELSE byHand \ {week}
  /\ UNCHANGED <<world, auto, automatic, served, carried>>

ManualRaises(q) ==
  /\ manual[q] # NoManual
  /\ manual' = [manual EXCEPT ![q] = NoManual]
  /\ UNCHANGED <<world, marker, auto, ghosts>>

-----------------------------------------------------------------------------
AutoStep ==
  \/ Fire \/ ReadRecipients \/ NoEvents \/ Events \/ AutoMark \/ AutoRaises
  \/ \E r \in Recipient : AutoSend(r) \/ AutoSendFails(r)

ManualStep(q) ==
  \/ ManualStart(q) \/ ManualSent(q) \/ ManualMark(q) \/ ManualRaises(q)
  \/ \E c \in Channel : ManualSend(q, c) \/ ManualSendFails(q, c)

SundayNext ==
  \/ TenPastTen \/ FridayEnds \/ Monday \/ Crash \/ Boot
  \/ \E r \in Recipient : Toggle(r)
  \/ AutoStep
  \/ \E q \in Request : ManualStep(q)

SundaySpec == SundayInit /\ [][SundayNext]_sundayVars

-----------------------------------------------------------------------------
(* Nobody gets the automatic announcement of a week twice, however often   *)
(* the bot crashes on that Friday and comes back, marked or not.           *)
OneAutomaticPerWeek ==
  \A r \in Recipient, w \in Week : automatic[r][w] <= 1

(* A week an operator announced and marked while no automatic job was      *)
(* running belongs to the operator, no automatic announcement in it, unless *)
(* a broadcast of an earlier week marks its own week after that.           *)
OperatorFirst == [][automatic' # automatic => week \notin byHand]_sundayVars

(* A week passes for served only if somebody was sent something in it or   *)
(* the automatic job got to its end, so a manual broadcast nobody received *)
(* leaves the automatic one alive; or if its Monday found a broadcast on   *)
(* its way that had reached somebody the week before.                      *)
MarkedWeekServed == marker = week => week \in served \cup carried

=============================================================================
