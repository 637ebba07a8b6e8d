---------------------------- MODULE ReminderJob ----------------------------
(***************************************************************************)
(* The personal reminder: at every full hour one job reads who subscribed  *)
(* to that hour, fetches the homework of every character of each of them   *)
(* with the personal key, and sends a card for each.  Beside it members    *)
(* turn the reminder on and off, and the process the job runs in, a bot    *)
(* and a HTTP server in one event loop, ends and is started again.         *)
(*                                                                         *)
(* Time is counted in hours.  What is awaited takes any time, so a job may *)
(* last longer than an hour; the scheduler then drops the next one.        *)
(***************************************************************************)
EXTENDS Homework

CONSTANTS
  Member,         \* (guild, user) pairs
  Call,           \* calls of /스케줄러알림 켜기 under way at a time
  Caller,         \* and the member of each
  Character,
  Owned,          \* the characters each member has at first
  Stored,         \* what the table of subscriptions may hold at the start
  Keys,           \* and the stored keys: readable, or written with another master key
  Answer,         \* what Nexon may answer for each character
  Choices,        \* the filters members pass to /스케줄러알림
  HoursPerDay,
  MaxHour,        \* bound: the last hour modelled
  MaxRestarts,    \* bound
  MaxChanges      \* bound: commands carried out

Hour == 0 .. HoursPerDay - 1
HourOf(t) == t % HoursPerDay

(* A row of scheduler_subscription, or none. *)
NoSub == [hour |-> -1, excluded |-> Null]
Csv == {ToCsv(ex) : ex \in SUBSET Bucket}
Subscription ==
  {NoSub} \cup [hour : Hour, excluded : {csv \in Csv : ~IsAllExcluded(FromCsv(csv))}]

ASSUME ReminderAssumption ==
  /\ IsFiniteSet(Character)
  /\ Caller \in [Call -> Member]
  /\ Owned \in [Member -> SUBSET Character]
  /\ Stored \subseteq [Member -> Subscription]
  /\ Keys \subseteq [Member -> {"good", "lost"}]
  /\ Answer \in [Character -> SUBSET DataType]
  /\ Choices \subseteq [Bucket -> Choice]
  /\ HoursPerDay \in Nat \ {0}
  /\ MaxHour \in Nat /\ MaxRestarts \in Nat /\ MaxChanges \in Nat

VARIABLES
  clock,      \* hours since the start
  rows,       \* key and characters of every member
  subs,       \* scheduler_subscription
  command,    \* each call of /스케줄러알림 켜기, if it is at work
  job,        \* run_scheduler_reminder_job
  proc,       \* the process: main, its two tasks, the scheduler, the client
  cards,      \* ghost: the hour of a character's last card, and how many then
  raised,     \* ghost: has the last step of a job ended it with an exception?
  count       \* bounds: restarts and changes so far

vars == <<clock, rows, subs, command, job, proc, cards, raised, count>>

NoCommand == [pc |-> "idle", hour |-> -1, choice |-> [b \in Bucket |-> "unset"], merged |-> {}]
NoJob == [pc |-> "idle", now |-> -1, due |-> {}, hidden |-> [m \in Member |-> {}],
          who |-> {}, todo |-> {}, ready |-> {}, owed |-> {}]

(* serve: both tasks are created; the scheduler is the bot's. *)
Started == [main |-> "wait", bot |-> "starting", server |-> "running", closed |-> FALSE,
            scheduler |-> FALSE, client |-> TRUE]

Row == [key : {"good", "lost", "none"}, characters : SUBSET Character]
Command == [pc : {"idle", "guarded", "merged"}, hour : Hour \cup {-1},
            choice : [Bucket -> Choice], merged : SUBSET Bucket]
Job == [pc : {"idle", "start", "next", "fetch", "send"}, now : -1 .. MaxHour,
        due : SUBSET Member, hidden : [Member -> SUBSET Bucket],
        who : SUBSET Member, todo : SUBSET Character,
        ready : SUBSET (Character \X HomeworkType),
        owed : SUBSET (Member \X Character)] \* ghost: those that had no try of their own
Process == [main : {"wait", "gather", "aclose", "close", "dispose", "exited"},
            bot : {"starting", "running", "raised", "cancelled"},
            server : {"running", "raised", "returned", "cancelled"},
            closed : BOOLEAN, scheduler : BOOLEAN, client : BOOLEAN]

TypeOK ==
  /\ clock \in 0 .. MaxHour
  /\ rows \in [Member -> Row]
  /\ subs \in [Member -> [hour : Hour \cup {-1}, excluded : Csv]]
  /\ command \in [Call -> Command]
  /\ job \in Job
  /\ proc \in Process
  /\ cards \in [Member -> [Character -> [at : -1 .. MaxHour, n : Nat]]]
  /\ raised \in BOOLEAN
  /\ count \in [restarts : 0 .. MaxRestarts, changes : 0 .. MaxChanges]

Init ==
  /\ clock = 0
  /\ \E key \in Keys :
       rows = [m \in Member |-> [key |-> key[m], characters |-> Owned[m]]]
  /\ subs \in Stored
  /\ command = [k \in Call |-> NoCommand]
  /\ job = NoJob
  /\ proc = Started
  /\ cards = [m \in Member |-> [c \in Character |-> [at |-> -1, n |-> 0]]]
  /\ raised = FALSE
  /\ count = [restarts |-> 0, changes |-> 0]

-----------------------------------------------------------------------------
(* /스케줄러알림: the guard, the reading of the stored filter and the upsert *)
(* are three statements.                                                   *)

(* resolve_self_characters finds a key, readable or not, and a character. *)
Resolved(m) == rows[m].key # "none" /\ rows[m].characters # {}

TakesCommands == proc.main = "wait" /\ proc.bot = "running" /\ count.changes < MaxChanges
Change == count' = [count EXCEPT !.changes = @ + 1]

ReminderOn(k) ==
  /\ TakesCommands /\ command[k].pc = "idle" /\ Resolved(Caller[k])
  /\ \E h \in Hour, ch \in Choices :
       command' = [command EXCEPT ![k] =
                     [NoCommand EXCEPT !.pc = "guarded", !.hour = h, !.choice = ch]]
  /\ Change
  /\ UNCHANGED <<clock, rows, subs, job, proc, cards, raised>>

Hidden(k) == MergeExcluded(FromCsv(subs[Caller[k]].excluded), command[k].choice)

(* What would hide everything is refused and not stored. *)
RefusesTheCall(k) == IsAllExcluded(ParseOndemand(command[k].choice))
Refuses(k) == IsAllExcluded(Hidden(k))

ReadStored(k) ==
  /\ command[k].pc = "guarded"
  /\ command' = [command EXCEPT ![k] =
       IF Refuses(k) THEN NoCommand ELSE [@ EXCEPT !.pc = "merged", !.merged = Hidden(k)]]
  /\ UNCHANGED <<clock, rows, subs, job, proc, cards, raised, count>>

SetSubscription(k) ==
  /\ command[k].pc = "merged"
  /\ subs' = [subs EXCEPT ![Caller[k]] = [hour |-> command[k].hour,
                                          excluded |-> ToCsv(command[k].merged)]]
  /\ command' = [command EXCEPT ![k] = NoCommand]
  /\ UNCHANGED <<clock, rows, job, proc, cards, raised, count>>

ReminderOff(m) ==
  /\ TakesCommands /\ subs[m] # NoSub
  /\ subs' = [subs EXCEPT ![m] = NoSub]
  /\ Change
  /\ UNCHANGED <<clock, rows, command, job, proc, cards, raised>>

(* Removing the key, or the last character, drops the subscription too. *)
RemoveKey(m) ==
  /\ TakesCommands /\ rows[m].key # "none"
  /\ rows' = [rows EXCEPT ![m].key = "none"]
  /\ subs' = [subs EXCEPT ![m] = NoSub]
  /\ Change
  /\ UNCHANGED <<clock, command, job, proc, cards, raised>>

DeleteCharacter(m, c) ==
  /\ TakesCommands /\ c \in rows[m].characters
  /\ rows' = [rows EXCEPT ![m].characters = @ \ {c}]
  /\ subs' = IF rows[m].characters = {c} THEN [subs EXCEPT ![m] = NoSub] ELSE subs
  /\ Change
  /\ UNCHANGED <<clock, command, job, proc, cards, raised>>

-----------------------------------------------------------------------------
(* The job *)

Run(j) ==
  job' = j /\ raised' = FALSE /\ UNCHANGED <<clock, rows, subs, command, proc, cards, count>>

(* An exception that nothing catches ends the job for everybody left. *)
Raise == job' = NoJob /\ raised' = TRUE

(* The database, a key that cannot be decrypted, rendering, a client that  *)
(* is closed, or any error of a call that is neither a NexonAPIError nor a *)
(* discord.HTTPException.                                                  *)
Raises ==
  job.pc # "idle" /\ Raise /\ UNCHANGED <<clock, rows, subs, command, proc, cards, count>>

(* A full hour: the scheduler starts the job unless one is still running   *)
(* (max_instances), and never catches up with an hour it missed.           *)
FullHour ==
  /\ clock < MaxHour
  /\ clock' = clock + 1
  /\ job' = IF proc.scheduler /\ job.pc = "idle"
            THEN [NoJob EXCEPT !.pc = "start", !.now = clock + 1] ELSE job
  /\ raised' = FALSE
  /\ UNCHANGED <<rows, subs, command, proc, cards, count>>

DueAt(t) == {m \in Member : subs[m].hour = HourOf(t)}

(* subscriptions_at_hour: the filters, too, are those of this reading. *)
ReadSubscriptions ==
  /\ job.pc = "start"
  /\ Run(IF DueAt(job.now) = {} THEN NoJob
         ELSE [job EXCEPT !.pc = "next", !.due = DueAt(job.now),
                          !.hidden = [m \in Member |-> IF m \in DueAt(job.now)
                                                       THEN FromCsv(subs[m].excluded) ELSE {}]])

(* build_homeworks.  Without a key or a character there is nothing to      *)
(* fetch; a key that cannot be decrypted raises.                           *)
PassOver(m) ==
  /\ job.pc = "next" /\ m \in job.due /\ ~Resolved(m)
  /\ Run([job EXCEPT !.due = @ \ {m}])

Decrypt(m) ==
  /\ job.pc = "next" /\ m \in job.due /\ Resolved(m)
  /\ rows[m].key = "good"
  /\ Run([job EXCEPT !.pc = "fetch", !.due = @ \ {m}, !.who = {m},
                     !.todo = rows[m].characters, !.owed = @ \cup {m} \X rows[m].characters])

(* A NexonAPIError is the loss of one card. *)
Tried(c) == job.owed \ (job.who \X {c})

FetchBreaks(c) == [job EXCEPT !.todo = {}, !.owed = Tried(c)]
FetchFailed(c) == [job EXCEPT !.todo = @ \ {c}, !.owed = Tried(c)]

Fetch(c) ==
  /\ job.pc = "fetch" /\ c \in job.todo /\ proc.client
  /\ \/ \E data \in Answer[c] :
          Run([job EXCEPT !.todo = @ \ {c}, !.ready = @ \cup {<<c, ParseHomework(data)>>}])
     \/ Run(FetchFailed(c))

Fetched == job.pc = "fetch" /\ job.todo = {} /\ Run([job EXCEPT !.pc = "send"])

(* Nothing to show is no card; a DM that Discord refuses, or a user it     *)
(* does not find, is logged.                                               *)
Skip(r) == r \in job.ready /\ job.pc = "send" /\ \E m \in job.who :
  /\ IsEmptyFiltered(r[2], job.hidden[m])
  /\ Run([job EXCEPT !.ready = @ \ {r}, !.owed = Tried(r[1])])

SendDM(r) ==
  /\ job.pc = "send" /\ r \in job.ready /\ ~proc.closed
  /\ \E m \in job.who :
       /\ ~IsEmptyFiltered(r[2], job.hidden[m])
       /\ job' = [job EXCEPT !.ready = @ \ {r}, !.owed = Tried(r[1])]
       /\ \/ UNCHANGED cards
          \/ cards' = [cards EXCEPT ![m][r[1]] =
                          [at |-> job.now, n |-> IF @.at = job.now THEN @.n + 1 ELSE 1]]
  /\ raised' = FALSE
  /\ UNCHANGED <<clock, rows, subs, command, proc, count>>

NextSubscriber ==
  job.pc = "send" /\ job.ready = {} /\ Run([job EXCEPT !.pc = "next", !.who = {}])

Finish == job.pc = "next" /\ job.due = {} /\ Run(NoJob)

-----------------------------------------------------------------------------
(* The process *)

Proceed(p) == proc' = p /\ UNCHANGED <<clock, rows, subs, command, cards, raised, count>>

CatchUp == [NoJob EXCEPT !.pc = "start", !.now = clock]
NewScheduler == NoJob

(* setup_hook, once the bot has logged in. *)
SetupHook ==
  /\ proc.main = "wait" /\ proc.bot = "starting"
  /\ Proceed([proc EXCEPT !.bot = "running", !.scheduler = TRUE])
  /\ job' = NewScheduler

(* close: the scheduler is shut down without waiting for its jobs. *)
Closed(p) == [p EXCEPT !.closed = TRUE, !.scheduler = FALSE]

(* discord.py closes the bot before some of the exceptions it raises. *)
BotRaises ==
  /\ proc.main = "wait" /\ proc.bot \in {"starting", "running"}
  /\ \/ Proceed([proc EXCEPT !.bot = "raised"]) /\ UNCHANGED job
     \/ Proceed(Closed([proc EXCEPT !.bot = "raised"])) /\ job' = NoJob

ServerEnds ==
  /\ proc.main = "wait" /\ proc.server = "running"
  /\ \E how \in {"raised", "returned"} : Proceed([proc EXCEPT !.server = how])
  /\ UNCHANGED job

(* asyncio.wait(FIRST_EXCEPTION): a task that returns does not end it. *)
WaitEndsWithAll == proc.bot \notin {"starting", "running"} /\ proc.server # "running"
WaitEnds == proc.bot = "raised" \/ proc.server = "raised" \/ WaitEndsWithAll

Ended ==
  /\ proc.main = "wait" /\ WaitEnds
  /\ Proceed([proc EXCEPT !.main = "gather"]) /\ UNCHANGED job

Interrupted ==
  /\ proc.main = "wait"
  /\ Proceed([proc EXCEPT !.main = "gather"]) /\ UNCHANGED job

Cancelled(task) == IF task \in {"starting", "running"} THEN "cancelled" ELSE task

Gather ==
  /\ proc.main = "gather"
  /\ Proceed([proc EXCEPT !.main = "aclose", !.bot = Cancelled(@), !.server = Cancelled(@)])
  /\ UNCHANGED job

CloseClient ==
  /\ proc.main = "aclose"
  /\ Proceed([proc EXCEPT !.main = "close", !.client = FALSE]) /\ UNCHANGED job

CloseBot ==
  /\ proc.main = "close"
  /\ Proceed(Closed([proc EXCEPT !.main = "dispose"])) /\ job' = NoJob

Gone == [proc EXCEPT !.main = "exited", !.scheduler = FALSE]
Die ==
  /\ proc' = Gone /\ job' = NoJob /\ command' = [k \in Call |-> NoCommand]
  /\ UNCHANGED <<clock, rows, subs, cards, raised, count>>

Dispose == proc.main = "dispose" /\ Die
Crash == proc.main # "exited" /\ count.restarts < MaxRestarts /\ Die

Restart ==
  /\ proc.main = "exited" /\ count.restarts < MaxRestarts
  /\ proc' = Started
  /\ count' = [count EXCEPT !.restarts = @ + 1]
  /\ UNCHANGED <<clock, rows, subs, command, job, cards, raised>>

-----------------------------------------------------------------------------
Commands ==
  \/ \E k \in Call : ReminderOn(k) \/ ReadStored(k) \/ SetSubscription(k)
  \/ \E m \in Member :
       ReminderOff(m) \/ RemoveKey(m) \/ \E c \in Character : DeleteCharacter(m, c)

JobStep ==
  \/ ReadSubscriptions \/ Fetched \/ NextSubscriber \/ Finish \/ Raises
  \/ \E m \in Member : PassOver(m) \/ Decrypt(m)
  \/ \E c \in Character : Fetch(c)
  \/ \E r \in job.ready : Skip(r) \/ SendDM(r)

Shutdown == Ended \/ Gather \/ CloseClient \/ CloseBot \/ Dispose

ProcessStep ==
  SetupHook \/ BotRaises \/ ServerEnds \/ Interrupted \/ Shutdown \/ Crash \/ Restart

Next == FullHour \/ Commands \/ JobStep \/ ProcessStep

Spec == Init /\ [][Next]_vars

(* Every cancelled task comes back (the calls of the job do: NexonClient); *)
(* nothing makes time pass, members write or a job go on.                  *)
FairSpec == Spec /\ WF_vars(Shutdown)

-----------------------------------------------------------------------------
(* A character gets at most one card an hour, whatever is interrupted and  *)
(* started again and however long a job lasts.                             *)
OneCardAnHour == \A m \in Member, c \in Character : cards[m][c].n <= 1

(* However the commands of a member overlap with what drops its            *)
(* subscription, no stored filter hides everything (is_all_excluded).      *)
NeverAllHidden == \A m \in Member : ~IsAllExcluded(FromCsv(subs[m].excluded))

(* "한 캐릭터/구독 실패가 다음을 막지 않는다" (broadcast.py), of the failures the   *)
(* code catches: while the process is up, a job that does not raise is     *)
(* over only when no subscriber is left and every character of each had a  *)
(* try of its own, was fetched or refused, and got a DM or had nothing to  *)
(* show.  Any other failure, an unreadable key or an error of the database *)
(* or of a send, ends the job for those after it as well.                  *)
JobOver == job.pc # "idle" /\ job'.pc = "idle" /\ proc'.main = "wait" /\ ~proc'.closed
NobodyHeldUp == [][JobOver => raised' \/ (job.due = {} /\ job.owed = {})]_vars

(* The headline and the sections of a card are computed apart: whatever is *)
(* hidden, the one counts what the others show, and no card is sent only   *)
(* when it would have no section.                                          *)
HeadlineHonest == \A r \in job.ready, m \in job.who : Honest(r[2], job.hidden[m])

(* The canvas is made from an estimate before anything is drawn, and drawn *)
(* on without a check ("항상 실제보다 넉넉하게"): no card outgrows it.           *)
CardFits == \A r \in job.ready, m \in job.who : Fits(r[2], job.hidden[m])

(* When the bot or the server fails, the other does not stay behind: the   *)
(* process exits.                                                          *)
FailureEndsAll ==
  proc.bot = "raised" \/ proc.server = "raised" ~> proc.main = "exited"
=============================================================================
