# A formal model of maple-mate

maple-mate is a Discord bot for the players of MapleStory: members register
their characters and a personal Nexon API key, compare characters, look at
their star force and potential histories, and are told of notices, of the
weekly Sunday event, of the experience ranking and of their own unfinished
tasks. This directory holds TLA+ models of the parts of it in which the order
of events matters, the TLC configurations that check them, and the theorems
about them that TLAPS has checked.

Paths are relative to the repository; `service.py:174` is a line.

## 1. The system

One process runs one asyncio event loop: the Discord client, a FastAPI health
server and an APScheduler with its jobs. A command, a button press or a job is
a coroutine; between two `await`s it runs alone, at an `await` any other may
run. The state that lasts is in Postgres, at the default isolation level, READ
COMMITTED: a statement sees what is committed when it runs, locks the rows it
writes until its transaction ends, and locks nothing if it finds no row. No
handler takes a lock on a row it only reads.

| Part | State it keeps | Operations | Talks to |
|---|---|---|---|
| registration (`registration/service.py`) | `registration`, `character` rows of a member of a guild | register, import, delete, representative, key, ocid refresh | Nexon (names, ocids), scheduler subscription, history cache |
| registration hub (`registration/commands.py`) | the views' busy flag, pending selection, page | list, delete, import, key screens | registration |
| comparison (`bot/comparison.py`, `character/`, `union/`, `mychar/`) | the combat powers of past days | choose the people, `fetch_each`, one row or one failure for each | registration, Nexon |
| comparison tabs (`bot/comparison_tabs.py`) | open tab, busy flag, last interaction | send, switch, time out | comparison, Discord |
| history (`history/`) | `history_cache` rows of an account, `learned_equipment_level` | fetch a period, store, prune, erase, aggregate, learn levels | Nexon with the personal key, error log |
| notice alert (`notification/`) | `notice_state` markers, channel and DM switches | poll every half hour, announce, mark | Nexon, Discord |
| Sunday alert (`notification/`) | the week marker, the schedule in memory | Friday job, manual broadcast | Nexon, Discord |
| leaderboard (`leaderboard/`) | `exp_snapshot` rows | fetch a day, fill gaps, rank, prune, daily broadcast | Nexon, registration |
| reminder (`scheduler/`, `bot/scheduler_card.py`) | `scheduler_subscription` rows | hourly job, on, off, excluded categories, the card | Nexon, registration, Discord |
| Nexon client (`nexon/client.py`) | a throttle bucket for each key, two caches | request with throttle and retries | every part above |
| error log (`error_log/`) | `error_log` rows | append, summarise, prune | daily job |
| lifecycle (`main.py`, `bot/core.py`) | the two tasks of the loop | start, stop | all |
| calculators, parsing, drawing | none | pure functions | - |

What is hard in it:

* **check, await, write.** A handler tests rows it read in one session and
  writes in a later one or a later statement; nothing keeps another handler of
  the same member out in between (a member may have a command and two open
  views at the same time).
* **several statements, one commit.** A deletion, the removal of a key and a
  refresh write two or three tables. An UPDATE or DELETE that matches no row
  locks nothing, so others commit between it and the end of the transaction.
* **identifiers that change.** Nexon may issue another ocid for a character.
  Rows, the representative pointer and targets read earlier hold the old one.
* **send, then mark.** Both alert jobs send to everybody and write their marker
  last; they may stop anywhere in between, and both have more than one writer
  of what they read.
* **a day that is not over.** A history row of today is an intermediate state;
  the same row is read as final tomorrow.
* **one interval for each key.** Any number of coroutines wait for the throttle
  of one key, sleep while they hold its lock, and retry.
* **a schedule in memory.** What is missed while the process is down is not
  fired later, and what is at work when it goes down is cut off.
* **an edit that may not arrive.** A view and the message it is shown in are
  two states; an edit may fail, or be carried out and still raise, and the token
  it needs expires.
* **two computations of one thing.** The headline of a card and its sections,
  its estimated height and the drawn one, the people of each tab: computed by
  functions that must agree for every input.

## 2. The modules

| Module | Models | Composes |
|---|---|---|
| `Registration` | the rows of a member and all handlers that write them | - |
| `Comparison` | `fetch_each` with the refresh of a stale ocid | extends `Registration` |
| `CharacterData` | operators: who is compared, what is shown of each | - |
| `ComparisonTabs` | a comparison from the call to the end of its tabs | extends `CharacterData` |
| `Announcements` | what the notice alert promises, abstractly | - |
| `NoticePoll` | `run_notice_job` | refines `Announcements` |
| `Sunday` | `run_sunday_job` and `manual_broadcast_sunday` | - |
| `HistoryCache` | the day cache of one account, both kinds of history | - |
| `HistoryFigures` | operators: climbs, costs, cubes, grade rises | - |
| `HistoryCommand` | `/스타포스` and `/잠재`, the error log and its summary | extends `HistoryFigures` |
| `NexonClient` | the throttle and the retry loop of `_request` | - |
| `Leaderboard` | the daily job and the commands of the experience ranking, and the pruning | - |
| `ManageHub` | the view of the character list, the view of the account sync | - |
| `Homework` | operators: the scheduler's answer, filters, the card and its height | - |
| `ReminderJob` | the hourly job, its commands, the process it runs in | extends `Homework` |
| `<M>Proofs` | theorems about `M` (`BroadcastProofs`: `Sunday` and `Leaderboard`; `HistoryProofs`: `HistoryCache` and `HistoryCommand`; `ReminderProofs`: `ReminderJob` and `Homework`) | extends `M` |
| `MC<M>` | values of the constants for TLC | extends `M` |

**Registration.** A member is a (guild, user) pair. `character`,
`representative`, `apiKey`, `subscription` and `historyCache` are the tables;
`life` is what Nexon answers for an ocid. `session[s]` is a handler with its
database session open: what it saw (`want`, `to`, `key`), the tables its
transaction has still to write (`todo`) and the rows it has locked
(`characters`, `locked`, `dates`). A handler opens with a `...Read`. If its
transaction writes one table (registration, import, representative, reminder,
key, history), the write and its commit are one step, taken when nobody else
holds the row. If it writes several (deletion, removal of the key, refresh),
each statement is a step (`HistoryStatement`, `CharacterStatement`,
`RegistrationStatement`, `SubscriptionStatement`, in the order of the code),
which finds the committed rows it matches and locks just those; the `...Commit`
then applies the statements to the locked rows. Any number of steps of other
handlers come between. `Rollback` ends a session anywhere without a trace: the
connection is lost, the task is cancelled, or PostgreSQL has chosen it to break
a deadlock (two transactions that wait for each other's rows stay so in the
model until one of them is rolled back). A statement finds and locks its rows
in one step: a statement that waits for a row and finds it changed when it gets
it evaluates its condition anew in PostgreSQL too. The insert of a registration
row that is there already changes nothing and is left out; an absent row reads
as one with two NULLs.

Two ghosts. `forgotten` are the accounts whose last holder removed the key.
`crossed` has, for each of the four promises that the code states without
condition, the members (or accounts) for which two handlers it does not
survive were open together when one of them wrote; `CapCrossed` and the three
definitions after it say which pairs these are, and about which characters. All
other handlers may interleave as they like. `Reissue` is Nexon's.

**Comparison.** A command walks through its targets (`at`, `ocid`), meets a
stale ocid, resolves its name again (`ResolveFails`, `ResolveSame`,
`ResolveMoved`), and moves the rows by the refresh of `Registration`, statement
by statement in its own session (`RefreshWrites`, `RefreshDone`), where it may
wait for rows others have locked; then it asks once more. The update to a
primary key that exists already raises, and nothing catches it
(`RefreshAborts`); nor is an error of the database caught (`RefreshLost`).

**NoticePoll.** `job` is the running job: the recipients it read, the
categories to do, the page, and what is still to be sent to each recipient.
Recipients are served one at a time and in batches of `EMBEDS_PER_MESSAGE`; a
failing send ends that recipient's turn. `Page` is what Nexon serves, and it
may lag. `Interrupt` is a crash or an exception nobody catches.
`Announcements` says the same without pages, batches, jobs and recipients' lists:
above a marker that only moves forward each recipient is served in order,
`Serve` with or without a delivery, `Advance` moves the marker past everything
served, `Restart` forgets what was served above it. The mapping (`Promise`) is
`served <- Progress`, the notices of the page under way that are not left to
send, and `restarts <- interrupts`; `Implements == Promise!Spec`. A step that
starts a job, fetches a page or passes a recipient is a stutter.

**Sunday.** `week`, `day` are the clock; `due` is the next firing, which `Boot`
computes anew (`NextFire`) since APScheduler keeps the jobs in memory. `auto`
and `manual[q]` are the two jobs. Only `discord.HTTPException` is survived by a
send (`AutoSendFails`, `ManualSendFails`); anything else ends the job where it is
(`AutoRaises`, `ManualRaises`). Monday may come at any point of a manual
broadcast: its sends belong to the week they are made in, the week it marks is
the one in which they end (`ManualSent`), and the mark may come later still.
`carried` is a ghost: the weeks that found a broadcast on its way that had
reached somebody.

**HistoryCache.** A record is the moment it was made at; a date is a set of
moments. A query looks a date up, fetches it, and stores it with the moment the
*query started*, which is what the code stamps. Rows are pruned and erased at
any time.

**NexonClient.** `lock[k]` is the FIFO queue of the `asyncio.Lock` of a bucket
with its holder at the head; `wait[k]` is what is left until `next_allowed`;
`timer` what is left of a sleep. `Tick` lets time pass, also while a coroutine
is ready: the loop may resume it late.

**Leaderboard.** `snapshot[o]` is the set of days character `o` has a row of;
`build[b]` is the job or a command on its way through `backfill`, the job's
refresh of yesterday, the choice of the reference date (`Gate`), the ranking
(`Rank`), the filling of the sampled days and the graph (`Show`). Every call
may fail. Midnight, the pruning and the other builds come in between any two
awaits. The characters of a build are read from `Registration`'s rows twice;
here they are any set at each reading. One guild is modelled, so the job's two
readings of the clock, its own and that of `backfill`, are one. The levels only
choose who is best: any choice of `TOP_N` is possible. `full` is a ghost: the
last reference date a character had a graph without a gap for.

**ManageHub.** `view` is what the object of the view holds: the screen it drew
last (`mode`), `_pending`, `picked`, the page, and the rows as it read them
(`known`). `screen` is the message: the clicks it offers, which are older than
the view when what was sent last did not arrive. `clicks` are on their way to
the bot. A click is answered (`Cancel`, `Open`, `PickDelete`, ...) whether or not
the view still shows its component: `Show` redraws the view and, unless an
action is at work, the message; `Act` starts the action at work, `act`, which
goes on through `Respond`, `Work`, `Reload`, `Redraw`, any of which may fail. The
rows are those of `Registration`, reduced to the set of ocids and the key;
`Elsewhere` stands for its other handlers. The representative is not a part of
the rows here. `spent` is a ghost: the pick for deletion was acted upon.

**CharacterData and ComparisonTabs.** `CharacterData` has the main character of
a member, the targets of a call (named by member, by nickname, or all), the
figures fetched for each (the weekly combat power with its fallback to the day
before, the union) and the rows of the three tables. `Arranged` is Python's `sorted`:
the entry at place n is the one that n entries are not after, by key and then by
where they stood; `Entries` is the same without a key, a comprehension with a
condition, and `FirstPlaces` takes the places nothing equal precedes. `call` walks through the
handler: resolve, choose, build, send; `view` is the object of the tabs, `message`
what Discord shows, `clicks` the interactions, each a coroutine of its own. A
click is `Press`, `Arrive` (dropped if the view is busy), `Respond`, `Build`, `Edit`,
and `Restore` if one of these raised. An edit may fail, be carried out and raise
nevertheless, or find its token expired. `TimeOut` and `Clear` are `on_timeout`, which
any of them may overlap. `fault` is a ghost: Discord hid what it did, or failed the
edit that puts it right, and nothing the code could do would help.

**HistoryFigures and HistoryCommand.** `HistoryFigures` parses attempts and rolls,
groups them into climbs, and counts and prices them in exact fractions;
`ExpectedMeso` is the recurrence of `history/expected_cost.py`, and `Balanced` the
equations its result has to solve, stated separately. `calls` are the commands:
`Ask` reads who is named or who is there, `TakeTarget` takes one member after the other,
`FetchStarforce`, `FetchPotential` and `PageFails` are the fetch, `Aggregate` and
`Report` learn levels and log what no level is known of, `Answer` sends. The members
named are a sequence, the options of the call, in which one may be named twice;
`missing` has a row for each option. Beside
them the log is filled by others, and `OpsJob` reads yesterday's, sends, prunes.

**Homework and ReminderJob.** `Homework` is `scheduler/service.py` from the answer to
the counts, `category_filter.py`, and `bot/scheduler_card.py` as far as sections and
pixels go. `ReminderJob` is the hourly job (`ReadSubscriptions`, `PassOver` or
`Decrypt` for each member, `Fetch` for each character, `Skip` or `SendDM` for each
card), beside `/스케줄러알림` in its three statements (`ReminderOn`, `ReadStored`,
`SetSubscription`), what drops a subscription, and the process: `main.serve` with its
two tasks (`Ended` is `asyncio.wait`), the closing of client and bot in order, a
crash at any moment, a restart. The scheduler is the bot's, so a job exists only
between `SetupHook` and `Closed`. A step of the job may raise: the code catches a
`NexonAPIError` of a call (`FetchFailed`) and a `discord.HTTPException` of a send
(`SendDM`), and everything else ends the job (`Raises`). `cards`, `raised` and the
`owed` of a job (who of its members' characters had no try of its own yet) are
ghosts.

## 3. The runs

`tlc -config X.cfg MCX` for each. Sizes are distinct states.

| Run | Checks | States |
|---|---|---|
| `Registration` | cap, representative, subscription, removed key, refresh | 575 thousand |
| `Comparison` | every comparison ends | 38 thousand |
| `ComparisonPartial` | *violated:* every target gets an answer | - |
| `ComparisonTabs` | the message shows the tab the view is at, buttons go with the view, the same people in every tab, a click never blocks the view for good | 270 thousand |
| `NoticePoll` | silent baseline, no duplicates, marked after sent, refines `Announcements`, catching up | 112 thousand |
| `Sunday` | one automatic announcement a week, honest marks, the operator goes first | 2.0 million |
| `HistoryCache` | honest rows, current answers | 1.9 million |
| `HistoryCommand` | everyone named is answered, nobody in two ways, every error is summarised once, the expected cost is fair | 500 thousand |
| `NexonClient` | spacing, no long sleep, every call ends | 82 thousand |
| `Leaderboard` | gaps filled, at most one call in vain, nothing filled twice, one day for all | 2.8 million |
| `ManageHub` | picks that fit, one deletion for each pick, the view comes back | 570 thousand |
| `ReminderJob` | one card an hour, something shown, honest headline, card within its canvas, nobody held up by a failure that is caught, a failure ends the process | 350 thousand |

What a run says of a component is said where its properties are defined. Type
invariants are proved (section 4) rather than run.

Bounds, and why they are enough:

* `Registration`: one member, two handlers in flight, a cap of two, three ocids
  of which two are one character before and after its reissue, one key, one
  date. All rows are keyed by the member and each promise is broken by two
  handlers. The cap of 2 with two names lets a registration, an import and a
  refresh meet at the cap. A behaviour is followed until handlers have crossed
  on the account of two promises (`OnePromiseCrossed`): what is excepted from
  one promise is still checked against the other three. A third handler, a
  second date, and a key held by two members are left to the theorems, which
  cover any number of each.
* `Comparison`: one character with two ocids, a member and a guest: the targets
  of both ocids and the guest, next to one handler of the member, which can
  hold any row the refresh needs.
* `NoticePoll`: a page of 2 and four notices, so that a backlog can be longer
  than a page; batches of 1, so that a page is two messages; two recipients;
  one interrupted job. The categories share nothing but the recipients' list.
* `Sunday`: two weeks, so that a mark of one may hit the other; two channels
  and a subscriber, so that a job can stop after some of each; two manual
  broadcasts.
* `HistoryCache`: days of three moments and a TTL of 2, so that a row can be
  younger, exactly as old, and older than the TTL within its day, and a query
  can start on one day and store on the next; two queries that overlap.
* `NexonClient`: three coroutines, so that one waits behind one that sleeps;
  keys with intervals 3 and 2; one retry. Time is made of countdowns, so
  nothing grows and no bound on time is needed.
* `Leaderboard`: two days and two characters, the job and one command. A window
  of 2, a period of 4 with a step of 2 and a retention of 4: the graph of a
  reference date has two sampled days beside it, the first of which the pruning
  takes on the second day, and the reference date can be yesterday or, when
  Nexon is late, the day before. With one place in the ranking a character can
  be ranked and not filled.
* `ManageHub`: three characters, two of the account on a page each and one the
  account does not have, and a cap of two, so that the picks of two pages
  compete for the room left. One click under way: a second click is pressed
  while the first is being answered, and handled while the action is at work or
  after it. Other handlers register and delete one character (`Contested`).

* `ComparisonTabs`: nine commands over tables of three and four members, so that
  the spec tab (two) leaves somebody out and a wide tab (three) does too; an author
  late in the table, unregistered, pinned, or the owner of all rows; nicknames of
  a registered, a guest and an unknown character. Two clicks, the second of
  which comes while the first is at work or after it. A timeout of two units
  and tokens of four keep the order of the real limits (ten and fifteen
  minutes): a fetch longer than their difference outlives the token. The
  constants are assumed to be like that, the token longer than the timeout and
  at most twice as long. With a token longer still `TimeoutClears` fails: a fetch
  shorter than the difference could then outlast the view, and its edit would
  put the buttons back.
* `HistoryCommand`: two commands, three members named with and without a key,
  one who left and one whose key is unreadable; five items, known to the set
  table, the seed, the equipment, or nobody; four stars of which two may
  destroy, a climb that falls back once and one under an event. Three half
  days: a summary, a midnight on either side of it, and a retention of one. Calls name nobody, one member, or five options of
  which two name one member and two the member who left.
* `ReminderJob`: two hours a day of which one is due, so that a job can overrun
  the hour and the next can be due after a change; two characters, of which one
  has nothing to show beside what is hidden; a second member whose key cannot be
  read, due before or after the first; two calls of the command at a time and
  one restart, which is enough to fire twice in an hour were it possible. The
  card is as large as its estimate is small: each section is there with few
  rows. The theorems cover any lists and any filter.

### Fairness

* `Comparison`: strong fairness of `FetchEach(c)`, weak fairness of the statements
  and the commit of every other handler. A ready coroutine is resumed, a
  request to Nexon has a timeout (httpx), and a transaction that is under way
  goes on to its end, which releases its rows. The strong fairness is about
  those rows: other handlers may take them again and again while the refresh
  waits, so that it is not enabled all the time, but PostgreSQL serves who waits
  for a row in the order they came, so it gets its turn. Nobody has to start a
  handler, and neither `Rollback` nor `RefreshLost` is fair.
* `NexonClient`: weak fairness of `Tick` and of each coroutine's `Step`, for
  the same reason. `Request` is not fair: nobody has to call.
* `NoticePoll`: weak fairness of `JobStep` (the scheduler fires every half hour,
  a started job goes on) and strong fairness of `FetchNewest`: the fetch may
  fail or lag again and again, but not for ever. Without that last assumption
  the code promises nothing. `Interrupt` is bounded by `MaxInterrupts`.
* `ManageHub`: weak fairness of the steps of the action at work: every `await` in
  it has a timeout. No click is fair.
* `ComparisonTabs`: weak fairness of each click at work, `Switch(k)`: what is
  fetched comes back (`NexonClient`) and Discord answers, with a failure too.
  Nobody has to click.
* `ReminderJob`: weak fairness of `Shutdown`, the steps of `serve` from the end of
  `asyncio.wait` to the disposal of the engine: a cancelled task comes back.
  Neither time, nor members, nor the job are fair.
* `Registration`, `Sunday`, `HistoryCache`, `HistoryCommand` and `Leaderboard` are
  checked for safety alone.

### Where code and documents disagree

* `ComparisonPartial`: if the member has the new ocid registered already, the
  refresh raises and no target is answered (`registration/service.py:1073`
  promises partial success).

More were met and are not runs; the properties say what holds instead.

* Two handlers count the rows before either inserts, and exceed the cap together,
  though `registration/service.py:619` says that it is counted again right
  before the commit; so do the registration of a character under its new ocid
  and the refresh of the same. `CapKept` excepts these.
* "대표로 지정된 캐릭터를 지우면 대표 포인터를 NULL" (deleting the representative
  sets the pointer to NULL, `registration/service.py:369`): the UPDATE of the
  pointer finds nothing to change or to lock when the character is pinned only
  after it, or after the row was read, and the pointer stays. The same holds
  of `refresh_ocid`, and of two refreshes in a chain. `RepresentativeOwned` excepts
  a pin of the very character, and that chain.
* A deletion of the last character clears the subscription
  (`registration/service.py:370`), and so does the removal of the key
  (`registration/service.py:441`). `/스케줄러알림` tests both in one transaction and
  subscribes in another, and the DELETE finds nothing when the subscription is
  not committed yet; two deletions that each leave what the other takes both
  keep it. `SubscriptionAlive` excepts these overlaps.
* "키를 지우면 그 계정 기록도 사라진다" (`registration/service.py:439`): a history
  query in flight stores rows of the account after the erasure, between its
  DELETE and the commit or later. `RemovedKeyForgotten` excepts the account. A key
  that is registered while the removal of the former one is under way is lost
  with it, though its history was not asked to go.
* A day stored while it was today is served for ever once it is past, without
  what was done after the fetch, though `history/cache.py:23` calls past dates
  immutable. `AnswerCurrent` is of the day of the query only.
* "한 캐릭터/구독 실패가 다음을 막지 않는다" (one failure does not stop the next,
  `scheduler/broadcast.py:94`): only a `NexonAPIError` (`scheduler/broadcast.py:77`)
  and a `discord.HTTPException` (`bot/dm.py:24`, `bot/dm.py:37`) are caught. A key
  that cannot be decrypted (`scheduler/broadcast.py:70`), a lost database, an error
  in rendering, a broken connection or a timeout of a send raise out of the
  hourly job, and everybody after gets no reminder. `NobodyHeldUp` is of jobs that
  do not raise. In a history command an unreadable key ends the whole command;
  `EveryoneAnsweredOnce` is of commands that answer.
* The options of a history command are not freed of duplicates
  (`history/commands.py:443`, `history/potential_commands.py:407`): an unregistered
  member named twice gets two rows (`history/commands.py:308`), a registered one
  gets one. `EveryoneAnsweredOnce` says so.
* The comment at `main.py:67` says that when either task ends both are ended;
  `asyncio.wait` with `FIRST_EXCEPTION` goes on when one merely returns.
  `FailureEndsAll` is of tasks that raise.
* `resolve_period` documents a limit of 30 days (`history/service.py:88`);
  `MAX_PERIOD_DAYS` is 365.
* A member whose climbs are all of items nobody knows the level of is told that
  there is no record of ten stars or more (`history/commands.py:174`), which
  need not be so.
* When the edit that puts a failed switch right fails as well, the message keeps
  disabled buttons until the timeout (`bot/comparison_tabs.py:154`); when a fetch
  takes longer than five minutes, the token of the last click may expire before
  the view does. `ShownIsCurrent` and `TimeoutClears` except both.
* `fanout_note` says that the author is among those shown when nobody is named;
  an unregistered author is not, which only the other note says.
* A bot that was down on Friday at 10:10 and comes back the same day does not
  catch up, though `notification/scheduler.py:40` says so: the jobs are kept in
  memory and `start_scheduler` computes the next firing anew (`NextFire`).
* A click for the next page that is handled after the last candidate was
  imported sets the page to -1 (`registration/commands.py:663`): `PageItems` is
  empty from then on, and candidates of a later reading are announced
  (`registration/commands.py:629`) and never offered.
* `run_sunday_job` reads the marker once (`notification/scheduler.py:186`), long
  before it sends; a manual broadcast that completes in between does not stop
  it, though `CONTEXT.md:125` says that it would. `OperatorFirst` is what holds.
* "실제 전달 0이면 그 주는 미처리로 남겨 금요일 자동발송을 살린다" (a week nobody was
  reached in stays unmarked, `notification/scheduler.py:163`):
  `manual_broadcast_sunday` takes the week after it has sent
  (`notification/scheduler.py:171`), so one that lasts past midnight of Monday may
  mark the new week, in which it reached nobody, and silence its Friday; and one
  whose mark comes late may overwrite the mark of the new week, after which the
  automatic job sends again what the operator had announced. `MarkedWeekServed` and
  `OperatorFirst` name both cases.
* `/경험치` does not fetch yesterday anew, as the comment in
  `leaderboard/commands.py:82` says: `ensure_guild_data` fills missing days only.

## 4. The theorems

All are proved for every value of the constants that satisfies the module's
`ASSUME`: any number of members, ocids, handlers, recipients, notices, weeks,
coroutines, keys, clicks.

* `RegistrationProofs`. The properties are not inductive: that a commit keeps a
  promise depends on what its handler saw, on which of its statements have run,
  and on the rows they found. `Inv` is `TypeOK` and three parts. `Exclusive`: no two
  transactions hold the same row. `Promises` says of every member the three
  promises about its rows (`Whole`), and of every open session what carries them
  over its commit, as long as nobody crossed it: `Shape` (a locked row is still
  there, a refresh that has taken its row has taken the new ocid too), `Roomy` (a
  registration or import still fits), `Pointing` (once the pointer's statement has
  run, a pointer to what the transaction takes is locked by it), and `Spared` and
  `Reminding` (the subscription is still to be cleared, is locked, is not there,
  or a character stays). `Forgetting` is about accounts: a removal past its first
  statement has locked every row of its account there is (`Erasing`), and a
  forgotten account has no rows and no query under way (`Clean`). Each statement
  is shown to keep them although it may find nothing, and each commit of another
  handler to leave them alone or to cross. From `Inv`: `TypeCorrect`, `CapHolds`,
  `PointerOwned`, `NobodyReminded`, `HistoryErased`, and `RefreshRenames` for the
  steps.
* `NoticePollProofs`. `Announcing` says what a job in its sending stage still has
  to send; `Counted`, `Based` and `Sent` tie each recipient's count to the
  marker, the baseline and the rest of the page. From them: `TypeCorrect`,
  `AtMostOncePerInterrupt`, `BaselineIsSilent`, `MarkerMonotone`, `NothingLost`.
  `Refinement` is `Spec => Implements`. Its one addition is `Ordered`: what is left
  for a recipient is newer than what it was sent of the page, because a batch is
  the oldest of what is left (`BatchComesFirst`). `PromiseStep` then maps each
  action: `SendBatch` is a `Deliver`, `SendFails` the `GiveUp` of what was left, `Mark`
  an `Advance` if it moves the marker, `Interrupt` a `Restart`; all others stutter.
* `HistoryProofs`, the cache. `Honest(q)`: the page of a query that is about to
  store covers everything made before the query started, and so does the answer
  so far for the dates done. With it `RowsAreHonest` and `AnswersAreCurrent`
  follow.
* `HistoryProofs`, the commands. `BookInv` has two parts. `Accounted(r)`, of each
  command: whoever it is about is in one place, still to do, asked for, answered,
  failed, without a key or missing, and in no other; results and failures are
  as many as the members they are of, so nobody has two. A step takes a member
  from one place and puts it into one other, and the cardinalities move with it
  (`EveryoneAnsweredOnce` is what is left when there is nothing to do). `Told`: the
  day of a summary that was sent has begun, and what is logged from then on is
  counted by a later one: a row written now belongs to no summary sent, and the
  rows the job read are all of its day that are stored. From them `HistoryTypeCorrect`,
  `AnsweredExactlyOnce` and `ToldExactlyOnce`.
* `HistoryProofs`, the figures. `ExpectationIsFair` (`ExpectationFair`) is about what
  `expected_meso` computes. Three recursions are in it, and none is taken on trust.
  `gcd` exists because the greatest common divisors solve its equation
  (`GreatestStep`, `GcdExists`); that it divides both numbers and carries a common
  factor along (`GcdDivides`, `GcdScaled`) is by the least number that would fail,
  and makes equal fractions the same pair (`SameFraction`), so that the operators on
  fractions compute (`Sum`, `Multiplied`, `Repeated`, `Divided`). The coefficients
  of a climb exist (`Settles`), and from the last star down they are fractions, the
  share of x below one (`CoefficientsSound`): that is why the code may divide by
  1 - b, and x is a fixed point (`FixedPoint`). `MeanIs` removes the case
  distinction of the code: with or without a star that destroys, the average is
  a + b x with one x. One step of the recurrence is then one equation
  (`OneAttempt`), a polynomial identity. `FigureInv` adds to `BookInv` what the
  commands need for it: the levels they learn and the pages they read are such
  that every climb is to a star there is, at known prices. It assumes of the table
  that an attempt may succeed at every star, that its rows sum up, and that nothing
  is destroyed below the star a fall leads to; of Nexon that no record is of a star
  above the last.
* `NexonClientProofs`. `Spaced`: `wait[k] + since[k]` never falls short of the
  interval, and a sleeper's timer is at least what is left of it while it holds
  the lock. From it `OwnIntervalOnly` and `SpacingHolds`.
* `BroadcastProofs`, the Sunday alert. `Schedule`: the job of a week that is still to fire, or has not
  sent yet, has sent nothing, and `due` is a later week once it fired; with it
  `AtMostOneAutomatic`. `Shared`: a mark about to be made, by either job, is of
  a week that has begun and that was served, or that a broadcast was carried
  into. `MarksAreHonest` follows; for `OperatorGoesFirst` a week marked by hand is
  the marker's as long as no mark of another week has come after.
* `BroadcastProofs`, the ranking. `Stopped(b)`: a character that was asked for in vain is
  done for this filling. `Asked(b)`: every day of the window of a character that
  is done was seen to, and of the one under way what is not left to ask. `Kept`:
  the days of the last graph without a gap are there until they leave the
  retention period. From them `TypeCorrect`, `OneVain`, `GapsAsked`,
  `ShownTogether`; with `SamplesAgree`, that two reference dates sample the same
  days of the period they share, `NothingAskedTwice`.
* `ManageHubProofs`. `Fit(v)`: the picks of the view `v` fit what it knows, and a
  hub has none; it needs that no click for an import reaches a hub
  (`OfferedTo`), since a hub whose reading failed halfway knows new rows and
  keeps its old picks. The room of a page is not negative because the old picks
  fitted. From it `TypeCorrect`, `PicksFit`; with `view.pending # {} => ~spent`,
  `DeletedOnce`.
* `ReminderProofs`. `Inv` is `TypeOK` and six parts. `Unsent`: whoever the job has
  not come to, and every card it holds, was not sent in the hour of the job;
  with `Once` it carries `OneCardAnHour` over an hour in which a job goes on, and
  over a restart because no job starts in it. `Stages`: what a job holds in each
  stage. `Alive`: no job without a scheduler, and an open client while `serve`
  waits. `Owing`: a character is owed a try of its own only while it is in what the
  job has still to fetch or to send, so nothing is owed when it has come to its
  end, which is `NobodyHeldUp`. `Merged`: what a call is about to
  store does not hide everything, and `RoundTrip` (`FromCsv` inverts `ToCsv`) that
  neither does what is read back. The two theorems about cards need no
  invariant beyond the types: `CardsAreHonest` splits each list by category
  and adds cardinalities up, `CardsFit` bounds each section by its share of the
  estimate, for lists of any length and any filter; `Parsed` shows that what is
  read from an answer is of the type they are about.

* `ComparisonTabsProofs`. For the view it does not matter who is shown. `OneAtWork`:
  the view is busy exactly while one click is at work, the last that came. `Aged` and
  `Outlived` are about time: how old the token of each click can be, given how long
  it took; that the deadline is never passed by a click at work unless its fetch
  took too long; and that what the token of the last click has left is more than
  what the view has. `Restorable`: at each stage of a click the message shows
  what the view can go back to. From `TabsInv` follow `TypeCorrect`, `TabShown`
  (`ShownIsCurrent`) and `ButtonsCleared` (`TimeoutClears`).
  `EverybodyShown` (`SamePeople`) is about the lists themselves. `PeopleInv` says of
  the targets of a call that they are a list without repetitions, at most
  `SpecCap` when the command is that of the spec tab, and that who is named is a
  target or missing (`Chosen`); and of every page on its way, built by the command,
  under a click, or shown, that it `Accounts` for them. It is not enough to say so of the
  message: a click builds its page from `call.targets` long before the edit, and
  another may be shown meanwhile. What the two steps need is worked out from the
  lists up: `Placed` (the places of a sort are numbered from one on), `Arranging`
  (a sort has the same entries, a lowest key first), `EachOnce`, `Joined`, `FirstFew`;
  `GotTargets`, `Mixed`, `Drawn` and `Mine` (each way to choose people chooses nobody
  twice); `TabFits` (each of the three tabs has a row or a failure for each target,
  whatever was answered), `FewShown` (the cut of the spec tab keeps the author).
  Where an induction over the length of a list would be due, the least natural
  number of a set (`LeastNatural`) and counting stand for it: a sort is
  defined by places, not by a fold. Of the constants it assumes, beyond their
  types, that a table has no two rows of one member and ocid, which is the primary
  key of `character`, and that `/내캐릭터` and a command with names are never about more
  than the spec tab shows (5 each).

Checked by TLC only:

* liveness (`CaughtUp`, `EveryCallEnds`, `ComparisonEnds`, `BusyEnds` of the hub and
  of the tabs, `FailureEndsAll`), which is out of the prover's reach;
* `EveryTargetAnswered` (run `ComparisonPartial`), which does not hold.

Every other property of a run has a theorem.

## 5. What is not modelled

* The luck percentile of a climb (`history/service.py`): 5000 random climbs, whose
  outcome is a distribution. The calculator of `bitik/`, whose commands are not
  registered with the command tree.
* The parsing of abilities, symbols, cores and item options into cells of a
  table, texts, embeds and images, the height of the scheduler card apart.
* The challengers' realm of the comparisons: `CHALLENGERS_ENABLED` is false.
* The character-data cache of `NexonClient` and its image cache: they save calls,
  and an entry is dropped by age alone. `CharacterData` has the combat powers
  of past days, which are kept without a limit; that memory is not bounded is
  not a property of the model.
* `/스케줄러` itself, one call on its own: what it shows is `Homework`'s.
* discord.py, httpx, SQLAlchemy and APScheduler, of which only what the code
  relies on appears as external actions.
* The clock is in step with the code: no change of time zone, no clock set back.
* The order in which two tables are read by one job (channels, then
  subscribers): a change between the reads is one before or after both.
* Notices that leave the page between two polls, and a page index of -1 in the
  account sync: the code has both, claims nothing against them, and no property
  is stated of them.

## 6. The plan

Done: the reminder with its process, the tabs, the history commands, the pure
operators of the homework, the comparisons and the histories, and the promise
that `NoticePoll` implements. Left, in this order:

1. A refinement of `NexonClient` into a pacing service for each key, and of
   `Sunday` into an announcer once a week.
2. The character-data cache: an answer is at most its TTL old, also when two
   fetches of one path overlap.
3. The sends of the leaderboard's job and the representative in the hub.
