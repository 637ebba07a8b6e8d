----------------------------- MODULE NoticePoll -----------------------------
(***************************************************************************)
(* The half-hourly notice job: for each category it fetches the page of    *)
(* the newest notices, announces those above the stored marker to every    *)
(* channel and every personal subscriber, and then advances the marker.    *)
(* The marker is read, used and written in three separate transactions     *)
(* with all the Discord calls in between, and the process may stop at any  *)
(* of them.                                                                *)
(***************************************************************************)
EXTENDS Naturals, FiniteSets

CONSTANTS
  Category,           \* NOTICE_CATEGORY and NOTICE_UPDATE_CATEGORY
  Recipient,          \* channels and personal subscribers
  NoCategory,         \* no category is being polled
  PageSize,           \* notices on the page Nexon answers
  EMBEDS_PER_MESSAGE,
  MaxId,              \* bound: the last notice Nexon publishes
  MaxInterrupts       \* bound: jobs that do not run to their end

ASSUME NoticePollAssumption ==
  /\ NoCategory \notin Category
  /\ PageSize \in Nat \ {0}
  /\ EMBEDS_PER_MESSAGE \in Nat \ {0}
  /\ MaxId \in Nat
  /\ MaxInterrupts \in Nat

Id == 1 .. MaxId
NoMarker == 0  \* notice_state has no row for the category; ids are positive

VARIABLES
  published,  \* newest notice of each category: external
  enabled,    \* recipients with the notice alert on
  marker,     \* notice_state.last_identifier of each category
  job,        \* the running notice job; max_instances = 1
  received,   \* how often each recipient was sent each notice
  baseline,   \* ghost: the first marker of each category
  interrupts  \* ghost: jobs that did not run to their end

vars == <<published, enabled, marker, job, received, baseline, interrupts>>

Job == [stage  : {"idle", "poll", "send"},
        to     : SUBSET Recipient,           \* read at the start of the job
        todo   : SUBSET Category,            \* categories not polled yet
        at     : Category \cup {NoCategory}, \* the category being announced
        page   : SUBSET Id,
        left   : [Recipient -> SUBSET Id],   \* notices still to be sent
        failed : SUBSET Recipient]           \* recipients a send failed for

Between(stage, to, todo) ==
  [stage |-> stage, to |-> to, todo |-> todo, at |-> NoCategory, page |-> {},
   left |-> [r \in Recipient |-> {}], failed |-> {}]

NoJob == Between("idle", {}, {})

TypeOK ==
  /\ published \in [Category -> 0 .. MaxId]
  /\ enabled \subseteq Recipient
  /\ marker \in [Category -> 0 .. MaxId]
  /\ job \in Job
  /\ received \in [Recipient -> [Category -> [Id -> Nat]]]
  /\ baseline \in [Category -> 0 .. MaxId]
  /\ interrupts \in 0 .. MaxInterrupts

Init ==
  /\ published \in [Category -> 0 .. MaxId]
  /\ enabled = {}
  /\ marker = [c \in Category |-> NoMarker]
  /\ job = NoJob
  /\ received = [r \in Recipient |-> [c \in Category |-> [n \in Id |-> 0]]]
  /\ baseline = [c \in Category |-> NoMarker]
  /\ interrupts = 0

-----------------------------------------------------------------------------
(* Around the job *)

Publish(c) ==
  /\ published[c] < MaxId
  /\ published' = [published EXCEPT ![c] = @ + 1]
  /\ UNCHANGED <<enabled, marker, job, received, baseline, interrupts>>

Toggle(r) ==
  /\ enabled' = IF r \in enabled THEN enabled \ {r} ELSE enabled \cup {r}
  /\ UNCHANGED <<published, marker, job, received, baseline, interrupts>>

(* The process stops, or an exception that is neither a NexonAPIError nor a *)
(* discord.HTTPException ends the job: what was sent stays sent.           *)
Interrupt ==
  /\ job.stage # "idle"
  /\ interrupts < MaxInterrupts
  /\ interrupts' = interrupts + 1
  /\ job' = NoJob
  /\ UNCHANGED <<published, enabled, marker, received, baseline>>

-----------------------------------------------------------------------------
(* run_notice_job *)

StartJob ==
  /\ job.stage = "idle"
  /\ enabled # {}
  /\ job' = Between("poll", enabled, Category)
  /\ UNCHANGED <<published, enabled, marker, received, baseline, interrupts>>

EndJob ==
  /\ job.stage = "poll"
  /\ job.todo = {}
  /\ job' = NoJob
  /\ UNCHANGED <<published, enabled, marker, received, baseline, interrupts>>

(* A failed fetch or an empty page leaves the category to the next job. *)
SkipCategory(c) ==
  /\ job.stage = "poll"
  /\ c \in job.todo
  /\ job' = [job EXCEPT !.todo = @ \ {c}]
  /\ UNCHANGED <<published, enabled, marker, received, baseline, interrupts>>

(* The page holds the newest notices up to one Nexon serves at the moment; *)
(* it may lag behind the newest one published.                             *)
Page(newest) == {n \in Id : n <= newest /\ newest < n + PageSize}

SelectFromTheFirst(page, last) == {n \in page : last < n}
SelectAgain(page, last) == IF last = NoMarker THEN {} ELSE {n \in page : last <= n}

SelectNew(page, last) == IF last = NoMarker THEN {} ELSE {n \in page : last < n}

FetchPage(c, newest) ==
  /\ job.stage = "poll"
  /\ c \in job.todo
  /\ newest \in 1 .. published[c]
  /\ job' = [job EXCEPT
       !.stage = "send", !.at = c, !.page = Page(newest), !.failed = {},
       !.left = [r \in Recipient |->
         IF r \in job.to THEN SelectNew(Page(newest), marker[c]) ELSE {}]]
  /\ UNCHANGED <<published, enabled, marker, received, baseline, interrupts>>

(* Recipients are served one after the other, oldest notice first. *)
NewestBatch(ids) ==
  {n \in ids : Cardinality({k \in ids : k > n}) < EMBEDS_PER_MESSAGE}

FirstBatch(ids) ==
  {n \in ids : Cardinality({k \in ids : k < n}) < EMBEDS_PER_MESSAGE}

Served(r) ==
  /\ job.stage = "send"
  /\ job.left[r] # {}
  /\ \A q \in job.to \ {r} :
       job.left[q] \in {{}, SelectNew(job.page, marker[job.at])}

SendBatch(r) ==
  LET batch == FirstBatch(job.left[r])
  IN /\ Served(r)
     /\ received' = [received EXCEPT ![r][job.at] =
          [n \in Id |-> IF n \in batch THEN @[n] + 1 ELSE @[n]]]
     /\ job' = [job EXCEPT !.left[r] = @ \ batch]
     /\ UNCHANGED <<published, enabled, marker, baseline, interrupts>>

(* After a failed send the recipient gets none of the remaining batches. *)
SendFails(r) ==
  /\ Served(r)
  /\ job' = [job EXCEPT !.left[r] = {}, !.failed = @ \cup {r}]
  /\ UNCHANGED <<published, enabled, marker, received, baseline, interrupts>>

LatestId(page) == CHOOSE n \in page : \A k \in page : k <= n

OnlyAfterTheFirst(last, latest) ==
  IF last # NoMarker /\ last < latest THEN latest ELSE last

(* The marker moves forward only. *)
Advanced(last, latest) == IF last < latest THEN latest ELSE last

MarkedAtOnce == TRUE

Announced == \A r \in Recipient : job.left[r] = {}

(* The first marker is the baseline. *)
Mark ==
  LET c == job.at
      latest == LatestId(job.page)
  IN /\ job.stage = "send"
     /\ Announced
     /\ marker' = [marker EXCEPT ![c] = Advanced(@, latest)]
     /\ baseline' = [baseline EXCEPT ![c] = IF @ = NoMarker THEN latest ELSE @]
     /\ job' = Between("poll", job.to, job.todo \ {c})
     /\ UNCHANGED <<published, enabled, received, interrupts>>

-----------------------------------------------------------------------------
Poll(c) == SkipCategory(c) \/ \E newest \in Id : FetchPage(c, newest)

JobStep ==
  \/ StartJob \/ EndJob \/ Mark
  \/ \E c \in Category : Poll(c)
  \/ \E r \in Recipient : SendBatch(r) \/ SendFails(r)

Next ==
  \/ JobStep
  \/ Interrupt
  \/ \E c \in Category : Publish(c)
  \/ \E r \in Recipient : Toggle(r)

Spec == Init /\ [][Next]_vars

(* The scheduler fires the job every half hour and each await in it has a  *)
(* timeout; Nexon, asked again and again, answers with its newest page now *)
(* and then.                                                               *)
FetchNewest(c) == FetchPage(c, published[c])

FairSpec ==
  /\ Spec
  /\ WF_vars(JobStep)
  /\ \A c \in Category : SF_vars(FetchNewest(c))

-----------------------------------------------------------------------------
(* The marker of a category never moves back, not even on a page that lags *)
(* behind what was already announced.                                      *)
MarkerNeverBack == [][\A c \in Category : marker[c] <= marker'[c]]_vars

(* The first poll is silent: nothing up to the baseline is ever announced. *)
SilentBaseline ==
  \A r \in Recipient, c \in Category, n \in Id :
    received[r][c][n] > 0 => baseline[c] # NoMarker /\ baseline[c] < n

(* Nobody is sent a notice twice, except once more for every job that was  *)
(* interrupted between the announcement and the marker.                    *)
NoDuplicates ==
  \A r \in Recipient, c \in Category, n \in Id :
    received[r][c][n] <= 1 + interrupts

(* The marker passes a notice only after it was sent to every recipient of *)
(* the job, those a send failed for excepted: an interrupted job repeats,  *)
(* it does not lose.                                                       *)
MarkedAfterSent ==
  [][\A c \in Category : marker[c] # NoMarker /\ marker'[c] # marker[c] =>
       \A r \in job.to \ job.failed, n \in job.page :
         marker[c] < n => received[r][c][n] > 0]_vars

(* What the running job has already dealt with above the marker. *)
Progress == [r \in Recipient |-> [c \in Category |->
  IF job.stage = "send" /\ job.at = c /\ r \in job.to
    THEN SelectNew(job.page, marker[c]) \ job.left[r]
    ELSE {}]]

Promise == INSTANCE Announcements WITH served <- Progress, restarts <- interrupts

(* The job keeps the promise of Announcements: above a marker that only     *)
(* moves forward each recipient is served in order, and only an interrupted *)
(* job is repeated, from the marker on.                                    *)
Implements == Promise!Spec

(* A published notice is announced, or at least passed by the marker,      *)
(* unless the last alert is turned off first.                              *)
CaughtUp ==
  \A c \in Category, n \in Id :
    published[c] >= n ~> marker[c] >= n \/ enabled = {}

=============================================================================
