--------------------------- MODULE HistoryCommand ---------------------------
(***************************************************************************)
(* /스타포스 and /잠재 from the call to the answer, several at a time, with    *)
(* the levels of items they learn on the way and the errors they log, and  *)
(* the daily job that tells the operator of yesterday's errors and prunes  *)
(* the log.                                                                *)
(*                                                                         *)
(* Time is counted in parts of days: the one before nine in the morning,   *)
(* when the job runs, and the one after.  The pages come from the cache or *)
(* from Nexon (module HistoryCache); who is registered does not change     *)
(* within a call.                                                          *)
(***************************************************************************)
EXTENDS HistoryFigures, Sequences, Functions

CONSTANTS
  Member,
  Call,            \* the commands given, each once
  Info,            \* of each member: rows, key, presence, equipment
  Attempts,        \* the pages of attempts a member's key may yield
  Rolls,           \* and of cubes and resets
  Given,           \* what the calls may be: kind, author and who is named
  Failures,        \* how a call to Nexon may fail
  WideCap,         \* MAX_UNSPECIFIED_TARGETS: 10
  TopN,            \* UNMATCHED_TOP_N: 10
  Retention,       \* RETENTION_DAYS: 90 days, in parts
  MaxOther,        \* bound: errors of other commands come while there are fewer rows
  MaxParts          \* bound

Nobody == "nobody"
NoSummary == [unmatched |-> {}, climbs |-> <<>>, matched |-> 0]
Day(t) == t \div 2
NineOClock(t) == t % 2 = 1

(* What a failing call is logged as, if it is. *)
Logged == {"auth_invalid", "rate_limit", "nexon_api", "timeout"}
ErrorClass == Logged \cup {"data_not_ready", "invalid_param", "invalid_id", "unknown"}

(* Records are of items there are, and no star is above the last. *)
PageOK(page) == \A r \in page : r.item \in Item /\ r.after \in 0 .. MaxStar

ASSUME HistoryAssumption ==
  /\ IsFiniteSet(Member)
  /\ \A m \in Member :
       /\ Info[m].rows \in {"none", "keyOnly", "characters"}
       /\ Info[m].key \in {"none", "good", "lost"} /\ Info[m].present \in BOOLEAN
       /\ Info[m].equipped \in [Item -> Level]
       /\ \A page \in Attempts[m] : PageOK(page)
  /\ Given \subseteq [kind : {"starforce", "potential"}, author : Member, named : Seq(Member)]
  /\ Failures \subseteq ErrorClass
  /\ WideCap \in Nat \ {0} /\ TopN \in Nat \ {0} /\ Retention \in Nat \ {0}
  /\ MaxOther \in Nat /\ MaxParts \in Nat

VARIABLES
  now,
  calls,      \* the commands at work and done
  learned,    \* learned_equipment_level: item to level, 0 for no row
  errors,     \* error_log; "told" is a ghost: how many summaries named the row
  job,        \* run_ops_summary_job
  told        \* ghost: the days whose summary was sent

historyVars == <<now, calls, learned, errors, job, told>>

(* What is parsed and aggregated is of module HistoryFigures. *)
CommandRecord(r) ==
  [pc : {"idle", "refused", "load", "next", "fetch", "equipped", "aggregated", "crashed",
         "table", "failed"},
   by : [kind : {"none", "starforce", "potential"}, author : Member \cup {Nobody},
         named : Seq(Member)],
   todo : SUBSET Member, results : {r.results}, failures : {r.failures},
   nokey : SUBSET Member, missing : SUBSET (Member \X Nat), levels : [Item -> Nat],
   at : Member \cup {Nobody}, page : {r.page}, summary : {r.summary}]

ErrorRecord(r) ==
  [call : Call \cup {Nobody}, type : Logged \cup {"unmatched_equipment"},
   user : Member \cup {Nobody}, what : {r.what}, at : 0 .. now, told : Nat]

HistoryTypeOK ==
  /\ now \in Nat /\ learned \in [Item -> Nat] /\ told \subseteq Nat
  /\ calls = [c \in Call |-> calls[c]] /\ \A c \in Call : calls[c] \in CommandRecord(calls[c])
  /\ \A r \in errors : r \in ErrorRecord(r)
  /\ job \in [pc : {"idle", "read", "send", "prune"}, now : 0 .. now, rows : SUBSET errors]

Unasked ==
  [pc |-> "idle", by |-> [kind |-> "none", author |-> Nobody, named |-> <<>>], todo |-> {},
   results |-> {}, failures |-> {}, nokey |-> {}, missing |-> {},
   levels |-> [i \in Item |-> 0], at |-> Nobody, page |-> {}, summary |-> NoSummary]
NoJob == [pc |-> "idle", now |-> 0, rows |-> {}]

HistoryInit ==
  /\ now = 1 /\ learned = [i \in Item |-> 0] /\ errors = {}
  /\ calls = [c \in Call |-> Unasked]
  /\ job = NoJob /\ told = {}

-----------------------------------------------------------------------------
(* handle_starforce, handle_potential *)

Keep(c, r) == calls' = [calls EXCEPT ![c] = r] /\ UNCHANGED <<now, job, told>>

(* get_history_targets: one target for every row with a character, of the  *)
(* members named in the options of the call, or of all.                    *)
HistoryTargets(named) ==
  {m \in Member : Info[m].rows = "characters" /\ (named = <<>> \/ m \in Range(named))}

(* resolve_member_displays: who left the server is no target. *)
Displayed(targets) == {m \in targets : Info[m].present}

(* A row for every option that names somebody who is no target: nothing    *)
(* keeps two options from naming the same member.                          *)
Mentions(named, others) ==
  {<<named[i], i>> : i \in {j \in DOMAIN named : named[j] \notin others}}

MissingOfTheTable(named) == Mentions(named, HistoryTargets(named))
Missing(named) == Mentions(named, Displayed(HistoryTargets(named)))

(* select_with_self: the author if a target, and others by lot. *)
SelectWithSelf(targets, self) ==
  IF Cardinality(targets) <= WideCap THEN {targets}
  ELSE {(targets \cap {self}) \cup others :
          others \in kSubset(WideCap - Cardinality(targets \cap {self}), targets \ {self})}

(* A wrong date, or no server, is answered and that is all. *)
Refuse(c) ==
  /\ calls[c].pc = "idle" /\ Keep(c, [calls[c] EXCEPT !.pc = "refused"])
  /\ UNCHANGED <<learned, errors>>

(* Without names only who has a key is a target. *)
Ask(c) ==
  /\ calls[c].pc = "idle"
  /\ \E by \in Given :
       LET targets == Displayed(HistoryTargets(by.named))
           keyed == {m \in targets : Info[m].key # "none"}
       IN \E chosen \in IF by.named = <<>> THEN SelectWithSelf(keyed, by.author) ELSE {keyed} :
            Keep(c, [calls[c] EXCEPT
                       !.pc = IF chosen = {} THEN "failed"
                              ELSE IF by.kind = "starforce" THEN "load" ELSE "next",
                       !.by = by, !.todo = chosen,
                       !.nokey = IF by.named = <<>> THEN {} ELSE targets \ keyed,
                       !.missing = Missing(by.named)])
  /\ UNCHANGED <<learned, errors>>

(* load_learned_levels: once, before the first target. *)
Load(c) ==
  /\ calls[c].pc = "load" /\ Keep(c, [calls[c] EXCEPT !.pc = "next", !.levels = learned])
  /\ UNCHANGED <<learned, errors>>

(* The targets are taken in the order they were named in, which is any; a  *)
(* key that cannot be decrypted ends the command without an answer of its  *)
(* own.                                                                    *)
TakeTarget(c, m) ==
  /\ calls[c].pc = "next" /\ m \in calls[c].todo
  /\ Keep(c, IF Info[m].key = "lost" THEN [calls[c] EXCEPT !.pc = "crashed"]
             ELSE [calls[c] EXCEPT !.pc = "fetch", !.at = m, !.todo = @ \ {m}])
  /\ UNCHANGED <<learned, errors>>

NextTarget(r) == [r EXCEPT !.pc = "next", !.at = Nobody, !.page = {}, !.summary = NoSummary]
Fails(c, why) == NextTarget([calls[c] EXCEPT !.failures = @ \cup {<<calls[c].at, why>>}])
Succeeds(c) == NextTarget([calls[c] EXCEPT !.results = @ \cup {<<calls[c].at, calls[c].summary>>}])

ErrorRow(c, type, what) ==
  [call |-> c, type |-> type, user |-> calls[c].at, what |-> what, at |-> now, told |-> 0]

(* error_log.record.  A row the database refuses is lost, which is a log   *)
(* in which it was never written, and the command goes on.                 *)
Record(rows) == errors' = errors \cup rows

PageFails(c) ==
  /\ calls[c].pc = "fetch"
  /\ \E class \in Failures :
       /\ Keep(c, Fails(c, class))
       /\ Record(IF class \in Logged THEN {ErrorRow(c, class, <<>>)} ELSE {})
  /\ UNCHANGED learned

FetchStarforce(c) ==
  /\ calls[c].pc = "fetch" /\ calls[c].by.kind = "starforce"
  /\ \E page \in Attempts[calls[c].at] :
       Keep(c, IF ParseAttempts(page) = {} THEN Fails(c, "no record")
               ELSE [calls[c] EXCEPT !.pc = "equipped", !.page = ParseAttempts(page)])
  /\ UNCHANGED <<learned, errors>>

FetchPotential(c) ==
  /\ calls[c].pc = "fetch" /\ calls[c].by.kind = "potential"
  /\ \E page \in Rolls[calls[c].at] :
       Keep(c, IF ParseRolls(page) = {} THEN Fails(c, "no record")
               ELSE NextTarget([calls[c] EXCEPT !.results = @ \cup
                             {<<calls[c].at, AggregatePotential(ParseRolls(page))>>}]))
  /\ UNCHANGED <<learned, errors>>

(* What the character wears is learned for everybody and goes before what  *)
(* was learned earlier; without an answer the latter has to do.            *)
Overlaid(levels, equipped) == [i \in Item |-> FirstKnown(equipped[i], levels[i])]

Aggregate(c) ==
  /\ calls[c].pc = "equipped"
  /\ \E equipped \in {Info[calls[c].at].equipped, [i \in Item |-> 0]} :
       /\ learned' = Overlaid(learned, equipped)
       /\ Keep(c, [calls[c] EXCEPT !.pc = "aggregated", !.page = {}, !.summary =
                     AggregateStarforce(calls[c].page, Overlaid(calls[c].levels, equipped))])
  /\ UNCHANGED errors

(* Each item nobody knows is reported, one row for each character. *)
Report(c) ==
  /\ calls[c].pc = "aggregated"
  /\ Record({ErrorRow(c, "unmatched_equipment", g) : g \in calls[c].summary.unmatched})
  /\ Keep(c, IF calls[c].summary.matched = 0 THEN Fails(c, "nothing from ten stars on")
             ELSE Succeeds(c))
  /\ UNCHANGED learned

Answer(c) ==
  /\ calls[c].pc = "next" /\ calls[c].todo = {}
  /\ Keep(c, [calls[c] EXCEPT !.pc = IF calls[c].results = {} THEN "failed" ELSE "table"])
  /\ UNCHANGED <<learned, errors>>

-----------------------------------------------------------------------------
(* The daily summary *)

(* The bot's own key fails, in another command or job. *)
AppKeyFails ==
  /\ Cardinality(errors) < MaxOther
  /\ errors' = errors \cup {[call |-> Nobody, type |-> "auth_invalid", user |-> Nobody,
                             what |-> <<>>, at |-> now, told |-> 0]}
  /\ UNCHANGED <<now, calls, learned, job, told>>

(* At nine the job starts, if the bot is up and yesterday's is over. *)
PartPasses ==
  /\ now < MaxParts /\ now' = now + 1
  /\ \/ UNCHANGED job
     \/ NineOClock(now + 1) /\ job.pc = "idle" /\ job' = [pc |-> "read", now |-> now + 1, rows |-> {}]
  /\ UNCHANGED <<calls, learned, errors, told>>

(* fetch_yesterday_errors: from midnight to midnight. *)
SinceYesterday(t) == {r \in errors : Day(r.at) >= Day(t) - 1}
OfYesterday(t) == {r \in errors : Day(r.at) = Day(t) - 1}

(* aggregate: the failures of a member's own key are the member's to see. *)
OwnKey(r) == r.type = "auth_invalid" /\ r.user # Nobody
Unmatched(rows) == {r \in rows : r.type = "unmatched_equipment"}
Occurrences(rows, item) == Cardinality({r \in Unmatched(rows) : r.what[2] = item})

(* The most frequent items are named (ties go by their names), the others  *)
(* are a number.                                                           *)
TopItems(rows) ==
  LET items == {r.what[2] : r \in Unmatched(rows)}
  IN {top \in kSubset(Min({TopN, Cardinality(items)}), items) :
        \A i \in top, j \in items \ top : Occurrences(rows, i) >= Occurrences(rows, j)}

Summary(rows, top) ==
  {r \in rows : ~OwnKey(r) /\ (r.type = "unmatched_equipment" => r.what[2] \in top)}

JobRead ==
  /\ job.pc = "read"
  /\ \E top \in TopItems(OfYesterday(job.now)) :
       LET rows == Summary(OfYesterday(job.now), top)
       IN job' = [job EXCEPT !.pc = IF rows = {} THEN "prune" ELSE "send", !.rows = rows]
  /\ UNCHANGED <<now, calls, learned, errors, told>>

(* A channel that is gone and a send that fails are logged elsewhere. *)
JobSend ==
  /\ job.pc = "send" /\ job' = [job EXCEPT !.pc = "prune", !.rows = {}]
  /\ \/ /\ errors' = {IF r \in job.rows THEN [r EXCEPT !.told = @ + 1] ELSE r : r \in errors}
        /\ told' = told \cup {Day(job.now)}
     \/ UNCHANGED <<errors, told>>
  /\ UNCHANGED <<now, calls, learned>>

JobPrune ==
  /\ job.pc = "prune" /\ job' = NoJob
  /\ errors' = {r \in errors : r.at >= job.now - Retention}
  /\ UNCHANGED <<now, calls, learned, told>>

-----------------------------------------------------------------------------
Command(c) ==
  \/ Refuse(c) \/ Ask(c) \/ Load(c) \/ \E m \in Member : TakeTarget(c, m)
  \/ PageFails(c) \/ FetchStarforce(c) \/ FetchPotential(c) \/ Aggregate(c) \/ Report(c)
  \/ Answer(c)

OpsJob == JobRead \/ JobSend \/ JobPrune

HistoryNext == (\E c \in Call : Command(c)) \/ AppKeyFails \/ PartPasses \/ OpsJob

HistorySpec == HistoryInit /\ [][HistoryNext]_historyVars

-----------------------------------------------------------------------------
(* "부분 성공" and "기록 없음과 반드시 구분" (commands.py): everybody named is in one *)
(* of four lists - with figures, with a failure, without a key, or not     *)
(* registered - and nobody else is.  In the first three a member is once,  *)
(* however many options name it; who is in none of them has a row for each *)
(* option that names it.  Without names it is members with a key, the      *)
(* author among them who has one, up to the cap.                           *)
Whose(pairs) == {p[1] : p \in pairs}
AnsweredOnce(r) ==
  LET lists == <<Whose(r.results), Whose(r.failures), r.nokey, Whose(r.missing)>>
      everyone == UNION {lists[i] : i \in DOMAIN lists}
      withKey == {m \in Member : Info[m].rows = "characters" /\ Info[m].present
                                 /\ Info[m].key # "none"}
  IN /\ \A i, j \in DOMAIN lists : i # j => lists[i] \cap lists[j] = {}
     /\ Cardinality(r.results) + Cardinality(r.failures) = Cardinality(lists[1] \cup lists[2])
     /\ \A i \in DOMAIN r.by.named :
          <<r.by.named[i], i>> \in r.missing
            <=> r.by.named[i] \notin lists[1] \cup lists[2] \cup lists[3]
     /\ r.by.named # <<>> => everyone = Range(r.by.named)
     /\ r.by.named = <<>> =>
          /\ everyone \subseteq withKey
          /\ Cardinality(everyone) = Min({WideCap, Cardinality(withKey)})
          /\ r.by.author \in withKey => r.by.author \in everyone
EveryoneAnsweredOnce ==
  \A c \in Call : calls[c].pc \in {"table", "failed"} => AnsweredOnce(calls[c])

(* An error of a day is named in the summary of the next, if one was sent, *)
(* and in no other, unless it is of a member's own key or of an item that  *)
(* is not among the most frequent.                                         *)
SummarisedOnce ==
  \A r \in errors :
    /\ r.told <= 1 /\ (r.told = 1 => Day(r.at) + 1 \in told)
    /\ Day(r.at) + 1 \in told /\ r.type # "unmatched_equipment" => (r.told = 1 <=> ~OwnKey(r))

(* The average a climb is compared with is the fair one: with the events   *)
(* of its time, over every way down and up again.                          *)
ExpectationFair ==
  \A c \in Call : calls[c].pc = "aggregated" =>
    \A g \in DOMAIN calls[c].summary.climbs : Balanced(calls[c].summary.climbs[g])
=============================================================================
