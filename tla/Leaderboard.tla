---------------------------- MODULE Leaderboard ----------------------------
(***************************************************************************)
(* The experience ranking of a guild: rows of exp_snapshot are one closed  *)
(* day of one character each.  The daily job and the /경험치 commands fill   *)
(* the recent days of every registered character, take the newest day that *)
(* has a row as the reference date, rank those with a row of it, and fill  *)
(* the days the graph of the best of them samples.  Any number of them run *)
(* together, across midnight, beside the daily pruning; one that is        *)
(* interrupted takes no further step.                                      *)
(*                                                                         *)
(* Days are ordinals, characters are ocids.  Nexon has the days of a       *)
(* character from the first to yesterday, which it makes some time after   *)
(* midnight: until then it fails like any other call.                      *)
(***************************************************************************)
EXTENDS Integers, FiniteSets

CONSTANTS
  Ocid,
  Builder,        \* the daily job and the commands that may run together
  Job,            \* the daily job; max_instances = 1
  First,          \* the first day Nexon has of a character
  FirstToday,     \* bound: the day of the start
  MaxDay,         \* bound: the last day
  period_days,    \* the period of the graph
  step,           \* PERIOD_STEPS[period_days]
  BACKFILL_DAYS,
  RETENTION_DAYS,
  TOP_N,
  NoOcid,
  NoDay

ASSUME LeaderboardAssumption ==
  /\ Job \in Builder
  /\ First \in [Ocid -> Nat]
  /\ FirstToday \in Nat
  /\ MaxDay \in Nat
  /\ FirstToday <= MaxDay
  /\ period_days \in Nat \ {0}
  /\ step \in Nat \ {0}
  /\ BACKFILL_DAYS \in Nat
  /\ RETENTION_DAYS \in Nat
  /\ TOP_N \in Nat \ {0}
  /\ NoOcid \notin Ocid
  /\ NoDay \notin Int

VARIABLES
  today,
  snapshot,    \* exp_snapshot: the days of each character
  build,       \* the job and the commands under way
  full         \* ghost: the last reference date a character was shown for
               \*   without a gap

vars == <<today, snapshot, build, full>>

(* sample_dates: anchored to the calendar, and the reference date itself. *)
SampleFromTheStart(ref) ==
  {d \in ref - period_days + 1 .. ref : (ref - d) % step = 0}

Sample(ref) ==
  {d \in ref - period_days + 1 .. ref : d % step = 0} \cup {ref}

Idle == [stage |-> "idle", targets |-> {}, todo |-> {}, at |-> NoOcid,
         days |-> {}, day |-> NoDay, ref |-> NoDay, vain |-> {}]

TypeOK ==
  /\ today \in FirstToday .. MaxDay
  /\ snapshot \in [Ocid -> SUBSET Int]
  /\ build \in [Builder ->
       [stage   : {"idle", "backfill", "refresh", "rank", "fill"},
        targets : SUBSET Ocid,         \* the characters of this stage
        todo    : SUBSET Ocid,         \* those not done
        at      : Ocid \cup {NoOcid},  \* the one being done
        days    : SUBSET Int,          \* the days of it to ask Nexon for
        day     : (FirstToday .. today) \cup {NoDay}, \* today, when it looked
        ref     : Int \cup {NoDay},
        vain    : SUBSET (Ocid \X Int)]] \* ghost: the calls of this stage in vain
  /\ full \in [Ocid -> Int \cup {NoDay}]
  /\ \A o \in Ocid : \A d \in snapshot[o] : d < today
  /\ \A b \in Builder : \A d \in build[b].days : d < today
  /\ \A b \in Builder : build[b].ref # NoDay => build[b].ref < today

Init ==
  /\ today = FirstToday
  /\ snapshot = [o \in Ocid |-> {}]
  /\ build = [b \in Builder |-> Idle]
  /\ full = [o \in Ocid |-> NoDay]

-----------------------------------------------------------------------------
(* Around the builders *)

Midnight ==
  /\ today < MaxDay
  /\ today' = today + 1
  /\ UNCHANGED <<snapshot, build, full>>

PruneOldSnapshots ==
  /\ snapshot' = [o \in Ocid |-> {d \in snapshot[o] : d >= today - RETENTION_DAYS}]
  /\ UNCHANGED <<today, build, full>>

-----------------------------------------------------------------------------
(* backfill and fetch_and_store: character after character, newest day first *)

Become(b, r) == build' = [build EXCEPT ![b] = r]

Stage(stage, targets, day, ref) ==
  [stage |-> stage, targets |-> targets, todo |-> targets, at |-> NoOcid,
   days |-> {}, day |-> day, ref |-> ref, vain |-> {}]

Window(day) == day - BACKFILL_DAYS .. day - 1

(* The recent days and the sampled days are asked for where no row is; the *)
(* job asks for yesterday in any case.                                     *)
Wanted(b, o) ==
  CASE build[b].stage = "backfill" -> Window(build[b].day) \ snapshot[o]
    [] build[b].stage = "refresh" -> {build[b].day - 1}
    [] build[b].stage = "fill" -> Sample(build[b].ref) \ snapshot[o]

(* The character under way has the days left to go. *)
Left(b, o, days, vain) ==
  [stage |-> build[b].stage, targets |-> build[b].targets,
   todo |-> IF days = {} THEN build[b].todo \ {o} ELSE build[b].todo,
   at |-> IF days = {} THEN NoOcid ELSE o,
   days |-> days, day |-> build[b].day, ref |-> build[b].ref, vain |-> vain]

NextTarget(b, o) ==
  /\ build[b].stage \in {"backfill", "refresh", "fill"}
  /\ build[b].at = NoOcid
  /\ o \in build[b].todo
  /\ Become(b, Left(b, o, Wanted(b, o), build[b].vain))
  /\ UNCHANGED <<today, snapshot, full>>

Asks(b, o, d) ==
  /\ build[b].at = o
  /\ d \in build[b].days
  /\ \A e \in build[b].days : e <= d

FetchDay(b, o, d) ==
  /\ Asks(b, o, d)
  /\ First[o] <= d
  /\ d < today
  /\ snapshot' = [snapshot EXCEPT ![o] = @ \cup {d}]
  /\ Become(b, Left(b, o, build[b].days \ {d}, build[b].vain))
  /\ UNCHANGED <<today, full>>

AlwaysStop(b, d) == {}
NeverStop(b, d) == build[b].days \ {d}

(* Only the filling of the sampled days stops at the first failure. *)
StopAtGap(b, d) == IF build[b].stage = "fill" THEN {} ELSE build[b].days \ {d}

(* Nexon has no such day, has not made it yet, or fails. *)
FetchInVain(b, o, d) ==
  /\ Asks(b, o, d)
  /\ Become(b, Left(b, o, StopAtGap(b, d), build[b].vain \cup {<<o, d>>}))
  /\ UNCHANGED <<today, snapshot, full>>

Done(b) == build[b].at = NoOcid /\ build[b].todo = {}

-----------------------------------------------------------------------------
(* ensure_guild_data, refresh_guild.  Both lists of targets are read from  *)
(* the registration rows, which other handlers change all the time.        *)

Start(b, targets) ==
  /\ build[b].stage = "idle"
  /\ Become(b, Stage("backfill", targets, today, NoDay))
  /\ UNCHANGED <<today, snapshot, full>>

(* refresh_guild goes on with fetch_and_store of yesterday. *)
Refresh(b) ==
  /\ b = Job
  /\ build[b].stage = "backfill"
  /\ Done(b)
  /\ Become(b, Stage("refresh", build[b].targets, build[b].day, NoDay))
  /\ UNCHANGED <<today, snapshot, full>>

-----------------------------------------------------------------------------
(* build_targets_payload *)

Ready(b) == Done(b) /\ build[b].stage = IF b = Job THEN "refresh" ELSE "backfill"

Days(targets) == {d \in UNION {snapshot[o] : o \in targets} : d <= today - 1}

(* latest_snapshot_date of the representatives, or of the characters named. *)
Gate(b, targets) ==
  /\ Ready(b)
  /\ \/ \E ref \in Days(targets) :
          /\ \A d \in Days(targets) : d <= ref
          /\ Become(b, Stage("rank", targets, NoDay, ref))
     \/ Days(targets) = {} /\ Become(b, Idle)
  /\ UNCHANGED <<today, snapshot, full>>

EveryTarget(b) == build[b].targets

Ranked(b) == {o \in build[b].targets : build[b].ref \in snapshot[o]}

(* The best TOP_N by the levels of the moment. *)
Best(ranked) ==
  {top \in SUBSET ranked :
     IF Cardinality(ranked) <= TOP_N THEN top = ranked ELSE Cardinality(top) = TOP_N}

Rank(b) ==
  /\ build[b].stage = "rank"
  /\ \/ \E top \in Best(Ranked(b)) :
          top # {} /\ Become(b, Stage("fill", top, NoDay, build[b].ref))
     \/ Ranked(b) = {} /\ Become(b, Idle)
  /\ UNCHANGED <<today, snapshot, full>>

(* history_progress reads the graph. *)
Show(b) ==
  LET ref == build[b].ref
  IN /\ build[b].stage = "fill"
     /\ Done(b)
     /\ full' = [o \in Ocid |->
          IF o \in build[b].targets /\ Sample(ref) \subseteq snapshot[o]
          THEN ref ELSE full[o]]
     /\ Become(b, Idle)
     /\ UNCHANGED <<today, snapshot>>

-----------------------------------------------------------------------------
Fetch(b) ==
  \E o \in Ocid : \/ NextTarget(b, o)
                  \/ \E d \in build[b].days : FetchDay(b, o, d) \/ FetchInVain(b, o, d)

BuildStep(b) ==
  \/ Fetch(b)
  \/ Refresh(b)
  \/ \E targets \in SUBSET Ocid : Start(b, targets) \/ Gate(b, targets)
  \/ Rank(b) \/ Show(b)

Next ==
  \/ Midnight \/ PruneOldSnapshots
  \/ \E b \in Builder : BuildStep(b)

Spec == Init /\ [][Next]_vars

-----------------------------------------------------------------------------
(* A character costs a filling of the graph at most one call in vain, also *)
(* when Nexon has no day of it in the whole period: nothing is asked for   *)
(* after the first.                                                        *)
OneCallInVain ==
  \A b \in Builder : build[b].stage = "fill" =>
    \A x, y \in build[b].vain : x[1] = y[1] => x = y

(* A failure keeps no other recent day from being filled: once a backfill is *)
(* over, every day of its window has its row, was asked for in vain, or has *)
(* left the retention period.                                              *)
EveryGapAsked ==
  \A b \in Builder : build[b].stage = "backfill" /\ Done(b) =>
    \A o \in build[b].targets : \A d \in Window(build[b].day) :
      d \in snapshot[o] \/ <<o, d>> \in build[b].vain \/ d < today - RETENTION_DAYS

(* What a character was shown for once is not asked for again: while the   *)
(* reference date moves on day by day, with or without a build on each, the *)
(* filling asks only for days later than the last graph without a gap.     *)
(* Pruning takes nothing from it as long as the reference date is no more  *)
(* than the rest of the retention period behind today.                     *)
FilledOnce ==
  \A b \in Builder, o \in Ocid :
    /\ build[b].stage = "fill"
    /\ o \in build[b].targets
    /\ full[o] # NoDay
    /\ full[o] <= build[b].ref
    /\ today - RETENTION_DAYS <= build[b].ref - period_days + 1
    => \A d \in Sample(build[b].ref) \ snapshot[o] : d > full[o]

(* Every character that is shown has a row of the reference date, so that  *)
(* its graph ends at the same day as everybody else's.                     *)
ShownForTheSameDay ==
  \A b \in Builder :
    build[b].stage = "fill" /\ build[b].ref >= today - RETENTION_DAYS =>
      \A o \in build[b].targets : build[b].ref \in snapshot[o]

=============================================================================
