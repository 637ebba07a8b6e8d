---------------------------- MODULE HistoryCache ----------------------------
(***************************************************************************)
(* The history cache of one account and one kind of record: a query asks   *)
(* for a period and takes each date of it from history_cache or from Nexon. *)
(* The time stamped on what it stores is the time the query started.       *)
(*                                                                         *)
(* A record is the time it was made at; Nexon's answer for a date is the   *)
(* set of records made on it so far.                                       *)
(***************************************************************************)
EXTENDS Naturals

CONSTANTS
  Query,     \* queries in flight
  DayOf,     \* the KST date of a time
  TODAY_TTL,
  HISTORY_CACHE_RETENTION_DAYS,
  NoRow,
  MaxTime    \* bound

Time == 0 .. MaxTime

ASSUME HistoryCacheAssumption ==
  /\ MaxTime \in Nat
  /\ TODAY_TTL \in Nat \ {0}
  /\ HISTORY_CACHE_RETENTION_DAYS \in Nat
  /\ DayOf \in [Time -> Nat]
  /\ \A t, u \in Time : t <= u => DayOf[t] <= DayOf[u]
  /\ NoRow \notin [page : SUBSET Time, fetched_at : Time]

VARIABLES
  time,
  made,   \* records made: external
  cache,  \* history_cache: payload and fetched_at of a date
  query   \* the queries in flight

vars == <<time, made, cache, query>>

Date == {DayOf[t] : t \in Time}
Row == [page : SUBSET Time, fetched_at : Time]

Entered(stage, now, dates) ==
  [stage |-> stage, now |-> now, dates |-> dates, todo |-> dates, at |-> 0,
   page |-> {}, records |-> {}]

Waiting == Entered("idle", 0, {})

Entry == [stage   : {"idle", "look", "fetch", "store"},
          now     : 0 .. time,
          dates   : SUBSET Date,    \* the period
          todo    : SUBSET Date,    \* dates not answered yet
          at      : Date \cup {0},  \* the date being fetched
          page    : SUBSET made,    \* what Nexon answered for it
          records : SUBSET made]    \* the answer so far

TypeOK ==
  /\ time \in Time
  /\ made \subseteq 0 .. time
  /\ cache \in [Date -> Row \cup {NoRow}]
  /\ \A d \in Date : cache[d] # NoRow => d <= DayOf[time] /\ cache[d].fetched_at <= time
  /\ query \in [Query -> Entry]

Init ==
  /\ time = 0
  /\ made = {}
  /\ cache = [d \in Date |-> NoRow]
  /\ query = [q \in Query |-> Waiting]

-----------------------------------------------------------------------------
(* Around the queries *)

Pass ==
  /\ time < MaxTime
  /\ time' = time + 1
  /\ UNCHANGED <<made, cache, query>>

Play ==
  /\ made' = made \cup {time}
  /\ UNCHANGED <<time, cache, query>>

(* The daily job deletes the rows that left the retention period. *)
Prune ==
  /\ cache' = [d \in Date |->
       IF d + HISTORY_CACHE_RETENTION_DAYS < DayOf[time] THEN NoRow ELSE cache[d]]
  /\ UNCHANGED <<time, made, query>>

(* The account's key is removed. *)
Erase ==
  /\ cache' = [d \in Date |-> NoRow]
  /\ UNCHANGED <<time, made, query>>

-----------------------------------------------------------------------------
(* is_cache_fresh *)

FreshForTheWholeTTL(d, fetched_at, now) ==
  d < DayOf[now] \/ (d = DayOf[now] /\ now <= fetched_at + TODAY_TTL)

IsCacheFresh(d, fetched_at, now) ==
  \/ d < DayOf[now]
  \/ d = DayOf[now] /\ now < fetched_at + TODAY_TTL

(* fetch_starforce_records, fetch_potential_records: the dates of the period *)
(* in order, the future cut off.                                           *)

Start(q, dates) ==
  /\ query[q].stage = "idle"
  /\ dates # {} /\ \A d \in dates : d <= DayOf[time]
  /\ query' = [query EXCEPT ![q] = Entered("look", time, dates)]
  /\ UNCHANGED <<time, made, cache>>

Turn(q, d) ==
  /\ query[q].stage = "look"
  /\ d \in query[q].todo
  /\ \A e \in query[q].todo : d <= e

Hit(q, d) ==
  /\ Turn(q, d)
  /\ cache[d] # NoRow
  /\ IsCacheFresh(d, cache[d].fetched_at, query[q].now)
  /\ query' = [query EXCEPT ![q].records = @ \cup cache[d].page, ![q].todo = @ \ {d}]
  /\ UNCHANGED <<time, made, cache>>

Miss(q, d) ==
  /\ Turn(q, d)
  /\ cache[d] # NoRow => ~ IsCacheFresh(d, cache[d].fetched_at, query[q].now)
  /\ query' = [query EXCEPT ![q].stage = "fetch", ![q].at = d]
  /\ UNCHANGED <<time, made, cache>>

Fetch(q) ==
  /\ query[q].stage = "fetch"
  /\ query' = [query EXCEPT ![q].stage = "store",
                            ![q].page = {t \in made : DayOf[t] = query[q].at}]
  /\ UNCHANGED <<time, made, cache>>

(* A NexonAPIError ends the query; what it stored before stays. *)
FetchFails(q) ==
  /\ query[q].stage = "fetch"
  /\ query' = [query EXCEPT ![q] = Waiting]
  /\ UNCHANGED <<time, made, cache>>

FetchedNow(q) == time

FetchedAt(q) == query[q].now

Store(q) ==
  LET d == query[q].at
      page == query[q].page
  IN /\ query[q].stage = "store"
     /\ cache' = [cache EXCEPT ![d] = [page |-> page, fetched_at |-> FetchedAt(q)]]
     /\ query' = [query EXCEPT ![q].stage = "look", ![q].page = {},
                               ![q].records = @ \cup page, ![q].todo = @ \ {d}]
     /\ UNCHANGED <<time, made>>

Answered(q) == query[q].stage = "look" /\ query[q].todo = {}

Finish(q) ==
  /\ Answered(q)
  /\ query' = [query EXCEPT ![q] = Waiting]
  /\ UNCHANGED <<time, made, cache>>

-----------------------------------------------------------------------------
QueryStep(q) ==
  \/ \E d \in Date : Hit(q, d) \/ Miss(q, d)
  \/ Fetch(q) \/ FetchFails(q) \/ Store(q) \/ Finish(q)

Next ==
  \/ Pass \/ Play \/ Prune \/ Erase
  \/ \E q \in Query : QueryStep(q) \/ \E dates \in SUBSET Date : Start(q, dates)

Spec == Init /\ [][Next]_vars

-----------------------------------------------------------------------------
RecordsOf(d) == {t \in made : DayOf[t] = d}

(* A row never claims to be newer than it is: it lacks no record made on its *)
(* date before its fetched_at, in whatever order the queries that overlap  *)
(* store their pages.                                                      *)
RowsHonest ==
  \A d \in Date : cache[d] # NoRow =>
    /\ cache[d].page \subseteq RecordsOf(d)
    /\ \A t \in RecordsOf(d) : t < cache[d].fetched_at => t \in cache[d].page

(* The answer for the date a query was started on lacks no record that was *)
(* made TODAY_TTL or longer before the start.                              *)
AnswerCurrent ==
  \A q \in Query : Answered(q) =>
    \A t \in made : DayOf[t] = DayOf[query[q].now] /\ DayOf[t] \in query[q].dates
                    /\ t + TODAY_TTL <= query[q].now => t \in query[q].records

=============================================================================
