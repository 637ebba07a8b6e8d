---------------------------- MODULE HistoryProofs ----------------------------
(***************************************************************************)
(* HistoryCache for any calendar, TTL and number of overlapping queries:   *)
(* what a row and an answer are guaranteed to contain.  HistoryCommand for *)
(* any members, pages, caps and number of overlapping commands: everybody  *)
(* asked about is accounted for once, every error is told of once, and the *)
(* average a climb is compared with is the exact one.                      *)
(***************************************************************************)
EXTENDS HistoryCache, HistoryCommand, FiniteSetTheorems, WellFoundedInduction, TLAPS

(* page holds what a query that started at start needs of date d: its        *)
(* records made before that start at least, and no others.                 *)
Covers(page, d, start) ==
  /\ page \subseteq RecordsOf(d)
  /\ \A t \in RecordsOf(d) : t < start => t \in page

(* The dates dealt with are answered, and a fetched page covers its date.  *)
Honest(q) ==
  /\ \A d \in query[q].todo : d <= DayOf[time]
  /\ query[q].stage \in {"fetch", "store"} => query[q].at \in query[q].todo
  /\ query[q].stage = "store" => Covers(query[q].page, query[q].at, query[q].now)
  /\ query[q].stage # "idle" =>
       \A t \in made :
         /\ DayOf[t] = DayOf[query[q].now]
         /\ DayOf[t] \in query[q].dates \ query[q].todo
         /\ t + TODAY_TTL <= query[q].now
         => t \in query[q].records

Inv == TypeOK /\ RowsHonest /\ \A q \in Query : Honest(q)

LEMMA InitInv == Init => Inv
<1> SUFFICES ASSUME Init PROVE Inv
  OBVIOUS
<1> USE HistoryCacheAssumption DEF Init, Waiting, Entered
<1>1. TypeOK
  BY DEF TypeOK, Time, Entry
<1>2. \A q \in Query : query[q].stage = "idle" /\ query[q].todo = {}
  OBVIOUS
<1>3. RowsHonest
  BY DEF RowsHonest
<1>4. \A q \in Query : Honest(q)
  BY <1>2 DEF Honest
<1> QED
  BY <1>1, <1>3, <1>4 DEF Inv

(* What holds of the rows and the queries keeps holding when time passes   *)
(* and records are made: a new record is made now, after every start.      *)
LEMMA WorldInv == ASSUME Inv, Pass \/ Play PROVE Inv'
<1>0. time \in Time /\ time \in Nat /\ MaxTime \in Nat /\ made \subseteq 0 .. time
  BY HistoryCacheAssumption DEF Inv, TypeOK, Time
<1>1. /\ time' \in Time /\ time' \in Nat /\ time <= time'
      /\ made \subseteq made' /\ made' \subseteq 0 .. time'
      /\ \A t \in made' \ made : t = time
      /\ cache' = cache /\ query' = query
  <2>1. CASE Pass
    BY <1>0, <2>1 DEF Pass, Time
  <2>2. CASE Play
    BY <1>0, <2>2 DEF Play
  <2> QED
    BY <2>1, <2>2
<1>2. /\ DayOf[time] <= DayOf[time'] /\ DayOf[time] \in Nat /\ DayOf[time'] \in Nat
      /\ \A d \in Date : d \in Nat
  BY <1>0, <1>1, HistoryCacheAssumption DEF Date
<1>4. \A d \in Date : cache[d] # NoRow =>
        /\ cache[d].fetched_at \in 0 .. time /\ d <= DayOf[time]
        /\ Covers(cache[d].page, d, cache[d].fetched_at)
  <2>1. \A d \in Date : cache[d] # NoRow =>
          /\ cache[d].fetched_at \in Time /\ cache[d].fetched_at <= time
          /\ d <= DayOf[time]
    BY DEF Inv, TypeOK, Row
  <2> QED
    BY <1>0, <2>1 DEF Inv, RowsHonest, Covers, Time
<1>5. \A q \in Query : query[q] \in Entry /\ query[q].now \in 0 .. time
  BY DEF Inv, TypeOK, Entry
<1>6. TypeOK'
  <2>1. \A d \in Date : cache'[d] # NoRow =>
          d <= DayOf[time'] /\ cache'[d].fetched_at <= time'
    BY <1>0, <1>1, <1>2, <1>4
  <2>2. 0 .. time \subseteq 0 .. time'
    BY <1>1, <1>0
  <2>3. Entry \subseteq Entry'
    BY <1>1, <2>2 DEF Entry
  <2>4. query' \in [Query -> Entry']
    BY <1>1, <2>3 DEF Inv, TypeOK
  <2> QED
    BY <1>1, <2>1, <2>4 DEF Inv, TypeOK
<1>7. RowsHonest'
  <2> SUFFICES ASSUME NEW d \in Date, cache[d] # NoRow
               PROVE  Covers(cache[d].page, d, cache[d].fetched_at)'
    BY <1>1 DEF RowsHonest, Covers
  <2> DEFINE page == cache[d].page
             at == cache[d].fetched_at
  <2>1. Covers(page, d, at) /\ at \in 0 .. time /\ page' = page /\ at' = at
    BY <1>1, <1>4
  <2> HIDE DEF page, at
  <2>2. Covers(page, d, at)'
    BY <1>0, <1>1, <2>1 DEF Covers, RecordsOf
  <2> QED
    BY <2>2 DEF page, at
<1>8. ASSUME NEW q \in Query PROVE Honest(q)'
  <2>1. \A d \in query[q].todo : d <= DayOf[time']
    BY <1>2, <1>5 DEF Inv, Honest, Entry
  <2>2. query[q].stage = "store" => Covers(query[q].page, query[q].at, query[q].now)'
    <3> DEFINE page == query[q].page
               at == query[q].at
               start == query[q].now
    <3> SUFFICES ASSUME query[q].stage = "store" PROVE Covers(page, at, start)'
      OBVIOUS
    <3>1. Covers(page, at, start) /\ start \in 0 .. time
      BY <1>5 DEF Inv, Honest
    <3>2. page' = page /\ at' = at /\ start' = start
      BY <1>1
    <3> HIDE DEF page, at, start
    <3>3. ASSUME NEW t \in made', DayOf[t] = at, t < start PROVE t \in page
      BY <1>0, <1>1, <3>1, <3>3 DEF Covers, RecordsOf
    <3>4. page \subseteq {t \in made' : DayOf[t] = at}
      BY <1>1, <3>1 DEF Covers, RecordsOf
    <3> QED
      BY <3>2, <3>3, <3>4 DEF Covers, RecordsOf
  <2>3. \A t \in made' \ made : ~ (t + TODAY_TTL <= query[q].now)
    BY <1>0, <1>1, <1>5, HistoryCacheAssumption
  <2> QED
    BY <1>1, <2>1, <2>2, <2>3 DEF Inv, Honest
<1> QED
  BY <1>6, <1>7, <1>8 DEF Inv

(* A step of query q alone, which leaves time, the records and the rows. *)
LEMMA OneQueryMoves ==
  ASSUME Inv, NEW q \in Query, NEW e \in Entry,
         query' = [query EXCEPT ![q] = e], UNCHANGED <<time, made, cache>>,
         Honest(q)'
  PROVE  Inv'
<1>1. TypeOK'
  BY DEF Inv, TypeOK, Entry
<1>2. RowsHonest'
  BY DEF Inv, RowsHonest, RecordsOf
<1>3. ASSUME NEW p \in Query, p # q PROVE Honest(p)'
  <2>1. query'[p] = query[p]
    BY <1>3 DEF Inv, TypeOK
  <2> QED
    BY <2>1 DEF Inv, Honest, Covers, RecordsOf
<1> QED
  BY <1>1, <1>2, <1>3 DEF Inv

(* Rows may go at any time. *)
LEMMA RowsGo ==
  ASSUME Inv, Prune \/ Erase PROVE Inv'
<1>1. /\ UNCHANGED <<time, made, query>>
      /\ cache' \in [Date -> Row \cup {NoRow}]
      /\ \A d \in Date : cache'[d] \in {cache[d], NoRow}
  BY DEF Prune, Erase, Inv, TypeOK
<1>2. TypeOK'
  BY <1>1 DEF Inv, TypeOK, Entry
<1>3. RowsHonest'
  BY <1>1 DEF Inv, RowsHonest, RecordsOf
<1>4. \A q \in Query : Honest(q)'
  BY <1>1 DEF Inv, Honest, Covers, RecordsOf
<1> QED
  BY <1>2, <1>3, <1>4 DEF Inv

LEMMA QueryInv ==
  ASSUME Inv, NEW q \in Query,
         \/ \E dates \in SUBSET Date : Start(q, dates)
         \/ \E d \in Date : Hit(q, d) \/ Miss(q, d)
         \/ Fetch(q) \/ FetchFails(q) \/ Finish(q)
  PROVE  Inv'
<1>0. /\ query[q] \in Entry /\ query \in [Query -> Entry] /\ Honest(q)
      /\ time \in Time /\ time \in Nat /\ made \subseteq 0 .. time
      /\ \A d \in Date : d \in Nat
  BY HistoryCacheAssumption DEF Inv, TypeOK, Time, Date
<1>1. CASE FetchFails(q) \/ Finish(q)
  <2>1. Waiting \in Entry /\ Waiting.stage = "idle" /\ Waiting.todo = {}
    BY <1>0 DEF Waiting, Entered, Entry
  <2>2. query' = [query EXCEPT ![q] = Waiting] /\ UNCHANGED <<time, made, cache>>
    BY <1>1 DEF FetchFails, Finish
  <2>3. query'[q] = Waiting
    BY <1>0, <2>2
  <2>4. Honest(q)'
    BY <2>1, <2>3 DEF Honest
  <2> QED
    BY <2>1, <2>2, <2>4, OneQueryMoves
<1>2. ASSUME NEW dates \in SUBSET Date, Start(q, dates) PROVE Inv'
  <2> DEFINE e == [stage |-> "look", now |-> time, dates |-> dates, todo |-> dates,
                   at |-> 0, page |-> {}, records |-> {}]
  <2>1. e \in Entry
    BY <1>0 DEF Entry
  <2>5. e = Entered("look", time, dates)
    BY DEF Entered
  <2>6. e.stage = "look" /\ e.dates = dates /\ e.todo = dates
    OBVIOUS
  <2> HIDE DEF e
  <2>2. query' = [query EXCEPT ![q] = e] /\ UNCHANGED <<time, made, cache>>
    BY <1>2, <2>5 DEF Start
  <2>3. query'[q] = e
    BY <1>0, <2>2
  <2>7. \A d \in dates : d <= DayOf[time]
    BY <1>2 DEF Start
  <2>4. Honest(q)'
    BY <2>2, <2>3, <2>6, <2>7 DEF Honest
  <2> QED
    BY <2>1, <2>2, <2>4, OneQueryMoves
<1>3. ASSUME NEW d \in Date, Hit(q, d) PROVE Inv'
  <2> DEFINE e == [query[q] EXCEPT !.records = @ \cup cache[d].page, !.todo = @ \ {d}]
  <2>1. /\ cache[d] \in Row /\ cache[d].fetched_at \in Nat
        /\ \A t \in RecordsOf(d) : t < cache[d].fetched_at => t \in cache[d].page
        /\ cache[d].page \subseteq made
        /\ IsCacheFresh(d, cache[d].fetched_at, query[q].now)
    <3>1. cache[d] # NoRow /\ IsCacheFresh(d, cache[d].fetched_at, query[q].now)
      BY <1>3 DEF Hit
    <3>2. cache[d] \in Row
      BY <3>1 DEF Inv, TypeOK
    <3>3. cache[d].fetched_at \in Nat
      BY <3>2, HistoryCacheAssumption DEF Row, Time
    <3>4. /\ cache[d].page \subseteq RecordsOf(d)
          /\ \A t \in RecordsOf(d) : t < cache[d].fetched_at => t \in cache[d].page
      BY <3>1 DEF Inv, RowsHonest
    <3> QED
      BY <3>1, <3>2, <3>3, <3>4 DEF RecordsOf
  <2>2. e \in Entry
    BY <1>0, <2>1 DEF Entry
  <2>3. query' = [query EXCEPT ![q] = e] /\ UNCHANGED <<time, made, cache>>
    BY <1>0, <1>3 DEF Hit
  <2>4. /\ e.stage = "look" /\ e.now = query[q].now /\ e.dates = query[q].dates
        /\ e.todo = query[q].todo \ {d} /\ e.records = query[q].records \cup cache[d].page
        /\ query[q].stage = "look"
    BY <1>0, <1>3 DEF Entry, Hit, Turn
  <2>5. query'[q] = e
    BY <1>0, <2>3
  <2> HIDE DEF e
  <2>6. ASSUME NEW t \in made, DayOf[t] = DayOf[query[q].now], DayOf[t] = d,
               t + TODAY_TTL <= query[q].now
        PROVE  t \in cache[d].page
    <3>1. query[q].now \in Nat /\ t \in Nat /\ TODAY_TTL \in Nat
      BY <1>0, HistoryCacheAssumption DEF Entry
    <3>2. DayOf[query[q].now] \in Nat
      BY <1>0, <2>6
    <3>3. query[q].now < cache[d].fetched_at + TODAY_TTL
      BY <2>1, <2>6, <3>2 DEF IsCacheFresh
    <3>4. t < cache[d].fetched_at
      BY <2>1, <2>6, <3>1, <3>3
    <3> QED
      BY <2>1, <2>6, <3>4 DEF RecordsOf
  <2>7. Honest(q)'
    BY <1>0, <2>3, <2>4, <2>5, <2>6 DEF Honest
  <2> QED
    BY <2>2, <2>3, <2>7, OneQueryMoves
<1>4. ASSUME NEW d \in Date, Miss(q, d) PROVE Inv'
  <2> DEFINE e == [query[q] EXCEPT !.stage = "fetch", !.at = d]
  <2>1. e \in Entry
    BY <1>0 DEF Entry
  <2>2. query' = [query EXCEPT ![q] = e] /\ UNCHANGED <<time, made, cache>>
    BY <1>0, <1>4 DEF Miss
  <2>3. query'[q] = e
    BY <1>0, <2>2
  <2>4. Honest(q)'
    BY <1>0, <1>4, <2>2, <2>3 DEF Honest, Miss, Turn, Entry
  <2> HIDE DEF e
  <2> QED
    BY <2>1, <2>2, <2>4, OneQueryMoves
<1>5. CASE Fetch(q)
  <2> DEFINE e == [query[q] EXCEPT !.stage = "store",
                                   !.page = {t \in made : DayOf[t] = query[q].at}]
  <2>1. e \in Entry
    BY <1>0 DEF Entry
  <2>2. query' = [query EXCEPT ![q] = e] /\ UNCHANGED <<time, made, cache>>
    BY <1>0, <1>5 DEF Fetch
  <2>3. query'[q] = e
    BY <1>0, <2>2
  <2>4. /\ e.stage = "store" /\ e.at = query[q].at /\ e.now = query[q].now
        /\ e.todo = query[q].todo /\ e.dates = query[q].dates
        /\ e.records = query[q].records /\ query[q].stage = "fetch"
        /\ e.page = RecordsOf(query[q].at)
    BY <1>0, <1>5 DEF Entry, Fetch, RecordsOf
  <2> HIDE DEF e
  <2>6. Covers(query[q].page, query[q].at, query[q].now)'
    BY <2>2, <2>3, <2>4 DEF Covers, RecordsOf
  <2>7. Honest(q)'
    BY <1>0, <2>2, <2>3, <2>4, <2>6 DEF Honest
  <2> QED
    BY <2>1, <2>2, <2>7, OneQueryMoves
<1> QED
  BY <1>1, <1>2, <1>3, <1>4, <1>5

LEMMA StoreInv == ASSUME Inv, NEW q \in Query, Store(q) PROVE Inv'
<1>0. /\ query[q] \in Entry /\ query \in [Query -> Entry] /\ Honest(q)
      /\ time \in Time /\ time \in Nat /\ MaxTime \in Nat /\ made \subseteq 0 .. time
      /\ query[q].stage = "store"
      /\ query[q].at \in query[q].todo
      /\ Covers(query[q].page, query[q].at, query[q].now)
  <2>1. /\ query[q] \in Entry /\ query \in [Query -> Entry] /\ Honest(q)
        /\ time \in Time /\ made \subseteq 0 .. time
    BY DEF Inv, TypeOK
  <2>2. time \in Nat /\ MaxTime \in Nat
    BY <2>1, HistoryCacheAssumption DEF Time
  <2>3. query[q].stage = "store"
    BY DEF Store
  <2> QED
    BY <2>1, <2>2, <2>3 DEF Honest
<1> DEFINE d == query[q].at
           row == [page |-> query[q].page, fetched_at |-> query[q].now]
           e == [query[q] EXCEPT !.stage = "look", !.page = {},
                                 !.records = @ \cup query[q].page, !.todo = @ \ {d}]
<1>1. /\ d \in Date /\ d <= DayOf[time]
      /\ query[q].page \subseteq made
      /\ query[q].now \in 0 .. time
  BY <1>0 DEF Entry, Honest
<1>2. row \in Row /\ row # NoRow
  <2>1. query[q].now \in Time
    BY <1>0, <1>1 DEF Time
  <2>2. query[q].page \in SUBSET Time
    <3>1. 0 .. time \subseteq Time
      BY <1>0 DEF Time
    <3> QED
      BY <1>0, <1>1, <3>1
  <2>3. row \in Row
    BY <2>1, <2>2 DEF Row
  <2> QED
    BY <2>3, HistoryCacheAssumption DEF Row
<1>3. e \in Entry
  BY <1>0, <1>1 DEF Entry
<1>4. /\ cache' = [cache EXCEPT ![d] = row]
      /\ query' = [query EXCEPT ![q] = e]
      /\ UNCHANGED <<time, made>>
  BY <1>0 DEF Store, FetchedAt
<1>5. /\ e.stage = "look" /\ e.now = query[q].now /\ e.dates = query[q].dates
      /\ e.todo = query[q].todo \ {d} /\ e.records = query[q].records \cup query[q].page
  BY <1>0 DEF Entry
<1>6. row.page = query[q].page /\ row.fetched_at = query[q].now
  OBVIOUS
<1> HIDE DEF row, e
<1>7. query'[q] = e
  BY <1>0, <1>4
<1>8. /\ cache'[d] = row
      /\ \A c \in Date : c # d => cache'[c] = cache[c]
  BY <1>1, <1>4 DEF Inv, TypeOK
<1> HIDE DEF d
<1>9. TypeOK'
  <2>1. cache' \in [Date -> Row \cup {NoRow}]
    BY <1>2, <1>4 DEF Inv, TypeOK
  <2>2. \A c \in Date : cache'[c] # NoRow => c <= DayOf[time'] /\ cache'[c].fetched_at <= time'
    BY <1>0, <1>1, <1>4, <1>6, <1>8 DEF Inv, TypeOK
  <2>3. query' \in [Query -> Entry']
    BY <1>0, <1>3, <1>4 DEF Entry
  <2> QED
    BY <1>0, <1>4, <2>1, <2>2, <2>3 DEF Inv, TypeOK
<1>10. RowsHonest'
  BY <1>0, <1>4, <1>6, <1>8 DEF Inv, RowsHonest, Covers, RecordsOf, d
<1>11. Honest(q)'
  <2>1. ASSUME NEW t \in made, DayOf[t] = d, t + TODAY_TTL <= query[q].now
        PROVE  t \in query[q].page
    <3>1. query[q].now \in Nat /\ t \in Nat /\ TODAY_TTL \in Nat /\ TODAY_TTL > 0
      BY <1>0, <1>1, HistoryCacheAssumption
    <3>2. t < query[q].now
      BY <2>1, <3>1
    <3> QED
      BY <1>0, <2>1, <3>2 DEF Covers, RecordsOf, d
  <2> QED
    BY <1>0, <1>4, <1>5, <1>7, <2>1 DEF Honest
<1>12. ASSUME NEW p \in Query, p # q PROVE Honest(p)'
  <2>1. query'[p] = query[p]
    BY <1>0, <1>4, <1>12
  <2> QED
    BY <1>4, <2>1 DEF Inv, Honest, Covers, RecordsOf
<1> QED
  BY <1>9, <1>10, <1>11, <1>12 DEF Inv

LEMMA NextInv == Inv /\ [Next]_vars => Inv'
<1> SUFFICES ASSUME Inv, [Next]_vars PROVE Inv'
  OBVIOUS
<1>1. CASE UNCHANGED vars
  BY <1>1 DEF vars, Inv, TypeOK, Entry, RowsHonest, RecordsOf, Honest, Covers
<1>2. CASE Next
  BY <1>2, WorldInv, RowsGo, QueryInv, StoreInv DEF Next, QueryStep
<1> QED
  BY <1>1, <1>2

(* The invariant of the rows and of the queries in flight. *)
THEOREM Invariance == Spec => []Inv
  BY InitInv, NextInv, PTL DEF Spec

(* The rows, the queries and what was made keep their types. *)
THEOREM TypeCorrect == Spec => []TypeOK
<1>1. Inv => TypeOK
  BY DEF Inv
<1> QED
  BY Invariance, <1>1, PTL

(* No row claims to be newer than its page, however the queries overlap and *)
(* in whatever order they store.                                           *)
THEOREM RowsAreHonest == Spec => []RowsHonest
<1>1. Inv => RowsHonest
  BY DEF Inv
<1> QED
  BY Invariance, <1>1, PTL

(* What the answer lacks of the day it was asked on is younger than the TTL. *)
THEOREM AnswersAreCurrent == Spec => []AnswerCurrent
<1>1. Inv => AnswerCurrent
  <2> SUFFICES ASSUME Inv, NEW q \in Query, Answered(q), NEW t \in made,
                      DayOf[t] = DayOf[query[q].now], DayOf[t] \in query[q].dates,
                      t + TODAY_TTL <= query[q].now
               PROVE  t \in query[q].records
    BY DEF AnswerCurrent
  <2>1. query[q].stage = "look" /\ query[q].todo = {}
    BY DEF Answered
  <2> QED
    BY <2>1 DEF Inv, Honest
<1> QED
  BY Invariance, <1>1, PTL

-----------------------------------------------------------------------------
(* HistoryCommand: how the members asked about are accounted for *)

(* Who is being dealt with, and who was to be dealt with at first. *)
Current(r) == IF r.pc \in {"fetch", "equipped", "aggregated"} THEN {r.at} ELSE {}
Chosen(r) == r.todo \cup Current(r) \cup Whose(r.results) \cup Whose(r.failures)

Counted(results, failures) ==
  /\ IsFiniteSet(results) /\ IsFiniteSet(failures)
  /\ IsFiniteSet(Whose(results) \cup Whose(failures))
  /\ Cardinality(results) + Cardinality(failures) =
       Cardinality(Whose(results) \cup Whose(failures))

(* The chosen are in one place each. *)
Apart(r) ==
  /\ r.todo \cap Current(r) = {} /\ r.todo \cap Whose(r.results) = {}
  /\ r.todo \cap Whose(r.failures) = {} /\ Current(r) \cap Whose(r.results) = {}
  /\ Current(r) \cap Whose(r.failures) = {} /\ Whose(r.results) \cap Whose(r.failures) = {}
  /\ Current(r) \subseteq Member

WithKey == {m \in Member : Info[m].rows = "characters" /\ Info[m].present /\ Info[m].key # "none"}

(* Whom the command was to deal with, of those it was given. *)
Allotted(by, chosen, nokey, missing) ==
  /\ chosen \cap nokey = {} /\ (chosen \cup nokey) \cap Whose(missing) = {}
  /\ \A i \in DOMAIN by.named :
       <<by.named[i], i>> \in missing <=> by.named[i] \notin chosen \cup nokey
  /\ by.named # <<>> => chosen \cup nokey \cup Whose(missing) = Range(by.named)
  /\ by.named = <<>> =>
       /\ nokey = {} /\ missing = {} /\ chosen \subseteq WithKey
       /\ Cardinality(chosen) = Min({WideCap, Cardinality(WithKey)})
       /\ by.author \in WithKey => by.author \in chosen

Accounted(r) ==
  /\ Counted(r.results, r.failures) /\ Apart(r)
  /\ r.pc \notin {"idle", "refused"} => Allotted(r.by, Chosen(r), r.nokey, r.missing)
  /\ r.pc \in {"idle", "load"} => r.results = {} /\ r.failures = {}
  /\ r.pc \in {"table", "failed"} => r.todo = {}

(* What a summary told, and what the job has read to be told. *)
Told ==
  /\ \A d \in told : 2 * d + 1 <= now
  /\ job.pc \in {"read", "send"} =>
       job.now % 2 = 1 /\ \A d \in told : 2 * d + 1 < job.now
  /\ job.pc = "send" =>
       /\ \A r \in job.rows : r.told = 0 /\ Day(r.at) + 1 = Day(job.now)
       /\ \A r \in errors :
            Day(r.at) + 1 = Day(job.now) /\ r.type # "unmatched_equipment" =>
              (r \in job.rows <=> ~OwnKey(r))

BookInv == HistoryTypeOK /\ (\A c \in Call : Accounted(calls[c])) /\ Told /\ SummarisedOnce

LEMMA Less ==
  ASSUME NEW a \in Nat, NEW b \in Nat
  PROVE  Min({a, b}) = IF a <= b THEN a ELSE b
<1>1. \E m \in {a, b} : \A y \in {a, b} : m <= y
  OBVIOUS
<1> QED
  BY <1>1 DEF Min

(* A day has two parts, and the job runs in the second. *)
LEMMA Halves ==
  ASSUME NEW t \in Nat
  PROVE  /\ Day(t) \in Nat /\ 2 * Day(t) <= t /\ t <= 2 * Day(t) + 1
         /\ t % 2 = 1 => t = 2 * Day(t) + 1
  BY DEF Day

(* One more pair, of somebody new. *)
LEMMA OneMore ==
  ASSUME NEW a, NEW b, NEW m, NEW x, Counted(a, b), m \notin Whose(a), m \notin Whose(b)
  PROVE  Whose(a \cup {<<m, x>>}) = Whose(a) \cup {m} /\ Counted(a \cup {<<m, x>>}, b)
<1> DEFINE p == <<m, x>>
           more == a \cup {p}
           all == Whose(a) \cup Whose(b)
           n == Cardinality(a)
<1>1. Whose(more) = Whose(a) \cup {m}
  <2>1. p[1] = m
    OBVIOUS
  <2> HIDE DEF p
  <2>2. \A y : y \in Whose(more) <=> \E z \in more : y = z[1]
    BY DEF Whose
  <2>3. \A y : y \in Whose(a) <=> \E z \in a : y = z[1]
    BY DEF Whose
  <2> QED
    BY <2>1, <2>2, <2>3
<1>2. p \notin a
  BY DEF Whose
<1>3. /\ IsFiniteSet(a) /\ IsFiniteSet(b) /\ IsFiniteSet(all)
      /\ n \in Nat /\ Cardinality(b) \in Nat /\ n + Cardinality(b) = Cardinality(all)
  BY FS_CardinalityType DEF Counted
<1>4. IsFiniteSet(more) /\ Cardinality(more) = n + 1
  <2> HIDE DEF p
  <2> QED
    BY <1>2, <1>3, FS_AddElement
<1>5. IsFiniteSet(all \cup {m}) /\ Cardinality(all \cup {m}) = Cardinality(all) + 1
  <2>1. m \notin all
    OBVIOUS
  <2> HIDE DEF all
  <2> QED
    BY <1>3, <2>1, FS_AddElement
<1> HIDE DEF more, n
<1>6. Whose(more) \cup Whose(b) = all \cup {m}
  BY <1>1
<1>7. Counted(more, b)
  <2> DEFINE both == all \cup {m}
  <2>1. IsFiniteSet(both) /\ Cardinality(both) = Cardinality(all) + 1 /\ Whose(more) \cup Whose(b) = both
    BY <1>5, <1>6
  <2> HIDE DEF all, both
  <2>2. Cardinality(more) + Cardinality(b) = Cardinality(both)
    BY <1>3, <1>4, <2>1
  <2> QED
    BY <1>3, <1>4, <2>1, <2>2 DEF Counted
<1> QED
  BY <1>1, <1>7 DEF more

LEMMA EitherWay == ASSUME NEW a, NEW b, Counted(a, b) PROVE Counted(b, a)
<1>1. Whose(b) \cup Whose(a) = Whose(a) \cup Whose(b)
  OBVIOUS
<1>2. Cardinality(a) \in Nat /\ Cardinality(b) \in Nat
  BY FS_CardinalityType DEF Counted
<1>3. Cardinality(b) + Cardinality(a) = Cardinality(a) + Cardinality(b)
  BY <1>2
<1> QED
  BY <1>1, <1>3 DEF Counted

(* The one being dealt with gets a figure or a failure. *)
LEMMA TargetDone ==
  ASSUME NEW r, Accounted(r), r.pc \in {"fetch", "equipped", "aggregated"}, NEW x,
         NEW q, q.pc = "next", q.by = r.by, q.todo = r.todo, q.nokey = r.nokey,
         q.missing = r.missing,
         \/ q.results = r.results \cup {<<r.at, x>>} /\ q.failures = r.failures
         \/ q.failures = r.failures \cup {<<r.at, x>>} /\ q.results = r.results
  PROVE  Accounted(q)
<1> DEFINE A == Whose(r.results)
           B == Whose(r.failures)
<1>1. /\ r.at \notin A /\ r.at \notin B /\ Current(r) = {r.at}
      /\ Counted(r.results, r.failures) /\ Counted(r.failures, r.results)
  BY EitherWay DEF Accounted, Apart, Current
<1>2. /\ Counted(q.results, q.failures)
      /\ \/ Whose(q.results) = A \cup {r.at} /\ Whose(q.failures) = B
         \/ Whose(q.failures) = B \cup {r.at} /\ Whose(q.results) = A
  <2> DEFINE a == r.results
             b == r.failures
             m == r.at
  <2>0. Counted(a, b) /\ Counted(b, a) /\ m \notin Whose(a) /\ m \notin Whose(b)
    BY <1>1
  <2> HIDE DEF a, b, m
  <2>1. Whose(a \cup {<<m, x>>}) = Whose(a) \cup {m} /\ Counted(a \cup {<<m, x>>}, b)
    BY <2>0, OneMore
  <2>2. Whose(b \cup {<<m, x>>}) = Whose(b) \cup {m} /\ Counted(b \cup {<<m, x>>}, a)
    BY <2>0, OneMore
  <2>3. Counted(a, b \cup {<<m, x>>})
    BY <2>2, EitherWay
  <2>4. CASE q.results = a \cup {<<m, x>>} /\ q.failures = b
    BY <2>1, <2>4 DEF a, b, m
  <2>5. CASE q.failures = b \cup {<<m, x>>} /\ q.results = a
    BY <2>2, <2>3, <2>5 DEF a, b, m
  <2> QED
    BY <2>4, <2>5 DEF a, b, m
<1> HIDE DEF A, B
<1>3. Apart(q) /\ Chosen(q) = Chosen(r)
  BY <1>1, <1>2 DEF Accounted, Apart, Chosen, Current, A, B
<1> QED
  BY <1>2, <1>3 DEF Accounted

(* A step after which the same members are in the same places. *)
LEMMA SameAccount ==
  ASSUME NEW r, Accounted(r), NEW q, q.by = r.by, q.todo = r.todo, q.nokey = r.nokey,
         q.missing = r.missing, q.results = r.results, q.failures = r.failures,
         Current(q) = Current(r), q.pc \in {"table", "failed"} => q.todo = {},
         q.pc \notin {"idle", "refused"} => r.pc \notin {"idle", "refused"},
         q.pc \in {"idle", "load"} => r.pc \in {"idle", "load"}
  PROVE  Accounted(q)
<1>1. Chosen(q) = Chosen(r)
  BY DEF Chosen
<1>2. Apart(q) /\ Counted(q.results, q.failures)
  BY DEF Accounted, Apart
<1> QED
  BY <1>1, <1>2 DEF Accounted

(* select_with_self: as many as the cap allows, the author among them. *)
LEMMA Selected ==
  ASSUME NEW targets \in SUBSET Member, NEW self, NEW chosen \in SelectWithSelf(targets, self)
  PROVE  /\ chosen \subseteq targets /\ Cardinality(chosen) = Min({WideCap, Cardinality(targets)})
         /\ self \in targets => self \in chosen
<1>1. IsFiniteSet(targets) /\ Cardinality(targets) \in Nat /\ WideCap \in Nat \ {0}
  BY HistoryAssumption, FS_Subset, FS_CardinalityType
<1>2. CASE Cardinality(targets) <= WideCap
  BY <1>1, <1>2, Less DEF SelectWithSelf
<1>3. CASE ~(Cardinality(targets) <= WideCap)
  <2>1. PICK others \in kSubset(WideCap - Cardinality(targets \cap {self}), targets \ {self}) :
          chosen = (targets \cap {self}) \cup others
    BY <1>3 DEF SelectWithSelf
  <2>2. /\ others \subseteq targets \ {self} /\ IsFiniteSet(others)
        /\ Cardinality(others) = WideCap - Cardinality(targets \cap {self})
    BY <1>1, FS_Subset DEF kSubset
  <2>3. Cardinality(chosen) = WideCap
    <3>1. CASE self \in targets
      <4>1. targets \cap {self} = {self} /\ chosen = others \cup {self} /\ self \notin others
        BY <2>1, <2>2, <3>1
      <4>2. Cardinality({self}) = 1
        BY FS_Singleton
      <4>3. Cardinality(others \cup {self}) = Cardinality(others) + 1
        BY <2>2, <4>1, FS_AddElement
      <4> QED
        <5>1. Cardinality(others) = WideCap - 1
          BY <2>2, <4>1, <4>2
        <5>2. Cardinality(chosen) = Cardinality(others) + 1
          BY <4>1, <4>3
        <5> QED
          BY <1>1, <5>1, <5>2
    <3>2. CASE self \notin targets
      <4>1. targets \cap {self} = {} /\ chosen = others
        BY <2>1, <3>2
      <4>2. Cardinality(targets \cap {self}) = 0
        BY <4>1, FS_EmptySet
      <4> QED
        BY <1>1, <2>2, <4>1, <4>2
    <3> QED
      BY <3>1, <3>2
  <2>4. Min({WideCap, Cardinality(targets)}) = WideCap
    BY <1>1, <1>3, Less
  <2> QED
    BY <2>1, <2>2, <2>3, <2>4
<1> QED
  BY <1>2, <1>3

(* What a command is to do when it was given. *)
Asked(q) ==
  LET targets == Displayed(HistoryTargets(q.by.named))
      keyed == {m \in targets : Info[m].key # "none"}
  IN /\ q.by \in Given /\ q.missing = Missing(q.by.named)
     /\ q.todo \in IF q.by.named = <<>> THEN SelectWithSelf(keyed, q.by.author) ELSE {keyed}
     /\ q.nokey = IF q.by.named = <<>> THEN {} ELSE targets \ keyed

LEMMA AskedWell ==
  ASSUME NEW q, Asked(q)
  PROVE  /\ Allotted(q.by, q.todo, q.nokey, q.missing)
         /\ q.nokey \in SUBSET Member /\ q.todo \in SUBSET Member
         /\ q.missing \in SUBSET (Member \X Nat)
         /\ q.by \in [kind : {"none", "starforce", "potential"}, author : Member \cup {Nobody},
                      named : Seq(Member)]
<1> DEFINE named == q.by.named
           targets == Displayed(HistoryTargets(named))
           keyed == {m \in targets : Info[m].key # "none"}
<1> DEFINE empty == named = <<>>
<1>0. /\ q.by \in Given /\ q.missing = Mentions(named, targets)
      /\ q.todo \in IF empty THEN SelectWithSelf(keyed, q.by.author) ELSE {keyed}
      /\ q.nokey = IF empty THEN {} ELSE targets \ keyed
  BY DEF Asked, Missing
<1>1. /\ targets \in SUBSET Member /\ keyed \subseteq targets
      /\ ~empty => targets \subseteq Range(named)
      /\ empty => keyed = WithKey
  BY DEF Displayed, HistoryTargets, WithKey
<1>3. /\ named \in Seq(Member)
      /\ q.by \in [kind : {"none", "starforce", "potential"}, author : Member \cup {Nobody},
                   named : Seq(Member)]
  BY <1>0, HistoryAssumption
<1>4. /\ DOMAIN named \subseteq Nat /\ (\A i \in DOMAIN named : named[i] \in Member)
      /\ empty => DOMAIN named = {}
  BY <1>3
<1> HIDE DEF targets, keyed, named, empty
<1>5. /\ q.todo \subseteq keyed
      /\ ~empty => q.todo = keyed
      /\ empty =>
           /\ Cardinality(q.todo) = Min({WideCap, Cardinality(keyed)})
           /\ q.by.author \in keyed => q.by.author \in q.todo
  <2>1. CASE empty
    <3>1. q.todo \in SelectWithSelf(keyed, q.by.author) /\ keyed \in SUBSET Member
      BY <1>0, <1>1, <2>1
    <3>2. /\ q.todo \subseteq keyed /\ Cardinality(q.todo) = Min({WideCap, Cardinality(keyed)})
          /\ q.by.author \in keyed => q.by.author \in q.todo
      BY ONLY <3>1, Selected
    <3> QED
      BY <2>1, <3>2
  <2> QED
    BY <1>0, <2>1
<1>6. /\ q.missing \in SUBSET (Member \X Nat)
      /\ \A i \in DOMAIN named : <<named[i], i>> \in q.missing <=> named[i] \notin targets
      /\ \A p \in q.missing : \E i \in DOMAIN named : p = <<named[i], i>>
      /\ empty => q.missing = {}
  <2>1. \A p : p \in q.missing <=>
                \E i \in DOMAIN named : p = <<named[i], i>> /\ named[i] \notin targets
    BY <1>0 DEF Mentions
  <2>2. \A i, j : <<named[i], i>> = <<named[j], j>> => i = j
    OBVIOUS
  <2>3. \A i \in DOMAIN named : <<named[i], i>> \in Member \X Nat
    BY <1>4
  <2>4. q.missing \in SUBSET (Member \X Nat)
    BY ONLY <2>1, <2>3
  <2>5. \A i \in DOMAIN named : <<named[i], i>> \in q.missing <=> named[i] \notin targets
    BY ONLY <2>1, <2>2
  <2>6. /\ \A p \in q.missing : \E i \in DOMAIN named : p = <<named[i], i>>
        /\ empty => q.missing = {}
    BY ONLY <1>4, <2>1
  <2> QED
    BY ONLY <2>4, <2>5, <2>6
<1>7. /\ Whose(q.missing) \cap targets = {}
      /\ ~empty => targets \cup Whose(q.missing) = Range(named)
      /\ empty => Whose(q.missing) = {}
  <2>1. \A m : m \in Whose(q.missing) <=>
                \E i \in DOMAIN named : m = named[i] /\ m \notin targets
    <3>1. \A i : <<named[i], i>>[1] = named[i]
      OBVIOUS
    <3>2. \A m : m \in Whose(q.missing) <=> \E p \in q.missing : m = p[1]
      BY DEF Whose
    <3>3. ASSUME NEW p \in q.missing
          PROVE  \E i \in DOMAIN named : p[1] = named[i] /\ p[1] \notin targets
      <4>1. PICK i \in DOMAIN named : p = <<named[i], i>>
        BY <1>6
      <4>2. p[1] = named[i] /\ named[i] \notin targets
        BY <1>6, <3>1, <4>1
      <4> QED
        BY <4>2
    <3>4. ASSUME NEW i \in DOMAIN named, named[i] \notin targets PROVE named[i] \in Whose(q.missing)
      BY <1>6, <3>1, <3>2, <3>4
    <3> QED
      BY <3>2, <3>3, <3>4
  <2>2. \A m : m \in Range(named) <=> \E i \in DOMAIN named : m = named[i]
    BY DEF Range
  <2>3. Whose(q.missing) \cap targets = {}
    BY ONLY <2>1
  <2>4. ~empty => targets \cup Whose(q.missing) = Range(named)
    BY ONLY <1>1, <2>1, <2>2
  <2>5. empty => Whose(q.missing) = {}
    BY ONLY <1>4, <2>1
  <2> QED
    BY ONLY <2>3, <2>4, <2>5
<1>8. /\ ~empty => q.todo \cup q.nokey = targets
      /\ q.todo \cap q.nokey = {} /\ q.todo \cup q.nokey \subseteq targets
      /\ empty => q.nokey = {}
  BY <1>0, <1>1, <1>5
<1>9. Allotted(q.by, q.todo, q.nokey, q.missing)
  <2>1. /\ q.todo \cap q.nokey = {} /\ (q.todo \cup q.nokey) \cap Whose(q.missing) = {}
        /\ ~empty => q.todo \cup q.nokey \cup Whose(q.missing) = Range(named)
    BY <1>7, <1>8
  <2>2. \A i \in DOMAIN named :
          <<named[i], i>> \in q.missing <=> named[i] \notin q.todo \cup q.nokey
    BY <1>4, <1>6, <1>8
  <2>3. empty =>
          /\ q.nokey = {} /\ q.missing = {} /\ q.todo \subseteq WithKey
          /\ Cardinality(q.todo) = Min({WideCap, Cardinality(WithKey)})
          /\ q.by.author \in WithKey => q.by.author \in q.todo
    BY <1>1, <1>5, <1>6, <1>8
  <2> QED
    BY <2>1, <2>2, <2>3 DEF Allotted, named, empty
<1>10. q.nokey \in SUBSET Member /\ q.todo \in SUBSET Member
  BY <1>1, <1>8
<1> QED
  BY <1>3, <1>6, <1>9, <1>10

LEMMA NothingDone ==
  ASSUME NEW q, Allotted(q.by, q.todo, q.nokey, q.missing), Counted(q.results, q.failures),
         q.results = {}, q.failures = {}, q.pc \in {"failed", "load", "next"},
         q.pc = "failed" => q.todo = {}
  PROVE  Accounted(q)
<1>1. Whose(q.results) = {} /\ Whose(q.failures) = {}
  BY DEF Whose
<1>2. Apart(q) /\ Chosen(q) = q.todo
  BY <1>1 DEF Apart, Chosen, Current
<1> QED
  BY <1>2 DEF Accounted

LEMMA AskInv ==
  ASSUME NEW c \in Call, calls[c] \in CommandRecord(calls[c]), Accounted(calls[c]), Ask(c)
  PROVE  \E q : Keep(c, q) /\ q \in CommandRecord(q) /\ Accounted(q)
<1> DEFINE r == calls[c]
<1>1. PICK by \in Given :
        LET targets == Displayed(HistoryTargets(by.named))
            keyed == {m \in targets : Info[m].key # "none"}
        IN \E chosen \in IF by.named = <<>> THEN SelectWithSelf(keyed, by.author) ELSE {keyed} :
             Keep(c, [calls[c] EXCEPT
                        !.pc = IF chosen = {} THEN "failed"
                               ELSE IF by.kind = "starforce" THEN "load" ELSE "next",
                        !.by = by, !.todo = chosen,
                        !.nokey = IF by.named = <<>> THEN {} ELSE targets \ keyed,
                        !.missing = Missing(by.named)])
  BY DEF Ask
<1> DEFINE targets == Displayed(HistoryTargets(by.named))
           keyed == {m \in targets : Info[m].key # "none"}
           nokey == IF by.named = <<>> THEN {} ELSE targets \ keyed
           missing == Missing(by.named)
<1>2. PICK chosen \in IF by.named = <<>> THEN SelectWithSelf(keyed, by.author) ELSE {keyed} :
        Keep(c, [r EXCEPT !.pc = IF chosen = {} THEN "failed"
                                 ELSE IF by.kind = "starforce" THEN "load" ELSE "next",
                          !.by = by, !.todo = chosen, !.nokey = nokey, !.missing = missing])
  BY <1>1
<1> DEFINE pc == IF chosen = {} THEN "failed"
                 ELSE IF by.kind = "starforce" THEN "load" ELSE "next"
           q == [r EXCEPT !.pc = pc, !.by = by, !.todo = chosen, !.nokey = nokey,
                          !.missing = missing]
<1>3. Keep(c, q)
  BY <1>2
<1>4. pc \in {"failed", "load", "next"} /\ (pc = "failed" => chosen = {})
  OBVIOUS
<1>5. r \in CommandRecord(r) /\ r.pc = "idle" /\ Accounted(r)
  BY DEF Ask
<1>6. /\ nokey = IF by.named = <<>> THEN {} ELSE targets \ keyed
      /\ missing = Missing(by.named)
  OBVIOUS
<1> HIDE DEF pc, nokey, missing, r
<1>7. /\ q.pc = pc /\ q.by = by /\ q.todo = chosen /\ q.nokey = nokey /\ q.missing = missing
      /\ q.results = r.results /\ q.failures = r.failures
  BY <1>5 DEF CommandRecord
<1>8. /\ Allotted(by, chosen, nokey, missing) /\ nokey \in SUBSET Member
      /\ missing \in SUBSET (Member \X Nat) /\ chosen \in SUBSET Member
      /\ by \in [kind : {"none", "starforce", "potential"}, author : Member \cup {Nobody},
                 named : Seq(Member)]
  <2> HIDE DEF q
  <2>1. Asked(q)
    BY <1>2, <1>6, <1>7 DEF Asked
  <2> QED
    BY <1>7, <2>1, AskedWell
<1>9. q \in CommandRecord(q)
  BY <1>4, <1>5, <1>8 DEF CommandRecord
<1> HIDE DEF q
<1>10. Accounted(q)
  BY <1>4, <1>5, <1>7, <1>8, NothingDone DEF Accounted
<1> QED
  BY <1>3, <1>9, <1>10

(* The command goes on, with the same members in the same places. *)
LEMMA GoesOn ==
  ASSUME NEW c \in Call, calls[c] \in CommandRecord(calls[c]), Accounted(calls[c]),
         learned \in [Item -> Nat],
         Refuse(c) \/ Load(c) \/ Answer(c) \/ Aggregate(c)
           \/ (\E m \in Member : TakeTarget(c, m))
           \/ \E page : calls[c].pc = "fetch" /\ Keep(c, [calls[c] EXCEPT !.pc = "equipped", !.page = page])
  PROVE  \E q : Keep(c, q) /\ q \in CommandRecord(q) /\ Accounted(q)
<1> DEFINE r == calls[c]
<1>0. r \in CommandRecord(r) /\ Accounted(r)
  OBVIOUS
<1>1. CASE Refuse(c)
  <2> DEFINE q == [r EXCEPT !.pc = "refused"]
  <2>1. Keep(c, q) /\ r.pc = "idle"
    BY <1>1 DEF Refuse
  <2> HIDE DEF r
  <2>2. /\ q \in CommandRecord(q) /\ q.pc = "refused" /\ q.by = r.by /\ q.todo = r.todo
        /\ q.nokey = r.nokey /\ q.missing = r.missing /\ q.results = r.results
        /\ q.failures = r.failures /\ q.at = r.at
    BY <1>0 DEF CommandRecord
  <2> HIDE DEF q
  <2>3. Accounted(q)
    BY <1>0, <2>1, <2>2, SameAccount DEF Current
  <2> QED
    BY <2>1, <2>2, <2>3
<1>2. CASE Load(c)
  <2> DEFINE q == [r EXCEPT !.pc = "next", !.levels = learned]
  <2>1. Keep(c, q) /\ r.pc = "load"
    BY <1>2 DEF Load
  <2> HIDE DEF r
  <2>2. /\ q \in CommandRecord(q) /\ q.pc = "next" /\ q.by = r.by /\ q.todo = r.todo
        /\ q.nokey = r.nokey /\ q.missing = r.missing /\ q.results = r.results
        /\ q.failures = r.failures /\ q.at = r.at
    BY <1>0 DEF CommandRecord
  <2> HIDE DEF q
  <2>3. Accounted(q)
    BY <1>0, <2>1, <2>2, SameAccount DEF Current
  <2> QED
    BY <2>1, <2>2, <2>3
<1>3. CASE Answer(c)
  <2> DEFINE pc == IF r.results = {} THEN "failed" ELSE "table"
             q == [r EXCEPT !.pc = pc]
  <2>1. Keep(c, q) /\ r.pc = "next" /\ r.todo = {}
    BY <1>3 DEF Answer
  <2>2. pc \in {"failed", "table"}
    OBVIOUS
  <2> HIDE DEF r, pc
  <2>3. /\ q \in CommandRecord(q) /\ q.pc = pc /\ q.by = r.by /\ q.todo = r.todo
        /\ q.nokey = r.nokey /\ q.missing = r.missing /\ q.results = r.results
        /\ q.failures = r.failures /\ q.at = r.at
    BY <1>0, <2>2 DEF CommandRecord
  <2> HIDE DEF q
  <2>4. Accounted(q)
    BY <1>0, <2>1, <2>2, <2>3, SameAccount DEF Current
  <2> QED
    BY <2>1, <2>3, <2>4
<1>4. CASE Aggregate(c)
  <2>1. PICK summary : /\ r.pc = "equipped"
                       /\ Keep(c, [r EXCEPT !.pc = "aggregated", !.page = {}, !.summary = summary])
    BY <1>4 DEF Aggregate
  <2> DEFINE q == [r EXCEPT !.pc = "aggregated", !.page = {}, !.summary = summary]
  <2>2. Keep(c, q) /\ r.pc = "equipped"
    BY <2>1
  <2> HIDE DEF r
  <2>3. /\ q \in CommandRecord(q) /\ q.pc = "aggregated" /\ q.by = r.by /\ q.todo = r.todo
        /\ q.nokey = r.nokey /\ q.missing = r.missing /\ q.results = r.results
        /\ q.failures = r.failures /\ q.at = r.at
    BY <1>0 DEF CommandRecord
  <2> HIDE DEF q
  <2>4. Accounted(q)
    BY <1>0, <2>2, <2>3, SameAccount DEF Current
  <2> QED
    BY <2>2, <2>3, <2>4
<1>5. ASSUME NEW m \in Member, TakeTarget(c, m)
      PROVE  \E q : Keep(c, q) /\ q \in CommandRecord(q) /\ Accounted(q)
  <2>1. r.pc = "next" /\ m \in r.todo
    BY <1>5 DEF TakeTarget
  <2>2. CASE Keep(c, [r EXCEPT !.pc = "crashed"])
    <3> DEFINE q == [r EXCEPT !.pc = "crashed"]
    <3>1. Keep(c, q)
      BY <2>2
    <3> HIDE DEF r
    <3>2. /\ q \in CommandRecord(q) /\ q.pc = "crashed" /\ q.by = r.by /\ q.todo = r.todo
          /\ q.nokey = r.nokey /\ q.missing = r.missing /\ q.results = r.results
          /\ q.failures = r.failures /\ q.at = r.at
      BY <1>0 DEF CommandRecord
    <3> HIDE DEF q
    <3>3. Accounted(q)
      BY <1>0, <2>1, <3>2, SameAccount DEF Current
    <3> QED
      BY <3>1, <3>2, <3>3
  <2>3. CASE Keep(c, [r EXCEPT !.pc = "fetch", !.at = m, !.todo = r.todo \ {m}])
    <3> DEFINE left == r.todo \ {m}
               q == [r EXCEPT !.pc = "fetch", !.at = m, !.todo = left]
    <3>1. Keep(c, q)
      BY <2>3
    <3> HIDE DEF r
    <3>2. left \in SUBSET Member /\ r.todo = left \cup {m} /\ m \notin left
      BY <1>0, <2>1 DEF CommandRecord
    <3> HIDE DEF left
    <3>3. /\ q \in CommandRecord(q) /\ q.pc = "fetch" /\ q.by = r.by /\ q.todo = left
          /\ q.nokey = r.nokey /\ q.missing = r.missing /\ q.results = r.results
          /\ q.failures = r.failures /\ q.at = m
      BY <1>0, <3>2 DEF CommandRecord
    <3> HIDE DEF q
    <3>4. Current(r) = {} /\ Current(q) = {m}
      BY <2>1, <3>3 DEF Current
    <3>5. Apart(q) /\ Chosen(q) = Chosen(r)
      BY <1>0, <3>2, <3>3, <3>4 DEF Accounted, Apart, Chosen
    <3>6. Accounted(q)
      BY <1>0, <2>1, <3>3, <3>5 DEF Accounted
    <3> QED
      BY <3>1, <3>3, <3>6
  <2> QED
    BY <1>5, <2>2, <2>3 DEF TakeTarget
<1>6. ASSUME NEW page, r.pc = "fetch", Keep(c, [r EXCEPT !.pc = "equipped", !.page = page])
      PROVE  \E q : Keep(c, q) /\ q \in CommandRecord(q) /\ Accounted(q)
  <2> DEFINE q == [r EXCEPT !.pc = "equipped", !.page = page]
  <2>1. Keep(c, q) /\ r.pc = "fetch"
    BY <1>6
  <2> HIDE DEF r
  <2>2. /\ q \in CommandRecord(q) /\ q.pc = "equipped" /\ q.by = r.by /\ q.todo = r.todo
        /\ q.nokey = r.nokey /\ q.missing = r.missing /\ q.results = r.results
        /\ q.failures = r.failures /\ q.at = r.at
    BY <1>0 DEF CommandRecord
  <2> HIDE DEF q
  <2>3. Accounted(q)
    BY <1>0, <2>1, <2>2, SameAccount DEF Current
  <2> QED
    BY <2>1, <2>2, <2>3
<1> QED
  BY <1>1, <1>2, <1>3, <1>4, <1>5, <1>6

(* ... or it is through with a member. *)
LEMMA IsThrough ==
  ASSUME NEW c \in Call, calls[c] \in CommandRecord(calls[c]), Accounted(calls[c]),
         calls[c].pc \in {"fetch", "equipped", "aggregated"}, NEW x,
         \/ Keep(c, Fails(c, x))
         \/ Keep(c, NextTarget([calls[c] EXCEPT !.results =
                                  calls[c].results \cup {<<calls[c].at, x>>}]))
  PROVE  \E q : Keep(c, q) /\ q \in CommandRecord(q) /\ Accounted(q)
<1> DEFINE r == calls[c]
           results == r.results \cup {<<r.at, x>>}
           failures == r.failures \cup {<<r.at, x>>}
<1>0. r \in CommandRecord(r) /\ Accounted(r) /\ r.pc \in {"fetch", "equipped", "aggregated"}
  OBVIOUS
<1>1. CASE Keep(c, Fails(c, x))
  <2> DEFINE q == [[r EXCEPT !.failures = failures]
                     EXCEPT !.pc = "next", !.at = Nobody, !.page = {}, !.summary = NoSummary]
  <2>1. Keep(c, q)
    BY <1>1 DEF Fails, NextTarget
  <2>2. failures = r.failures \cup {<<r.at, x>>}
    OBVIOUS
  <2> HIDE DEF r, failures
  <2>3. /\ q \in CommandRecord(q) /\ q.pc = "next" /\ q.by = r.by /\ q.todo = r.todo
        /\ q.nokey = r.nokey /\ q.missing = r.missing /\ q.results = r.results
        /\ q.failures = failures
    BY <1>0 DEF CommandRecord
  <2> HIDE DEF q
  <2>4. Accounted(q)
    BY <1>0, <2>2, <2>3, TargetDone
  <2> QED
    BY <2>1, <2>3, <2>4
<1>2. CASE Keep(c, NextTarget([r EXCEPT !.results = results]))
  <2> DEFINE q == [[r EXCEPT !.results = results]
                     EXCEPT !.pc = "next", !.at = Nobody, !.page = {}, !.summary = NoSummary]
  <2>1. Keep(c, q)
    BY <1>2 DEF NextTarget
  <2>2. results = r.results \cup {<<r.at, x>>}
    OBVIOUS
  <2> HIDE DEF r, results
  <2>3. /\ q \in CommandRecord(q) /\ q.pc = "next" /\ q.by = r.by /\ q.todo = r.todo
        /\ q.nokey = r.nokey /\ q.missing = r.missing /\ q.results = results
        /\ q.failures = r.failures
    BY <1>0 DEF CommandRecord
  <2> HIDE DEF q
  <2>4. Accounted(q)
    BY <1>0, <2>2, <2>3, TargetDone
  <2> QED
    BY <2>1, <2>3, <2>4
<1> QED
  BY <1>1, <1>2

LEMMA CommandStep ==
  ASSUME NEW c \in Call, calls[c] \in CommandRecord(calls[c]), Accounted(calls[c]),
         learned \in [Item -> Nat], Command(c)
  PROVE  \E q : Keep(c, q) /\ q \in CommandRecord(q) /\ Accounted(q)
<1>1. CASE PageFails(c)
  BY <1>1, IsThrough DEF PageFails
<1>2. CASE FetchStarforce(c)
  BY <1>2, IsThrough, GoesOn DEF FetchStarforce
<1>3. CASE FetchPotential(c)
  BY <1>3, IsThrough DEF FetchPotential
<1>4. CASE Report(c)
  BY <1>4, IsThrough DEF Report, Succeeds
<1> QED
  BY <1>1, <1>2, <1>3, <1>4, AskInv, GoesOn DEF Command

-----------------------------------------------------------------------------
(* HistoryCommand: the log and its daily summary *)

(* A row that is written now is of no day that a summary is of. *)
Written(new) == \A r \in new : r \in ErrorRecord(r) /\ r.at = now /\ r.told = 0

LogOK == HistoryTypeOK /\ Told /\ SummarisedOnce
LogType ==
  /\ now \in Nat /\ told \subseteq Nat /\ \A r \in errors : r \in ErrorRecord(r)
  /\ job \in [pc : {"idle", "read", "send", "prune"}, now : 0 .. now, rows : SUBSET errors]

LEMMA LogGrows ==
  ASSUME LogOK, NEW new, Written(new), errors' = errors \cup new, UNCHANGED <<now, job, told>>
  PROVE  LogType' /\ Told' /\ SummarisedOnce'
<1>1. LogType /\ Told /\ SummarisedOnce
  BY DEF LogOK, HistoryTypeOK, LogType
<1>2. LogType'
  BY <1>1 DEF LogType, Written, ErrorRecord
<1>3. \A r \in new : r.at = now /\ r.told = 0
  BY DEF Written
<1>4. Day(now) + 1 \notin told
  <2>1. Day(now) \in Nat /\ now <= 2 * Day(now) + 1 /\ now \in Nat
    BY <1>1, Halves DEF LogType
  <2> SUFFICES ASSUME Day(now) + 1 \in told PROVE FALSE
    OBVIOUS
  <2>2. 2 * (Day(now) + 1) + 1 <= now
    BY <1>1 DEF Told
  <2> QED
    BY <2>1, <2>2
<1>5. SummarisedOnce'
  BY <1>1, <1>3, <1>4 DEF SummarisedOnce, OwnKey
<1>6. job.pc = "send" => Day(now) + 1 # Day(job.now)
  <2>1. now \in Nat /\ job.now \in Nat /\ job.now <= now
    BY <1>1 DEF LogType
  <2>2. /\ Day(now) \in Nat /\ now <= 2 * Day(now) + 1
        /\ Day(job.now) \in Nat /\ 2 * Day(job.now) <= job.now
    BY <2>1, Halves
  <2> QED
    BY <2>1, <2>2
<1>7. Told'
  BY <1>1, <1>3, <1>6 DEF Told, OwnKey
<1> QED
  BY <1>2, <1>5, <1>7

LEMMA CommandWrites ==
  ASSUME HistoryTypeOK, NEW c \in Call, Accounted(calls[c]), Command(c)
  PROVE  /\ learned' \in [Item -> Nat] /\ UNCHANGED <<now, job, told>>
         /\ \E new : Written(new) /\ errors' = errors \cup new
<1>1. /\ learned \in [Item -> Nat] /\ now \in 0 .. now /\ calls[c] \in CommandRecord(calls[c])
      /\ calls[c].at \in Member \cup {Nobody}
  BY DEF HistoryTypeOK, CommandRecord
<1>2. UNCHANGED <<now, job, told>>
  BY DEF Command, Refuse, Ask, Load, TakeTarget, PageFails, FetchStarforce, FetchPotential,
         Aggregate, Report, Answer, Keep
<1>3. Written({})
  BY DEF Written
<1>4. ASSUME NEW type \in Logged \cup {"unmatched_equipment"}, NEW what
      PROVE  LET e == ErrorRow(c, type, what) IN e \in ErrorRecord(e) /\ e.at = now /\ e.told = 0
  BY <1>1 DEF ErrorRow, ErrorRecord
<1>5. CASE PageFails(c)
  <2>1. PICK class \in Failures :
          Record(IF class \in Logged THEN {ErrorRow(c, class, <<>>)} ELSE {})
    BY <1>5 DEF PageFails
  <2>2. Written(IF class \in Logged THEN {ErrorRow(c, class, <<>>)} ELSE {})
    BY <1>3, <1>4 DEF Written
  <2> QED
    BY <1>1, <1>2, <1>5, <2>1, <2>2 DEF PageFails, Record
<1>6. CASE Report(c)
  <2> DEFINE new == {ErrorRow(c, "unmatched_equipment", g) : g \in calls[c].summary.unmatched}
  <2>1. Written(new)
    BY <1>4 DEF Written
  <2> QED
    BY <1>1, <1>2, <1>6, <2>1 DEF Report, Record
<1>7. CASE Aggregate(c)
  <2>1. PICK equipped \in {Info[calls[c].at].equipped, [i \in Item |-> 0]} :
          learned' = Overlaid(learned, equipped)
    BY <1>7 DEF Aggregate
  <2>2. equipped \in [Item -> Nat]
    <3>1. calls[c].at \in Member
      BY <1>7 DEF Aggregate, Accounted, Apart, Current
    <3>2. Info[calls[c].at].equipped \in [Item -> Nat]
      BY HistoryAssumption, FiguresAssumption, <3>1 DEF Level
    <3> QED
      BY <2>1, <3>2
  <2>3. learned' \in [Item -> Nat]
    BY <1>1, <2>1, <2>2 DEF Overlaid, FirstKnown
  <2> QED
    BY <1>2, <1>3, <1>7, <2>3 DEF Aggregate
<1>8. ASSUME UNCHANGED <<learned, errors>>
      PROVE  learned' \in [Item -> Nat] /\ \E new : Written(new) /\ errors' = errors \cup new
  <2>1. errors' = errors \cup {}
    BY <1>8
  <2> QED
    BY <1>1, <1>3, <1>8, <2>1
<1> QED
  BY <1>2, <1>5, <1>6, <1>7, <1>8
     DEF Command, Refuse, Ask, Load, TakeTarget, FetchStarforce, FetchPotential, Answer

LEMMA CommandInv == ASSUME BookInv, NEW c \in Call, Command(c) PROVE BookInv'
<1>1. /\ HistoryTypeOK /\ Accounted(calls[c]) /\ calls[c] \in CommandRecord(calls[c])
      /\ learned \in [Item -> Nat] /\ LogOK
  BY DEF BookInv, HistoryTypeOK, LogOK
<1>2. PICK q : Keep(c, q) /\ q \in CommandRecord(q) /\ Accounted(q)
  BY <1>1, CommandStep
<1>3. PICK new : Written(new) /\ errors' = errors \cup new
  BY <1>1, CommandWrites
<1>4. learned' \in [Item -> Nat] /\ UNCHANGED <<now, job, told>>
  BY <1>1, CommandWrites
<1>5. LogType' /\ Told' /\ SummarisedOnce'
  BY <1>1, <1>3, <1>4, LogGrows
<1>6. /\ calls' = [d \in Call |-> calls'[d]] /\ calls'[c] = q
      /\ \A d \in Call : d # c => calls'[d] = calls[d]
  BY <1>1, <1>2 DEF Keep, HistoryTypeOK
<1>7. \A d \in Call : calls'[d] \in CommandRecord(calls'[d]) /\ Accounted(calls'[d])
  BY <1>2, <1>6 DEF BookInv, HistoryTypeOK
<1>8. HistoryTypeOK'
  BY <1>4, <1>5, <1>6, <1>7 DEF HistoryTypeOK, LogType
<1> QED
  BY <1>5, <1>7, <1>8 DEF BookInv

(* The commands take no part in what follows. *)
LEMMA CommandsStay ==
  ASSUME BookInv, UNCHANGED <<calls, learned>>, LogType', Told', SummarisedOnce'
  PROVE  BookInv'
<1>1. HistoryTypeOK'
  BY DEF BookInv, HistoryTypeOK, LogType
<1> QED
  BY <1>1 DEF BookInv

LEMMA AppKeyInv == ASSUME BookInv, AppKeyFails PROVE BookInv'
<1> DEFINE e == [call |-> Nobody, type |-> "auth_invalid", user |-> Nobody,
                 what |-> <<>>, at |-> now, told |-> 0]
<1>1. now \in 0 .. now /\ LogOK
  BY DEF BookInv, HistoryTypeOK, LogOK
<1>2. Written({e})
  BY <1>1 DEF Written, ErrorRecord, Logged
<1>3. errors' = errors \cup {e} /\ UNCHANGED <<now, calls, learned, job, told>>
  BY DEF AppKeyFails
<1> HIDE DEF e
<1> QED
  BY <1>1, <1>2, <1>3, LogGrows, CommandsStay

LEMMA PartInv == ASSUME BookInv, PartPasses PROVE BookInv'
<1>1. LogType /\ Told /\ SummarisedOnce
  BY DEF BookInv, HistoryTypeOK, LogType
<1>2. now \in Nat /\ now' = now + 1 /\ UNCHANGED <<calls, learned, errors, told>>
  BY <1>1 DEF PartPasses, LogType
<1>3. SummarisedOnce'
  BY <1>1, <1>2 DEF SummarisedOnce, OwnKey
<1>4. 0 .. now \subseteq 0 .. now'
  BY <1>2
<1>5. \A r \in errors : r \in ErrorRecord(r)'
  BY <1>1, <1>4 DEF LogType, ErrorRecord
<1>6. \A d \in told : d \in Nat /\ 2 * d + 1 <= now /\ 2 * d + 1 <= now'
  BY <1>1, <1>2 DEF LogType, Told
<1>7. CASE UNCHANGED job
  <2>1. LogType'
    BY <1>1, <1>2, <1>4, <1>5, <1>7 DEF LogType
  <2>2. Told'
    BY <1>1, <1>2, <1>6, <1>7 DEF Told, OwnKey
  <2> QED
    BY <1>2, <1>3, <2>1, <2>2, CommandsStay
<1>8. CASE NineOClock(now + 1) /\ job' = [pc |-> "read", now |-> now + 1, rows |-> {}]
  <2>1. job'.pc = "read" /\ job'.now = now' /\ now' % 2 = 1 /\ now' \in 0 .. now'
    BY <1>2, <1>8 DEF NineOClock
  <2>2. LogType'
    BY <1>1, <1>2, <1>5, <1>8, <2>1 DEF LogType
  <2>3. \A d \in told : 2 * d + 1 < now'
    BY <1>2, <1>6
  <2>4. Told'
    BY <1>2, <1>6, <2>1, <2>3 DEF Told
  <2> QED
    BY <1>2, <1>3, <2>2, <2>4, CommandsStay
<1> QED
  BY <1>7, <1>8 DEF PartPasses

LEMMA JobReadInv == ASSUME BookInv, JobRead PROVE BookInv'
<1>1. LogType /\ Told /\ SummarisedOnce /\ job.pc = "read"
  BY DEF BookInv, HistoryTypeOK, LogType, JobRead
<1>2. PICK top : job' = [job EXCEPT
        !.pc = IF Summary(OfYesterday(job.now), top) = {} THEN "prune" ELSE "send",
        !.rows = Summary(OfYesterday(job.now), top)]
  BY DEF JobRead
<1> DEFINE rows == Summary(OfYesterday(job.now), top)
           pc == IF rows = {} THEN "prune" ELSE "send"
<1>3. UNCHANGED <<now, calls, learned, errors, told>> /\ pc \in {"prune", "send"}
  BY DEF JobRead
<1>4. job' = [job EXCEPT !.pc = pc, !.rows = rows]
  BY <1>2
<1>5. /\ rows \subseteq errors /\ \A r \in rows : Day(r.at) = Day(job.now) - 1
      /\ \A r \in errors : Day(r.at) = Day(job.now) - 1 /\ r.type # "unmatched_equipment" =>
           (r \in rows <=> ~OwnKey(r))
  BY DEF Summary, OfYesterday
<1> HIDE DEF rows, pc
<1>6. job'.pc = pc /\ job'.rows = rows /\ job'.now = job.now /\ LogType'
  BY <1>1, <1>3, <1>4, <1>5 DEF LogType, ErrorRecord
<1>7. Day(job.now) \in Nat /\ Day(job.now) \notin told
  <2>1. job.now \in Nat /\ job.now % 2 = 1 /\ \A d \in told : 2 * d + 1 < job.now
    BY <1>1 DEF LogType, Told
  <2>2. Day(job.now) \in Nat /\ job.now = 2 * Day(job.now) + 1
    BY <2>1, Halves
  <2> QED
    BY <2>1, <2>2
<1>8. \A r \in errors : Day(r.at) \in Nat /\ r.told \in Nat
  BY <1>1, Halves DEF LogType, ErrorRecord
<1>9. \A r \in errors : Day(r.at) + 1 = Day(job.now) => r.told = 0
  BY <1>1, <1>7, <1>8 DEF SummarisedOnce
<1>10. \A r \in errors : Day(r.at) = Day(job.now) - 1 <=> Day(r.at) + 1 = Day(job.now)
  BY <1>7, <1>8
<1>11. Told'
  BY <1>1, <1>3, <1>5, <1>6, <1>9, <1>10 DEF Told, OwnKey
<1>12. SummarisedOnce'
  BY <1>1, <1>3 DEF SummarisedOnce, OwnKey
<1> QED
  BY <1>3, <1>6, <1>11, <1>12, CommandsStay

LEMMA JobSendInv == ASSUME BookInv, JobSend PROVE BookInv'
<1>1. LogType /\ Told /\ SummarisedOnce /\ job.pc = "send"
  BY DEF BookInv, HistoryTypeOK, LogType, JobSend
<1>2. job' = [job EXCEPT !.pc = "prune", !.rows = {}] /\ UNCHANGED <<now, calls, learned>>
  BY DEF JobSend
<1>3. job'.pc = "prune" /\ job' \in [pc : {"idle", "read", "send", "prune"}, now : 0 .. now,
                                    rows : SUBSET errors']
  BY <1>1, <1>2 DEF LogType
<1>4. CASE UNCHANGED <<errors, told>>
  <2>1. LogType' /\ Told' /\ SummarisedOnce'
    BY <1>1, <1>2, <1>3, <1>4 DEF LogType, ErrorRecord, Told, SummarisedOnce, OwnKey
  <2> QED
    BY <1>2, <2>1, CommandsStay
<1>5. CASE /\ errors' = {IF r \in job.rows THEN [r EXCEPT !.told = @ + 1] ELSE r : r \in errors}
           /\ told' = told \cup {Day(job.now)}
  <2> DEFINE day == Day(job.now)
  <2>1. /\ job.now \in Nat /\ job.now <= now /\ now \in Nat /\ job.now % 2 = 1
        /\ \A d \in told : d \in Nat /\ 2 * d + 1 < job.now
    BY <1>1 DEF LogType, Told
  <2>2. day \in Nat /\ job.now = 2 * day + 1
    BY <2>1, Halves
  <2>3. day \notin told
    BY <2>1, <2>2
  <2>4. told' \subseteq Nat /\ \A d \in told' : 2 * d + 1 <= now
    BY <1>5, <2>1, <2>2
  <2> HIDE DEF day
  <2>5. ASSUME NEW e \in errors'
        PROVE  \E r \in errors :
                 /\ e \in ErrorRecord(e) /\ e.at = r.at /\ e.type = r.type /\ e.user = r.user
                 /\ e.told = IF r \in job.rows THEN r.told + 1 ELSE r.told
    <3>1. PICK r \in errors : e = IF r \in job.rows THEN [r EXCEPT !.told = r.told + 1] ELSE r
      BY <1>5
    <3>2. r \in ErrorRecord(r)
      BY <1>1 DEF LogType
    <3> DEFINE more == r.told + 1
    <3>3. more \in Nat /\ e = IF r \in job.rows THEN [r EXCEPT !.told = more] ELSE r
      BY <3>1, <3>2 DEF ErrorRecord
    <3> HIDE DEF more
    <3>4. /\ e \in ErrorRecord(e) /\ e.at = r.at /\ e.type = r.type /\ e.user = r.user
          /\ e.told = IF r \in job.rows THEN more ELSE r.told
      BY <3>2, <3>3 DEF ErrorRecord
    <3> QED
      BY <3>4 DEF more
  <2>6. \A e \in errors' : e \in ErrorRecord(e)'
    BY <1>2, <2>5 DEF ErrorRecord
  <2>7. LogType'
    BY <1>1, <1>2, <1>3, <2>4, <2>6 DEF LogType
  <2>8. Told'
    BY <1>2, <1>3, <2>4 DEF Told
  <2>9. SummarisedOnce'
    <3> SUFFICES ASSUME NEW e \in errors'
                 PROVE  /\ e.told <= 1 /\ (e.told = 1 => Day(e.at) + 1 \in told')
                        /\ Day(e.at) + 1 \in told' /\ e.type # "unmatched_equipment" =>
                             (e.told = 1 <=> ~OwnKey(e))
      BY DEF SummarisedOnce, OwnKey
    <3>1. PICK r \in errors :
            /\ e.at = r.at /\ e.type = r.type /\ e.user = r.user
            /\ e.told = IF r \in job.rows THEN r.told + 1 ELSE r.told
      BY <2>5
    <3>2. OwnKey(e) <=> OwnKey(r)
      BY <3>1 DEF OwnKey
    <3>3. /\ r.told <= 1 /\ (r.told = 1 => Day(r.at) + 1 \in told)
          /\ Day(r.at) + 1 \in told /\ r.type # "unmatched_equipment" => (r.told = 1 <=> ~OwnKey(r))
      BY <1>1 DEF SummarisedOnce
    <3>4. /\ r \in job.rows => r.told = 0 /\ Day(r.at) + 1 = day
          /\ Day(r.at) + 1 = day /\ r.type # "unmatched_equipment" => (r \in job.rows <=> ~OwnKey(r))
      BY <1>1 DEF Told, day
    <3>5. told' = told \cup {day} /\ r.told \in Nat
      BY <1>1, <1>5 DEF day, LogType, ErrorRecord
    <3>6. CASE Day(r.at) + 1 = day
      <4>1. r.told = 0
        BY <2>3, <3>3, <3>5, <3>6
      <4> QED
        BY <3>1, <3>2, <3>4, <3>5, <3>6, <4>1
    <3>7. CASE Day(r.at) + 1 # day
      BY <3>1, <3>2, <3>3, <3>4, <3>5, <3>7
    <3> QED
      BY <3>6, <3>7
  <2> QED
    BY <1>2, <2>7, <2>8, <2>9, CommandsStay
<1> QED
  BY <1>4, <1>5 DEF JobSend

LEMMA JobPruneInv == ASSUME BookInv, JobPrune PROVE BookInv'
<1>1. LogType /\ Told /\ SummarisedOnce
  BY DEF BookInv, HistoryTypeOK, LogType
<1>2. /\ job' = NoJob /\ errors' \subseteq errors /\ UNCHANGED <<now, calls, learned, told>>
  BY DEF JobPrune
<1>3. LogType' /\ Told' /\ SummarisedOnce'
  BY <1>1, <1>2 DEF NoJob, LogType, ErrorRecord, Told, SummarisedOnce, OwnKey
<1> QED
  BY <1>2, <1>3, CommandsStay

-----------------------------------------------------------------------------
LEMMA BookInit == HistoryInit => BookInv
<1> SUFFICES ASSUME HistoryInit PROVE BookInv
  OBVIOUS
<1>1. HistoryTypeOK
  <2>1. Unasked \in CommandRecord(Unasked)
    BY DEF Unasked, CommandRecord
  <2> QED
    BY <2>1 DEF HistoryInit, HistoryTypeOK, NoJob
<1>2. /\ Unasked.pc = "idle" /\ Unasked.results = {} /\ Unasked.failures = {} /\ Unasked.todo = {}
  BY DEF Unasked
<1>3. Whose({}) = {} /\ Counted({}, {})
  <2>1. Whose({}) = {} /\ Whose({}) \cup Whose({}) = {}
    BY DEF Whose
  <2> QED
    BY <2>1, FS_EmptySet DEF Counted
<1>4. Accounted(Unasked)
  BY <1>2, <1>3 DEF Accounted, Apart, Current
<1>5. \A c \in Call : Accounted(calls[c])
  BY <1>4 DEF HistoryInit
<1>6. Told /\ SummarisedOnce
  BY DEF HistoryInit, Told, NoJob, SummarisedOnce
<1> QED
  BY <1>1, <1>5, <1>6 DEF BookInv

LEMMA BookNext == BookInv /\ [HistoryNext]_historyVars => BookInv'
<1> SUFFICES ASSUME BookInv, [HistoryNext]_historyVars PROVE BookInv'
  OBVIOUS
<1>1. CASE UNCHANGED historyVars
  BY <1>1 DEF historyVars, BookInv, HistoryTypeOK, ErrorRecord, Told, SummarisedOnce, OwnKey
<1> QED
  BY <1>1, CommandInv, AppKeyInv, PartInv, JobReadInv, JobSendInv, JobPruneInv
     DEF HistoryNext, OpsJob

LEMMA BookKept == HistorySpec => []BookInv
  BY BookInit, BookNext, PTL DEF HistorySpec

(* The commands, what they learn, the log and the job keep their types. *)
THEOREM HistoryTypeCorrect == HistorySpec => []HistoryTypeOK
<1>1. BookInv => HistoryTypeOK
  BY DEF BookInv
<1> QED
  BY <1>1, BookKept, PTL

(* Everybody named in a command is in one list of the answer, once unless  *)
(* it is not registered, and then as often as it is named; without names   *)
(* as many members with a key as the cap allows are, the author among them *)
(* - for any members, keys, caps and pages, any options that may name the  *)
(* same member, and in any order of the targets.                           *)
THEOREM AnsweredExactlyOnce == HistorySpec => []EveryoneAnsweredOnce
<1>1. ASSUME BookInv PROVE EveryoneAnsweredOnce
  <2> SUFFICES ASSUME NEW c \in Call, calls[c].pc \in {"table", "failed"}
               PROVE  AnsweredOnce(calls[c])
    BY DEF EveryoneAnsweredOnce
  <2> DEFINE r == calls[c]
             A == Whose(r.results)
             B == Whose(r.failures)
             N == r.nokey
             M == Whose(r.missing)
             lists == <<A, B, N, M>>
             everyone == UNION {lists[i] : i \in DOMAIN lists}
  <2>1. Accounted(r) /\ r.pc \in {"table", "failed"}
    BY <1>1 DEF BookInv
  <2> HIDE DEF r
  <2>2. r.todo \cup Current(r) = {} /\ Chosen(r) = A \cup B /\ A \cap B = {}
    BY <2>1 DEF Accounted, Apart, Chosen, Current
  <2>3. Allotted(r.by, A \cup B, N, r.missing)
    BY <2>1, <2>2 DEF Accounted
  <2>4. Cardinality(r.results) + Cardinality(r.failures) = Cardinality(A \cup B)
    BY <2>1 DEF Accounted, Counted
  <2>5. /\ (A \cup B) \cap N = {} /\ ((A \cup B) \cup N) \cap M = {}
        /\ \A i \in DOMAIN r.by.named :
             <<r.by.named[i], i>> \in r.missing <=> r.by.named[i] \notin (A \cup B) \cup N
        /\ r.by.named # <<>> => ((A \cup B) \cup N) \cup M = Range(r.by.named)
    BY <2>3 DEF Allotted
  <2>6. r.by.named = <<>> =>
          /\ M = {} /\ N = {} /\ A \cup B \subseteq WithKey
          /\ Cardinality(A \cup B) = Min({WideCap, Cardinality(WithKey)})
          /\ r.by.author \in WithKey => r.by.author \in A \cup B
    BY <2>3 DEF Allotted, Whose
  <2> HIDE DEF A, B, N, M
  <2>7. /\ DOMAIN lists = {1, 2, 3, 4}
        /\ lists[1] = A /\ lists[2] = B /\ lists[3] = N /\ lists[4] = M
    OBVIOUS
  <2> HIDE DEF lists
  <2>8. everyone = ((A \cup B) \cup N) \cup M
    BY <2>7
  <2>9. \A i, j \in DOMAIN lists : i # j => lists[i] \cap lists[j] = {}
    BY <2>2, <2>5, <2>7
  <2> HIDE DEF everyone
  <2>10. r.by.named = <<>> =>
           /\ everyone \subseteq WithKey
           /\ Cardinality(everyone) = Min({WideCap, Cardinality(WithKey)})
           /\ r.by.author \in WithKey => r.by.author \in everyone
    <3>1. r.by.named = <<>> => everyone = A \cup B
      BY <2>6, <2>8
    <3> QED
      BY <2>6, <3>1
  <2>11. Cardinality(r.results) + Cardinality(r.failures) = Cardinality(lists[1] \cup lists[2])
    BY <2>4, <2>7
  <2>12. \A i \in DOMAIN r.by.named :
           <<r.by.named[i], i>> \in r.missing
             <=> r.by.named[i] \notin lists[1] \cup lists[2] \cup lists[3]
    BY <2>5, <2>7
  <2>13. r.by.named # <<>> => everyone = Range(r.by.named)
    BY <2>5, <2>8
  <2>14. AnsweredOnce(r)
    BY <2>9, <2>10, <2>11, <2>12, <2>13
    DEF AnsweredOnce, WithKey, lists, everyone, A, B, N, M
  <2> QED
    BY <2>14 DEF r
<1> QED
  BY <1>1, BookKept, PTL

(* No error is told of in two summaries, and the summary of a day leaves   *)
(* none out, unless it is of a member's own key or of a rare item, however *)
(* the commands that log errors interleave with the job.                   *)
THEOREM ToldExactlyOnce == HistorySpec => []SummarisedOnce
<1>1. BookInv => SummarisedOnce
  BY DEF BookInv
<1> QED
  BY <1>1, BookKept, PTL

-----------------------------------------------------------------------------
(* Greatest common divisors *)

(* What stands for an induction: the least number of a set. *)
LEMMA LeastNumber ==
  ASSUME NEW T, T \subseteq Nat, T # {}
  PROVE  \E n \in T : \A m \in T : n <= m
<1>1. PICK n \in T : \A m \in T : <<m, n>> \notin OpToRel(<, Nat)
  BY NatLessThanWellFounded, WFMin
<1>2. \A m \in T : ~(m < n)
  BY <1>1 DEF OpToRel
<1> QED BY <1>2

(* Facts of arithmetic, each small enough for the provers. *)
LEMMA Product == ASSUME NEW a \in Nat \ {0}, NEW b \in Nat \ {0} PROVE a * b \in Nat \ {0}
  OBVIOUS

LEMMA Grouped == ASSUME NEW a \in Nat, NEW b \in Nat, NEW c \in Nat PROVE a * (b * c) = (a * b) * c
  OBVIOUS

LEMMA Quotient ==
  ASSUME NEW a \in Nat, NEW b \in Nat \ {0}, NEW q \in Nat, NEW r \in Nat, r < b, a = b * q + r
  PROVE  a \div b = q /\ a % b = r
<1>1. a \div b = q
  OBVIOUS
<1>2. a % b = r
  OBVIOUS
<1> QED BY <1>1, <1>2

LEMMA Exact == ASSUME NEW b \in Nat \ {0}, NEW q \in Nat PROVE (b * q) \div b = q
  OBVIOUS

LEMMA Division ==
  ASSUME NEW a \in Nat, NEW b \in Nat \ {0}
  PROVE  /\ a \div b \in Nat /\ a % b \in Nat /\ a % b < b
         /\ a = b * (a \div b) + (a % b)
  OBVIOUS

(* The recursive function gcd exists, as the greatest common divisors do    *)
(* what its definition asks for.                                           *)
Euclid(f) == f = [p \in Nat \X Nat |-> IF p[2] = 0 THEN p[1] ELSE f[<<p[2], p[1] % p[2]>>]]

LEMMA EuclidStep == ASSUME NEW f, Euclid(f), NEW x \in Nat, NEW y \in Nat
  PROVE  f[<<x, y>>] = IF y = 0 THEN x ELSE f[<<y, x % y>>]
  BY DEF Euclid

Multiple(a, k) == \E q \in Nat : a = k * q
CommonDivisors(a, b) == {k \in Nat \ {0} : Multiple(a, k) /\ Multiple(b, k)}
Greatest(a, b) == IF a = 0 /\ b = 0 THEN 0 ELSE Max(CommonDivisors(a, b))

(* What divides b divides a just when it divides what remains. *)
LEMMA Remains ==
  ASSUME NEW a \in Nat, NEW b \in Nat \ {0}, NEW k \in Nat \ {0}, Multiple(b, k)
  PROVE  Multiple(a, k) <=> Multiple(a % b, k)
<1> DEFINE d == a \div b
           r == a % b
<1>1. d \in Nat /\ r \in Nat /\ a = b * d + r
  BY Division
<1> HIDE DEF d, r
<1>2. PICK q \in Nat : b = k * q
  BY DEF Multiple
<1>3. ASSUME NEW p \in Nat, a = k * p PROVE \E z \in Nat : r = k * z
  <2>1. r = k * p - k * q * d
    BY <1>1, <1>2, <1>3
  <2>2. r = k * (p - q * d)
    BY <1>1, <2>1
  <2> DEFINE z == p - q * d
  <2>3. z \in Int /\ r = k * z
    BY <1>1, <2>2
  <2> HIDE DEF z
  <2>4. z >= 0
    BY <1>1, <2>3
  <2> QED BY <2>3, <2>4
<1>4. ASSUME NEW p \in Nat, r = k * p PROVE \E z \in Nat : a = k * z
  <2>1. a = k * q * d + k * p
    BY <1>1, <1>2, <1>4
  <2>2. a = k * (q * d + p)
    BY <1>1, <2>1
  <2>3. q * d + p \in Nat
    BY <1>1
  <2> QED BY <2>2, <2>3
<1> QED BY <1>3, <1>4 DEF Multiple, r

LEMMA GreatestStep ==
  ASSUME NEW a \in Nat, NEW b \in Nat
  PROVE  Greatest(a, b) = IF b = 0 THEN a ELSE Greatest(b, a % b)
<1>1. CASE b = 0
  <2>1. CASE a = 0
    BY <1>1, <2>1 DEF Greatest
  <2>2. CASE a # 0
    <3>1. a \in CommonDivisors(a, b)
      <4>1. a = a * 1 /\ b = a * 0
        BY <1>1
      <4> QED BY <2>2, <4>1 DEF CommonDivisors, Multiple
    <3>2. ASSUME NEW k \in CommonDivisors(a, b) PROVE k \in Nat /\ a >= k
      <4>1. PICK q \in Nat : a = k * q
        BY DEF CommonDivisors, Multiple
      <4>2. k \in Nat /\ q # 0
        BY <2>2, <4>1 DEF CommonDivisors
      <4>3. q - 1 \in Nat /\ a = k + k * (q - 1)
        BY <4>1, <4>2
      <4>4. k * (q - 1) >= 0
        BY <4>2, <4>3
      <4>5. k * (q - 1) \in Nat
        BY <4>2, <4>3
      <4> DEFINE z == k * (q - 1)
      <4>6. z \in Nat /\ a = k + z
        BY <4>3, <4>5
      <4> HIDE DEF z
      <4> QED BY <4>2, <4>6
    <3> DEFINE D == CommonDivisors(a, b)
    <3> HIDE DEF D
    <3>3. a \in D /\ \A k \in D : k \in Nat /\ a >= k
      BY <3>1, <3>2 DEF D
    <3>4. Max(D) = a
      <4> DEFINE m == Max(D)
      <4>1. m \in D /\ \A k \in D : m >= k
        BY <3>3 DEF Max
      <4> HIDE DEF m
      <4>2. m >= a /\ a >= m /\ m \in Nat
        BY <3>3, <4>1
      <4>3. m = a
        BY <4>2
      <4> QED BY <4>3 DEF m
    <3> QED BY <1>1, <2>2, <3>4 DEF Greatest, D
  <2> QED BY <2>1, <2>2
<1>2. CASE b # 0
  <2> DEFINE r == a % b
  <2>1. r \in Nat
    BY <1>2, Division
  <2>2. ASSUME NEW k \in Nat \ {0}
        PROVE  Multiple(a, k) /\ Multiple(b, k) <=> Multiple(b, k) /\ Multiple(r, k)
    BY <1>2, Remains
  <2> HIDE DEF r
  <2>3. CommonDivisors(a, b) = CommonDivisors(b, r)
    BY <2>2 DEF CommonDivisors
  <2>4. Greatest(a, b) = Greatest(b, r)
    BY <1>2, <2>3 DEF Greatest
  <2> QED BY <1>2, <2>4 DEF r
<1> QED BY <1>1, <1>2

LEMMA GcdExists == Euclid(gcd)
<1> DEFINE f == [p \in Nat \X Nat |-> Greatest(p[1], p[2])]
<1>1. ASSUME NEW p \in Nat \X Nat
      PROVE  f[p] = IF p[2] = 0 THEN p[1] ELSE f[<<p[2], p[1] % p[2]>>]
  <2>1. p[1] \in Nat /\ p[2] \in Nat /\ f[p] = Greatest(p[1], p[2])
    OBVIOUS
  <2>2. CASE p[2] = 0
    BY <2>1, <2>2, GreatestStep
  <2>3. CASE p[2] # 0
    <3>1. p[1] % p[2] \in Nat
      BY <2>1, <2>3, Division
    <3>2. f[<<p[2], p[1] % p[2]>>] = Greatest(p[2], p[1] % p[2])
      BY <2>1, <3>1
    <3> HIDE DEF f
    <3> QED BY <2>1, <2>3, <3>2, GreatestStep
  <2> QED BY <2>2, <2>3
<1>2. Euclid(f)
  <2> DEFINE g == [p \in Nat \X Nat |-> IF p[2] = 0 THEN p[1] ELSE f[<<p[2], p[1] % p[2]>>]]
  <2>1. f = g
    BY <1>1
  <2> QED BY <2>1 DEF Euclid
<1> HIDE DEF f
<1>3. \E h : Euclid(h)
  BY <1>2
<1> QED BY <1>3 DEF gcd, Euclid

LEMMA GcdStep == ASSUME NEW x \in Nat, NEW y \in Nat
  PROVE gcd[<<x, y>>] = IF y = 0 THEN x ELSE gcd[<<y, x % y>>]
BY GcdExists, EuclidStep

(* The greatest common divisor is a common divisor. *)
Divides(a, b) ==
  /\ gcd[<<a, b>>] \in Nat /\ Multiple(a, gcd[<<a, b>>]) /\ Multiple(b, gcd[<<a, b>>])
  /\ a # 0 \/ b # 0 => gcd[<<a, b>>] # 0

LEMMA GcdDivides ==
  ASSUME NEW a \in Nat, NEW b \in Nat
  PROVE  Divides(a, b)
<1> DEFINE T == {y \in Nat : \E x \in Nat : ~Divides(x, y)}
<1>1. SUFFICES ASSUME T # {} PROVE FALSE
  OBVIOUS
<1>2. PICK y \in T : \A m \in T : y <= m
  BY <1>1, LeastNumber
<1>3. PICK x \in Nat : ~Divides(x, y)
  OBVIOUS
<1>4. y \in Nat
  OBVIOUS
<1>5. ASSUME NEW m \in Nat, m < y, NEW z \in Nat PROVE Divides(z, m)
  BY <1>2, <1>4, <1>5
<1> HIDE DEF T
<1>6. CASE y = 0
  <2>1. gcd[<<x, y>>] = x
    BY <1>4, <1>6, GcdStep
  <2>2. x = x * 1 /\ y = x * 0
    BY <1>6
  <2>3. Multiple(x, x) /\ Multiple(y, x)
    BY <2>2 DEF Multiple
  <2> QED BY <1>3, <1>6, <2>1, <2>3 DEF Divides
<1>7. CASE y # 0
  <2> DEFINE r == x % y
             g == gcd[<<x, y>>]
  <2>1. r \in Nat /\ r < y
    BY <1>4, <1>7, Division
  <2>2. Divides(y, r)
    BY <1>4, <1>5, <2>1
  <2>3. g = gcd[<<y, r>>]
    BY <1>4, <1>7, GcdStep
  <2>4. g \in Nat \ {0} /\ Multiple(y, g) /\ Multiple(r, g)
    BY <1>7, <2>2, <2>3 DEF Divides
  <2> HIDE DEF g
  <2>5. Multiple(x, g)
    BY <1>4, <1>7, <2>4, Remains
  <2> QED BY <1>3, <2>4, <2>5 DEF Divides, g
<1> QED BY <1>6, <1>7

(* A common factor is one of the greatest common divisor. *)
Scaled(k, a, b) == gcd[<<k * a, k * b>>] = k * gcd[<<a, b>>]

LEMMA GcdScaled ==
  ASSUME NEW k \in Nat \ {0}, NEW a \in Nat, NEW b \in Nat
  PROVE  Scaled(k, a, b)
<1> DEFINE T == {y \in Nat : \E x \in Nat : ~Scaled(k, x, y)}
<1>1. SUFFICES ASSUME T # {} PROVE FALSE
  OBVIOUS
<1>2. PICK y \in T : \A m \in T : y <= m
  BY <1>1, LeastNumber
<1>3. PICK x \in Nat : ~Scaled(k, x, y)
  OBVIOUS
<1>4. y \in Nat
  OBVIOUS
<1>5. ASSUME NEW m \in Nat, m < y, NEW z \in Nat PROVE Scaled(k, z, m)
  BY <1>2, <1>4, <1>5
<1> HIDE DEF T
<1>6. k * x \in Nat /\ k * y \in Nat /\ (k * y = 0 <=> y = 0)
  BY <1>4
<1>7. CASE y = 0
  BY <1>3, <1>4, <1>6, <1>7, GcdStep DEF Scaled
<1>8. CASE y # 0
  <2> DEFINE r == x % y
             q == x \div y
  <2>1. r \in Nat /\ r < y /\ q \in Nat /\ x = y * q + r
    BY <1>4, <1>8, Division
  <2> HIDE DEF r, q
  <2>2. k * x = (k * y) * q + k * r
    <3>1. k * x = k * (y * q + r)
      BY <2>1
    <3>2. k * (y * q + r) = (k * y) * q + k * r
      BY <1>4, <2>1
    <3> QED BY <3>1, <3>2
  <2>3. k * r \in Nat /\ k * r < k * y
    <3>1. y = r + (y - r) /\ y - r \in Nat \ {0}
      BY <1>4, <2>1
    <3>2. k * y = k * r + k * (y - r)
      BY <1>4, <2>1
    <3>3. k * (y - r) \in Nat \ {0}
      BY <3>1
    <3>4. k * r \in Nat
      BY <2>1
    <3> DEFINE u == k * r
               v == k * (y - r)
               w == k * y
    <3>5. u \in Nat /\ v \in Nat \ {0} /\ w = u + v
      BY <3>2, <3>3, <3>4
    <3> HIDE DEF u, v, w
    <3>6. u \in Nat /\ u < w
      BY <3>5
    <3> QED BY <3>6 DEF u, w
  <2>4. (k * x) % (k * y) = k * r
    <3> DEFINE u == k * x
               w == k * y
               t == k * r
    <3>1. u \in Nat /\ w \in Nat /\ w # 0 /\ u = w * q + t /\ t \in Nat /\ t < w
      BY <1>6, <1>8, <2>2, <2>3
    <3> HIDE DEF u, w, t
    <3>2. u % w = t
      <4>1. u \in Nat /\ w \in Nat \ {0} /\ t \in Nat /\ q \in Nat /\ t < w /\ u = w * q + t
        BY <2>1, <3>1
      <4> HIDE DEF q
      <4> QED BY <4>1, Quotient, Zenon
    <3> QED BY <3>2, Zenon DEF u, w, t
  <2>5. gcd[<<k * x, k * y>>] = gcd[<<k * y, k * r>>]
    <3>1. gcd[<<k * x, k * y>>] = IF k * y = 0 THEN k * x ELSE gcd[<<k * y, (k * x) % (k * y)>>]
      <4> DEFINE u == k * x
                 w == k * y
      <4>1. u \in Nat /\ w \in Nat
        BY <1>6
      <4> HIDE DEF u, w
      <4>2. gcd[<<u, w>>] = IF w = 0 THEN u ELSE gcd[<<w, u % w>>]
        BY <4>1, GcdStep
      <4> QED BY <4>2 DEF u, w
    <3>2. k * y # 0
      BY <1>6, <1>8
    <3> QED BY <2>4, <3>1, <3>2, Zenon
  <2>6. gcd[<<k * y, k * r>>] = k * gcd[<<y, r>>]
    BY <1>4, <1>5, <2>1 DEF Scaled
  <2>7. gcd[<<x, y>>] = gcd[<<y, r>>]
    BY <1>4, <1>8, GcdStep DEF r
  <2> QED BY <1>3, <2>5, <2>6, <2>7 DEF Scaled
<1> QED BY <1>7, <1>8

(* A fraction is in its lowest terms, and equal ones have the same. *)
LEMMA Lowest ==
  ASSUME NEW n \in Nat, NEW d \in Nat \ {0}
  PROVE  \E g, p, q \in Nat :
           g = gcd[<<n, d>>] /\ g # 0 /\ q # 0 /\ n = g * p /\ d = g * q /\ Fraction(n, d) = <<p, q>>
<1> DEFINE g == gcd[<<n, d>>]
<1>1. g \in Nat \ {0} /\ Multiple(n, g) /\ Multiple(d, g)
  BY GcdDivides DEF Divides
<1> HIDE DEF g
<1>2. PICK p \in Nat : n = g * p
  BY <1>1 DEF Multiple
<1>3. PICK q \in Nat : d = g * q
  BY <1>1 DEF Multiple
<1>4. q # 0
  BY <1>1, <1>3
<1>5. n \div g = p /\ d \div g = q
  BY <1>1, <1>2, <1>3
<1>6. Fraction(n, d) = <<p, q>>
  BY <1>5 DEF Fraction, g
<1> QED BY <1>1, <1>2, <1>3, <1>4, <1>6 DEF g

LEMMA Extended ==
  ASSUME NEW n \in Nat, NEW d \in Nat \ {0}, NEW k \in Nat \ {0}
  PROVE  Fraction(k * n, k * d) = Fraction(n, d)
<1>1. PICK g \in Nat, p \in Nat, q \in Nat :
        g = gcd[<<n, d>>] /\ g # 0 /\ q # 0 /\ n = g * p /\ d = g * q /\ Fraction(n, d) = <<p, q>>
  BY Lowest
<1>2. gcd[<<k * n, k * d>>] = k * g
  BY <1>1, GcdScaled DEF Scaled
<1> DEFINE h == k * g
<1>3. h \in Nat \ {0}
  BY <1>1, Product
<1>4. k * n = h * p /\ k * d = h * q
  <2>1. k * (g * p) = (k * g) * p /\ k * (g * q) = (k * g) * q
    OBVIOUS
  <2> QED BY <1>1, <2>1, Zenon
<1> HIDE DEF h
<1>5. (h * p) \div h = p /\ (h * q) \div h = q
  BY <1>1, <1>3, Exact
<1>6. Fraction(k * n, k * d) = <<(k * n) \div h, (k * d) \div h>>
  BY <1>2 DEF Fraction, h
<1> QED BY <1>1, <1>4, <1>5, <1>6

LEMMA SameFraction ==
  ASSUME NEW n \in Nat, NEW d \in Nat \ {0}, NEW m \in Nat, NEW e \in Nat \ {0}, n * e = m * d
  PROVE  Fraction(n, d) = Fraction(m, e)
<1>1. Fraction(e * n, e * d) = Fraction(n, d) /\ Fraction(d * m, d * e) = Fraction(m, e)
  BY Extended
<1>2. e * n = d * m /\ e * d = d * e
  OBVIOUS
<1> QED BY <1>1, <1>2

-----------------------------------------------------------------------------
(* Computing with fractions *)

(* Products and sums by name, which the provers can then match.            *)
Mul(a, b) == a * b
Add(a, b) == a + b

LEMMA Naturals ==
  /\ \A a, b \in Nat : Mul(a, b) \in Nat /\ Add(a, b) \in Nat
  /\ \A a, b \in Nat \ {0} : Mul(a, b) \in Nat \ {0}
<1>1. ASSUME NEW a \in Nat, NEW b \in Nat PROVE Mul(a, b) \in Nat /\ Add(a, b) \in Nat
  BY DEF Mul, Add
<1>2. ASSUME NEW a \in Nat \ {0}, NEW b \in Nat \ {0} PROVE Mul(a, b) \in Nat \ {0}
  BY Product DEF Mul
<1> QED BY <1>1, <1>2

LEMMA Crosswise ==
  ASSUME NEW n \in Nat, NEW d \in Nat \ {0}, NEW m \in Nat, NEW e \in Nat \ {0},
         Mul(n, e) = Mul(m, d)
  PROVE  Fraction(n, d) = Fraction(m, e)
  BY SameFraction DEF Mul

(* n/d is p/q, and g was in both. *)
Terms(n, d, g, p, q) ==
  /\ g \in Nat \ {0} /\ p \in Nat /\ q \in Nat \ {0}
  /\ n = Mul(g, p) /\ d = Mul(g, q) /\ Fraction(n, d) = <<p, q>>

LEMMA HasTerms ==
  ASSUME NEW n \in Nat, NEW d \in Nat \ {0}
  PROVE  \E g, p, q : Terms(n, d, g, p, q)
<1>1. PICK g \in Nat, p \in Nat, q \in Nat :
        g = gcd[<<n, d>>] /\ g # 0 /\ q # 0 /\ n = g * p /\ d = g * q /\ Fraction(n, d) = <<p, q>>
  BY Lowest
<1>2. Terms(n, d, g, p, q)
  BY <1>1 DEF Terms, Mul
<1> QED BY <1>2

LEMMA AddUp ==
  ASSUME NEW p \in Nat, NEW q \in Nat, NEW r \in Nat, NEW t \in Nat, NEW g \in Nat, NEW h \in Nat
  PROVE  Mul(Add(Mul(p, t), Mul(r, q)), Mul(Mul(g, q), Mul(h, t)))
           = Mul(Add(Mul(Mul(g, p), Mul(h, t)), Mul(Mul(h, r), Mul(g, q))), Mul(q, t))
<1>1. (p * t + r * q) * ((g * q) * (h * t)) = ((g * p) * (h * t) + (h * r) * (g * q)) * (q * t)
  OBVIOUS
<1> QED BY <1>1 DEF Mul, Add

(* The operators on fractions compute sums, products and quotients. *)
LEMMA Sum ==
  ASSUME NEW n \in Nat, NEW d \in Nat \ {0}, NEW m \in Nat, NEW e \in Nat \ {0}
  PROVE  Plus(Fraction(n, d), Fraction(m, e)) = Fraction(Add(Mul(n, e), Mul(m, d)), Mul(d, e))
<1>1. PICK g, p, q : Terms(n, d, g, p, q)
  BY HasTerms
<1>2. PICK h, r, t : Terms(m, e, h, r, t)
  BY HasTerms
<1>3. Plus(<<p, q>>, <<r, t>>) = Fraction(Add(Mul(p, t), Mul(r, q)), Mul(q, t))
  BY DEF Plus, Add, Mul
<1>4. Mul(Add(Mul(p, t), Mul(r, q)), Mul(d, e)) = Mul(Add(Mul(n, e), Mul(m, d)), Mul(q, t))
  <2>1. p \in Nat /\ q \in Nat /\ r \in Nat /\ t \in Nat /\ g \in Nat /\ h \in Nat
    BY <1>1, <1>2 DEF Terms
  <2>3. n = Mul(g, p) /\ d = Mul(g, q) /\ m = Mul(h, r) /\ e = Mul(h, t)
    BY <1>1, <1>2 DEF Terms
  <2>2. Mul(Add(Mul(p, t), Mul(r, q)), Mul(Mul(g, q), Mul(h, t)))
          = Mul(Add(Mul(Mul(g, p), Mul(h, t)), Mul(Mul(h, r), Mul(g, q))), Mul(q, t))
    BY <2>1, AddUp
  <2> QED BY <2>3, <2>2
<1>5. /\ Add(Mul(p, t), Mul(r, q)) \in Nat /\ Add(Mul(n, e), Mul(m, d)) \in Nat
      /\ Mul(q, t) \in Nat \ {0} /\ Mul(d, e) \in Nat \ {0}
  BY <1>1, <1>2, Naturals DEF Terms
<1>6. Fraction(Add(Mul(p, t), Mul(r, q)), Mul(q, t))
        = Fraction(Add(Mul(n, e), Mul(m, d)), Mul(d, e))
  BY <1>4, <1>5, Crosswise
<1> QED BY <1>1, <1>2, <1>3, <1>6 DEF Terms

LEMMA Chain ==
  ASSUME NEW p \in Nat, NEW q \in Nat, NEW r \in Nat, NEW t \in Nat, NEW g \in Nat, NEW h \in Nat
  PROVE  (p * r) * ((g * q) * (h * t)) = ((g * p) * (h * r)) * (q * t)
  OBVIOUS

LEMMA Multiplied ==
  ASSUME NEW n \in Nat, NEW d \in Nat \ {0}, NEW m \in Nat, NEW e \in Nat \ {0}
  PROVE  Fraction(Fraction(n, d)[1] * Fraction(m, e)[1], Fraction(n, d)[2] * Fraction(m, e)[2])
           = Fraction(Mul(n, m), Mul(d, e))
<1>1. PICK g, p, q : Terms(n, d, g, p, q)
  BY HasTerms
<1>2. PICK h, r, t : Terms(m, e, h, r, t)
  BY HasTerms
<1>3. /\ Fraction(n, d)[1] = p /\ Fraction(n, d)[2] = q
      /\ Fraction(m, e)[1] = r /\ Fraction(m, e)[2] = t
  BY <1>1, <1>2 DEF Terms
<1>4. Mul(Mul(p, r), Mul(d, e)) = Mul(Mul(n, m), Mul(q, t))
  <2>1. Mul(Mul(p, r), Mul(Mul(g, q), Mul(h, t))) = Mul(Mul(Mul(g, p), Mul(h, r)), Mul(q, t))
    <3>1. (p * r) * ((g * q) * (h * t)) = ((g * p) * (h * r)) * (q * t)
      BY <1>1, <1>2, Chain DEF Terms
    <3> QED BY <3>1 DEF Mul
  <2> QED BY <1>1, <1>2, <2>1 DEF Terms
<1>5. /\ Mul(p, r) \in Nat /\ Mul(n, m) \in Nat
      /\ Mul(q, t) \in Nat \ {0} /\ Mul(d, e) \in Nat \ {0}
  BY <1>1, <1>2, Naturals DEF Terms
<1>6. Fraction(Mul(p, r), Mul(q, t)) = Fraction(Mul(n, m), Mul(d, e))
  BY <1>4, <1>5, Crosswise
<1> QED BY <1>3, <1>6 DEF Mul

LEMMA WholeNumber == ASSUME NEW n \in Nat PROVE Whole(n) = Fraction(n, 1)
<1>1. gcd[<<n, 1>>] = 1
  <2>1. PICK k \in Nat : k = 1
    OBVIOUS
  <2> DEFINE z == n % k
  <2>2. z \in 0 .. 0
    BY <2>1
  <2>3. gcd[<<n, k>>] = IF k = 0 THEN n ELSE gcd[<<k, z>>]
    BY GcdStep
  <2>4. PICK nothing \in Nat : nothing = 0
    OBVIOUS
  <2>5. gcd[<<k, nothing>>] = k
    BY <2>4, GcdStep
  <2> HIDE DEF z
  <2>6. z = nothing
    BY <2>2, <2>4
  <2>7. k # 0
    BY <2>1
  <2>8. gcd[<<n, k>>] = k
    BY <2>3, <2>5, <2>6, <2>7
  <2> QED BY <2>1, <2>8, Zenon
<1>2. n \div 1 = n /\ 1 \div 1 = 1
  OBVIOUS
<1> QED BY <1>1, <1>2 DEF Whole, Fraction

LEMMA Repeated ==
  ASSUME NEW k \in Nat, NEW n \in Nat, NEW d \in Nat \ {0}
  PROVE  Times(k, Fraction(n, d)) = Fraction(Mul(k, n), d)
<1>1. PICK g, p, q : Terms(n, d, g, p, q)
  BY HasTerms
<1>2. Times(k, <<p, q>>) = Fraction(Mul(k, p), q)
  BY DEF Times, Mul
<1>3. Mul(Mul(k, p), d) = Mul(Mul(k, n), q)
  <2>1. Mul(Mul(k, p), Mul(g, q)) = Mul(Mul(k, Mul(g, p)), q)
    <3>1. p \in Nat /\ q \in Nat /\ g \in Nat
      BY <1>1 DEF Terms
    <3>2. (k * p) * (g * q) = (k * (g * p)) * q
      BY <3>1
    <3> QED BY <3>2 DEF Mul
  <2> QED BY <1>1, <2>1 DEF Terms
<1>4. Mul(k, p) \in Nat /\ Mul(k, n) \in Nat /\ q \in Nat \ {0}
  BY <1>1, Naturals DEF Terms
<1>5. Fraction(Mul(k, p), q) = Fraction(Mul(k, n), d)
  BY <1>3, <1>4, Crosswise
<1> QED BY <1>1, <1>2, <1>5 DEF Terms

LEMMA Divided ==
  ASSUME NEW k \in Nat \ {0}, NEW n \in Nat, NEW d \in Nat \ {0}
  PROVE  DividedBy(Fraction(n, d), k) = Fraction(n, Mul(d, k))
<1>1. PICK g, p, q : Terms(n, d, g, p, q)
  BY HasTerms
<1>2. DividedBy(<<p, q>>, k) = Fraction(p, Mul(q, k))
  BY DEF DividedBy, Mul
<1>3. Mul(p, Mul(d, k)) = Mul(n, Mul(q, k))
  <2>1. Mul(p, Mul(Mul(g, q), k)) = Mul(Mul(g, p), Mul(q, k))
    <3>1. p \in Nat /\ q \in Nat /\ g \in Nat
      BY <1>1 DEF Terms
    <3>2. p * ((g * q) * k) = (g * p) * (q * k)
      BY <3>1
    <3> QED BY <3>2 DEF Mul
  <2> QED BY <1>1, <2>1 DEF Terms
<1>4. p \in Nat /\ Mul(q, k) \in Nat \ {0} /\ Mul(d, k) \in Nat \ {0}
  BY <1>1, Naturals DEF Terms
<1>5. Fraction(p, Mul(q, k)) = Fraction(n, Mul(d, k))
  BY <1>3, <1>4, Crosswise
<1> QED BY <1>1, <1>2, <1>5 DEF Terms

(* A fraction in lowest terms. *)
InLowest(x) == x \in Nat \X (Nat \ {0}) /\ x = Fraction(x[1], x[2])

LEMMA Reduced ==
  ASSUME NEW n \in Nat, NEW d \in Nat \ {0}
  PROVE  InLowest(Fraction(n, d)) /\ (n < d => Fraction(n, d)[1] < Fraction(n, d)[2])
<1>1. PICK g, p, q : Terms(n, d, g, p, q)
  BY HasTerms
<1>2. Fraction(p, q) = Fraction(n, d)
  <2>1. g \in Nat \ {0} /\ p \in Nat /\ q \in Nat \ {0} /\ n = g * p /\ d = g * q
    BY <1>1 DEF Terms, Mul
  <2>2. Fraction(g * p, g * q) = Fraction(p, q)
    BY <2>1, Extended
  <2> QED BY <2>1, <2>2, Zenon
<1>3. ASSUME n < d PROVE p < q
  <2> SUFFICES ASSUME q <= p PROVE FALSE
    BY <1>1 DEF Terms
  <2> DEFINE w == p - q
             z == Mul(g, w)
  <2>1. w \in Nat /\ p = Add(q, w) /\ g \in Nat /\ q \in Nat /\ d \in Nat
    BY <1>1 DEF Terms, Add
  <2> HIDE DEF w
  <2>2. Mul(g, Add(q, w)) = Add(Mul(g, q), Mul(g, w))
    <3>1. g * (q + w) = (g * q) + (g * w)
      BY <2>1
    <3> QED BY <3>1 DEF Add, Mul
  <2>3. n = Add(d, z) /\ z \in Nat
    BY <1>1, <2>1, <2>2, Naturals DEF Terms
  <2> HIDE DEF z
  <2>4. n >= d
    BY <2>1, <2>3 DEF Add
  <2> QED BY <1>3, <2>1, <2>4
<1>4. Fraction(n, d) = <<p, q>> /\ p \in Nat /\ q \in Nat \ {0}
  BY <1>1 DEF Terms
<1>5. <<p, q>>[1] = p /\ <<p, q>>[2] = q /\ <<p, q>> \in Nat \X (Nat \ {0})
  BY <1>4
<1> QED BY <1>2, <1>3, <1>4, <1>5 DEF InLowest

(* The average from a star, of the average after a fall. *)
Along(a, b, x) == Plus(a, Fraction(b[1] * x[1], b[2] * x[2]))

LEMMA AlongIs ==
  ASSUME NEW p \in Nat, NEW q \in Nat \ {0}, NEW u \in Nat, NEW v \in Nat \ {0},
         NEW y \in Nat, NEW z \in Nat \ {0}
  PROVE  Along(Fraction(p, q), Fraction(u, v), Fraction(y, z))
           = Fraction(Add(Mul(p, Mul(v, z)), Mul(Mul(u, y), q)), Mul(q, Mul(v, z)))
<1>1. Along(Fraction(p, q), Fraction(u, v), Fraction(y, z))
        = Plus(Fraction(p, q), Fraction(Mul(u, y), Mul(v, z)))
  <2>1. Fraction(Fraction(u, v)[1] * Fraction(y, z)[1], Fraction(u, v)[2] * Fraction(y, z)[2])
           = Fraction(Mul(u, y), Mul(v, z))
    BY Multiplied
  <2> QED BY <2>1 DEF Along
<1>2. Mul(u, y) \in Nat /\ Mul(v, z) \in Nat \ {0}
  BY Naturals
<1> QED BY <1>1, <1>2, Sum

LEMMA Units == ASSUME NEW n \in Nat PROVE Mul(n, 1) = n /\ Mul(1, n) = n
  BY DEF Mul

LEMMA WholePlus ==
  ASSUME NEW n \in Nat, NEW m \in Nat, NEW d \in Nat \ {0}
  PROVE  Plus(Whole(n), Fraction(m, d)) = Fraction(Add(Mul(n, d), m), d)
<1>1. PICK one \in Nat \ {0} : one = 1
  OBVIOUS
<1>2. Whole(n) = Fraction(n, one)
  BY <1>1, WholeNumber
<1>3. Plus(Fraction(n, one), Fraction(m, d)) = Fraction(Add(Mul(n, d), Mul(m, one)), Mul(one, d))
  BY Sum
<1>4. Mul(m, one) = m /\ Mul(one, d) = d
  BY <1>1, Units
<1> QED BY <1>2, <1>3, <1>4

(* The next coefficient of a fraction p/q, with c ahead. *)
LEMMA Recurs ==
  ASSUME NEW k \in Nat \ {0}, NEW c \in Nat, NEW r \in Nat, NEW p \in Nat, NEW q \in Nat \ {0}
  PROVE  DividedBy(Plus(Whole(c), Times(r, Fraction(p, q))), k)
           = Fraction(Add(Mul(c, q), Mul(r, p)), Mul(q, k))
<1>1. Times(r, Fraction(p, q)) = Fraction(Mul(r, p), q)
  BY Repeated
<1>2. Mul(r, p) \in Nat
  BY Naturals
<1>3. Plus(Whole(c), Fraction(Mul(r, p), q)) = Fraction(Add(Mul(c, q), Mul(r, p)), q)
  BY <1>2, WholePlus
<1>4. Add(Mul(c, q), Mul(r, p)) \in Nat
  BY Naturals
<1> QED BY <1>1, <1>3, <1>4, Divided

(* The same polynomial on both sides, and the same denominator. *)
SidesMeet(k, c, r, f, p, q, u, v, y, z) ==
  LET A == Add(Mul(c, q), Mul(r, p))
      B == Add(Mul(f, v), Mul(r, u))
      Q == Mul(q, k)
      V == Mul(v, k)
      N == Add(Mul(p, Mul(v, z)), Mul(Mul(u, y), q))
      D == Mul(q, Mul(v, z))
  IN Mul(Mul(k, Add(Mul(A, Mul(V, z)), Mul(Mul(B, y), Q))), Mul(D, z))
       = Mul(Add(Mul(c, Mul(D, z)), Add(Mul(Mul(r, N), z), Mul(Mul(f, y), D))), Mul(Q, Mul(V, z)))

LEMMA Identity ==
  ASSUME NEW k \in Nat, NEW c \in Nat, NEW r \in Nat, NEW f \in Nat,
         NEW p \in Nat, NEW q \in Nat, NEW u \in Nat, NEW v \in Nat, NEW y \in Nat, NEW z \in Nat
  PROVE  SidesMeet(k, c, r, f, p, q, u, v, y, z)
<1>1. (k * ((c * q + r * p) * ((v * k) * z) + ((f * v + r * u) * y) * (q * k)))
          * ((q * (v * z)) * z)
        = (c * ((q * (v * z)) * z)
              + ((r * (p * (v * z) + (u * y) * q)) * z + (f * y) * (q * (v * z))))
            * ((q * k) * ((v * k) * z))
  OBVIOUS
<1> QED BY <1>1, Zenon DEF SidesMeet, Mul, Add

(* One attempt leads a star up, leaves it, or down to where x is the average. *)
LEMMA OneAttempt ==
  ASSUME NEW k \in Nat \ {0}, NEW c \in Nat, NEW r \in Nat, NEW f \in Nat,
         NEW a, NEW b, NEW x, InLowest(a), InLowest(b), InLowest(x)
  PROVE  Times(k, Along(DividedBy(Plus(Whole(c), Times(r, a)), k),
                        DividedBy(Plus(Whole(f), Times(r, b)), k), x))
           = Plus(Whole(c), Plus(Times(r, Along(a, b, x)), Times(f, x)))
<1> DEFINE p == a[1]
           q == a[2]
           u == b[1]
           v == b[2]
           y == x[1]
           z == x[2]
<1>1. p \in Nat /\ q \in Nat \ {0} /\ u \in Nat /\ v \in Nat \ {0} /\ y \in Nat /\ z \in Nat \ {0}
  BY DEF InLowest
<1>0. a = Fraction(p, q) /\ b = Fraction(u, v) /\ x = Fraction(y, z)
  BY DEF InLowest
<1> HIDE DEF p, q, u, v, y, z
<1> DEFINE A == Add(Mul(c, q), Mul(r, p))
           Q == Mul(q, k)
           B == Add(Mul(f, v), Mul(r, u))
           V == Mul(v, k)
           top == Add(Mul(A, Mul(V, z)), Mul(Mul(B, y), Q))
           bottom == Mul(Q, Mul(V, z))
           N == Add(Mul(p, Mul(v, z)), Mul(Mul(u, y), q))
           D == Mul(q, Mul(v, z))
           sum == Add(Mul(Mul(r, N), z), Mul(Mul(f, y), D))
           all == Mul(D, z)
<1>2. A \in Nat /\ Q \in Nat \ {0} /\ B \in Nat /\ V \in Nat \ {0} /\ N \in Nat /\ D \in Nat \ {0}
  BY <1>1, Naturals
<1>3. /\ DividedBy(Plus(Whole(c), Times(r, a)), k) = Fraction(A, Q)
      /\ DividedBy(Plus(Whole(f), Times(r, b)), k) = Fraction(B, V)
  BY <1>0, <1>1, Recurs
<1>4. Along(a, b, x) = Fraction(N, D)
  BY <1>0, <1>1, AlongIs
<1> HIDE DEF A, Q, B, V, N, D
<1>5. Along(Fraction(A, Q), Fraction(B, V), x) = Fraction(top, bottom)
  <2>1. Along(Fraction(A, Q), Fraction(B, V), Fraction(y, z)) = Fraction(top, bottom)
    BY <1>1, <1>2, AlongIs
  <2> QED BY <1>0, <2>1
<1>6. top \in Nat /\ bottom \in Nat \ {0} /\ all \in Nat \ {0} /\ sum \in Nat
  BY <1>1, <1>2, Naturals
<1>7. Times(r, Fraction(N, D)) = Fraction(Mul(r, N), D) /\ Times(f, x) = Fraction(Mul(f, y), z)
  BY <1>0, <1>1, <1>2, Repeated
<1>8. Plus(Fraction(Mul(r, N), D), Fraction(Mul(f, y), z)) = Fraction(sum, all)
  <2>1. Mul(r, N) \in Nat /\ Mul(f, y) \in Nat
    BY <1>1, <1>2, Naturals
  <2> QED BY <1>1, <1>2, <2>1, Sum
<1> HIDE DEF top, bottom, sum, all
<1>9. Times(k, Fraction(top, bottom)) = Fraction(Mul(k, top), bottom)
  BY <1>6, Repeated
<1>10. Plus(Whole(c), Fraction(sum, all)) = Fraction(Add(Mul(c, all), sum), all)
  BY <1>6, WholePlus
<1>11. Mul(Mul(k, top), all) = Mul(Add(Mul(c, all), sum), bottom)
  <2>1. SidesMeet(k, c, r, f, p, q, u, v, y, z)
    BY <1>1, Identity
  <2> QED BY <2>1, Zenon DEF SidesMeet, A, Q, B, V, N, D, top, bottom, sum, all
<1>12. Mul(k, top) \in Nat /\ Add(Mul(c, all), sum) \in Nat
  BY <1>6, Naturals
<1>13. Fraction(Mul(k, top), bottom) = Fraction(Add(Mul(c, all), sum), all)
  BY <1>6, <1>11, <1>12, Crosswise
<1> QED BY <1>3, <1>4, <1>5, <1>7, <1>8, <1>9, <1>10, <1>13

(* The average from where a fall leads is a fixed point. *)
LEMMA Fixed ==
  ASSUME NEW p \in Nat, NEW q \in Nat, NEW u \in Nat, NEW w \in Nat
  PROVE  (p * ((u + w) * (q * w)) + (u * (p * (u + w))) * q) * (q * w)
           = (p * (u + w)) * (q * ((u + w) * (q * w)))
  OBVIOUS

LEMMA FixedPoint ==
  ASSUME NEW a, NEW b, InLowest(a), InLowest(b), b[1] < b[2],
         NEW x, x = Fraction(a[1] * b[2], a[2] * (b[2] - b[1]))
  PROVE  InLowest(x) /\ Along(a, b, x) = x
<1> DEFINE p == a[1]
           q == a[2]
           u == b[1]
           v == b[2]
           w == v - u
           n == Mul(p, v)
           d == Mul(q, w)
<1>1. /\ p \in Nat /\ q \in Nat \ {0} /\ u \in Nat /\ v \in Nat \ {0}
      /\ a = Fraction(p, q) /\ b = Fraction(u, v)
  BY DEF InLowest
<1>2. w \in Nat \ {0} /\ v = Add(u, w)
  <2>1. u < v
    OBVIOUS
  <2> HIDE DEF u, v
  <2> QED BY <1>1, <2>1 DEF Add
<1>3. x = Fraction(n, d)
  BY DEF Mul
<1> HIDE DEF p, q, u, v, w
<1>4. n \in Nat /\ d \in Nat \ {0}
  BY <1>1, <1>2, Naturals
<1>5. InLowest(x)
  BY <1>3, <1>4, Reduced
<1> DEFINE top == Add(Mul(p, Mul(v, d)), Mul(Mul(u, n), q))
           bottom == Mul(q, Mul(v, d))
<1>6. Along(a, b, x) = Fraction(top, bottom)
  <2> HIDE DEF n, d
  <2> QED BY <1>1, <1>3, <1>4, AlongIs
<1>7. top \in Nat /\ bottom \in Nat \ {0}
  BY <1>1, <1>4, Naturals
<1>8. Mul(top, d) = Mul(n, bottom)
  <2>1. (p * ((u + w) * (q * w)) + (u * (p * (u + w))) * q) * (q * w)
           = (p * (u + w)) * (q * ((u + w) * (q * w)))
    BY <1>1, <1>2, Fixed
  <2>2. v = u + w
    BY <1>2 DEF Add
  <2> QED BY <2>1, <2>2, Zenon DEF top, bottom, n, d, Mul, Add
<1>9. Fraction(top, bottom) = Fraction(n, d)
  <2> HIDE DEF top, bottom, n, d
  <2> QED BY <1>4, <1>7, <1>8, Crosswise
<1> QED BY <1>3, <1>5, <1>6, <1>9

-----------------------------------------------------------------------------
(* The coefficients of expected_meso *)

(* A climb up to a star there is, of an item whose prices are known. *)
ClimbOK(climb) == climb.final \in 0 .. MaxStar /\ \A s \in Star : Price[climb.level][s] \in Nat

(* The coefficients of a star follow from those of the star above: a        *)
(* function that does so for all of them exists, and Coefficients is one.  *)
Settled(climb, g, s) ==
  g[s] = IF s = climb.final THEN [a |-> Whole(0), b |-> Whole(0)] ELSE FromAbove(climb, s, g[s + 1])
SettledFrom(climb, g, from) == \A s \in from .. climb.final : Settled(climb, g, s)

LEMMA Settles ==
  ASSUME NEW climb, climb.final \in Nat
  PROVE  \E g : SettledFrom(climb, g, 0)
<1> DEFINE last == climb.final
           T == {n \in 0 .. last : ~ \E g : SettledFrom(climb, g, last - n)}
<1>1. ASSUME T # {} PROVE FALSE
  <2>1. PICK n \in T : \A m \in T : n <= m
    <3>1. T \subseteq Nat
      OBVIOUS
    <3> HIDE DEF T
    <3> QED BY <1>1, <3>1, LeastNumber
  <2>2. n \in 0 .. last /\ ~ \E g : SettledFrom(climb, g, last - n)
    OBVIOUS
  <2>3. CASE n = 0
    <3> DEFINE g == [s \in {last} |-> [a |-> Whole(0), b |-> Whole(0)]]
    <3>1. Settled(climb, g, last)
      BY DEF Settled
    <3>2. SettledFrom(climb, g, last - n)
      BY <2>3, <3>1 DEF SettledFrom
    <3> QED BY <2>2, <3>2
  <2>4. CASE n # 0
    <3>1. n - 1 \in 0 .. last /\ n - 1 \notin T
      BY <2>1, <2>2, <2>4
    <3>2. PICK g : SettledFrom(climb, g, last - (n - 1))
      BY <3>1
    <3> DEFINE t == last - n
               h == [s \in t .. last |-> IF s = t THEN FromAbove(climb, t, g[t + 1]) ELSE g[s]]
    <3>3. t \in Nat /\ t < last /\ last - (n - 1) = t + 1
      BY <2>2, <2>4
    <3> HIDE DEF t
    <3>4. ASSUME NEW s \in t .. last PROVE Settled(climb, h, s)
      <4>1. CASE s = t
        <5>1. t + 1 \in t .. last /\ t + 1 # t /\ t # last
          BY <3>3
        <5>2. h[t + 1] = g[t + 1] /\ h[t] = FromAbove(climb, t, g[t + 1])
          BY <3>3, <5>1
        <5> HIDE DEF h
        <5> QED BY <4>1, <5>1, <5>2 DEF Settled
      <4>2. CASE s # t
        <5>1. s \in t + 1 .. last
          BY <3>3, <4>2
        <5>2. Settled(climb, g, s)
          BY <3>2, <3>3, <5>1 DEF SettledFrom
        <5>3. h[s] = g[s]
          BY <4>2
        <5>4. CASE s = last
          BY <5>2, <5>3, <5>4 DEF Settled
        <5>5. CASE s # last
          <6>1. s + 1 \in t .. last /\ s + 1 # t
            BY <3>3, <5>1, <5>5
          <6>2. h[s + 1] = g[s + 1]
            BY <6>1
          <6> HIDE DEF h
          <6> QED BY <5>2, <5>3, <5>5, <6>2 DEF Settled
        <5> QED BY <5>4, <5>5
      <4> QED BY <4>1, <4>2
    <3> HIDE DEF h
    <3>5. SettledFrom(climb, h, t)
      BY <3>4 DEF SettledFrom
    <3> QED BY <2>2, <3>5 DEF t
  <2> QED BY <2>3, <2>4
<1>2. last \in 0 .. last /\ last - last = 0
  OBVIOUS
<1>3. last \notin T
  BY <1>1
<1> HIDE DEF last
<1> QED BY <1>2, <1>3

Recursion(climb, c) ==
  c = [s \in 0 .. climb.final |->
         IF s = climb.final THEN [a |-> Whole(0), b |-> Whole(0)]
         ELSE FromAbove(climb, s, c[s + 1])]

LEMMA CoefficientsSettled ==
  ASSUME NEW climb, climb.final \in Nat
  PROVE  SettledFrom(climb, Coefficients(climb), 0)
<1>1. PICK g : SettledFrom(climb, g, 0)
  BY Settles
<1> DEFINE c == [s \in 0 .. climb.final |-> g[s]]
<1>2. Recursion(climb, c)
  <2> DEFINE e == [s \in 0 .. climb.final |->
         IF s = climb.final THEN [a |-> Whole(0), b |-> Whole(0)]
         ELSE FromAbove(climb, s, c[s + 1])]
  <2>1. ASSUME NEW s \in 0 .. climb.final PROVE c[s] = e[s]
    <3>1. Settled(climb, g, s)
      BY <1>1 DEF SettledFrom
    <3>2. CASE s = climb.final
      BY <3>1, <3>2 DEF Settled
    <3>3. CASE s # climb.final
      <4>1. s + 1 \in 0 .. climb.final
        BY <3>3
      <4>2. c[s + 1] = g[s + 1]
        BY <4>1
      <4> QED BY <3>1, <3>3, <4>2 DEF Settled
    <3> QED BY <3>2, <3>3
  <2>2. c = e
    BY <2>1
  <2> QED BY <2>2 DEF Recursion
<1>3. Recursion(climb, Coefficients(climb))
  <2> HIDE DEF c
  <2>1. \E x : Recursion(climb, x)
    BY <1>2
  <2>2. Coefficients(climb) = CHOOSE x : Recursion(climb, x)
    BY DEF Coefficients, Recursion
  <2> QED BY <2>1, <2>2
<1>4. ASSUME NEW x, Recursion(climb, x), NEW s \in 0 .. climb.final PROVE Settled(climb, x, s)
  BY <1>4 DEF Recursion, Settled
<1> QED BY <1>3, <1>4 DEF SettledFrom

LEMMA Tenths == ASSUME NEW n \in Nat, n % 10 = 0
  PROVE  LET saved == (n \div 10) * 3
         IN saved \in Nat /\ n - saved \in Nat
<1> DEFINE t == n \div 10
<1>1. t \in Nat /\ n = 10 * t
  OBVIOUS
<1> HIDE DEF t
<1>2. t * 3 \in Nat /\ n - t * 3 \in Nat
  BY <1>1
<1> QED BY <1>2 DEF t

(* What an attempt may lead to, with an event and without. *)
LEMMA RowIs ==
  ASSUME NEW s \in Star, NEW reduced, NEW row, row = ProbRow(s, reduced)
  PROVE  /\ row[1] \in Nat \ {0} /\ row[2] \in Nat /\ row[3] \in Nat
         /\ Scale - row[2] \in Nat \ {0} /\ Scale - row[2] = row[1] + row[3]
         /\ row[3] > 0 => s >= DestroyStar
<1> DEFINE p == Prob[s][1]
           k == Prob[s][2]
           f == Prob[s][3]
           saved == (f \div 10) * 3
<1>1. /\ p \in Nat \ {0} /\ k \in Nat /\ f \in Nat /\ Scale \in Nat
      /\ p + k + f = Scale /\ f % 10 = 0
      /\ f > 0 => s >= DestroyStar
  BY FiguresAssumption
<1>2. \/ row[1] = p /\ row[2] = k /\ row[3] = f
      \/ row[1] = p /\ row[2] = k + saved /\ row[3] = f - saved
  BY DEF ProbRow
<1> HIDE DEF p, k, f
<1>3. saved \in Nat /\ f - saved \in Nat
  BY <1>1, Tenths
<1> HIDE DEF saved
<1>4. s \in Nat /\ DestroyStar \in Nat
  BY FiguresAssumption DEF Star
<1>5. CASE row[1] = p /\ row[2] = k /\ row[3] = f
  BY <1>1, <1>5
<1>6. CASE row[1] = p /\ row[2] = k + saved /\ row[3] = f - saved
  BY <1>1, <1>3, <1>6
<1> QED BY <1>2, <1>5, <1>6

LEMMA Nought == Whole(0) = Fraction(0, 1) /\ InLowest(Whole(0)) /\ Whole(0)[1] < Whole(0)[2]
<1>1. Whole(0) = Fraction(0, 1)
  BY WholeNumber
<1>2. InLowest(Fraction(0, 1))
  BY Reduced
<1> QED BY <1>1, <1>2 DEF Whole

(* Both coefficients are fractions, and falls lead back less than surely. *)
Sound(climb, s, r) ==
  /\ InLowest(r.a) /\ InLowest(r.b) /\ r.b[1] < r.b[2]
  /\ ~MayBeDestroyed(climb, s) => r.b = Whole(0)

LEMMA LessThanOne ==
  ASSUME NEW f \in Nat, NEW r \in Nat \ {0}, NEW u \in Nat, NEW v \in Nat, u < v
  PROVE  f * v + r * u < v * (r + f)
<1> DEFINE w == v - u
<1>1. w \in Nat \ {0} /\ v = u + w
  OBVIOUS
<1>2. v * (r + f) = f * v + r * v
  OBVIOUS
<1>3. r * v = r * u + r * w
  BY <1>1
<1>4. r * w \in Nat \ {0} /\ r * u \in Nat /\ f * v \in Nat
  BY <1>1, Product
<1> DEFINE x == r * w
           y == r * u
           z == f * v
<1>5. x \in Nat \ {0} /\ y \in Nat /\ z \in Nat /\ v * (r + f) = z + (y + x)
  BY <1>2, <1>3, <1>4
<1> HIDE DEF x
<1>6. z + y < v * (r + f)
  <2> HIDE DEF y, z
  <2> QED BY <1>5
<1> QED BY <1>6

(* So it stays from one star to the star below. *)
LEMMA FromAboveSound ==
  ASSUME NEW climb, ClimbOK(climb), NEW s \in 0 .. climb.final - 1, NEW up, Sound(climb, s + 1, up)
  PROVE  Sound(climb, s, FromAbove(climb, s, up))
<1> DEFINE row == ProbRow(s, climb.reduced)
           k == Scale - row[2]
           r == row[1]
           f == row[3]
           c == Scale * ItemCost(climb.level, s \in climb.discount, s)
           own == FromAbove(climb, s, up)
<1>1. s \in Star /\ s \in Nat /\ climb.final \in Nat /\ Price[climb.level][s] \in Nat
  BY FiguresAssumption DEF ClimbOK, Star
<1>2. r \in Nat \ {0} /\ f \in Nat /\ k \in Nat \ {0} /\ k = r + f
  BY <1>1, RowIs
<1>3. c \in Nat
  <2>1. ItemCost(climb.level, s \in climb.discount, s) \in Nat
    BY <1>1 DEF ItemCost
  <2> QED BY <2>1, FiguresAssumption
<1>4. /\ own.a = DividedBy(Plus(Whole(c), Times(r, up.a)), k)
      /\ own.b = DividedBy(Plus(Whole(f), Times(r, up.b)), k)
  BY DEF FromAbove
<1> DEFINE p == up.a[1]
           q == up.a[2]
           u == up.b[1]
           v == up.b[2]
           n == Add(Mul(f, v), Mul(r, u))
           d == Mul(v, k)
<1>5. /\ p \in Nat /\ q \in Nat \ {0} /\ u \in Nat /\ v \in Nat \ {0} /\ u < v
      /\ up.a = Fraction(p, q) /\ up.b = Fraction(u, v)
  BY DEF Sound, InLowest
<1>a. f = 0 <=> ~(ProbRow(s, climb.reduced)[3] > 0)
  BY <1>2
<1> HIDE DEF p, q, u, v, row, k, r, f, c, own
<1>6. own.a = Fraction(Add(Mul(c, q), Mul(r, p)), Mul(q, k)) /\ own.b = Fraction(n, d)
  BY <1>2, <1>3, <1>4, <1>5, Recurs
<1>7. InLowest(own.a)
  <2>1. Add(Mul(c, q), Mul(r, p)) \in Nat /\ Mul(q, k) \in Nat \ {0}
    BY <1>2, <1>3, <1>5, Naturals
  <2> QED BY <1>6, <2>1, Reduced
<1>8. n \in Nat /\ d \in Nat \ {0} /\ n < d
  <2>1. n \in Nat /\ d \in Nat \ {0}
    BY <1>2, <1>5, Naturals
  <2>2. f * v + r * u < v * (r + f)
    BY <1>2, <1>5, LessThanOne
  <2>3. n < d
    BY <1>2, <2>2, Zenon DEF Add, Mul
  <2> QED BY <2>1, <2>3
<1>9. InLowest(own.b) /\ own.b[1] < own.b[2]
  <2> HIDE DEF n, d
  <2> QED BY <1>6, <1>8, Reduced
<1>10. ASSUME ~MayBeDestroyed(climb, s) PROVE own.b = Whole(0)
  <2>1. s \in s .. climb.final - 1 /\ s + 1 .. climb.final - 1 \subseteq s .. climb.final - 1
    BY <1>1
  <2>2. ~MayBeDestroyed(climb, s + 1) /\ f = 0
    BY <1>10, <1>a, <2>1 DEF MayBeDestroyed
  <2>3. up.b = Whole(0)
    BY <2>2 DEF Sound
  <2>4. u = 0
    BY <2>3 DEF u, Whole
  <2>5. n = 0
    BY <1>2, <1>5, <2>2, <2>4 DEF Add, Mul
  <2> HIDE DEF n, d
  <2>6. Mul(n, 1) = Mul(0, d)
    BY <1>8, <2>5 DEF Mul
  <2>7. Fraction(n, d) = Fraction(0, 1)
    BY <1>8, <2>6, Crosswise
  <2> QED BY <1>6, <2>7, Nought
<1> QED BY <1>7, <1>9, <1>10 DEF Sound, own

(* By induction from the last star down. *)
LEMMA CoefficientsSound ==
  ASSUME NEW climb, ClimbOK(climb), NEW s \in 0 .. climb.final
  PROVE  Sound(climb, s, Coefficients(climb)[s])
<1> DEFINE last == climb.final
           c == Coefficients(climb)
           T == {n \in 0 .. last : ~Sound(climb, last - n, c[last - n])}
<1>1. last \in Nat
  BY FiguresAssumption DEF ClimbOK
<1>2. \A t \in 0 .. last : Settled(climb, c, t)
  BY <1>1, CoefficientsSettled DEF SettledFrom
<1> HIDE DEF c
<1>3. ASSUME T # {} PROVE FALSE
  <2>1. PICK n \in T : \A m \in T : n <= m
    <3>1. T \subseteq Nat
      OBVIOUS
    <3> HIDE DEF T
    <3> QED BY <1>3, <3>1, LeastNumber
  <2>2. n \in 0 .. last /\ ~Sound(climb, last - n, c[last - n])
    OBVIOUS
  <2>3. CASE n = 0
    <3>1. c[last] = [a |-> Whole(0), b |-> Whole(0)]
      BY <1>1, <1>2 DEF Settled
    <3>2. Sound(climb, last, c[last])
      BY <3>1, Nought DEF Sound
    <3> QED BY <1>1, <2>2, <2>3, <3>2
  <2>4. CASE n # 0
    <3>1. n - 1 \in 0 .. last /\ n - 1 \notin T
      BY <1>1, <2>1, <2>2, <2>4
    <3> DEFINE t == last - n
    <3>2. t \in 0 .. last - 1 /\ last - (n - 1) = t + 1
      BY <1>1, <2>2, <2>4
    <3>3. Sound(climb, t + 1, c[t + 1])
      BY <3>1, <3>2
    <3> HIDE DEF t
    <3>4. c[t] = FromAbove(climb, t, c[t + 1])
      BY <1>1, <1>2, <3>2 DEF Settled
    <3>5. Sound(climb, t, c[t])
      BY <3>2, <3>3, <3>4, FromAboveSound
    <3> QED BY <2>2, <3>5 DEF t
  <2> QED BY <2>3, <2>4
<1>4. last - s \in 0 .. last /\ last - (last - s) = s
  BY <1>1
<1>5. last - s \notin T
  BY <1>3
<1> QED BY <1>4, <1>5 DEF c

(* The average from where a fall leads, if one leads anywhere. *)
Bottom(climb) == IF DestroyStar <= climb.final THEN AverageAtTheFall(climb) ELSE Whole(0)

LEMMA BottomIs ==
  ASSUME NEW climb, ClimbOK(climb)
  PROVE  /\ InLowest(Bottom(climb))
         /\ DestroyStar <= climb.final =>
              Along(Coefficients(climb)[DestroyStar].a, Coefficients(climb)[DestroyStar].b,
                    Bottom(climb)) = Bottom(climb)
<1>1. CASE DestroyStar <= climb.final
  <2> DEFINE c == Coefficients(climb)[DestroyStar]
             x == AverageAtTheFall(climb)
  <2>1. DestroyStar \in 0 .. climb.final
    BY <1>1, FiguresAssumption DEF ClimbOK
  <2>2. Sound(climb, DestroyStar, c)
    BY <2>1, CoefficientsSound
  <2>3. x = Fraction(c.a[1] * c.b[2], c.a[2] * (c.b[2] - c.b[1]))
    BY DEF AverageAtTheFall
  <2>4. Bottom(climb) = x
    BY <1>1 DEF Bottom
  <2> HIDE DEF c, x
  <2>5. InLowest(x) /\ Along(c.a, c.b, x) = x
    BY <2>2, <2>3, FixedPoint DEF Sound
  <2> QED BY <2>4, <2>5 DEF c
<1>2. CASE ~(DestroyStar <= climb.final)
  BY <1>2, Nought DEF Bottom
<1> QED BY <1>1, <1>2

(* Where nothing leads to a fall its average does not matter. *)
LEMMA NoFall ==
  ASSUME NEW a, NEW x, InLowest(a), InLowest(x)
  PROVE  Along(a, Whole(0), x) = a
<1> DEFINE p == a[1]
           q == a[2]
           y == x[1]
           z == x[2]
           n == Add(Mul(p, Mul(1, z)), Mul(Mul(0, y), q))
           d == Mul(q, Mul(1, z))
<1>1. /\ p \in Nat /\ q \in Nat \ {0} /\ y \in Nat /\ z \in Nat \ {0}
      /\ a = Fraction(p, q) /\ x = Fraction(y, z)
  BY DEF InLowest
<1> HIDE DEF p, q, y, z
<1>2. Along(Fraction(p, q), Fraction(0, 1), Fraction(y, z)) = Fraction(n, d)
  <2>1. PICK u \in Nat, v \in Nat \ {0} : u = 0 /\ v = 1
    OBVIOUS
  <2>2. Along(Fraction(p, q), Fraction(u, v), Fraction(y, z))
          = Fraction(Add(Mul(p, Mul(v, z)), Mul(Mul(u, y), q)), Mul(q, Mul(v, z)))
    BY <1>1, AlongIs
  <2> QED BY <2>1, <2>2, Zenon
<1>3. n = p * z /\ d = q * z
  BY <1>1 DEF Mul, Add
<1>4. n \in Nat /\ d \in Nat \ {0}
  <2>1. q * z \in Nat \ {0} /\ p * z \in Nat
    BY <1>1, Product
  <2> QED BY <1>3, <2>1
<1>5. Mul(n, q) = Mul(p, d)
  <2>1. (p * z) * q = p * (q * z)
    BY <1>1
  <2> QED BY <1>3, <2>1 DEF Mul
<1> HIDE DEF n, d
<1>6. Fraction(n, d) = Fraction(p, q)
  BY <1>1, <1>4, <1>5, Crosswise
<1> QED BY <1>1, <1>2, <1>6, Nought

(* expected_meso of every star is a + b x, with the same x. *)
LEMMA MeanIs ==
  ASSUME NEW climb, ClimbOK(climb), NEW s \in 0 .. climb.final
  PROVE  ExpectedMeso(climb, s)
           = Along(Coefficients(climb)[s].a, Coefficients(climb)[s].b, Bottom(climb))
<1> DEFINE c == Coefficients(climb)[s]
           x == Bottom(climb)
<1>1. Sound(climb, s, c) /\ InLowest(x)
  BY CoefficientsSound, BottomIs
<1>2. /\ climb.final \in Nat /\ climb.final <= MaxStar
      /\ s \in Nat /\ s <= climb.final /\ DestroyStar \in Nat
  BY FiguresAssumption DEF ClimbOK
<1>3. CASE climb.final <= s
  <2>1. SettledFrom(climb, Coefficients(climb), 0)
    BY <1>2, CoefficientsSettled
  <2>2. s = climb.final
    BY <1>2, <1>3
  <2>3. c.a = Whole(0) /\ c.b = Whole(0)
    BY <2>1, <2>2 DEF SettledFrom, Settled
  <2>4. ExpectedMeso(climb, s) = Whole(0)
    BY <1>3 DEF ExpectedMeso
  <2> HIDE DEF c, x
  <2>5. Along(c.a, c.b, x) = Whole(0)
    BY <1>1, <2>3, NoFall, Nought
  <2> QED BY <2>4, <2>5 DEF c, x
<1>4. CASE ~(climb.final <= s)
  <2> DEFINE y == IF MayBeDestroyed(climb, s) /\ DestroyStar <= climb.final
                  THEN AverageAtTheFall(climb) ELSE Whole(0)
  <2>1. ExpectedMeso(climb, s) = Along(c.a, c.b, y)
    BY <1>4 DEF ExpectedMeso, Along
  <2>2. CASE MayBeDestroyed(climb, s)
    <3>1. PICK t \in s .. climb.final - 1 : ProbRow(t, climb.reduced)[3] > 0
      BY <2>2 DEF MayBeDestroyed
    <3>2. t \in Star /\ t \in Nat /\ t < climb.final
      BY <1>2, FiguresAssumption DEF Star
    <3>3. t >= DestroyStar
      BY <3>1, <3>2, RowIs
    <3>4. DestroyStar <= climb.final
      BY <1>2, <3>2, <3>3
    <3>5. y = x
      BY <2>2, <3>4 DEF Bottom
    <3> HIDE DEF y
    <3> QED BY <2>1, <3>5
  <2>3. CASE ~MayBeDestroyed(climb, s)
    <3>1. y = Whole(0) /\ c.b = Whole(0)
      BY <1>1, <2>3 DEF Sound
    <3> HIDE DEF y, x, c
    <3>2. Along(c.a, Whole(0), y) = c.a /\ Along(c.a, Whole(0), x) = c.a
      BY <1>1, <3>1, NoFall, Nought DEF Sound
    <3> QED BY <2>1, <3>1, <3>2 DEF x, c
  <2> QED BY <2>2, <2>3
<1> QED BY <1>3, <1>4

(* A destroyed item costs x from there on. *)
LEMMA FallIs ==
  ASSUME NEW climb, ClimbOK(climb)
  PROVE  ExpectedMeso(climb, DestroyStar) = Bottom(climb)
<1>1. climb.final \in Nat /\ DestroyStar \in Nat
  BY FiguresAssumption DEF ClimbOK
<1>2. CASE DestroyStar <= climb.final
  <2>1. DestroyStar \in 0 .. climb.final
    BY <1>1, <1>2
  <2> QED BY <1>2, <2>1, MeanIs, BottomIs
<1>3. CASE ~(DestroyStar <= climb.final)
  BY <1>1, <1>3 DEF ExpectedMeso, Bottom
<1> QED BY <1>2, <1>3

(* The averages of a climb solve the equations of one attempt. *)
LEMMA AlwaysBalanced == ASSUME NEW climb, ClimbOK(climb) PROVE Balanced(climb)
<1> DEFINE last == climb.final
           mean == [s \in 0 .. last |-> ExpectedMeso(climb, s)]
           x == Bottom(climb)
<1>0. last \in Nat
  BY FiguresAssumption DEF ClimbOK
<1>1. ASSUME NEW s \in 0 .. last - 1
      PROVE  LET row == ProbRow(s, climb.reduced)
             IN Times(Scale - row[2], mean[s]) =
                  Plus(Whole(Scale * ItemCost(climb.level, s \in climb.discount, s)),
                       Plus(Times(row[1], mean[s + 1]),
                            Times(row[3], ExpectedMeso(climb, DestroyStar))))
  <2> DEFINE row == ProbRow(s, climb.reduced)
             k == Scale - row[2]
             cost == Scale * ItemCost(climb.level, s \in climb.discount, s)
             up == Coefficients(climb)[s + 1]
             own == Coefficients(climb)[s]
  <2>1. s \in Star /\ s \in 0 .. last /\ s + 1 \in 0 .. last /\ s # last
    BY <1>0, FiguresAssumption DEF ClimbOK, Star
  <2>2. row[1] \in Nat \ {0} /\ row[3] \in Nat /\ k \in Nat \ {0}
    BY <2>1, RowIs
  <2>3. cost \in Nat
    <3>1. Price[climb.level][s] \in Nat
      BY <2>1 DEF ClimbOK
    <3>2. ItemCost(climb.level, s \in climb.discount, s) \in Nat
      BY <3>1 DEF ItemCost
    <3> QED BY <3>2, FiguresAssumption
  <2>4. own = FromAbove(climb, s, up)
    <3>1. SettledFrom(climb, Coefficients(climb), 0)
      BY <1>0, CoefficientsSettled
    <3> QED BY <2>1, <3>1 DEF SettledFrom, Settled
  <2>5. /\ own.a = DividedBy(Plus(Whole(cost), Times(row[1], up.a)), k)
        /\ own.b = DividedBy(Plus(Whole(row[3]), Times(row[1], up.b)), k)
    <3> HIDE DEF own, up
    <3> QED BY <2>4 DEF FromAbove
  <2>6. InLowest(up.a) /\ InLowest(up.b) /\ InLowest(x)
    BY <2>1, CoefficientsSound, BottomIs DEF Sound
  <2>7. mean[s] = Along(own.a, own.b, x) /\ mean[s + 1] = Along(up.a, up.b, x)
    BY <2>1, MeanIs
  <2>8. ExpectedMeso(climb, DestroyStar) = x
    BY FallIs
  <2> HIDE DEF row, k, cost, up, own, x, mean
  <2>9. Times(k, Along(own.a, own.b, x))
          = Plus(Whole(cost), Plus(Times(row[1], Along(up.a, up.b, x)), Times(row[3], x)))
    BY <2>2, <2>3, <2>5, <2>6, OneAttempt
  <2>10. Times(k, mean[s])
           = Plus(Whole(cost), Plus(Times(row[1], mean[s + 1]),
                                    Times(row[3], ExpectedMeso(climb, DestroyStar))))
    BY <2>7, <2>8, <2>9
  <2> QED BY <2>10 DEF row, k, cost
<1> QED BY <1>1 DEF Balanced

-----------------------------------------------------------------------------
(* What the commands aggregate are such climbs *)

(* A set of numbers up to n has a greatest. *)
LEMMA Topmost ==
  ASSUME NEW n \in Nat, NEW S, S \subseteq 0 .. n, S # {}
  PROVE  Max(S) \in S
<1> DEFINE T == {n - x : x \in S}
<1>1. T \subseteq Nat /\ T # {}
  <2>1. ASSUME NEW x \in S PROVE n - x \in Nat
    <3>1. x \in 0 .. n
      OBVIOUS
    <3> QED BY <3>1
  <2>2. \E x \in S : n - x \in T
    OBVIOUS
  <2>3. \A m \in T : \E x \in S : m = n - x
    OBVIOUS
  <2> HIDE DEF T
  <2> QED BY <2>1, <2>2, <2>3
<1>2. \A x \in S : n - x \in T
  OBVIOUS
<1>3. \A m \in T : \E x \in S : m = n - x
  OBVIOUS
<1> HIDE DEF T
<1>4. PICK m \in T : \A k \in T : m <= k
  BY <1>1, LeastNumber
<1>5. PICK x \in S : m = n - x
  BY <1>3
<1>6. ASSUME NEW y \in S PROVE x >= y
  <2>1. n - x <= n - y
    BY <1>2, <1>4, <1>5
  <2>2. x \in Int /\ y \in Int
    OBVIOUS
  <2> QED BY <2>1, <2>2
<1> QED BY <1>6 DEF Max

ClimbsOK(summary) == \A g \in DOMAIN summary.climbs : ClimbOK(summary.climbs[g])

(* Every climb of an aggregate is one to a star there is, with known prices. *)
LEMMA Aggregated ==
  ASSUME NEW page, PageOK(page), NEW known \in [Item -> Level]
  PROVE  ClimbsOK(AggregateStarforce(page, known))
<1> DEFINE attempts == {a \in page : a.before >= MinStar}
           level(g) == MatchLevel(g[2], known)
           counted == {g \in Groups(attempts) :
                         g[2] \notin ExcludedItems /\ (level(g) = 0 \/ level(g) >= MinLevel)}
           matched == {g \in counted : level(g) # 0}
           climbs == [g \in matched |-> Climb(OfGroup(attempts, g), level(g))]
<1>1. AggregateStarforce(page, known).climbs = climbs
  BY DEF AggregateStarforce
<1>2. ASSUME NEW g \in matched PROVE ClimbOK(Climb(OfGroup(attempts, g), level(g)))
  <2>1. PICK a \in attempts : g = <<a.char, a.item>>
    BY DEF Groups
  <2>2. g[2] \in Item /\ a \in OfGroup(attempts, g)
    BY <2>1 DEF OfGroup, PageOK
  <2>3. level(g) \in DOMAIN Price
    <3>1. level(g) \in Level
      BY <2>2, FiguresAssumption DEF MatchLevel, FirstKnown
    <3> QED BY <3>1 DEF Level
  <2> DEFINE S == {b.after : b \in OfGroup(attempts, g)}
  <2>4. S \subseteq 0 .. MaxStar /\ S # {}
    BY <2>2 DEF OfGroup, PageOK
  <2>5. Max(S) \in S
    <3> HIDE DEF S
    <3> QED BY <2>4, FiguresAssumption, Topmost
  <2> DEFINE climb == Climb(OfGroup(attempts, g), level(g))
  <2>6. climb.final = Max(S) /\ climb.level = level(g)
    BY DEF Climb
  <2> HIDE DEF climb, S, level
  <2>7. climb.final \in 0 .. MaxStar
    BY <2>4, <2>5, <2>6
  <2>8. ClimbOK(climb)
    BY <2>3, <2>6, <2>7, FiguresAssumption DEF ClimbOK
  <2> QED BY <2>8 DEF climb
<1>3. ASSUME NEW g \in DOMAIN climbs PROVE ClimbOK(climbs[g])
  <2> HIDE DEF attempts, level, matched
  <2> QED BY <1>2
<1> QED BY <1>1, <1>3 DEF ClimbsOK

(* What a command knows of levels, has read and has computed. *)
Grounded(r) ==
  /\ r.levels \in [Item -> Level]
  /\ r.pc = "equipped" => PageOK(r.page)
  /\ r.pc = "aggregated" => ClimbsOK(r.summary)

FigureInv == BookInv /\ learned \in [Item -> Level] /\ \A c \in Call : Grounded(calls[c])

LEMMA FigureInit == HistoryInit => FigureInv
<1> SUFFICES ASSUME HistoryInit PROVE FigureInv
  OBVIOUS
<1>1. Grounded(Unasked)
  BY DEF Unasked, Grounded, Level
<1> QED
  BY <1>1, BookInit DEF HistoryInit, FigureInv, Level

LEMMA Overlay ==
  ASSUME NEW a \in [Item -> Level], NEW b \in [Item -> Level]
  PROVE  Overlaid(a, b) \in [Item -> Level]
BY DEF Overlaid, FirstKnown

(* One command goes on, and what it is left with is grounded. *)
LEMMA CommandGrounded ==
  ASSUME FigureInv, NEW c \in Call, Command(c)
  PROVE  learned' \in [Item -> Level] /\ \E q : Keep(c, q) /\ Grounded(q)
<1> DEFINE r == calls[c]
<1>1. r \in CommandRecord(r) /\ Accounted(r) /\ Grounded(r) /\ learned \in [Item -> Level]
  BY DEF FigureInv, BookInv, HistoryTypeOK
<1>2. r.pc \in {"fetch", "equipped", "aggregated"} => r.at \in Member
  BY <1>1 DEF Accounted, Apart, Current
<1>3. ASSUME NEW q, q.levels = r.levels, q.pc \notin {"equipped", "aggregated"} PROVE Grounded(q)
  BY <1>1, <1>3 DEF Grounded
<1> HIDE DEF r
<1>4. CASE Refuse(c)
  <2> DEFINE q == [r EXCEPT !.pc = "refused"]
  <2>1. Keep(c, q) /\ learned' = learned
    BY <1>4 DEF Refuse, r
  <2>2. q.levels = r.levels /\ q.pc = "refused"
    BY <1>1 DEF CommandRecord
  <2> QED BY <1>1, <1>3, <2>1, <2>2
<1>5. CASE Ask(c)
  <2>1. PICK pc, by, todo, nokey, missing :
          /\ Keep(c, [r EXCEPT !.pc = pc, !.by = by, !.todo = todo, !.nokey = nokey,
                               !.missing = missing])
          /\ pc \in {"failed", "load", "next"} /\ learned' = learned
    <3>1. PICK by \in Given :
            LET targets == Displayed(HistoryTargets(by.named))
                keyed == {m \in targets : Info[m].key # "none"}
            IN \E chosen \in IF by.named = <<>> THEN SelectWithSelf(keyed, by.author) ELSE {keyed} :
                 Keep(c, [r EXCEPT
                            !.pc = IF chosen = {} THEN "failed"
                                   ELSE IF by.kind = "starforce" THEN "load" ELSE "next",
                            !.by = by, !.todo = chosen,
                            !.nokey = IF by.named = <<>> THEN {} ELSE targets \ keyed,
                            !.missing = Missing(by.named)])
      BY <1>5 DEF Ask, r
    <3> DEFINE targets == Displayed(HistoryTargets(by.named))
               keyed == {m \in targets : Info[m].key # "none"}
               nokey == IF by.named = <<>> THEN {} ELSE targets \ keyed
    <3>2. PICK chosen :
            Keep(c, [r EXCEPT !.pc = IF chosen = {} THEN "failed"
                                     ELSE IF by.kind = "starforce" THEN "load" ELSE "next",
                              !.by = by, !.todo = chosen, !.nokey = nokey,
                              !.missing = Missing(by.named)])
      BY <3>1
    <3> DEFINE pc == IF chosen = {} THEN "failed"
                     ELSE IF by.kind = "starforce" THEN "load" ELSE "next"
    <3>3. pc \in {"failed", "load", "next"} /\ learned' = learned
      BY <1>5 DEF Ask
    <3>4. Keep(c, [r EXCEPT !.pc = pc, !.by = by, !.todo = chosen, !.nokey = nokey,
                            !.missing = Missing(by.named)])
      BY <3>2
    <3> HIDE DEF pc, nokey
    <3> QED BY <3>3, <3>4
  <2> DEFINE q == [r EXCEPT !.pc = pc, !.by = by, !.todo = todo, !.nokey = nokey,
                            !.missing = missing]
  <2>2. q.levels = r.levels /\ q.pc = pc
    BY <1>1 DEF CommandRecord
  <2> QED BY <1>1, <1>3, <2>1, <2>2
<1>6. CASE Load(c)
  <2> DEFINE q == [r EXCEPT !.pc = "next", !.levels = learned]
  <2>1. Keep(c, q) /\ learned' = learned
    BY <1>6 DEF Load, r
  <2>2. q.levels = learned /\ q.pc = "next"
    BY <1>1 DEF CommandRecord
  <2> HIDE DEF q
  <2>3. Grounded(q)
    BY <1>1, <2>2 DEF Grounded
  <2> QED BY <1>1, <2>1, <2>3
<1>7. CASE \E m \in Member : TakeTarget(c, m)
  <2>1. PICK m \in Member : TakeTarget(c, m)
    BY <1>7
  <2> DEFINE q == IF Info[m].key = "lost" THEN [r EXCEPT !.pc = "crashed"]
                  ELSE [r EXCEPT !.pc = "fetch", !.at = m, !.todo = @ \ {m}]
  <2>2. Keep(c, q) /\ learned' = learned
    BY <2>1 DEF TakeTarget, r
  <2>3. q.levels = r.levels /\ q.pc \in {"crashed", "fetch"}
    BY <1>1 DEF CommandRecord
  <2> HIDE DEF q
  <2> QED BY <1>1, <1>3, <2>2, <2>3
<1>8. ASSUME NEW x PROVE /\ Fails(c, x).levels = r.levels /\ Fails(c, x).pc = "next"
                         /\ Succeeds(c).levels = r.levels /\ Succeeds(c).pc = "next"
  BY <1>1 DEF CommandRecord, Fails, Succeeds, NextTarget, r
<1>9. CASE PageFails(c)
  <2>1. PICK class \in Failures : Keep(c, Fails(c, class))
    BY <1>9 DEF PageFails
  <2>2. learned' = learned
    BY <1>9 DEF PageFails
  <2> QED BY <1>1, <1>3, <1>8, <2>1, <2>2
<1>10. CASE FetchStarforce(c)
  <2>1. PICK page \in Attempts[r.at] :
          Keep(c, IF ParseAttempts(page) = {} THEN Fails(c, "no record")
                  ELSE [r EXCEPT !.pc = "equipped", !.page = ParseAttempts(page)])
    BY <1>10 DEF FetchStarforce, r
  <2>2. r.at \in Member /\ learned' = learned
    BY <1>2, <1>10 DEF FetchStarforce, r
  <2>3. PageOK(page)
    BY <2>2, HistoryAssumption
  <2>4. PageOK(ParseAttempts(page))
    BY <2>3 DEF PageOK, ParseAttempts
  <2>5. CASE ParseAttempts(page) = {}
    <3>1. Keep(c, Fails(c, "no record"))
      BY <2>1, <2>5
    <3> QED BY <1>1, <1>3, <1>8, <2>2, <3>1
  <2>6. CASE ParseAttempts(page) # {}
    <3> DEFINE parsed == ParseAttempts(page)
               q == [r EXCEPT !.pc = "equipped", !.page = parsed]
    <3>1. Keep(c, q)
      BY <2>1, <2>6
    <3> HIDE DEF parsed
    <3>2. q.levels = r.levels /\ q.pc = "equipped" /\ q.page = parsed
      BY <1>1 DEF CommandRecord
    <3> HIDE DEF q
    <3>3. Grounded(q)
      BY <1>1, <2>4, <3>2 DEF Grounded, parsed
    <3> QED BY <1>1, <2>2, <3>1, <3>3
  <2> QED BY <2>5, <2>6
<1>11. CASE FetchPotential(c)
  <2>1. PICK page :
          Keep(c, IF ParseRolls(page) = {} THEN Fails(c, "no record")
                  ELSE NextTarget([r EXCEPT !.results =
                                     @ \cup {<<r.at, AggregatePotential(ParseRolls(page))>>}]))
    BY <1>11 DEF FetchPotential, r
  <2>2. learned' = learned
    BY <1>11 DEF FetchPotential
  <2>3. ASSUME NEW x PROVE LET q == NextTarget([r EXCEPT !.results = @ \cup x])
                           IN q.levels = r.levels /\ q.pc = "next"
    BY <1>1 DEF CommandRecord, NextTarget
  <2> DEFINE x == {<<r.at, AggregatePotential(ParseRolls(page))>>}
  <2>4. \/ Keep(c, Fails(c, "no record"))
        \/ Keep(c, NextTarget([r EXCEPT !.results = @ \cup x]))
    BY <2>1
  <2> HIDE DEF x
  <2> QED BY <1>1, <1>3, <1>8, <2>2, <2>3, <2>4
<1>12. CASE Aggregate(c)
  <2>1. PICK equipped \in {Info[r.at].equipped, [i \in Item |-> 0]} :
          /\ learned' = Overlaid(learned, equipped)
          /\ Keep(c, [r EXCEPT !.pc = "aggregated", !.page = {}, !.summary =
                        AggregateStarforce(r.page, Overlaid(r.levels, equipped))])
    BY <1>12 DEF Aggregate, r
  <2>2. r.at \in Member /\ PageOK(r.page) /\ r.levels \in [Item -> Level]
    BY <1>1, <1>2, <1>12 DEF Aggregate, Grounded, r
  <2>3. equipped \in [Item -> Level]
    BY <2>1, <2>2, HistoryAssumption DEF Level
  <2> DEFINE known == Overlaid(r.levels, equipped)
             summary == AggregateStarforce(r.page, known)
             q == [r EXCEPT !.pc = "aggregated", !.page = {}, !.summary = summary]
  <2>4. learned' \in [Item -> Level] /\ known \in [Item -> Level]
    BY <1>1, <2>1, <2>2, <2>3, Overlay
  <2>5. ClimbsOK(summary)
    <3> HIDE DEF known
    <3> QED BY <2>2, <2>4, Aggregated
  <2>6. Keep(c, q)
    BY <2>1
  <2> HIDE DEF summary
  <2>7. q.levels = r.levels /\ q.pc = "aggregated" /\ q.summary = summary
    BY <1>1 DEF CommandRecord
  <2> HIDE DEF q
  <2>8. Grounded(q)
    BY <2>2, <2>5, <2>7 DEF Grounded
  <2> QED BY <2>4, <2>6, <2>8
<1>13. CASE Report(c)
  <2>1. \/ Keep(c, Fails(c, "nothing from ten stars on"))
        \/ Keep(c, Succeeds(c))
    BY <1>13 DEF Report
  <2>2. learned' = learned
    BY <1>13 DEF Report
  <2> QED BY <1>1, <1>3, <1>8, <2>1, <2>2
<1>14. CASE Answer(c)
  <2> DEFINE pc == IF r.results = {} THEN "failed" ELSE "table"
             q == [r EXCEPT !.pc = pc]
  <2>1. Keep(c, q) /\ learned' = learned
    BY <1>14 DEF Answer, r
  <2>2. q.levels = r.levels /\ q.pc \in {"failed", "table"}
    BY <1>1 DEF CommandRecord
  <2> HIDE DEF q
  <2> QED BY <1>1, <1>3, <2>1, <2>2
<1> QED
  BY <1>4, <1>5, <1>6, <1>7, <1>9, <1>10, <1>11, <1>12, <1>13, <1>14 DEF Command

LEMMA FigureNext == FigureInv /\ [HistoryNext]_historyVars => FigureInv'
<1> SUFFICES ASSUME FigureInv, [HistoryNext]_historyVars PROVE FigureInv'
  OBVIOUS
<1>1. BookInv'
  BY BookNext DEF FigureInv
<1>2. calls = [c \in Call |-> calls[c]]
  BY DEF FigureInv, BookInv, HistoryTypeOK
<1>3. CASE \E c \in Call : Command(c)
  <2>1. PICK c \in Call : Command(c)
    BY <1>3
  <2>2. PICK q : Keep(c, q) /\ Grounded(q)
    BY <2>1, CommandGrounded
  <2>3. calls' = [calls EXCEPT ![c] = q]
    BY <2>2 DEF Keep
  <2>4. ASSUME NEW d \in Call PROVE Grounded(calls'[d])
    BY <1>2, <2>2, <2>3 DEF FigureInv
  <2>5. learned' \in [Item -> Level]
    BY <2>1, CommandGrounded
  <2> QED BY <1>1, <2>4, <2>5 DEF FigureInv
<1>4. CASE calls' = calls /\ learned' = learned
  BY <1>1, <1>4 DEF FigureInv
<1>5. CASE AppKeyFails \/ PartPasses \/ OpsJob \/ UNCHANGED historyVars
  BY <1>4, <1>5 DEF AppKeyFails, PartPasses, OpsJob, JobRead, JobSend, JobPrune, historyVars
<1> QED
  BY <1>3, <1>5 DEF HistoryNext

(* What the paid meso is compared with is the exact average of such a climb, *)
(* under the events of each star and over every fall to the star of          *)
(* destruction and back up - for any table of probabilities in which an      *)
(* attempt may succeed, any prices, any last star and any records, whatever  *)
(* levels the commands learn from each other.                                *)
THEOREM ExpectationIsFair == HistorySpec => []ExpectationFair
<1>1. ASSUME FigureInv PROVE ExpectationFair
  <2> SUFFICES ASSUME NEW c \in Call, calls[c].pc = "aggregated",
                      NEW g \in DOMAIN calls[c].summary.climbs
               PROVE  Balanced(calls[c].summary.climbs[g])
    BY DEF ExpectationFair
  <2>1. ClimbOK(calls[c].summary.climbs[g])
    BY <1>1 DEF FigureInv, Grounded, ClimbsOK
  <2> QED BY <2>1, AlwaysBalanced
<1>2. HistorySpec => []FigureInv
  BY FigureInit, FigureNext, PTL DEF HistorySpec
<1> QED
  BY <1>1, <1>2, PTL
=============================================================================
