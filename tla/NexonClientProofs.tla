------------------------- MODULE NexonClientProofs -------------------------
(***************************************************************************)
(* NexonClient for any number of coroutines, keys, intervals and retries:  *)
(* the spacing of the requests of a key.                                   *)
(***************************************************************************)
EXTENDS NexonClient, TLAPS

(* The bucket of a key lets the next request pass when its Interval is over; *)
(* a sleeper holds the lock of the bucket and does not wake before that.   *)
Spaced ==
  /\ \A k \in Key : since[k] + wait[k] = Interval[k]
  /\ \A c \in Call : call[c].stage = "sleep" =>
       /\ Holds(c, call[c].key)
       /\ wait[call[c].key] <= call[c].timer
       /\ call[c].timer <= Interval[call[c].key]

Inv == TypeOK /\ Spaced

LEMMA InitInv == Init => Inv
<1> SUFFICES ASSUME Init PROVE Inv
  OBVIOUS
<1> USE NexonClientAssumption DEF Init
<1>1. call \in [Call -> [stage   : {"idle", "lock", "sleep", "request", "backoff"},
                         key     : Key,
                         timer   : Nat,
                         attempt : 0 .. max_retry]]
  OBVIOUS
<1>2. lock \in [Key -> Seq(Call)]
  OBVIOUS
<1>3. wait \in [Key -> Nat] /\ since \in [Key -> Nat]
  OBVIOUS
<1>4. Spaced
  <2>1. \A c \in Call : call[c].stage = "idle"
    OBVIOUS
  <2>2. \A k \in Key : since[k] = Interval[k] /\ wait[k] = 0 /\ Interval[k] \in Nat
    OBVIOUS
  <2> QED
    BY <2>1, <2>2 DEF Spaced
<1> QED
  BY <1>1, <1>2, <1>3, <1>4 DEF Inv, TypeOK

(* A coroutine that changes its own record and no bucket, and does not sleep, *)
(* leaves the spacing as it is.                                            *)
LEMMA OwnRecordOnly ==
  ASSUME Inv, NEW c \in Call,
         NEW r \in [stage : {"idle", "lock", "request", "backoff"}, key : Key,
                    timer : Nat, attempt : 0 .. max_retry],
         call' = [call EXCEPT ![c] = r],
         UNCHANGED <<lock, wait, since>>
  PROVE  Inv'
<1>1. TypeOK'
  BY DEF Inv, TypeOK
<1>2. r.stage # "sleep"
  OBVIOUS
<1>3. \A q \in Call : q # c => call'[q] = call[q]
  BY DEF Inv, TypeOK
<1>4. call'[c] = r
  BY DEF Inv, TypeOK
<1>5. Spaced'
  BY <1>2, <1>3, <1>4 DEF Inv, Spaced, Holds
<1> QED
  BY <1>1, <1>5 DEF Inv

LEMMA EnterInv ==
  ASSUME Inv, NEW c \in Call, NEW k \in Key, NEW attempt \in 0 .. max_retry,
         call[c].stage # "sleep", Enter(c, k, attempt)
  PROVE  Inv'
<1>1. CASE Interval[k] = 0
  <2> DEFINE r == [stage |-> "request", key |-> k, timer |-> 0, attempt |-> attempt]
  <2>1. r \in [stage : {"idle", "lock", "request", "backoff"}, key : Key,
               timer : Nat, attempt : 0 .. max_retry]
    OBVIOUS
  <2>2. call' = [call EXCEPT ![c] = r] /\ UNCHANGED <<lock, wait, since>>
    BY <1>1 DEF Enter, Go
  <2> HIDE DEF r
  <2> QED
    BY <2>1, <2>2, OwnRecordOnly
<1>2. CASE Interval[k] # 0
  <2> DEFINE r == [stage |-> "lock", key |-> k, timer |-> 0, attempt |-> attempt]
  <2>1. r \in [stage : {"idle", "lock", "sleep", "request", "backoff"}, key : Key,
               timer : Nat, attempt : 0 .. max_retry]
        /\ r.stage # "sleep"
    OBVIOUS
  <2>2. /\ call' = [call EXCEPT ![c] = r]
        /\ lock' = [lock EXCEPT ![k] = Append(@, c)]
        /\ UNCHANGED <<wait, since>>
    BY <1>2 DEF Enter
  <2> HIDE DEF r
  <2>3. TypeOK'
    <3>1. call' \in [Call ->
            [stage : {"idle", "lock", "sleep", "request", "backoff"}, key : Key,
             timer : Nat, attempt : 0 .. max_retry]]
      BY <2>1, <2>2 DEF Inv, TypeOK
    <3>2. lock \in [Key -> Seq(Call)]
      BY DEF Inv, TypeOK
    <3>3. Append(lock[k], c) \in Seq(Call)
      BY <3>2
    <3>4. lock' \in [Key -> Seq(Call)]
      BY <2>2, <3>2, <3>3
    <3> QED
      BY <2>2, <3>1, <3>4 DEF Inv, TypeOK
  <2>4. \A q \in Call : q # c => call'[q] = call[q]
    BY <2>2 DEF Inv, TypeOK
  <2>5. call'[c] = r
    BY <2>2 DEF Inv, TypeOK
  <2>6. ASSUME NEW q \in Key, NEW d \in Call, lock[q] # <<>>, Head(lock[q]) = d
        PROVE  lock'[q] # <<>> /\ Head(lock'[q]) = d
    <3>1. lock[q] \in Seq(Call)
      BY DEF Inv, TypeOK
    <3>2. lock'[q] = lock[q] \/ lock'[q] = Append(lock[q], c)
      BY <2>2 DEF Inv, TypeOK
    <3> QED
      BY <2>6, <3>1, <3>2
  <2>7. Spaced'
    BY <2>1, <2>2, <2>4, <2>5, <2>6 DEF Inv, Spaced, Holds, TypeOK
  <2> QED
    BY <2>3, <2>7 DEF Inv
<1> QED
  BY <1>1, <1>2

LEMMA PassInv ==
  ASSUME Inv, NEW c \in Call, NEW k \in Key, Pass(c, k)
  PROVE  Inv' /\ since[k] = Interval[k]
<1>0. /\ lock[k] \in Seq(Call) /\ lock[k] # <<>>
      /\ Interval[k] \in Nat /\ wait[k] \in Nat /\ since[k] \in Nat
      /\ call[c].key = k /\ call[c].attempt \in 0 .. max_retry /\ call[c].timer \in Nat
  BY NexonClientAssumption DEF Inv, TypeOK, Pass, Holds
<1>1. wait[k] = 0
  BY <1>0 DEF Pass, Inv, Spaced
<1>2. since[k] = Interval[k]
  BY <1>0, <1>1 DEF Inv, Spaced
<1> DEFINE r == [stage |-> "request", key |-> k, timer |-> 0, attempt |-> call[c].attempt]
<1>3. /\ call' = [call EXCEPT ![c] = r]
      /\ wait' = [wait EXCEPT ![k] = Interval[k]]
      /\ since' = [since EXCEPT ![k] = 0]
      /\ lock' = [lock EXCEPT ![k] = Tail(@)]
  BY DEF Pass, Go, NextAllowed
<1>4. r \in [stage : {"idle", "lock", "sleep", "request", "backoff"}, key : Key,
             timer : Nat, attempt : 0 .. max_retry]
      /\ r.stage # "sleep"
  BY <1>0
<1> HIDE DEF r
<1>5. Tail(lock[k]) \in Seq(Call)
  BY <1>0
<1>6. TypeOK'
  BY <1>0, <1>3, <1>4, <1>5 DEF Inv, TypeOK
<1>7. \A q \in Key : since'[q] + wait'[q] = Interval[q]
  <2> SUFFICES ASSUME NEW q \in Key PROVE since'[q] + wait'[q] = Interval[q]
    OBVIOUS
  <2>0. wait \in [Key -> Nat] /\ since \in [Key -> Nat]
    BY DEF Inv, TypeOK
  <2>1. CASE q = k
    BY <1>0, <1>3, <2>0, <2>1
  <2>2. CASE q # k
    BY <1>3, <2>0, <2>2 DEF Inv, Spaced
  <2> QED
    BY <2>1, <2>2
<1>8. ASSUME NEW d \in Call, call'[d].stage = "sleep"
      PROVE  /\ Holds(d, call[d].key)'
             /\ wait'[call'[d].key] <= call'[d].timer
             /\ call'[d].timer <= Interval[call'[d].key]
  <2>1. d # c
    BY <1>3, <1>4, <1>8 DEF Inv, TypeOK
  <2>2. call'[d] = call[d]
    BY <1>3, <2>1 DEF Inv, TypeOK
  <2>3. /\ Holds(d, call[d].key)
        /\ wait[call[d].key] <= call[d].timer
        /\ call[d].timer <= Interval[call[d].key]
    BY <1>8, <2>2 DEF Inv, Spaced
  <2>4. call[d].key # k
    BY <2>1, <2>3 DEF Pass, Holds
  <2>5. call[d].key \in Key
    BY DEF Inv, TypeOK
  <2>6. lock'[call[d].key] = lock[call[d].key] /\ wait'[call[d].key] = wait[call[d].key]
    BY <1>3, <2>4, <2>5 DEF Inv, TypeOK
  <2> QED
    BY <2>2, <2>3, <2>6 DEF Holds
<1>9. Spaced'
  BY <1>7, <1>8 DEF Spaced
<1> QED
  BY <1>2, <1>6, <1>9 DEF Inv

LEMMA SleepInv ==
  ASSUME Inv, NEW c \in Call, NEW k \in Key, Sleep(c, k)
  PROVE  Inv'
<1>0. /\ Interval[k] \in Nat /\ wait[k] \in Nat /\ since[k] \in Nat
      /\ call[c].attempt \in 0 .. max_retry
      /\ Holds(c, k) /\ since[k] + wait[k] = Interval[k]
  BY NexonClientAssumption DEF Inv, TypeOK, Sleep, Spaced
<1> DEFINE r == [stage |-> "sleep", key |-> k, timer |-> wait[k], attempt |-> call[c].attempt]
<1>1. call' = [call EXCEPT ![c] = r] /\ UNCHANGED <<lock, wait, since>>
  BY DEF Sleep
<1>2. r \in [stage : {"idle", "lock", "sleep", "request", "backoff"}, key : Key,
             timer : Nat, attempt : 0 .. max_retry]
      /\ r.key = k /\ r.timer = wait[k]
  BY <1>0
<1> HIDE DEF r
<1>3. TypeOK'
  BY <1>1, <1>2 DEF Inv, TypeOK
<1>4. call'[c] = r /\ \A q \in Call : q # c => call'[q] = call[q]
  BY <1>1 DEF Inv, TypeOK
<1>5. wait[k] <= Interval[k]
  BY <1>0
<1>6. Spaced'
  BY <1>0, <1>1, <1>2, <1>4, <1>5 DEF Inv, Spaced, Holds
<1> QED
  BY <1>3, <1>6 DEF Inv

LEMMA TickInv == ASSUME Inv, Tick PROVE Inv'
<1>1. /\ \A c \in Call : call'[c] = [call[c] EXCEPT !.timer = Less(@)]
      /\ \A k \in Key : wait'[k] = Less(wait[k])
      /\ \A k \in Key : since'[k] = IF since[k] < Interval[k] THEN since[k] + 1 ELSE since[k]
      /\ lock' = lock
  BY DEF Tick
<1>2. \A n \in Nat : Less(n) \in Nat
  BY DEF Less
<1>3. \A k \in Key : wait[k] \in Nat /\ since[k] \in Nat /\ Interval[k] \in Nat
  BY NexonClientAssumption DEF Inv, TypeOK
<1>4. \A c \in Call : /\ call[c].timer \in Nat /\ call[c].key \in Key
                      /\ call'[c].stage = call[c].stage /\ call'[c].key = call[c].key
                      /\ call'[c].attempt = call[c].attempt
                      /\ call'[c].timer = Less(call[c].timer)
  <2> SUFFICES ASSUME NEW c \in Call
               PROVE  /\ call[c].timer \in Nat /\ call[c].key \in Key
                      /\ call'[c].stage = call[c].stage /\ call'[c].key = call[c].key
                      /\ call'[c].attempt = call[c].attempt
                      /\ call'[c].timer = Less(call[c].timer)
    OBVIOUS
  <2>1. call[c] \in [stage : {"idle", "lock", "sleep", "request", "backoff"},
                     key : Key, timer : Nat, attempt : 0 .. max_retry]
    BY DEF Inv, TypeOK
  <2>2. call'[c] = [call[c] EXCEPT !.timer = Less(call[c].timer)]
    BY <1>1
  <2> QED
    BY <2>1, <2>2
<1>5. TypeOK'
  <2>1. call' \in [Call -> [stage   : {"idle", "lock", "sleep", "request", "backoff"},
                            key     : Key,
                            timer   : Nat,
                            attempt : 0 .. max_retry]]
    BY <1>2 DEF Tick, Inv, TypeOK
  <2>2. wait' \in [Key -> Nat]
    BY <1>2, <1>3 DEF Tick
  <2>3. since' \in [Key -> Nat]
    BY <1>3 DEF Tick
  <2> QED
    BY <1>1, <2>1, <2>2, <2>3 DEF Inv, TypeOK
<1>6. \A k \in Key : since'[k] + wait'[k] = Interval[k]
  <2> SUFFICES ASSUME NEW k \in Key PROVE since'[k] + wait'[k] = Interval[k]
    OBVIOUS
  <2>1. since[k] + wait[k] = Interval[k]
    BY DEF Inv, Spaced
  <2> QED
    BY <1>1, <1>3, <2>1 DEF Less
<1>7. ASSUME NEW c \in Call, call'[c].stage = "sleep"
      PROVE  /\ Holds(c, call[c].key)'
             /\ wait'[call'[c].key] <= call'[c].timer
             /\ call'[c].timer <= Interval[call'[c].key]
  <2>1. /\ Holds(c, call[c].key)
        /\ wait[call[c].key] <= call[c].timer
        /\ call[c].timer <= Interval[call[c].key]
    BY <1>4, <1>7 DEF Inv, Spaced
  <2>2. Holds(c, call[c].key)'
    BY <1>1, <1>4, <2>1 DEF Holds
  <2>3. wait'[call[c].key] = Less(wait[call[c].key])
    BY <1>1, <1>4
  <2>4. /\ Less(wait[call[c].key]) <= Less(call[c].timer)
        /\ Less(call[c].timer) <= Interval[call[c].key]
    BY <1>3, <1>4, <2>1 DEF Less
  <2> QED
    BY <1>4, <2>2, <2>3, <2>4
<1>8. Spaced'
  BY <1>6, <1>7 DEF Spaced
<1> QED
  BY <1>5, <1>8 DEF Inv

LEMMA AnswerInv == ASSUME Inv, NEW c \in Call, Answer(c) \/ Retry(c) PROVE Inv'
<1>0. /\ call[c] \in [stage : {"idle", "lock", "sleep", "request", "backoff"},
                      key : Key, timer : Nat, attempt : 0 .. max_retry]
      /\ max_retry \in Nat /\ retry_wait \in Nat
  BY NexonClientAssumption DEF Inv, TypeOK
<1>1. CASE Answer(c)
  <2> DEFINE r == [call[c] EXCEPT !.stage = "idle", !.attempt = 0]
  <2>1. r \in [stage : {"idle", "lock", "request", "backoff"}, key : Key,
               timer : Nat, attempt : 0 .. max_retry]
    <3>1. 0 \in 0 .. max_retry
      BY <1>0
    <3> QED
      BY <1>0, <3>1
  <2>2. call' = [call EXCEPT ![c] = r] /\ UNCHANGED <<lock, wait, since>>
    BY <1>0, <1>1 DEF Answer, Inv, TypeOK
  <2> HIDE DEF r
  <2> QED
    BY <2>1, <2>2, OwnRecordOnly
<1>2. CASE Retry(c)
  <2> DEFINE attempt == call[c].attempt + 1
             r == [call[c] EXCEPT !.stage = "backoff", !.timer = retry_wait * attempt,
                                  !.attempt = attempt]
  <2>1. attempt \in 0 .. max_retry /\ retry_wait * attempt \in Nat
    BY <1>0, <1>2 DEF Retry, MayRetry
  <2>2. call' = [call EXCEPT ![c] = r] /\ UNCHANGED <<lock, wait, since>>
    BY <1>2 DEF Retry, NextAttempt
  <2> HIDE DEF attempt
  <2>3. r \in [stage : {"idle", "lock", "request", "backoff"}, key : Key,
               timer : Nat, attempt : 0 .. max_retry]
    BY <1>0, <2>1
  <2> HIDE DEF r
  <2> QED
    BY <2>2, <2>3, OwnRecordOnly
<1> QED
  BY <1>1, <1>2

LEMMA NextInv == Inv /\ [Next]_vars => Inv'
<1> SUFFICES ASSUME Inv, [Next]_vars PROVE Inv'
  OBVIOUS
<1>1. CASE Tick
  BY <1>1, TickInv
<1>2. ASSUME NEW c \in Call, NEW k \in Key, Pass(c, k) PROVE Inv'
  BY <1>2, PassInv
<1>3. ASSUME NEW c \in Call, NEW k \in Key, Sleep(c, k) PROVE Inv'
  BY <1>3, SleepInv
<1>4. ASSUME NEW c \in Call, Answer(c) \/ Retry(c) PROVE Inv'
  BY <1>4, AnswerInv
<1>5. ASSUME NEW c \in Call, TryAgain(c) PROVE Inv'
  <2>1. call[c].key \in Key /\ call[c].attempt \in 0 .. max_retry
    BY DEF Inv, TypeOK
  <2>2. call[c].stage # "sleep" /\ Enter(c, call[c].key, call[c].attempt)
    BY <1>5 DEF TryAgain
  <2> QED
    BY <2>1, <2>2, EnterInv
<1>6. ASSUME NEW c \in Call, NEW k \in Key, Request(c, k) PROVE Inv'
  <2>1. 0 \in 0 .. max_retry
    BY NexonClientAssumption
  <2>2. call[c].stage # "sleep" /\ Enter(c, k, 0)
    BY <1>6 DEF Request
  <2> QED
    BY <2>1, <2>2, EnterInv
<1>7. CASE UNCHANGED vars
  BY <1>7 DEF vars, Inv, TypeOK, Spaced, Holds
<1> QED
  BY <1>1, <1>2, <1>3, <1>4, <1>5, <1>6, <1>7 DEF Next, Step

(* The invariant of the buckets: it gives the types of all variables too. *)
THEOREM Invariance == Spec => []Inv
  BY InitInv, NextInv, PTL DEF Spec

(* The variables of the client keep their types; no call is tried more than *)
(* max_retry times again.                                                  *)
THEOREM TypeCorrect == Spec => []TypeOK
<1>1. Inv => TypeOK
  BY DEF Inv
<1> QED
  BY Invariance, <1>1, PTL

(* No call sleeps in the throttle longer than the interval of its own key. *)
THEOREM OwnIntervalOnly == Spec => []NoLongSleep
<1>1. Inv => NoLongSleep
  BY DEF Inv, Spaced, NoLongSleep
<1> QED
  BY Invariance, <1>1, PTL

(* Requests of one key start an interval apart, for every key, interval and *)
(* number of coroutines.                                                   *)
THEOREM SpacingHolds == Spec => PerKeySpacing
<1> DEFINE Apart ==
      \A c \in Call : call'[c].stage = "request" /\ call[c].stage # "request" =>
        since[call'[c].key] >= Interval[call'[c].key]
<1>1. Inv /\ [Next]_vars => [Apart]_vars
  <2> SUFFICES ASSUME Inv, Next, NEW c \in Call,
                      call'[c].stage = "request", call[c].stage # "request"
               PROVE  since[call'[c].key] >= Interval[call'[c].key]
    BY DEF vars
  <2>0. call \in [Call -> [stage   : {"idle", "lock", "sleep", "request", "backoff"},
                           key     : Key,
                           timer   : Nat,
                           attempt : 0 .. max_retry]]
    BY DEF Inv, TypeOK
  <2>1. ASSUME NEW d \in Call, NEW k \in Key, Pass(d, k)
        PROVE  since[call'[c].key] >= Interval[call'[c].key]
    <3>1. since[k] = Interval[k] /\ Interval[k] \in Nat
      BY <2>1, PassInv, NexonClientAssumption
    <3>2. c = d
      BY <2>0, <2>1 DEF Pass, Go
    <3>3. call'[c].key = k
      BY <2>0, <2>1, <3>2 DEF Pass, Go
    <3> QED
      BY <3>1, <3>3
  <2>2. ASSUME NEW d \in Call, NEW k \in Key, NEW attempt, Enter(d, k, attempt)
        PROVE  since[call'[c].key] >= Interval[call'[c].key]
    <3>1. CASE Interval[k] = 0
      <4>1. c = d
        BY <2>0, <2>2, <3>1 DEF Enter, Go
      <4>2. call'[c].key = k
        BY <2>0, <2>2, <3>1, <4>1 DEF Enter, Go
      <4>3. since[k] \in Nat
        BY DEF Inv, TypeOK
      <4> QED
        BY <3>1, <4>2, <4>3
    <3>2. CASE Interval[k] # 0
      <4> DEFINE r == [stage |-> "lock", key |-> k, timer |-> 0, attempt |-> attempt]
      <4>1. call' = [call EXCEPT ![d] = r]
        BY <2>2, <3>2 DEF Enter
      <4>2. r.stage # "request"
        OBVIOUS
      <4> HIDE DEF r
      <4> QED
        BY <2>0, <4>1, <4>2
    <3> QED
      BY <3>1, <3>2
  <2>3. ASSUME NEW d \in Call, NEW k \in Key, Sleep(d, k)
        PROVE  FALSE
    BY <2>0, <2>3 DEF Sleep
  <2>4. ASSUME NEW d \in Call, Answer(d) \/ Retry(d)
        PROVE  FALSE
    BY <2>0, <2>4 DEF Answer, Retry
  <2>5. CASE Tick
    BY <2>0, <2>5 DEF Tick
  <2>6. ASSUME NEW d \in Call, TryAgain(d)
        PROVE  since[call'[c].key] >= Interval[call'[c].key]
    BY <2>0, <2>2, <2>6 DEF TryAgain
  <2>7. ASSUME NEW d \in Call, NEW k \in Key, Request(d, k)
        PROVE  since[call'[c].key] >= Interval[call'[c].key]
    BY <2>2, <2>7 DEF Request
  <2> QED
    BY <2>1, <2>3, <2>4, <2>5, <2>6, <2>7 DEF Next, Step
<1> QED
  BY Invariance, <1>1, PTL DEF Spec, PerKeySpacing

=============================================================================
