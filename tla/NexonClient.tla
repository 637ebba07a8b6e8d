---------------------------- MODULE NexonClient ----------------------------
(***************************************************************************)
(* NexonClient._request: every call passes the throttle bucket of its key, *)
(* asks Nexon, and after a timeout or a 429 backs off and tries again.     *)
(*                                                                         *)
(* Times are countdowns: a timer holds what is left of it and reaches 0    *)
(* when its moment has come.  The event loop may resume a sleeper late.    *)
(***************************************************************************)
EXTENDS Naturals, Sequences

CONSTANTS
  Call,       \* coroutines that may call the client together
  Key,        \* the app key and the personal keys
  Interval,   \* _throttle or _personal_throttle of a key; 0 turns it off
  max_retry,
  retry_wait

ASSUME NexonClientAssumption ==
  /\ Interval \in [Key -> Nat]
  /\ max_retry \in Nat
  /\ retry_wait \in Nat

VARIABLES
  call,  \* what each coroutine is doing
  lock,  \* the asyncio.Lock of a bucket: its holder, then those that wait
  wait,  \* what is left until next_allowed of the bucket
  since  \* ghost: how long ago a request of the key started, up to its Interval

vars == <<call, lock, wait, since>>

TypeOK ==
  /\ call \in [Call ->
       [stage   : {"idle", "lock", "sleep", "request", "backoff"},
        key     : Key,
        timer   : Nat,
        attempt : 0 .. max_retry]]
  /\ lock \in [Key -> Seq(Call)]
  /\ wait \in [Key -> Nat]
  /\ since \in [Key -> Nat]

Init ==
  /\ call \in [Call -> [stage : {"idle"}, key : Key, timer : {0}, attempt : {0}]]
  /\ lock = [k \in Key |-> <<>>]
  /\ wait = [k \in Key |-> 0]
  /\ since = Interval

-----------------------------------------------------------------------------
(* _await_throttle *)

(* The request of c starts; next_allowed is counted from this moment. *)
NextAllowedAtOnce(k) == 0
NextAllowedOfTheAppKey(k) == CHOOSE n \in {Interval[q] : q \in Key} :
                               \A q \in Key : Interval[q] <= n

NextAllowed(k) == Interval[k]

Go(c, k, attempt) ==
  call' = [call EXCEPT ![c] =
    [stage |-> "request", key |-> k, timer |-> 0, attempt |-> attempt]]

Enter(c, k, attempt) ==
  IF Interval[k] = 0
  THEN /\ Go(c, k, attempt)
       /\ UNCHANGED <<lock, wait, since>>
  ELSE /\ call' = [call EXCEPT ![c] =
            [stage |-> "lock", key |-> k, timer |-> 0, attempt |-> attempt]]
       /\ lock' = [lock EXCEPT ![k] = Append(@, c)]
       /\ UNCHANGED <<wait, since>>

Holds(c, k) == call[c].key = k /\ lock[k] # <<>> /\ Head(lock[k]) = c

Pass(c, k) ==
  /\ Holds(c, k)
  /\ \/ call[c].stage = "lock" /\ wait[k] = 0
     \/ call[c].stage = "sleep" /\ call[c].timer = 0
  /\ wait' = [wait EXCEPT ![k] = NextAllowed(k)]
  /\ since' = [since EXCEPT ![k] = 0]
  /\ lock' = [lock EXCEPT ![k] = Tail(@)]
  /\ Go(c, k, call[c].attempt)

Sleep(c, k) ==
  /\ Holds(c, k)
  /\ call[c].stage = "lock"
  /\ wait[k] > 0
  /\ call' = [call EXCEPT ![c] =
       [stage |-> "sleep", key |-> k, timer |-> wait[k], attempt |-> call[c].attempt]]
  /\ UNCHANGED <<lock, wait, since>>

-----------------------------------------------------------------------------
(* _request *)

Request(c, k) ==
  /\ call[c].stage = "idle"
  /\ Enter(c, k, 0)

(* 200, or an error that is raised to the caller. *)
Answer(c) ==
  /\ call[c].stage = "request"
  /\ call' = [call EXCEPT ![c].stage = "idle", ![c].attempt = 0]
  /\ UNCHANGED <<lock, wait, since>>

MayRetry(c) == call[c].attempt < max_retry

SameAttempt(c) == call[c].attempt

NextAttempt(c) == call[c].attempt + 1

(* A timeout, a transport error or a 429. *)
Retry(c) ==
  LET attempt == NextAttempt(c)
  IN /\ call[c].stage = "request"
     /\ MayRetry(c)
     /\ call' = [call EXCEPT ![c] =
          [@ EXCEPT !.stage = "backoff", !.timer = retry_wait * attempt, !.attempt = attempt]]
     /\ UNCHANGED <<lock, wait, since>>

TryAgain(c) ==
  /\ call[c].stage = "backoff"
  /\ call[c].timer = 0
  /\ Enter(c, call[c].key, call[c].attempt)

-----------------------------------------------------------------------------
Less(n) == IF n = 0 THEN 0 ELSE n - 1

Tick ==
  /\ call' = [c \in Call |-> [call[c] EXCEPT !.timer = Less(@)]]
  /\ wait' = [k \in Key |-> Less(wait[k])]
  /\ since' = [k \in Key |-> IF since[k] < Interval[k] THEN since[k] + 1 ELSE since[k]]
  /\ UNCHANGED lock

Step(c) ==
  \/ \E k \in Key : Pass(c, k) \/ Sleep(c, k)
  \/ Answer(c) \/ Retry(c) \/ TryAgain(c)

Next ==
  \/ Tick
  \/ \E c \in Call : Step(c) \/ \E k \in Key : Request(c, k)

Spec == Init /\ [][Next]_vars

(* The event loop runs what is ready, time passes, and httpx gives up on a *)
(* request after its timeout.                                              *)
FairSpec ==
  /\ Spec
  /\ WF_vars(Tick)
  /\ \A c \in Call : WF_vars(Step(c))

-----------------------------------------------------------------------------
(* Two requests of one key start at least the Interval of the key apart,   *)
(* retries included, however many coroutines wait and however late the     *)
(* loop resumes them.                                                      *)
PerKeySpacing ==
  [][\A c \in Call :
       call'[c].stage = "request" /\ call[c].stage # "request" =>
         since[call'[c].key] >= Interval[call'[c].key]]_vars

(* Nobody sleeps longer than the Interval of its own key: the calls of one *)
(* key do not hold up those of another.                                    *)
NoLongSleep ==
  \A c \in Call : call[c].stage = "sleep" => call[c].timer <= Interval[call[c].key]

(* Every call comes back, with an answer or with an error, however often   *)
(* Nexon fails and however many calls of its key come after it.            *)
EveryCallEnds ==
  \A c \in Call : call[c].stage # "idle" ~> call[c].stage = "idle"

=============================================================================
