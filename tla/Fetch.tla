--------------------------------- MODULE Fetch ---------------------------------
(***************************************************************************)
(* internal/retry and the loops over it in nws.Client and spc.Client: one  *)
(* HTTP fetch with its attempts, inside the deadline of its context.       *)
(*                                                                         *)
(* The client's own timeout is longer than any context                     *)
(* (constants.go:71-74) and left out.                                      *)
(***************************************************************************)
EXTENDS Integers

CONSTANTS
    MaxAttempts,          \* HTTPRetryMaxAttempts
    BaseDelay, MaxDelay,  \* the bounds of the backoff, in ticks
    nextAttemptFloor,
    RetryAfter,           \* the values of Retry-After upstream sends
    Late                  \* how late a timer, a context are noticed

ASSUME RetryAssumption ==
    /\ MaxAttempts \in Nat \ {0}
    /\ BaseDelay \in Nat /\ MaxDelay \in Nat /\ nextAttemptFloor \in Nat
    /\ RetryAfter \subseteq Nat /\ Late \in Nat

VARIABLES
    now,
    at,        \* "request", "asleep", "answered" or "failed"
    attempt,
    deadline,  \* of the context
    sentAt,    \* when the attempt began
    wakeAt     \* when the sleep is over

call == <<attempt, deadline, sentAt, wakeAt>>
fetchVars == <<now, at, call>>

FetchTypeOK ==
    /\ now \in Nat /\ at \in {"request", "asleep", "answered", "failed"}
    /\ attempt \in 0 .. MaxAttempts - 1
    /\ deadline \in Nat /\ sentAt \in Nat /\ wakeAt \in Nat

Least(a, b) == IF a < b THEN a ELSE b

remaining == deadline - now

(* The first attempt, under a context with deadline d. *)
FetchBegins(d) ==
    /\ at' = "request" /\ attempt' = 0 /\ deadline' = d
    /\ sentAt' = now /\ wakeAt' = now

-----------------------------------------------------------------------------
(* A body that is read to its end, or a 304. *)
Answered ==
    /\ at = "request" /\ now < deadline
    /\ at' = "answered"
    /\ UNCHANGED <<now, call>>

(* A status that is not worth a retry, or a body that cannot be parsed. *)
Rejected ==
    /\ at = "request" /\ now < deadline
    /\ at' = "failed"
    /\ UNCHANGED <<now, call>>

(* BackoffDelay, with its full jitter: up to BaseDelay << n. *)
Backoff(n) ==
    {d \in 0 .. (IF n = 0 THEN BaseDelay ELSE MaxDelay) : d <= BaseDelay * 2^n}

\* mutant: the wait is not capped by the budget
MutUncapped(delay) == delay

(* The wait leaves the next attempt its floor. *)
Capped(delay) == Least(delay, remaining - nextAttemptFloor)

\* mutant: the loop bound is off by one
MutEnough == attempt < MaxAttempts /\ remaining >= nextAttemptFloor

Enough == attempt < MaxAttempts - 1 /\ remaining >= nextAttemptFloor

(* A transport error, the end of the context included, or 429 and 5xx      *)
(* without a Retry-After.                                                  *)
BacksOff ==
    /\ at = "request" /\ Enough
    /\ at' = "asleep"
    /\ \E d \in Backoff(attempt) : wakeAt' = now + Capped(d)
    /\ UNCHANGED <<now, attempt, deadline, sentAt>>

(* 429 or 5xx with one: it overrides the backoff. *)
ToldToWait ==
    /\ at = "request" /\ Enough
    /\ at' = "asleep"
    /\ \E d \in RetryAfter : wakeAt' = now + Capped(d)
    /\ UNCHANGED <<now, attempt, deadline, sentAt>>

(* The same errors with the attempts or the budget used up. *)
GivesUp ==
    /\ at = "request" /\ ~Enough
    /\ at' = "failed"
    /\ UNCHANGED <<now, call>>

(* The timer's case of Sleep's select; a wait of zero has no other. *)
Wakes ==
    /\ at = "asleep" /\ now >= wakeAt
    /\ at' = "request" /\ attempt' = attempt + 1 /\ sentAt' = now
    /\ UNCHANGED <<now, deadline, wakeAt>>

(* The context is cancelled: SIGTERM. *)
Cancelled ==
    /\ at \in {"request", "asleep"}
    /\ at' = "failed"
    /\ UNCHANGED <<now, call>>

FetchTicks ==
    /\ \/ at = "request" /\ now < deadline + Late
       \/ at = "asleep" /\ now < Least(wakeAt, deadline) + Late
    /\ now' = now + 1
    /\ UNCHANGED <<at, call>>

FetchStep ==
    \/ Answered \/ Rejected \/ BacksOff \/ ToldToWait \/ GivesUp \/ Wakes
    \/ Cancelled \/ FetchTicks

-----------------------------------------------------------------------------
(* "Below this, a retry is more likely to be killed mid-flight"            *)
(* (constants.go:99-102): no attempt but the first begins with less than   *)
(* the floor left to the deadline, but for the lateness of the timer,      *)
(* whatever Retry-After asks for and however long the attempts before took.*)
FloorKept ==
    at = "request" /\ attempt > 0 => deadline - sentAt >= nextAttemptFloor - Late
=============================================================================
