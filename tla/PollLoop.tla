-------------------------------- MODULE PollLoop --------------------------------
(***************************************************************************)
(* internal/poller Run: when one node polls, and how the time of a cycle   *)
(* is shared out among the calls the cycle makes.                          *)
(*                                                                         *)
(* A step of the process takes no time of its own; time passes in the two  *)
(* waits and in the calls.  What the calls do is PollCycle, PublishPhase   *)
(* and StormReports.                                                       *)
(***************************************************************************)
EXTENDS Budgets

CONSTANT Horizon   \* bound: the last tick of the clock

ASSUME HorizonAssumption == Horizon \in Nat

-----------------------------------------------------------------------------
VARIABLES
    now,
    pc,        \* "jitter", "ingest", "publish", "scheduling", "waiting", "returned"
    call,      \* in "ingest": which of Calls
    due,       \* when the current wait or call is over, at the latest
    phaseEnd,  \* the deadline of fetchStoreCtx
    ctxDone,   \* the process was told to stop
    start,     \* when the first poll had ended, -1 before
    nextAt,    \* the tick of the schedule the loop is at
    began,     \* when the last poll to begin began, -1 before the first
    missed,    \* "poll cycle missed" was logged
    fetching   \* time this poll has spent in fetches (history)

vars == <<now, pc, call, due, phaseEnd, ctxDone, start, nextAt, began, missed, fetching>>
schedule == <<start, nextAt, missed>>

TypeOK ==
    /\ now \in Nat
    /\ pc \in {"jitter", "ingest", "publish", "scheduling", "waiting", "returned"}
    /\ call \in Calls /\ due \in Int /\ phaseEnd \in Int
    /\ ctxDone \in BOOLEAN /\ missed \in BOOLEAN
    /\ start \in Nat \cup {-1} /\ began \in Nat \cup {-1}
    /\ nextAt \in Int
    /\ fetching \in Nat
    /\ pc = "jitter" => due \in 0 .. Higher(Interval - 1, 0)

Init ==
    /\ now = 0 /\ pc = "jitter" /\ due \in startupJitter
    /\ call = 1 /\ phaseEnd = 0 /\ ctxDone = FALSE
    /\ start = -1 /\ nextAt = 0 /\ began = -1 /\ missed = FALSE /\ fetching = 0

Polling == pc \in {"ingest", "publish"}

-----------------------------------------------------------------------------
(* mutant: a fetch gets whatever the phase has left *)
MutFetchTakesAll(k, deadline) ==
    IF ctxDone \/ now >= deadline THEN now ELSE deadline

(* withBudgetFraction, evaluated when the call is made. *)
CallDue(k, deadline) ==
    IF ctxDone \/ now >= deadline THEN now
                                  ELSE now + ((deadline - now) * Percent[k]) \div 100

IngestBegins ==
    /\ pc' = "ingest" /\ call' = 1
    /\ phaseEnd' = now + fetchStoreBudget
    /\ due' = CallDue(1, now + fetchStoreBudget)

(* publishCtx is a child of pollCtx: a fresh budget, however late it is. *)
PublishBegins ==
    /\ pc' = "publish"
    /\ due' = IF ctxDone THEN now ELSE now + publishBudget
    /\ UNCHANGED <<call, phaseEnd>>

PollBegins ==
    /\ began' = now /\ fetching' = 0
    /\ IF ShouldIngest THEN IngestBegins ELSE PublishBegins
    /\ UNCHANGED <<now, ctxDone, schedule>>

FirstPoll ==
    /\ pc = "jitter" /\ now >= due
    /\ PollBegins

NextCall ==
    /\ pc = "ingest" /\ call < 6
    /\ call' = call + 1
    /\ due' = CallDue(call + 1, phaseEnd)
    /\ UNCHANGED <<now, pc, phaseEnd, ctxDone, schedule, began, fetching>>

Publish ==
    /\ pc = "ingest" /\ call = 6 /\ ShouldPublish
    /\ PublishBegins
    /\ UNCHANGED <<now, ctxDone, schedule, began, fetching>>

(* mutant: the naive ticker that drifts when a cycle runs long *)
MutNextTick == now + Interval

NextTick == nextAt + Interval

(* pollSafely returns, the cycle complete or panicking: the schedule's     *)
(* origin is where the first poll ended, later polls move one tick on.     *)
PollReturns ==
    /\ Polling
    /\ pc' = "scheduling"
    /\ IF start = -1 THEN start' = now /\ nextAt' = now + Interval
                     ELSE nextAt' = NextTick /\ UNCHANGED start
    /\ UNCHANGED <<now, call, due, phaseEnd, ctxDone, began, missed, fetching>>

(* "poll cycle missed" *)
SkipMissedTick ==
    /\ pc = "scheduling" /\ now > nextAt
    /\ nextAt' = nextAt + Interval /\ missed' = TRUE
    /\ UNCHANGED <<now, pc, call, due, phaseEnd, ctxDone, start, began, fetching>>

(* mutant: missed ticks are not skipped but caught up with *)
MutArmTimerOverdue ==
    /\ pc = "scheduling"
    /\ pc' = "waiting" /\ due' = nextAt
    /\ UNCHANGED <<now, call, phaseEnd, ctxDone, schedule, began, fetching>>

ArmTimer ==
    /\ pc = "scheduling" /\ now <= nextAt
    /\ pc' = "waiting" /\ due' = nextAt
    /\ UNCHANGED <<now, call, phaseEnd, ctxDone, schedule, began, fetching>>

(* The timer's case of the select; Go may take it when ctx is done too. *)
Fire ==
    /\ pc = "waiting" /\ now >= due
    /\ PollBegins

(* mutant: only the startup wait selects on ctx.Done() *)
MutOnlyJitterIsInterrupted ==
    /\ ctxDone /\ pc = "jitter"
    /\ pc' = "returned"
    /\ UNCHANGED <<now, call, due, phaseEnd, ctxDone, schedule, began, fetching>>

(* The ctx.Done() case of either select; a startup jitter of zero has none. *)
ShutDown ==
    /\ ctxDone
    /\ pc = "jitter" => due > 0
    /\ pc \in {"jitter", "waiting"}
    /\ pc' = "returned"
    /\ UNCHANGED <<now, call, due, phaseEnd, ctxDone, schedule, began, fetching>>

(* SIGTERM cancels the context of the call in progress too. *)
Cancel ==
    /\ ~ctxDone
    /\ ctxDone' = TRUE
    /\ due' = IF Polling THEN Lower(due, now) ELSE due
    /\ UNCHANGED <<now, pc, call, phaseEnd, schedule, began, fetching>>

Tick ==
    /\ now < Horizon
    /\ \/ pc \in {"jitter", "waiting"} /\ now < due + Late
       \/ Polling /\ now < due + Overrun
    /\ now' = now + 1
    /\ fetching' = IF pc = "ingest" /\ IsFetch(call) THEN fetching + 1 ELSE fetching
    /\ UNCHANGED <<pc, call, due, phaseEnd, ctxDone, schedule, began>>

Step ==
    \/ FirstPoll \/ NextCall \/ Publish \/ PollReturns
    \/ SkipMissedTick \/ ArmTimer \/ Fire \/ Tick

Next == Step \/ ShutDown \/ Cancel

Spec == Init /\ [][Next]_vars

(* The process is scheduled, and a select with both cases ready takes      *)
(* either at random.                                                       *)
FairSpec == Spec /\ WF_vars(Step) /\ SF_vars(ShutDown)

-----------------------------------------------------------------------------
(* Absolute-time scheduling (poller.go:114-119): every poll but the first  *)
(* begins at a whole number of intervals after start, within Late, however *)
(* long the polls before it ran.                                           *)
OnSchedule ==
    Polling /\ start # -1 =>
        began - nextAt \in 0 .. Late /\ (nextAt - start) % Interval = 0

(* "rather than firing back-to-back catch-up polls" (poller.go:118): two   *)
(* polls never begin closer than an interval, less the timer's latency.    *)
NoCatchUp ==
    [][start # -1 /\ began' # began => began' - began >= Interval - Late]_vars

(* The fetches of a poll, each taking all it may, leave the phase's upserts *)
(* a quarter of the budget (constants.go:119-129): 1 - 0.5 * (1 - 0.8^3).   *)
FetchesLeaveRoom ==
    1000 * fetching <= 744 * fetchStoreBudget + 4000 * Overrun

(* "Total wall-clock for one cycle is bounded by cycleTimeout"             *)
(* (poller.go:318): its deadlines add up to no more.                       *)
WithinCycleTimeout ==
    Polling => now - began <= cycleTimeout + 7 * Overrun

(* cycleSlack is what it says: while the timer's latency and the overruns  *)
(* of a poll fit in it, no tick of the schedule is ever missed.            *)
NoTickMissed == 7 * Overrun + Late <= cycleSlack => ~missed

(* A node told to stop stops, in a poll, a wait or a startup jitter. *)
ShutsDown == ctxDone ~> pc = "returned"
=============================================================================
