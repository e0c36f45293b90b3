----------------------------- MODULE HealthEndpoint -----------------------------
(***************************************************************************)
(* internal/health: the time of the last success of a feed, and what       *)
(* /healthz says of it while the poller is late, hangs, misses ticks and   *)
(* fails.                                                                  *)
(*                                                                         *)
(* Feeds do not influence each other: a behaviour watches one of them.     *)
(* The loop is PollLoop's with its clock made relative (how long ago, how  *)
(* long until), so that behaviours need no horizon.                        *)
(***************************************************************************)
EXTENDS Budgets

CONSTANTS
    LongestBoot,   \* bound: how long connecting and migrating may take
    LongestPoll    \* bound: how long a poll may hang

ASSUME HangAssumption == LongestBoot \in Nat /\ LongestPoll \in Nat

FeedSPC == {"spc_tornado", "spc_hail", "spc_wind"}

(* What /healthz asks for: what a process of this mode polls, no more. *)
RequiredFeeds ==
    (IF ShouldIngest THEN {"alerts"} \cup FeedSPC ELSE {})
        \cup (IF ShouldPublish THEN {"publish"} ELSE {})

StalenessMultiplier == 3
maxAge == StalenessMultiplier * Interval

-----------------------------------------------------------------------------
VARIABLES
    feed,     \* the feed watched
    uptime,   \* time since the process started, while feed has never succeeded
    age,      \* time since the last success, Never before the first
    phase,    \* "boot", "jitter", "first" (the first poll), "wait" or "poll"
    timer,    \* until the jitter is over; until the tick waited for or polled at
    elapsed,  \* time since the poll began
    outcome,  \* of the feed in this poll: "pending", "ok" or "failed"
    misses,   \* since the last success: polls that failed, ticks not polled at
    ticks     \* since the last success: ticks of the schedule

vars == <<feed, uptime, age, phase, timer, elapsed, outcome, misses, ticks>>

Never == -1
GracePeriod == 60 * Second   \* of fly.toml

(* Bounds: nothing looks at an age, a time, a count beyond these. *)
AgeCap == (StalenessMultiplier + 2) * Interval
UptimeCap == GracePeriod + 1
CountCap == StalenessMultiplier + 1
CountUp(c) == Lower(c + 1, CountCap)

Polling == phase \in {"first", "poll"}

(* The end of the call whose success is recorded: a fetch, the merged put. *)
SuccessBy ==
    CASE feed = "alerts"  -> (fetchStoreBudget * Percent[1]) \div 100 + Overrun
      [] feed = "publish" -> cycleTimeout + 7 * Overrun
      [] OTHER            -> fetchStoreBudget + 5 * Overrun

(* The process starts, and has a database to connect to and to migrate. *)
Init ==
    /\ feed \in RequiredFeeds
    /\ uptime = 0 /\ age = Never /\ phase = "boot" /\ timer = 0
    /\ elapsed = 0 /\ outcome = "pending" /\ misses = 0 /\ ticks = 0

-----------------------------------------------------------------------------
(* The registry is made, the server listens, Run draws its jitter. *)
Serves ==
    /\ phase = "boot"
    /\ phase' = "jitter" /\ timer' \in startupJitter
    /\ UNCHANGED <<feed, uptime, age, elapsed, outcome, misses, ticks>>

PollBegins ==
    /\ phase \in {"jitter", "wait"} /\ timer <= 0
    /\ phase' = IF phase = "jitter" THEN "first" ELSE "poll"
    /\ elapsed' = 0 /\ outcome' = "pending"
    /\ UNCHANGED <<feed, uptime, age, timer, misses, ticks>>

(* RecordSuccess: on a 200, on a 304, on an object written.  The schedule  *)
(* begins where the first poll ends, up to a cycle after its success: that *)
(* counts as a miss.                                                       *)
RecordSuccess ==
    /\ Polling /\ outcome = "pending"
    /\ outcome' = "ok"
    /\ age' = 0 /\ uptime' = 0 /\ ticks' = 0
    /\ misses' = IF phase = "first" THEN 1 ELSE 0
    /\ UNCHANGED <<feed, phase, timer, elapsed>>

\* mutant: the time is recorded before the error is looked at
MutFailsRecorded ==
    /\ Polling /\ outcome = "pending"
    /\ outcome' = "failed" /\ misses' = CountUp(misses)
    /\ age' = 0
    /\ UNCHANGED <<feed, uptime, phase, timer, elapsed, ticks>>

Fails ==
    /\ Polling /\ outcome = "pending"
    /\ outcome' = "failed" /\ misses' = CountUp(misses)
    /\ UNCHANGED <<feed, uptime, age, phase, timer, elapsed, ticks>>

(* The schedule begins where the first poll ends; a later poll goes on to  *)
(* the next tick of it that is not past.                                   *)
PollReturns ==
    /\ Polling /\ outcome # "pending"
    /\ phase' = "wait"
    /\ timer' = IF phase = "first" \/ timer = 0 THEN Interval ELSE timer % Interval
    /\ elapsed' = 0
    /\ UNCHANGED <<feed, uptime, age, outcome, misses, ticks>>

(* A crash, a boot that failed, or a redeploy: another machine start. *)
Restart ==
    /\ uptime' = 0 /\ age' = Never /\ phase' = "boot" /\ timer' = 0
    /\ elapsed' = 0 /\ outcome' = "pending" /\ misses' = 0 /\ ticks' = 0
    /\ UNCHANGED feed

(* A poll that hangs lets a tick pass; the first poll, what would be one.  *)
TickMissed ==
    \/ phase = "first" /\ elapsed = Interval
    \/ phase = "poll" /\ timer < 0 /\ timer % Interval = 0

TickReached == phase \in {"wait", "poll"} /\ timer <= 1 /\ (timer - 1) % Interval = 0

Tick ==
    /\ phase = "boot" => uptime < LongestBoot
    /\ phase \in {"jitter", "wait"} => timer > -Late
    /\ Polling => elapsed < LongestPoll /\ (outcome = "pending" => elapsed < SuccessBy)
    /\ uptime' = IF age = Never THEN Lower(uptime + 1, UptimeCap) ELSE uptime
    /\ age' = IF age = Never THEN Never ELSE Lower(age + 1, AgeCap)
    /\ timer' = IF phase \in {"boot", "first"} THEN timer ELSE timer - 1
    /\ elapsed' = IF Polling THEN elapsed + 1 ELSE elapsed
    /\ misses' = IF TickMissed THEN CountUp(misses) ELSE misses
    /\ ticks' = IF TickReached THEN CountUp(ticks) ELSE ticks
    /\ UNCHANGED <<feed, phase, outcome>>

Next ==
    \/ Serves \/ PollBegins \/ RecordSuccess \/ Fails \/ PollReturns \/ Restart \/ Tick

Spec == Init /\ [][Next]_vars

-----------------------------------------------------------------------------
\* mutant: not after the cutoff
MutStaleAtCutoff == age = Never \/ age >= maxAge

(* NewHandler: never succeeded, or before the cutoff. *)
Stale == age = Never \/ age > maxAge

(* "Everything late" is within what the cycle leaves of its interval. *)
LateWithinSlack == 7 * Overrun + Late <= cycleSlack

(* "tolerates the ~7% single-missed-tick rate ... without flapping"        *)
(* (constants.go:138-139): between two successes with one poll or one tick *)
(* missed, /healthz does not turn red, wherever in their polls they came.  *)
(* (Before the schedule begins it has less room: see RecordSuccess.)       *)
ToleratesAMiss ==
    LateWithinSlack /\ age # Never /\ misses <= 1 => ~Stale

(* "3 consecutive misses ... is the point an operator should be paged"     *)
(* (constants.go:140-141): a feed is red before the fourth tick since its  *)
(* last success is over, whether polls fail, hang or do not happen.        *)
DeadFeedIsReported == ticks > StalenessMultiplier => Stale

(* A deploy survives the check of fly.toml, which counts from the start of *)
(* the machine: while the first poll of a region node, or of the node that *)
(* publishes, can still succeed, the grace period is not over, whatever    *)
(* the boot took up to LongestBoot and however long the jitter was.  (The  *)
(* publish feed of a node that also ingests is left out: it has a jitter   *)
(* before it and the whole cycle, and leaves a boot almost no room.)       *)
GreenWithinGrace ==
    LateWithinSlack /\ age = Never /\ misses = 0 /\ (feed = "publish" => ~ShouldIngest) =>
        uptime <= GracePeriod
=============================================================================
