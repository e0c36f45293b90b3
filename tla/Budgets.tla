-------------------------------- MODULE Budgets --------------------------------
(***************************************************************************)
(* The budgets of a poll cycle, a pure function of the interval: how long  *)
(* a cycle, its phases and its calls may take.  Time is in ticks, Second   *)
(* of them to a second.                                                    *)
(***************************************************************************)
EXTENDS Integers

CONSTANTS
    Mode,      \* "ingest", "publish" or "both"
    Interval,  \* config.PollInterval, in ticks
    Second,    \* ticks in a second
    Late,      \* a timer is noticed at most Late ticks after it fires
    Overrun    \* a call returns at most Overrun ticks after its context is done

ASSUME LoopAssumption ==
    /\ Mode \in {"ingest", "publish", "both"}
    /\ Interval \in Int /\ Second \in Nat \ {0}
    /\ Late \in Nat /\ Overrun \in Nat

ShouldIngest == Mode \in {"ingest", "both"}
ShouldPublish == Mode \in {"publish", "both"}

-----------------------------------------------------------------------------
Lower(a, b) == IF a < b THEN a ELSE b
Higher(a, b) == IF a > b THEN a ELSE b

cycleSlack == 5 * Second
PollCycleTimeout == 25 * Second
PublishPhaseBudget == 15 * Second
phaseFloor == Second   \* cycleFloor too

\* mutant: a cycle may take its interval
MutCycleTakesInterval == Interval

cycleTimeout == Higher(Lower(Interval - cycleSlack, PollCycleTimeout), phaseFloor)

publishBudget == Higher(Lower(PublishPhaseBudget, cycleTimeout - phaseFloor), phaseFloor)

\* mutant: the phases' budgets overlap instead of adding up
MutPhasesOverlap == cycleTimeout

fetchStoreBudget == Higher(cycleTimeout - publishBudget, phaseFloor)

(* The calls of the fetch+store phase in order, each with the percentage   *)
(* of the time the phase has left that it may take: the alerts and their   *)
(* upsert; tornado, hail and wind reports; their upsert and the purge.     *)
Percent == <<50, 100, 20, 20, 20, 100>>
Calls == 1 .. 6
IsFetch(k) == Percent[k] < 100

(* Poller.startupJitter: a publish-only node has none.  A jitter of zero   *)
(* is a timer that is due already.                                         *)
startupJitter == IF ShouldIngest /\ Interval > 0 THEN 0 .. Interval - 1 ELSE {0}
=============================================================================
