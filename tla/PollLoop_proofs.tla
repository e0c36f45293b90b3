----------------------------- MODULE PollLoop_proofs -----------------------------
(***************************************************************************)
(* For every interval of at least seven seconds, every clock resolution    *)
(* and every latency: a poll fits in its cycle timeout and its fetches in  *)
(* their share, polls keep to the schedule, and no tick of it is missed    *)
(* while what is late fits in the slack.                                   *)
(***************************************************************************)
EXTENDS PollLoop, TLAPS

(* The smallest interval whose derived timeout holds both phases' floors.  *)
Workable == Interval >= 7 * Second

Types ==
    /\ now \in Nat /\ call \in Calls /\ due \in Int /\ phaseEnd \in Int
    /\ start \in Nat \cup {-1} /\ nextAt \in Int /\ began \in Int
    /\ missed \in BOOLEAN
    /\ pc \in {"jitter", "ingest", "publish", "scheduling", "waiting", "returned"}

(* A call may begin after the phase's deadline if those before it overran: *)
(* each call adds one overrun at most.                                     *)
IngestInTime ==
    pc = "ingest" =>
        /\ phaseEnd = began + fetchStoreBudget
        /\ due <= phaseEnd + (call - 1) * Overrun
        /\ now <= phaseEnd + call * Overrun

PublishInTime ==
    pc = "publish" =>
        /\ due <= began + cycleTimeout + 6 * Overrun
        /\ now <= began + cycleTimeout + 7 * Overrun

PollsOnTick == Polling /\ start # -1 => began <= nextAt + Late

WaitsForTick == pc = "waiting" => due = nextAt /\ now <= nextAt + Late

Started ==
    /\ pc = "jitter" => start = -1
    /\ pc \in {"scheduling", "waiting"} => start # -1

SchedulesAhead ==
    7 * Overrun + Late <= cycleSlack =>
        ~missed /\ (pc = "scheduling" => now <= nextAt)

LoopInv ==
    /\ Types /\ IngestInTime /\ PublishInTime /\ PollsOnTick /\ WaitsForTick
    /\ Started /\ SchedulesAhead

-----------------------------------------------------------------------------
(* The two budgets add up to the cycle timeout, which leaves the slack.    *)
LEMMA Budgets ==
    ASSUME Workable
    PROVE  /\ fetchStoreBudget \in Nat /\ publishBudget \in Nat /\ cycleTimeout \in Nat
           /\ fetchStoreBudget + publishBudget = cycleTimeout
           /\ cycleTimeout + cycleSlack <= Interval
<1>1. /\ cycleTimeout \in Nat /\ 2 * Second <= cycleTimeout
      /\ cycleTimeout <= Interval - 5 * Second /\ Second \in Nat
  BY LoopAssumption DEF Workable, cycleTimeout, cycleSlack, phaseFloor, PollCycleTimeout,
     Lower, Higher
<1>2. /\ publishBudget \in Nat /\ publishBudget <= cycleTimeout - Second
  BY <1>1 DEF publishBudget, phaseFloor, PublishPhaseBudget, Lower, Higher
<1>3. fetchStoreBudget = cycleTimeout - publishBudget
  BY <1>1, <1>2 DEF fetchStoreBudget, phaseFloor, Higher
<1> QED BY <1>1, <1>2, <1>3, LoopAssumption DEF cycleSlack

(* No call is given time past the phase's deadline, or past the present.   *)
LEMMA DueInTime ==
    ASSUME NEW k \in Calls, NEW deadline \in Int, now \in Nat
    PROVE  /\ CallDue(k, deadline) \in Int
           /\ CallDue(k, deadline) <= Higher(now, deadline)
<1>1. Percent[k] \in {20, 50, 100}
  BY DEF Percent, Calls
<1>2. CASE ctxDone \/ now >= deadline
  BY <1>2 DEF CallDue, Higher
<1>3. CASE ~(ctxDone \/ now >= deadline)
  <2>1. ((deadline - now) * Percent[k]) \div 100 \in Int
    BY <1>1, <1>3
  <2>2. ((deadline - now) * Percent[k]) \div 100 <= deadline - now
    BY <1>1, <1>3
  <2> QED BY <1>3, <2>1, <2>2 DEF CallDue, Higher
<1> QED BY <1>2, <1>3

LEMMA InitLoop == Init => LoopInv
<1> SUFFICES ASSUME Init PROVE LoopInv
  OBVIOUS
<1>1. due \in Int
  BY LoopAssumption DEF Init, startupJitter
<1>2. pc = "jitter" /\ start = -1 /\ ~missed
  BY DEF Init
<1>3. Types
  <2>1. start \in Nat \cup {-1} /\ call \in Calls /\ began \in Int
    BY DEF Init, Calls
  <2>2. now \in Nat /\ phaseEnd \in Int /\ nextAt \in Int
    BY DEF Init
  <2>3. missed \in BOOLEAN
    BY DEF Init
  <2> QED BY <1>1, <1>2, <2>1, <2>2, <2>3 DEF Types
<1> QED BY <1>2, <1>3 DEF LoopInv, IngestInTime, PublishInTime, PollsOnTick,
           WaitsForTick, Started, SchedulesAhead

(* A poll that begins by its tick begins in time. *)
LEMMA BeginsInTime ==
    ASSUME Workable, LoopInv, PollBegins, start # -1 => now <= nextAt + Late
    PROVE  LoopInv'
<1>1. /\ fetchStoreBudget \in Nat /\ publishBudget \in Nat /\ cycleTimeout \in Nat
      /\ fetchStoreBudget + publishBudget = cycleTimeout
  BY Budgets
<1>2. Overrun \in Nat /\ Late \in Nat
  BY LoopAssumption
<1>3. began' = now /\ now' = now /\ UNCHANGED schedule /\ now \in Nat
  BY DEF PollBegins, LoopInv, Types
<1>4. CASE IngestBegins
  <2>1. /\ CallDue(1, now + fetchStoreBudget) \in Int
        /\ CallDue(1, now + fetchStoreBudget) <= now + fetchStoreBudget
    <3> DEFINE d == now + fetchStoreBudget
    <3>1. d \in Int /\ d >= now /\ 1 \in Calls /\ now \in Nat
      BY <1>1, <1>3 DEF Calls
    <3> HIDE DEF d
    <3>2. CallDue(1, d) \in Int /\ CallDue(1, d) <= Higher(now, d)
      BY <3>1, DueInTime
    <3>3. Higher(now, d) = d
      BY <3>1 DEF Higher
    <3> QED BY <3>2, <3>3 DEF d
  <2>2. Types'
    BY <1>1, <1>3, <1>4, <2>1 DEF IngestBegins, LoopInv, Types, schedule, Calls
  <2>3. IngestInTime' /\ PublishInTime'
    BY <1>1, <1>2, <1>3, <1>4, <2>1 DEF IngestBegins, LoopInv, Types, IngestInTime,
       PublishInTime, Calls
  <2>4. PollsOnTick' /\ WaitsForTick' /\ Started' /\ SchedulesAhead'
    BY <1>3, <1>4 DEF IngestBegins, LoopInv, Types, PollsOnTick, WaitsForTick, Started,
       SchedulesAhead, schedule, Calls, Polling
  <2> QED BY <2>2, <2>3, <2>4 DEF LoopInv
<1>5. CASE PublishBegins
  BY <1>1, <1>2, <1>3, <1>5 DEF PublishBegins, LoopInv, Types, IngestInTime,
     PublishInTime, PollsOnTick, WaitsForTick, Started, SchedulesAhead, schedule, Polling
<1> QED BY <1>4, <1>5 DEF PollBegins

LEMMA NextLoop ==
    ASSUME Workable, LoopInv, [Next]_vars
    PROVE  LoopInv'
<1> USE DEF LoopInv
<1>1. /\ fetchStoreBudget \in Nat /\ publishBudget \in Nat /\ cycleTimeout \in Nat
      /\ fetchStoreBudget + publishBudget = cycleTimeout
      /\ cycleTimeout + cycleSlack <= Interval
  BY Budgets
<1>2. Overrun \in Nat /\ Late \in Nat /\ Interval \in Int /\ cycleSlack \in Nat /\ Interval > 0
  BY LoopAssumption DEF Workable, cycleSlack
<1>3. CASE FirstPoll
  <2>1. start = -1
    BY <1>3 DEF FirstPoll, Started
  <2> QED BY <1>3, <2>1, BeginsInTime DEF FirstPoll
<1>4. CASE NextCall
  <2>1. call + 1 \in Calls /\ now \in Nat /\ phaseEnd \in Int
    BY <1>4 DEF NextCall, Types, Calls
  <2>2. CallDue(call + 1, phaseEnd) \in Int
        /\ CallDue(call + 1, phaseEnd) <= Higher(now, phaseEnd)
    BY <2>1, DueInTime
  <2> QED BY <1>2, <1>4, <2>1, <2>2 DEF NextCall, Types, IngestInTime, PublishInTime,
             PollsOnTick, WaitsForTick, Started, SchedulesAhead, schedule, Polling,
             Higher, Calls
<1>5. CASE Publish
  BY <1>1, <1>2, <1>5 DEF Publish, PublishBegins, Types, IngestInTime, PublishInTime,
     PollsOnTick, WaitsForTick, Started, SchedulesAhead, schedule, Polling
<1>6. CASE PollReturns
  <2>1. now <= began + cycleTimeout + 7 * Overrun
    BY <1>1, <1>2, <1>6 DEF PollReturns, Polling, Types, IngestInTime, PublishInTime, Calls
  <2> QED BY <1>1, <1>2, <1>6, <2>1 DEF PollReturns, NextTick, Types, IngestInTime,
             PublishInTime, PollsOnTick, WaitsForTick, Started, SchedulesAhead, Polling
<1>7. CASE SkipMissedTick
  BY <1>2, <1>7 DEF SkipMissedTick, Types, IngestInTime, PublishInTime, PollsOnTick,
     WaitsForTick, Started, SchedulesAhead, Polling
<1>8. CASE ArmTimer
  BY <1>2, <1>8 DEF ArmTimer, Types, IngestInTime, PublishInTime, PollsOnTick,
     WaitsForTick, Started, SchedulesAhead, schedule, Polling
<1>9. CASE Fire
  BY <1>9, BeginsInTime DEF Fire, WaitsForTick
<1>10. CASE Tick
  <2>1. now' = now + 1 /\ now \in Nat /\ call \in Calls /\ UNCHANGED schedule
        /\ UNCHANGED <<pc, call, due, phaseEnd, began>>
    BY <1>10 DEF Tick, Types
  <2>2. Types' /\ PollsOnTick' /\ Started' /\ SchedulesAhead'
    BY <1>2, <1>10, <2>1 DEF Tick, Types, PollsOnTick, Started, SchedulesAhead,
       schedule, Polling
  <2>3. IngestInTime'
    <3>1. call * Overrun = (call - 1) * Overrun + Overrun
          /\ (call - 1) * Overrun \in Int
      BY <1>2, <2>1 DEF Calls
    <3>2. CASE pc = "ingest"
      <4>1. now + 1 <= due + Overrun
        BY <1>2, <1>10, <2>1, <3>2 DEF Tick, Types
      <4> QED BY <1>1, <1>2, <2>1, <3>1, <3>2, <4>1 DEF IngestInTime, Types
    <3> QED BY <2>1, <3>2 DEF IngestInTime
  <2>4. PublishInTime' /\ WaitsForTick'
    BY <1>1, <1>2, <1>10, <2>1 DEF Tick, PublishInTime, WaitsForTick, Types,
       schedule, Polling
  <2> QED BY <2>2, <2>3, <2>4
<1>11. CASE ShutDown
  BY <1>11 DEF ShutDown, Types, IngestInTime, PublishInTime, PollsOnTick,
     WaitsForTick, Started, SchedulesAhead, schedule, Polling
<1>12. CASE Cancel
  <2>1. due' \in Int /\ due' <= due /\ (pc = "waiting" => due' = due)
    BY <1>12 DEF Cancel, Types, Lower, Polling
  <2>2. UNCHANGED <<now, pc, call, phaseEnd, began>> /\ UNCHANGED schedule
    BY <1>12 DEF Cancel
  <2>3. (call - 1) * Overrun \in Int
    BY <1>2 DEF Types, Calls
  <2>4. IngestInTime'
    BY <1>1, <1>2, <2>1, <2>2, <2>3 DEF Types, IngestInTime
  <2>5. PublishInTime'
    BY <1>1, <1>2, <2>1, <2>2 DEF Types, PublishInTime
  <2> QED BY <2>1, <2>2, <2>4, <2>5 DEF Types, PollsOnTick, WaitsForTick, Started,
             SchedulesAhead, schedule, Polling
<1>13. CASE UNCHANGED vars
  BY <1>13 DEF vars, Types, IngestInTime, PublishInTime, PollsOnTick,
     WaitsForTick, Started, SchedulesAhead, Polling
<1> QED BY <1>3, <1>4, <1>5, <1>6, <1>7, <1>8, <1>9, <1>10, <1>11, <1>12, <1>13
        DEF Next, Step

LEMMA LoopHolds == Workable => (Spec => []LoopInv)
<1> SUFFICES ASSUME Workable PROVE Spec => []LoopInv
  OBVIOUS
<1>1. Init => LoopInv
  BY InitLoop
<1>2. LoopInv /\ [Next]_vars => LoopInv'
  BY NextLoop
<1> QED BY <1>1, <1>2, PTL DEF Spec

(* What TypeOK says beyond Types. *)
OtherTypes ==
    /\ ctxDone \in BOOLEAN /\ fetching \in Nat /\ began \in Nat \cup {-1}
    /\ pc = "jitter" => due \in 0 .. Higher(Interval - 1, 0)

LEMMA NextOtherTypes ==
    ASSUME Types, OtherTypes, [Next]_vars
    PROVE  OtherTypes'
<1>1. CASE FirstPoll \/ Fire
  <2>1. began' = now /\ fetching' = 0 /\ pc' \in {"ingest", "publish"} /\ ctxDone' = ctxDone
    BY <1>1 DEF FirstPoll, Fire, PollBegins, IngestBegins, PublishBegins
  <2> QED BY <2>1 DEF OtherTypes, Types
<1>2. CASE NextCall \/ Publish \/ PollReturns \/ SkipMissedTick \/ ArmTimer \/ ShutDown
  <2>1. pc' # "jitter" /\ UNCHANGED <<ctxDone, fetching, began>>
    BY <1>2 DEF NextCall, Publish, PublishBegins, PollReturns, SkipMissedTick, ArmTimer,
       ShutDown, Polling, schedule
  <2> QED BY <2>1 DEF OtherTypes
<1>3. CASE Tick
  <2>1. fetching' \in Nat
    BY <1>3 DEF Tick, OtherTypes
  <2> QED BY <1>3, <2>1 DEF Tick, OtherTypes
<1>4. CASE Cancel
  <2>1. ctxDone' \in BOOLEAN
    BY <1>4 DEF Cancel
  <2>2. UNCHANGED <<fetching, began, pc>> /\ (pc = "jitter" => due' = due)
    BY <1>4 DEF Cancel, Polling
  <2> QED BY <2>1, <2>2 DEF OtherTypes
<1>5. CASE UNCHANGED vars
  BY <1>5 DEF vars, OtherTypes
<1> QED BY <1>1, <1>2, <1>3, <1>4, <1>5 DEF Next, Step

(* The loop's state keeps its types; a startup jitter is less than an      *)
(* interval (poller.go startupJitter).                                     *)
THEOREM LoopTypeCorrect == Workable => (Spec => []TypeOK)
<1> SUFFICES ASSUME Workable PROVE Spec => []TypeOK
  OBVIOUS
<1>1. Init => OtherTypes
  <2> SUFFICES ASSUME Init PROVE OtherTypes
    OBVIOUS
  <2>1. due \in 0 .. Higher(Interval - 1, 0)
    BY LoopAssumption DEF Init, startupJitter, Higher
  <2>2. ctxDone \in BOOLEAN
    BY DEF Init
  <2>3. fetching \in Nat /\ began \in Nat \cup {-1}
    BY DEF Init
  <2> QED BY <2>1, <2>2, <2>3 DEF OtherTypes
<1>2. LoopInv /\ OtherTypes /\ [Next]_vars => OtherTypes'
  BY NextOtherTypes DEF LoopInv
<1>3. LoopInv /\ OtherTypes => TypeOK
  BY DEF LoopInv, Types, OtherTypes, TypeOK
<1> QED BY <1>1, <1>2, <1>3, LoopHolds, PTL DEF Spec

(* No deadline of a poll adds up to more than the cycle timeout: fetch and *)
(* publish phases share it (poller.go:318).                                *)
THEOREM PollsFitTheirTimeout == Workable => (Spec => []WithinCycleTimeout)
<1> SUFFICES ASSUME Workable PROVE Spec => []WithinCycleTimeout
  OBVIOUS
<1>1. LoopInv => WithinCycleTimeout
  BY Budgets, LoopAssumption DEF LoopInv, WithinCycleTimeout, Types, IngestInTime,
     PublishInTime, Polling, Calls
<1> QED BY <1>1, LoopHolds, PTL

(* "poll cycle missed" is never logged while the overruns of a poll and    *)
(* the timer's latency fit in cycleSlack.                                  *)
THEOREM SlackIsEnough == Workable => (Spec => []NoTickMissed)
<1> SUFFICES ASSUME Workable PROVE Spec => []NoTickMissed
  OBVIOUS
<1>1. LoopInv => NoTickMissed
  BY DEF LoopInv, SchedulesAhead, NoTickMissed
<1> QED BY <1>1, LoopHolds, PTL

-----------------------------------------------------------------------------
(* Where a poll lies between the tick it was begun for and the next.       *)
KeepsSchedule ==
    /\ Polling => began <= now
    /\ Polling /\ start # -1 => began >= nextAt
    /\ pc \in {"scheduling", "waiting"} => began + Interval <= nextAt + Late
    /\ start # -1 => (nextAt - start) % Interval = 0

LEMMA OneIntervalOn ==
    ASSUME NEW a \in Int, NEW n \in Nat \ {0}, a % n = 0
    PROVE  (a + n) % n = 0
<1> DEFINE q == a \div n
           b == q + 1
<1>1. q \in Int /\ a = n * q
  OBVIOUS
<1> HIDE DEF q
<1>2. a + n = n * b
  BY <1>1
<1>3. b \in Int
  BY <1>1
<1> HIDE DEF b
<1>4. (n * b) % n = 0
  BY <1>3
<1> QED BY <1>2, <1>4

LEMMA NextKeepsSchedule ==
    ASSUME Workable, LoopInv, KeepsSchedule, [Next]_vars
    PROVE  KeepsSchedule'
<1> USE DEF KeepsSchedule
<1>1. Overrun \in Nat /\ Late \in Nat /\ Interval \in Nat \ {0}
  BY LoopAssumption DEF Workable
<1>2. Types /\ Started /\ WaitsForTick /\ PollsOnTick
  BY DEF LoopInv
<1>3. now \in Nat /\ nextAt \in Int /\ start \in Int /\ began \in Int
  BY <1>2 DEF Types
<1>4. CASE FirstPoll \/ Fire
  <2>1. /\ began' = now /\ now' = now /\ pc' \in {"ingest", "publish"}
        /\ nextAt' = nextAt /\ start' = start
        /\ start # -1 => now >= nextAt
    BY <1>2, <1>4 DEF FirstPoll, Fire, PollBegins, IngestBegins, PublishBegins, schedule,
       Started, WaitsForTick
  <2> QED BY <1>3, <2>1 DEF Polling
<1>5. CASE NextCall \/ Publish \/ ShutDown
  <2>1. UNCHANGED <<now, schedule, began>> /\ (pc' = "returned" \/ (Polling /\ Polling'))
    BY <1>5 DEF NextCall, Publish, PublishBegins, ShutDown, Polling
  <2> QED BY <2>1 DEF schedule, Polling
<1>6. CASE PollReturns
  <2>1. (nextAt' - start') % Interval = 0
    <3>1. CASE start = -1
      <4>1. nextAt' - start' = 0 + Interval
        BY <1>1, <1>3, <1>6, <3>1 DEF PollReturns
      <4>2. 0 % Interval = 0
        BY <1>1
      <4> QED BY <1>1, <4>1, <4>2, OneIntervalOn
    <3>2. CASE start # -1
      <4>1. nextAt' - start' = (nextAt - start) + Interval /\ nextAt - start \in Int
        BY <1>1, <1>3, <1>6, <3>2 DEF PollReturns, NextTick
      <4> QED BY <1>1, <3>2, <4>1, OneIntervalOn
    <3> QED BY <3>1, <3>2
  <2>2. began' + Interval <= nextAt' + Late
    BY <1>1, <1>2, <1>3, <1>6 DEF PollReturns, NextTick, PollsOnTick
  <2> QED BY <1>6, <2>1, <2>2 DEF PollReturns, Polling
<1>7. CASE SkipMissedTick
  <2>1. start # -1 /\ nextAt' = nextAt + Interval /\ UNCHANGED <<pc, start, began, now>>
    BY <1>2, <1>7 DEF SkipMissedTick, Started
  <2>2. nextAt' - start' = (nextAt - start) + Interval /\ nextAt - start \in Int
    BY <1>1, <1>3, <2>1
  <2>3. (nextAt' - start') % Interval = 0
    BY <1>1, <2>1, <2>2, OneIntervalOn
  <2> QED BY <1>1, <1>3, <1>7, <2>1, <2>3 DEF SkipMissedTick, Polling
<1>8. CASE ArmTimer
  BY <1>8 DEF ArmTimer, schedule, Polling
<1>9. CASE Tick
  BY <1>3, <1>9 DEF Tick, schedule, Polling
<1>10. CASE Cancel
  BY <1>10 DEF Cancel, schedule, Polling
<1>11. CASE UNCHANGED vars
  BY <1>11 DEF vars, Polling
<1> QED BY <1>4, <1>5, <1>6, <1>7, <1>8, <1>9, <1>10, <1>11 DEF Next, Step

LEMMA ScheduleHolds == Workable => (Spec => []KeepsSchedule)
<1> SUFFICES ASSUME Workable PROVE Spec => []KeepsSchedule
  OBVIOUS
<1>1. Init => KeepsSchedule
  BY DEF Init, KeepsSchedule, Polling
<1>2. LoopInv /\ KeepsSchedule /\ [Next]_vars => KeepsSchedule'
  BY NextKeepsSchedule
<1> QED BY <1>1, <1>2, LoopHolds, PTL DEF Spec

(* Every poll begins at a whole number of intervals after the first one    *)
(* ended, however long the polls before it ran (poller.go:114-119).        *)
THEOREM PollsKeepSchedule == Workable => (Spec => []OnSchedule)
<1> SUFFICES ASSUME Workable PROVE Spec => []OnSchedule
  OBVIOUS
<1>1. LoopInv /\ KeepsSchedule => OnSchedule
  BY LoopAssumption DEF LoopInv, Types, PollsOnTick, KeepsSchedule, OnSchedule
<1> QED BY <1>1, LoopHolds, ScheduleHolds, PTL

(* A poll that ran long is never followed by one that catches up           *)
(* (poller.go:118).                                                        *)
THEOREM PollsKeepApart == Workable => (Spec => NoCatchUp)
<1> SUFFICES ASSUME Workable PROVE Spec => NoCatchUp
  OBVIOUS
<1>1. LoopInv /\ KeepsSchedule /\ [Next]_vars =>
        [start # -1 /\ began' # began => began' - began >= Interval - Late]_vars
  <2> SUFFICES ASSUME LoopInv, KeepsSchedule, Next, start # -1, began' # began
               PROVE  began' - began >= Interval - Late
    OBVIOUS
  <2>1. FirstPoll \/ Fire
    BY DEF Next, Step, NextCall, Publish, PollReturns, SkipMissedTick, ArmTimer, Tick,
       ShutDown, Cancel
  <2>2. Fire /\ began' = now
    BY <2>1 DEF FirstPoll, Fire, PollBegins, LoopInv, Started
  <2>3. now >= nextAt /\ began + Interval <= nextAt + Late
    BY <2>2 DEF Fire, LoopInv, WaitsForTick, KeepsSchedule
  <2> QED BY <2>2, <2>3, LoopAssumption DEF LoopInv, Types
<1>2. Spec => [][Next]_vars
  BY DEF Spec
<1> QED BY <1>1, <1>2, LoopHolds, ScheduleHolds, PTL DEF NoCatchUp

-----------------------------------------------------------------------------
(* What the fetches may have taken by the end of the k-th call: half of    *)
(* the budget, then a fifth of what is left, three times; and an overrun   *)
(* each.                                                                   *)
Spent(k, time) ==
    CASE k \in {1, 2} -> 1000 * time <= 500 * fetchStoreBudget + 1000 * Overrun
      [] k = 3        -> 1000 * time <= 600 * fetchStoreBudget + 2000 * Overrun
      [] k = 4        -> 1000 * time <= 680 * fetchStoreBudget + 3000 * Overrun
      [] k \in {5, 6} -> 1000 * time <= 744 * fetchStoreBudget + 4000 * Overrun

SpendsItsShare ==
    /\ fetching \in Nat /\ FetchesLeaveRoom
    /\ pc = "ingest" =>
        /\ fetching <= now - began /\ now <= due + Overrun
        /\ Spent(call, IF IsFetch(call) THEN fetching + (due + Overrun - now) ELSE fetching)

LEMMA SpentLess ==
    ASSUME NEW k \in 1 .. 6, NEW t \in Int, NEW s \in Int, s <= t, Spent(k, t),
           fetchStoreBudget \in Nat, Overrun \in Nat
    PROVE  /\ Spent(k, s)
           /\ 1000 * s <= 744 * fetchStoreBudget + 4000 * Overrun
           /\ k < 6 => Spent(k + 1, s)
<1>1. CASE k = 1
  BY <1>1 DEF Spent
<1>2. CASE k = 2
  BY <1>2 DEF Spent
<1>3. CASE k = 3
  BY <1>3 DEF Spent
<1>4. CASE k = 4
  BY <1>4 DEF Spent
<1>5. CASE k = 5
  BY <1>5 DEF Spent
<1>6. CASE k = 6
  BY <1>6 DEF Spent
<1> QED BY <1>1, <1>2, <1>3, <1>4, <1>5, <1>6

LEMMA SpendsAFifth ==
    ASSUME NEW k \in {2, 3, 4}, NEW t \in Int, NEW d \in Int, Spent(k, t),
           d = 0 \/ 5 * d <= fetchStoreBudget - t,
           fetchStoreBudget \in Nat, Overrun \in Nat
    PROVE  Spent(k + 1, t + (d + Overrun))
<1>1. CASE k = 2
  BY <1>1 DEF Spent
<1>2. CASE k = 3
  BY <1>2 DEF Spent
<1>3. CASE k = 4
  BY <1>3 DEF Spent
<1> QED BY <1>1, <1>2, <1>3

LEMMA FirstShare ==
    ASSUME fetchStoreBudget \in Nat, Overrun \in Nat, now \in Nat
    PROVE  /\ CallDue(1, now + fetchStoreBudget) \in Int
           /\ CallDue(1, now + fetchStoreBudget) >= now
           /\ Spent(1, CallDue(1, now + fetchStoreBudget) + Overrun - now)
<1> DEFINE B == fetchStoreBudget
           q == (B * 50) \div 100
<1>1. Percent[1] = 50 /\ (now + B) - now = B
  BY DEF Percent
<1>2. q \in Int /\ 0 <= q /\ 2 * q <= B
  OBVIOUS
<1>3. CallDue(1, now + B) \in {now, now + q}
  BY <1>1 DEF CallDue
<1> HIDE DEF q
<1> QED BY <1>2, <1>3 DEF Spent

(* A fetch takes a fifth of what is left at most. *)
LEMMA AFifth ==
    ASSUME NEW k \in {3, 4, 5}, NEW deadline \in Int, now \in Nat
    PROVE  /\ CallDue(k, deadline) \in Int /\ CallDue(k, deadline) >= now
           /\ \/ CallDue(k, deadline) = now
              \/ 5 * (CallDue(k, deadline) - now) <= deadline - now
<1> DEFINE q == ((deadline - now) * 20) \div 100
<1>1. Percent[k] = 20
  BY DEF Percent
<1>2. CASE ctxDone \/ now >= deadline
  BY <1>2 DEF CallDue
<1>3. CASE ~(ctxDone \/ now >= deadline)
  <2>1. q \in Int /\ 0 <= q /\ 5 * q <= deadline - now
    BY <1>3
  <2>2. CallDue(k, deadline) = now + q
    BY <1>1, <1>3 DEF CallDue
  <2> HIDE DEF q
  <2> QED BY <2>1, <2>2
<1> QED BY <1>2, <1>3

LEMMA AWhole ==
    ASSUME NEW k \in {2, 6}, NEW deadline \in Int, now \in Nat
    PROVE  CallDue(k, deadline) \in Int /\ CallDue(k, deadline) >= now
<1>1. Percent[k] = 100
  BY DEF Percent
<1>2. ((deadline - now) * 100) \div 100 = deadline - now
  OBVIOUS
<1> QED BY <1>1, <1>2 DEF CallDue

LEMMA LessLeft ==
    ASSUME NEW d \in Int, NEW e \in Int, NEW f \in Int, NEW b \in Int, d <= e, e <= b - f
    PROVE  d <= b - f
  OBVIOUS

LEMMA DueSooner ==
    ASSUME NEW d \in Int, NEW e \in Int, NEW f \in Int, NEW n \in Int, NEW o \in Int, e <= d
    PROVE  /\ f + (e + o - n) <= f + (d + o - n)
           /\ f + (e + o - n) \in Int /\ f + (d + o - n) \in Int
  OBVIOUS

LEMMA NextSpends ==
    ASSUME Workable, LoopInv, SpendsItsShare, [Next]_vars
    PROVE  SpendsItsShare'
<1> USE DEF SpendsItsShare
<1>1. fetchStoreBudget \in Nat /\ Overrun \in Nat
  BY Budgets, LoopAssumption
<1>2. /\ now \in Nat /\ call \in Calls /\ due \in Int /\ phaseEnd \in Int /\ began \in Int
      /\ pc = "ingest" => phaseEnd = began + fetchStoreBudget
  BY DEF LoopInv, Types, IngestInTime
<1>3. IsFetch(1) /\ ~IsFetch(2) /\ IsFetch(3) /\ IsFetch(4) /\ IsFetch(5) /\ ~IsFetch(6)
  BY DEF IsFetch, Percent
<1>4. CASE FirstPoll \/ Fire
  <2>1. began' = now /\ now' = now /\ fetching' = 0
    BY <1>4 DEF FirstPoll, Fire, PollBegins
  <2>2. FetchesLeaveRoom'
    BY <1>1, <2>1 DEF FetchesLeaveRoom
  <2>3. CASE pc' = "publish"
    BY <2>1, <2>2, <2>3
  <2>4. CASE IngestBegins
    <3>1. call' = 1 /\ due' = CallDue(1, now + fetchStoreBudget)
      BY <2>4 DEF IngestBegins
    <3>2. due' \in Int /\ due' >= now /\ Spent(1, due' + Overrun - now)
      BY <1>1, <1>2, <3>1, FirstShare
    <3>3. fetching' + (due' + Overrun - now') = due' + Overrun - now
      BY <1>1, <1>2, <2>1, <3>2
    <3>4. Spent(call', fetching' + (due' + Overrun - now'))
      BY <3>1, <3>2, <3>3
    <3> QED BY <1>1, <1>2, <1>3, <2>1, <2>2, <3>1, <3>2, <3>4 DEF Spent
  <2> QED BY <1>4, <2>3, <2>4 DEF FirstPoll, Fire, PollBegins, PublishBegins
<1>5. CASE NextCall
  <2>1. /\ pc = "ingest" /\ pc' = "ingest" /\ call \in 1 .. 5 /\ call' = call + 1
        /\ due' = CallDue(call + 1, phaseEnd) /\ UNCHANGED <<now, began, fetching>>
    BY <1>2, <1>5 DEF NextCall, Calls
  <2>2. Spent(call, fetching)
    <3>1. CASE IsFetch(call)
      <4>1. /\ fetching \in Int /\ fetching + (due + Overrun - now) \in Int
            /\ fetching <= fetching + (due + Overrun - now)
        BY <1>1, <1>2, <2>1
      <4>2. Spent(call, fetching + (due + Overrun - now)) /\ call \in 1 .. 6
        BY <2>1, <3>1
      <4> QED BY <1>1, <4>1, <4>2, SpentLess
    <3> QED BY <2>1, <3>1
  <2>3. FetchesLeaveRoom'
    BY <2>1 DEF FetchesLeaveRoom
  <2>4. CASE call' \in {2, 6}
    <3>1. due' \in Int /\ due' >= now
      BY <1>2, <2>1, <2>4, AWhole
    <3>2. Spent(call', fetching')
      <4>1. fetching \in Int /\ call \in 1 .. 6 /\ call < 6 /\ fetching <= fetching
        BY <2>1
      <4>2. Spent(call + 1, fetching)
        BY <1>1, <2>2, <4>1, SpentLess
      <4> QED BY <2>1, <4>2
    <3> QED BY <1>1, <1>2, <1>3, <2>1, <2>3, <2>4, <3>1, <3>2
  <2>5. CASE call' \in {3, 4, 5}
    <3>1. /\ due' \in Int /\ due' >= now
          /\ due' = now \/ 5 * (due' - now) <= phaseEnd - now
      BY <1>2, <2>1, <2>5, AFifth
    <3>2. /\ phaseEnd - now <= fetchStoreBudget - fetching
          /\ fetching \in Int /\ due' - now \in Int
      BY <1>1, <1>2, <2>1, <3>1
    <3>3. due' - now = 0 \/ 5 * (due' - now) <= fetchStoreBudget - fetching
      <4>1. CASE due' = now
        BY <1>2, <4>1
      <4>2. CASE 5 * (due' - now) <= phaseEnd - now
        <5>1. /\ 5 * (due' - now) \in Int /\ phaseEnd - now \in Int
              /\ fetching \in Int /\ fetchStoreBudget \in Int
          BY <1>1, <1>2, <3>1, <3>2
        <5> QED BY <3>2, <4>2, <5>1, LessLeft
      <4> QED BY <3>1, <4>1, <4>2
    <3>4. Spent(call', fetching' + (due' + Overrun - now'))
      <4>1. call \in {2, 3, 4}
        BY <2>1, <2>5
      <4>2. Spent(call + 1, fetching + ((due' - now) + Overrun))
        BY <1>1, <2>2, <3>2, <3>3, <4>1, SpendsAFifth
      <4>3. (due' - now) + Overrun = due' + Overrun - now
        BY <1>1, <1>2, <3>1
      <4> QED BY <2>1, <4>2, <4>3
    <3> QED BY <1>1, <1>2, <1>3, <2>1, <2>3, <2>5, <3>1, <3>4
  <2> QED BY <2>1, <2>4, <2>5
<1>6. CASE Publish \/ PollReturns \/ SkipMissedTick \/ ArmTimer \/ ShutDown
  <2>1. pc' # "ingest" /\ fetching' = fetching
    BY <1>6 DEF Publish, PublishBegins, PollReturns, SkipMissedTick, ArmTimer, ShutDown
  <2> QED BY <2>1 DEF FetchesLeaveRoom
<1>7. CASE Tick
  <2>1. /\ now' = now + 1 /\ UNCHANGED <<pc, call, due, began>>
        /\ fetching' = IF pc = "ingest" /\ IsFetch(call) THEN fetching + 1 ELSE fetching
    BY <1>7 DEF Tick, schedule
  <2>2. CASE pc # "ingest"
    BY <2>1, <2>2 DEF FetchesLeaveRoom
  <2>3. CASE pc = "ingest"
    <3>1. now < due + Overrun
      BY <1>7, <2>3 DEF Tick
    <3>2. CASE IsFetch(call)
      <4>1. fetching' + (due' + Overrun - now') = fetching + (due + Overrun - now)
            /\ fetching' <= fetching + (due + Overrun - now)
        BY <1>1, <1>2, <2>1, <2>3, <3>1, <3>2
      <4>2. Spent(call', fetching' + (due' + Overrun - now'))
        BY <2>1, <2>3, <3>2, <4>1
      <4>3. FetchesLeaveRoom'
        <5>1. Spent(call, fetching + (due + Overrun - now)) /\ call \in 1 .. 6
          BY <1>2, <2>3, <3>2 DEF Calls
        <5>2. 1000 * (fetching + (due + Overrun - now)) <= 744 * fetchStoreBudget + 4000 * Overrun
          <6>1. fetching + (due + Overrun - now) \in Int
            BY <1>1, <1>2
          <6> QED BY <1>1, <5>1, <6>1, SpentLess
        <5> QED BY <1>1, <1>2, <2>1, <2>3, <3>2, <4>1, <5>2 DEF FetchesLeaveRoom
      <4> QED BY <1>1, <1>2, <2>1, <2>3, <3>1, <3>2, <4>2, <4>3
    <3>3. CASE ~IsFetch(call)
      BY <1>1, <1>2, <2>1, <2>3, <3>1, <3>3 DEF FetchesLeaveRoom
    <3> QED BY <3>2, <3>3
  <2> QED BY <2>2, <2>3
<1>8. CASE Cancel
  <2>1. /\ UNCHANGED <<now, pc, call, began, fetching>>
        /\ due' = IF Polling THEN Lower(due, now) ELSE due
    BY <1>8 DEF Cancel, schedule
  <2>2. CASE pc # "ingest"
    BY <2>1, <2>2 DEF FetchesLeaveRoom
  <2>3. CASE pc = "ingest"
    <3>1. due' \in Int /\ due' <= due /\ now <= due' + Overrun
      BY <1>1, <1>2, <2>1, <2>3 DEF Polling, Lower
    <3>2. IsFetch(call) => Spent(call', fetching' + (due' + Overrun - now'))
      <4> DEFINE s == fetching + (due' + Overrun - now)
                 t == fetching + (due + Overrun - now)
      <4>1. IsFetch(call) => Spent(call, t)
        BY <2>3
      <4>2. s <= t /\ s \in Int /\ t \in Int /\ call \in 1 .. 6
        <5>1. due' \in Int /\ due' <= due /\ due \in Int
          BY <1>2, <3>1
        <5>2. now \in Int /\ fetching \in Int /\ Overrun \in Int /\ call \in 1 .. 6
          BY <1>1, <1>2 DEF Calls
        <5> QED BY <5>1, <5>2, DueSooner
      <4> HIDE DEF s, t
      <4>3. IsFetch(call) => Spent(call, s)
        BY <1>1, <4>1, <4>2, SpentLess
      <4> QED BY <2>1, <4>3 DEF s
    <3> QED BY <2>1, <2>3, <3>1, <3>2 DEF FetchesLeaveRoom
  <2> QED BY <2>2, <2>3
<1>9. CASE UNCHANGED vars
  <2>1. UNCHANGED <<now, pc, call, due, began, fetching>>
    BY <1>9 DEF vars
  <2> QED BY <2>1 DEF FetchesLeaveRoom
<1> QED BY <1>4, <1>5, <1>6, <1>7, <1>8, <1>9 DEF Next, Step

(* However long the fetches of a poll take, the upserts of its phase have  *)
(* a quarter of the budget (constants.go:119-129).                         *)
THEOREM FetchesKeepTheirShare == Workable => (Spec => []FetchesLeaveRoom)
<1> SUFFICES ASSUME Workable PROVE Spec => []FetchesLeaveRoom
  OBVIOUS
<1>1. Init => SpendsItsShare
  BY Budgets, LoopAssumption DEF Init, SpendsItsShare, FetchesLeaveRoom
<1>2. LoopInv /\ SpendsItsShare /\ [Next]_vars => SpendsItsShare'
  BY NextSpends
<1>3. SpendsItsShare => FetchesLeaveRoom
  BY DEF SpendsItsShare
<1> QED BY <1>1, <1>2, <1>3, LoopHolds, PTL DEF Spec
=============================================================================
