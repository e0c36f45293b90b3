-------------------------- MODULE HealthEndpoint_proofs --------------------------
(***************************************************************************)
(* For every interval of at least seven seconds, every clock resolution,   *)
(* every mode and feed, polls that fail, hang and miss ticks in any order: *)
(* one miss is tolerated, a fourth tick without a success is reported.     *)
(* And a deploy survives its grace period, if that holds its boot, its     *)
(* jitter and its first fetches.                                           *)
(***************************************************************************)
EXTENDS HealthEndpoint, TLAPS

(* The smallest interval whose derived timeout holds both phases' floors.  *)
Workable == Interval >= 7 * Second

(* What the grace period of fly.toml must hold.  At the production         *)
(* interval, 30 s, this leaves a boot the 15 s that the wait for the       *)
(* migration lock may take (postgres.go:151): 15 + 30 + 10 + 5 = 60.       *)
BootFits == LongestBoot + Interval + fetchStoreBudget + cycleSlack <= GracePeriod

(* The jitter of a first poll is less.                                     *)
JitterSpan == IF ShouldIngest THEN Interval ELSE 1

Types ==
    /\ feed \in RequiredFeeds
    /\ phase \in {"boot", "jitter", "first", "wait", "poll"}
    /\ outcome \in {"pending", "ok", "failed"}
    /\ age \in Nat \cup {Never} /\ uptime \in Nat /\ timer \in Int /\ elapsed \in Nat
    /\ misses \in Nat /\ ticks \in 0 .. CountCap

Pending == Polling /\ outcome = "pending"

(* Where the schedule is in each phase.                                    *)
Placed ==
    /\ phase \in {"boot", "jitter", "first"} => timer < Interval /\ ticks = 0
    /\ phase = "wait" => timer <= Interval
    /\ phase = "poll" => timer <= 0
    /\ outcome = "pending" \/ age # Never \/ misses > 0
    /\ phase = "wait" => outcome # "pending"
    /\ phase \in {"boot", "jitter"} => age = Never
    /\ Pending /\ phase = "first" => age = Never

(* A poll that has yet to tell is no later than its calls may be.          *)
InTime ==
    LateWithinSlack =>
        /\ phase \in {"jitter", "wait"} => timer >= 0 - Late
        /\ Pending => elapsed <= SuccessBy
        /\ Pending /\ phase = "poll" => timer + elapsed >= 0 - Late
        /\ Pending /\ phase = "first" => timer >= 0 - Late

(* How old the last success can be with at most one miss: an interval for  *)
(* the tick that came after it, and one for the miss.                      *)
YoungAt(bound) == (misses = 0 => age + timer <= bound) /\ (misses = 1 => age + timer <= bound + Interval)

Young ==
    LateWithinSlack /\ age # Never /\ misses <= 1 =>
        /\ phase = "wait" \/ (phase = "poll" /\ Pending) => YoungAt(Interval)
        /\ phase = "poll" /\ ~Pending =>
               \/ timer >= 0 - Interval /\ YoungAt(0)
               \/ misses = 1 /\ timer >= 0 - 2 * Interval /\ timer < 0 - Interval /\ age + timer <= 0
        /\ phase = "first" => misses = 1 /\ age <= elapsed /\ elapsed <= Interval

(* Time since the tick the schedule is past.                               *)
SinceTick == (0 - timer) % Interval

(* Every tick but the first is an interval after the one before it.        *)
Old == age # Never /\ ticks > 0 => age >= (ticks - 1) * Interval + 1 + SinceTick

(* How long a process that has yet to succeed can have been up.            *)
Fresh ==
    LateWithinSlack /\ age = Never /\ misses = 0 =>
        /\ phase = "boot" => uptime <= LongestBoot
        /\ phase = "jitter" => uptime + timer < LongestBoot + JitterSpan
        /\ phase = "first" => uptime + timer < LongestBoot + JitterSpan + elapsed
        /\ phase \in {"boot", "jitter", "first"}

HealthInv == Types /\ Placed /\ InTime /\ Young /\ Old /\ Fresh

-----------------------------------------------------------------------------
(* The remainder of x, once x is written as a multiple and a rest.         *)
LEMMA Remainder ==
    ASSUME NEW n \in Nat \ {0}, NEW q \in Int, NEW r \in 0 .. n - 1, NEW x \in Int,
           x = n * q + r
    PROVE  x % n = r
  OBVIOUS

LEMMA Quotient ==
    ASSUME NEW n \in Nat \ {0}, NEW x \in Int
    PROVE  /\ x \div n \in Int /\ x % n \in 0 .. n - 1
           /\ x = (n * (x \div n)) + (x % n)
  OBVIOUS

(* One tick later. *)
LEMMA RemainderNext ==
    ASSUME NEW n \in Nat \ {0}, NEW x \in Int
    PROVE  (x + 1) % n = IF x % n = n - 1 THEN 0 ELSE (x % n) + 1
<1> DEFINE q == x \div n
           r == x % n
           p == q + 1
<1>1. q \in Int /\ r \in 0 .. n - 1 /\ x = n * q + r /\ p \in Int
  BY Quotient
<1> HIDE DEF q
<1>2. CASE r = n - 1
  <2>1. x + 1 = n * p + 0
    BY <1>1, <1>2
  <2> HIDE DEF p, r
  <2>2. (x + 1) % n = 0
    BY <1>1, <2>1, Remainder
  <2> QED BY <1>2, <2>2 DEF r
<1>3. CASE r # n - 1
  <2>1. x + 1 = n * q + (r + 1) /\ r + 1 \in 0 .. n - 1
    BY <1>1, <1>3
  <2> HIDE DEF r
  <2>2. (x + 1) % n = r + 1
    BY <1>1, <2>1, Remainder
  <2> QED BY <1>3, <2>2 DEF r
<1> QED BY <1>2, <1>3

(* The next tick that is not past is as far behind the last. *)
LEMMA SameRemainder ==
    ASSUME NEW n \in Nat \ {0}, NEW x \in Int
    PROVE  (0 - (x % n)) % n = (0 - x) % n
<1> DEFINE q == (0 - x) \div n
           r == (0 - x) % n
           p == x \div n
           s == x % n
           t == q + p
<1>1. q \in Int /\ r \in 0 .. n - 1 /\ 0 - x = n * q + r
  BY Quotient
<1>2. p \in Int /\ s \in 0 .. n - 1 /\ x = n * p + s
  BY Quotient
<1> HIDE DEF q, p, r, s
<1>3. 0 - s = n * t + r /\ t \in Int
  BY <1>1, <1>2
<1> HIDE DEF t
<1>4. (0 - s) % n = r
  BY <1>1, <1>2, <1>3, Remainder
<1> QED BY <1>4 DEF r, s

(* Remainders near zero. *)
LEMMA Nearby ==
    ASSUME NEW n \in Nat \ {0}, NEW x \in Int
    PROVE  /\ x \in 0 .. n - 1 => x % n = x
           /\ x \in 0 - n .. -1 => x % n = x + n
<1>1. x \in 0 .. n - 1 => x % n = x
  OBVIOUS
<1>2. x \in 0 - n .. -1 => x % n = x + n
  OBVIOUS
<1> QED BY <1>1, <1>2

(* A multiple on one side of zero is one on the other. *)
LEMMA Mirrored ==
    ASSUME NEW n \in Nat \ {0}, NEW x \in Int
    PROVE  (0 - x) % n = 0 <=> x % n = 0
<1>1. ASSUME NEW y \in Int, y % n = 0 PROVE (0 - y) % n = 0
  <2>1. (0 - (y % n)) % n = 0 % n
    BY <1>1
  <2>2. 0 % n = 0
    BY Nearby
  <2> QED BY <1>1, <2>1, <2>2, SameRemainder
<1>2. 0 - (0 - x) = x /\ 0 - x \in Int
  OBVIOUS
<1>3. (0 - x) % n = 0 => x % n = 0
  BY <1>1, <1>2
<1> QED BY <1>1, <1>3

-----------------------------------------------------------------------------
(* The budgets of the two phases make up the cycle, which leaves its slack. *)
LEMMA BudgetsFit ==
    ASSUME Workable
    PROVE  /\ fetchStoreBudget \in Nat \ {0} /\ publishBudget \in Nat /\ cycleTimeout \in Nat
           /\ fetchStoreBudget + publishBudget = cycleTimeout
           /\ cycleTimeout + cycleSlack <= Interval
<1>1. /\ cycleTimeout \in Nat /\ 2 * Second <= cycleTimeout
      /\ cycleTimeout <= Interval - 5 * Second /\ Second \in Nat
  BY LoopAssumption DEF Workable, cycleTimeout, cycleSlack, phaseFloor, PollCycleTimeout,
     Lower, Higher
<1>2. /\ publishBudget \in Nat /\ publishBudget <= cycleTimeout - Second
  BY <1>1 DEF publishBudget, phaseFloor, PublishPhaseBudget, Lower, Higher
<1>3. fetchStoreBudget = cycleTimeout - publishBudget
  BY <1>1, <1>2 DEF fetchStoreBudget, phaseFloor, Higher
<1> QED BY <1>1, <1>2, <1>3, LoopAssumption DEF cycleSlack

(* A success comes within an interval of its tick, if what is late fits in *)
(* the slack.                                                              *)
LEMMA Bounds ==
    ASSUME Workable
    PROVE  /\ Interval \in Nat \ {0} /\ Late \in Nat /\ SuccessBy \in Nat
           /\ LateWithinSlack => SuccessBy + Late <= Interval
           /\ AgeCap = 5 * Interval /\ CountCap = 4 /\ UptimeCap \in Nat
           /\ \A j \in startupJitter : j \in 0 .. Interval - 1 /\ j < JitterSpan
           /\ LongestBoot \in Nat /\ JitterSpan \in Nat
<1>1. /\ fetchStoreBudget \in Nat /\ publishBudget \in Nat /\ cycleTimeout \in Nat
      /\ fetchStoreBudget + publishBudget = cycleTimeout
      /\ cycleTimeout + cycleSlack <= Interval
  BY BudgetsFit
<1>2. Interval \in Nat \ {0} /\ Late \in Nat /\ Overrun \in Nat /\ cycleSlack \in Nat
  BY LoopAssumption DEF Workable, cycleSlack
<1>3. SuccessBy \in Nat /\ SuccessBy <= cycleTimeout + 7 * Overrun
  <2>1. Percent[1] = 50
    BY DEF Percent
  <2> DEFINE half == (fetchStoreBudget * Percent[1]) \div 100
  <2>2. half \in Nat /\ half <= fetchStoreBudget
    BY <1>1, <2>1
  <2> HIDE DEF half
  <2>3. CASE feed = "alerts"
    <3>1. SuccessBy = half + Overrun
      BY <2>3 DEF SuccessBy, half
    <3> QED BY <1>1, <1>2, <2>2, <3>1
  <2>4. CASE feed = "publish"
    BY <1>1, <1>2, <2>4 DEF SuccessBy
  <2>5. CASE feed # "alerts" /\ feed # "publish"
    BY <1>1, <1>2, <2>5 DEF SuccessBy
  <2> QED BY <2>3, <2>4, <2>5
<1>4. AgeCap = 5 * Interval /\ CountCap = 4 /\ UptimeCap \in Nat
  BY LoopAssumption, <1>2 DEF AgeCap, CountCap, StalenessMultiplier, UptimeCap, GracePeriod
<1>5. /\ \A j \in startupJitter : j \in 0 .. Interval - 1 /\ j < JitterSpan
      /\ LongestBoot \in Nat /\ JitterSpan \in Nat
  BY <1>2, HangAssumption DEF startupJitter, JitterSpan
<1>6. LateWithinSlack => SuccessBy + Late <= Interval
  BY <1>1, <1>2, <1>3 DEF LateWithinSlack
<1> QED BY <1>2, <1>3, <1>4, <1>5, <1>6

(* The first success of a node of one mode, from the end of its boot: an   *)
(* ingester has a jitter and a phase of fetches before it, a publisher its *)
(* cycle.                                                                  *)
LEMMA FirstSuccess ==
    ASSUME Workable, BootFits, LateWithinSlack, feed \in RequiredFeeds,
           feed = "publish" => ~ShouldIngest
    PROVE  /\ JitterSpan + SuccessBy + Late <= Interval + fetchStoreBudget + cycleSlack
           /\ LongestBoot \in Nat /\ JitterSpan \in Nat /\ SuccessBy \in Nat /\ Late \in Nat
           /\ LongestBoot + JitterSpan + SuccessBy + Late <= GracePeriod /\ GracePeriod \in Nat
<1>1. /\ fetchStoreBudget \in Nat /\ fetchStoreBudget <= cycleTimeout
      /\ cycleTimeout \in Nat /\ cycleTimeout + cycleSlack <= Interval
  BY BudgetsFit
<1>2. /\ Interval \in Nat \ {0} /\ Late \in Nat /\ SuccessBy \in Nat
      /\ LongestBoot \in Nat /\ JitterSpan \in Nat
      /\ Overrun \in Nat /\ cycleSlack \in Nat /\ GracePeriod \in Nat
      /\ 7 * Overrun + Late <= cycleSlack
  BY Bounds, LoopAssumption DEF cycleSlack, GracePeriod, LateWithinSlack
<1>3. JitterSpan + SuccessBy + Late <= Interval + fetchStoreBudget + cycleSlack
  <2>1. CASE feed = "publish"
    <3>1. JitterSpan = 1 /\ SuccessBy = cycleTimeout + 7 * Overrun
      BY <2>1 DEF JitterSpan, SuccessBy
    <3>2. 1 <= fetchStoreBudget
      BY BudgetsFit
    <3> QED BY <1>1, <1>2, <3>1, <3>2
  <2>2. CASE feed # "publish"
    <3>1. SuccessBy <= fetchStoreBudget + 5 * Overrun
      BY <1>1, <1>2, <2>2 DEF SuccessBy, Percent
    <3>2. JitterSpan = Interval \/ JitterSpan = 1
      BY DEF JitterSpan
    <3> QED BY <1>1, <1>2, <3>1, <3>2
  <2> QED BY <2>1, <2>2
<1> QED BY <1>1, <1>2, <1>3 DEF BootFits

LEMMA CountsUp ==
    ASSUME NEW c \in Nat
    PROVE  /\ CountUp(c) \in Nat /\ CountUp(c) > 0 /\ CountUp(c) \in 0 .. CountCap
           /\ CountUp(c) <= 1 => CountUp(c) = c + 1
           /\ CountUp(c) <= c + 1
  BY DEF CountUp, CountCap, Lower, StalenessMultiplier

-----------------------------------------------------------------------------
(* A process that begins, or begins again. *)
LEMMA InitHealth == Workable /\ Init => HealthInv
<1> SUFFICES ASSUME Workable, Init PROVE HealthInv
  OBVIOUS
<1> USE DEF Init
<1>1. Interval \in Nat \ {0} /\ Late \in Nat /\ LongestBoot \in Nat
  BY Bounds
<1>2. Types
  BY <1>1 DEF Types, CountCap, StalenessMultiplier
<1>3. Placed
  BY <1>1 DEF Placed, Pending, Polling
<1>4. InTime
  BY <1>1 DEF InTime, Pending, Polling
<1>5. Young /\ Old
  BY <1>1 DEF Young, Old
<1>6. Fresh
  BY <1>1 DEF Fresh
<1> QED BY <1>2, <1>3, <1>4, <1>5, <1>6 DEF HealthInv

LEMMA RestartKeeps ==
    ASSUME Workable, HealthInv, Restart
    PROVE  HealthInv'
<1> USE DEF Restart
<1>1. Interval \in Nat \ {0} /\ Late \in Nat /\ LongestBoot \in Nat
  BY Bounds
<1>2. Types'
  BY DEF HealthInv, Types, CountCap, StalenessMultiplier
<1>3. Placed'
  BY <1>1 DEF Placed, Pending, Polling
<1>4. InTime'
  BY DEF InTime, Pending, Polling
<1>5. Young' /\ Old'
  BY DEF Young, Old
<1>6. Fresh'
  BY <1>1 DEF Fresh
<1> QED BY <1>2, <1>3, <1>4, <1>5, <1>6 DEF HealthInv

LEMMA ServeKeeps ==
    ASSUME Workable, HealthInv, Serves
    PROVE  HealthInv'
<1> USE DEF Serves
<1>1. /\ timer' \in 0 .. Interval - 1 /\ timer' < JitterSpan
      /\ Interval \in Nat \ {0} /\ Late \in Nat
      /\ LongestBoot \in Nat /\ JitterSpan \in Nat
  BY Bounds
<1>2. Types'
  BY <1>1 DEF HealthInv, Types
<1>3. Placed'
  BY <1>1 DEF HealthInv, Placed, Pending, Polling
<1>4. InTime'
  BY <1>1 DEF InTime, Pending, Polling
<1>5. Young' /\ Old'
  <2>1. age' = Never
    BY DEF HealthInv, Placed
  <2> QED BY <2>1 DEF Young, Old
<1>6. Fresh'
  <2> SUFFICES ASSUME LateWithinSlack, age = Never, misses = 0
               PROVE  uptime + timer' < LongestBoot + JitterSpan
    BY DEF Fresh
  <2>1. uptime \in Nat /\ uptime <= LongestBoot
    BY DEF HealthInv, Types, Fresh
  <2>2. timer' \in Int
    BY <1>1
  <2>3. \A u, b, t, j \in Int : u <= b /\ t < j => u + t < b + j
    OBVIOUS
  <2>4. uptime \in Int /\ LongestBoot \in Int /\ JitterSpan \in Int
    BY <1>1, <2>1
  <2> HIDE DEF Serves
  <2> QED BY <1>1, <2>1, <2>2, <2>3, <2>4, Zenon
<1> QED BY <1>2, <1>3, <1>4, <1>5, <1>6 DEF HealthInv

LEMMA BeginKeeps ==
    ASSUME Workable, HealthInv, PollBegins
    PROVE  HealthInv'
<1> USE DEF HealthInv, PollBegins
<1>1. Interval \in Nat \ {0} /\ Late \in Nat /\ SuccessBy \in Nat
  BY Bounds
<1>2. Types'
  BY DEF Types
<1>3. Placed'
  BY DEF Placed, Pending, Polling, Types
<1>4. InTime'
  <2>1. SuccessBy' = SuccessBy
    BY DEF SuccessBy
  <2> QED BY <1>1, <2>1 DEF InTime, Pending, Polling, Types
<1>5. Young'
  BY DEF Young, YoungAt, Pending, Polling, Placed, Types
<1>6. Old'
  BY DEF Old, SinceTick
<1>7. Fresh'
  <2> SUFFICES ASSUME LateWithinSlack, age = Never, misses = 0
               PROVE  phase' = "first" /\ uptime + timer < LongestBoot + JitterSpan
    BY <1>1, Bounds DEF Fresh, Types
  <2>1. phase = "jitter"
    BY DEF Fresh
  <2> QED BY <2>1 DEF Fresh
<1> QED BY <1>2, <1>3, <1>4, <1>5, <1>6, <1>7

LEMMA SuccessKeeps ==
    ASSUME Workable, HealthInv, RecordSuccess
    PROVE  HealthInv'
<1> USE DEF HealthInv, RecordSuccess
<1>1. /\ Interval \in Nat \ {0} /\ Late \in Nat /\ SuccessBy \in Nat
      /\ LateWithinSlack => SuccessBy + Late <= Interval
  BY Bounds
<1>2. Types'
  BY DEF Types, CountCap, StalenessMultiplier
<1>3. Placed'
  BY DEF Placed, Pending, Polling, Types, Never
<1>4. InTime'
  BY DEF InTime, Pending, Polling, Types
<1>5. Young'
  BY <1>1 DEF Young, YoungAt, Pending, Polling, Placed, Types, InTime
<1>6. Old'
  BY DEF Old
<1>7. Fresh'
  BY DEF Fresh, Never
<1> QED BY <1>2, <1>3, <1>4, <1>5, <1>6, <1>7

LEMMA FailKeeps ==
    ASSUME Workable, HealthInv, Fails
    PROVE  HealthInv'
<1> USE DEF HealthInv, Fails
<1>1. /\ Interval \in Nat \ {0} /\ Late \in Nat /\ SuccessBy \in Nat
      /\ LateWithinSlack => SuccessBy + Late <= Interval
  BY Bounds
<1>0. /\ misses \in Nat /\ misses' \in Nat /\ misses' > 0
      /\ misses' <= 1 => misses' = misses + 1
  BY CountsUp DEF Types
<1>2. Types'
  BY <1>0 DEF Types
<1>3. Placed'
  BY <1>0 DEF Placed, Pending, Polling, Types
<1>4. InTime'
  BY DEF InTime, Pending, Polling, Types
<1>5. Young'
  BY <1>0, <1>1 DEF Young, YoungAt, Pending, Polling, Placed, Types, InTime
<1>6. Old'
  BY DEF Old, SinceTick
<1>7. Fresh'
  BY <1>0 DEF Fresh
<1> QED BY <1>2, <1>3, <1>4, <1>5, <1>6, <1>7

LEMMA ReturnKeeps ==
    ASSUME Workable, HealthInv, PollReturns
    PROVE  HealthInv'
<1> USE DEF HealthInv, PollReturns
<1>1. Interval \in Nat \ {0} /\ Late \in Nat
  BY Bounds
<1>2. timer \in Int /\ timer % Interval \in 0 .. Interval - 1
  BY <1>1, Quotient DEF Types
<1>3. timer' \in 0 .. Interval
  BY <1>1, <1>2
<1>4. Types'
  BY <1>3 DEF Types
<1>5. Placed'
  BY <1>3 DEF Placed, Pending, Polling, Types
<1>6. InTime'
  BY <1>1, <1>3 DEF InTime, Pending, Polling
<1>7. Young'
  <2> SUFFICES ASSUME LateWithinSlack, age # Never, misses <= 1 PROVE YoungAt(Interval)'
    BY DEF Young, Pending, Polling
  <2>0. age \in Int /\ misses \in Nat
    BY DEF Types, Never
  <2>1. CASE phase = "first"
    <3>1. timer' = Interval /\ misses = 1 /\ age <= Interval
      BY <1>1, <2>0, <2>1 DEF Young, Types
    <3> QED BY <1>1, <2>0, <3>1 DEF YoungAt
  <2>2. CASE phase = "poll"
    <3>1. timer' = IF timer = 0 THEN Interval ELSE timer % Interval
      BY <2>2
    <3>2. ~Pending /\ timer <= 0
      BY <2>2 DEF Pending, Placed
    <3>3. CASE timer >= 0 - Interval /\ YoungAt(0)
      <4>0. timer = 0 \/ timer \in 0 - Interval .. -1
        BY <1>1, <1>2, <3>2, <3>3
      <4>1. timer' = timer + Interval
        <5>1. CASE timer = 0
          <6>1. \A t \in Int : t = 0 => t + Interval = Interval
            BY <1>1
          <6> QED BY <1>2, <3>1, <5>1, <6>1
        <5>2. CASE timer # 0
          BY <1>1, <1>2, <3>1, <4>0, <5>2, Nearby
        <5> QED BY <5>1, <5>2
      <4>2. /\ misses = 0 => age + timer <= 0
            /\ misses = 1 => age + timer <= 0 + Interval
        BY <3>3 DEF YoungAt
      <4>3. age' = age /\ misses' = misses
        OBVIOUS
      <4> HIDE DEF PollReturns, HealthInv
      <4> QED BY <1>1, <1>2, <2>0, <4>1, <4>2, <4>3 DEF YoungAt
    <3>4. CASE misses = 1 /\ timer >= 0 - 2 * Interval /\ timer < 0 - Interval /\ age + timer <= 0
      <4>0. timer >= 0 - 2 * Interval /\ timer <= 0 - Interval - 1
        BY <1>1, <1>2, <3>4
      <4>2. timer % Interval = timer + 2 * Interval
        <5> HIDE DEF PollReturns, HealthInv
        <5>1. timer = Interval * (0 - 2) + (timer + 2 * Interval)
          BY <1>1, <1>2
        <5>2. timer + 2 * Interval \in 0 .. Interval - 1
          BY <1>1, <1>2, <4>0
        <5> QED BY <1>1, <1>2, <5>1, <5>2, Remainder
      <4>3. timer' = timer + 2 * Interval
        BY <1>1, <3>1, <4>0, <4>2
      <4> QED BY <1>1, <1>2, <2>0, <3>4, <4>3 DEF YoungAt
    <3> QED BY <2>2, <3>2, <3>3, <3>4 DEF Young
  <2> QED BY <2>1, <2>2 DEF Polling
<1>8. Old'
  <2>1. CASE phase = "first"
    BY <2>1 DEF Old, Placed, Types
  <2>2. CASE phase = "poll"
    <3>1. CASE timer = 0
      <4>1. (0 - timer) % Interval = 0 /\ (0 - timer') % Interval = 0
        <5>1. timer' = Interval
          BY <2>2, <3>1
        <5>2. (0 - 0) % Interval = 0
          BY <1>1, Nearby
        <5>3. 0 - Interval \in 0 - Interval .. -1
          BY <1>1
        <5>4. (0 - Interval) % Interval = (0 - Interval) + Interval
          BY <1>1, <5>3, Nearby
        <5> QED BY <1>1, <3>1, <5>1, <5>2, <5>4
      <4> QED BY <4>1 DEF Old, SinceTick
    <3>2. CASE timer # 0
      <4>1. (0 - timer') % Interval = (0 - timer) % Interval
        BY <1>1, <1>2, <2>2, <3>2, SameRemainder
      <4> QED BY <4>1 DEF Old, SinceTick
    <3> QED BY <3>1, <3>2
  <2> QED BY <2>1, <2>2 DEF Polling
<1>9. Fresh'
  BY DEF Fresh, Placed, Polling, Types
<1> QED BY <1>4, <1>5, <1>6, <1>7, <1>8, <1>9

(* The age at a tick, t ticks after the success being in the past. *)
LEMMA TickAge ==
    ASSUME NEW n \in Nat \ {0}, NEW t \in 0 .. 4, NEW u \in 1 .. 4, u <= t + 1,
           NEW a \in Nat, NEW b \in Nat, b = a + 1 \/ b = 5 * n,
           t > 0 => a >= (t - 1) * n + 1 + (n - 1)
    PROVE  b >= (u - 1) * n + 1
<1>1. CASE t = 0
  BY <1>1
<1>2. CASE t = 1
  BY <1>2
<1>3. CASE t = 2
  BY <1>3
<1>4. CASE t = 3
  BY <1>4
<1>5. CASE t = 4
  BY <1>5
<1> QED BY <1>1, <1>2, <1>3, <1>4, <1>5

LEMMA TickKeeps ==
    ASSUME Workable, HealthInv, Tick
    PROVE  HealthInv'
<1> USE DEF HealthInv, Tick
<1>1. /\ Interval \in Nat \ {0} /\ Late \in Nat /\ SuccessBy \in Nat
      /\ LateWithinSlack => SuccessBy + Late <= Interval
      /\ AgeCap = 5 * Interval /\ CountCap = 4 /\ UptimeCap \in Nat
      /\ LongestBoot \in Nat /\ JitterSpan \in Nat
  BY Bounds
<1>2. /\ misses \in Nat /\ misses' \in Nat
      /\ misses' = misses \/ (TickMissed /\ misses' > 0 /\ (misses' <= 1 => misses' = misses + 1))
      /\ TickMissed => misses' > 0 /\ (misses' <= 1 => misses' = misses + 1)
  BY CountsUp DEF Types
<1>3. /\ ticks \in 0 .. 4
      /\ ticks' \in 0 .. 4 /\ ticks' <= ticks + 1
      /\ ~TickReached => ticks' = ticks
  BY <1>1, CountsUp DEF Types
<1>4. /\ age = Never => age' = Never
      /\ age # Never => age' \in Nat /\ age' <= age + 1 /\ (age' = age + 1 \/ age' = 5 * Interval)
      /\ uptime' \in Nat /\ uptime' <= uptime + 1
      /\ timer' \in Int /\ elapsed' \in Nat
  BY <1>1 DEF Types, Lower, Never
<1>5. Types'
  BY <1>1, <1>2, <1>3, <1>4 DEF Types
<1>6. Placed'
  <2>1. phase' = phase /\ outcome' = outcome /\ timer \in Int /\ timer' <= timer
    BY DEF Types
  <2>2. phase \in {"boot", "jitter", "first"} => ~TickReached
    BY DEF TickReached
  <2>3. age # Never => age' # Never
    BY <1>4 DEF Never
  <2>4. misses > 0 => misses' > 0
    BY <1>2
  <2> HIDE DEF Tick
  <2> QED BY <1>1, <1>3, <1>4, <2>1, <2>2, <2>3, <2>4 DEF Placed, Pending, Polling
<1>7. InTime'
  <2>1. SuccessBy' = SuccessBy
    BY DEF SuccessBy
  <2> QED BY <1>1, <2>1 DEF InTime, Pending, Polling, Types
<1>8. Young'
  <2> SUFFICES ASSUME LateWithinSlack, age # Never, misses' <= 1 PROVE Young'
    BY <1>4 DEF Young
  <2>0. misses <= 1 /\ (misses' = misses \/ (misses = 0 /\ misses' = 1))
    BY <1>2
  <2>1. CASE phase = "wait"
    BY <1>1, <1>4, <2>0, <2>1 DEF Young, YoungAt, Pending, Polling, Types, TickMissed
  <2>2. CASE phase = "poll" /\ Pending
    BY <1>1, <1>4, <2>0, <2>2 DEF Young, YoungAt, Pending, Polling, Types, InTime
  <2>3. CASE phase = "poll" /\ ~Pending
    <3>1. timer = 0 - Interval \/ timer = 0 - 2 * Interval => TickMissed
      <4>1. (0 - Interval) % Interval = 0
        <5>1. Interval = Interval * 1 + 0 /\ 0 \in 0 .. Interval - 1
          BY <1>1
        <5>2. Interval % Interval = 0
          BY <1>1, <5>1, Remainder
        <5>3. Interval \in Int /\ ((0 - Interval) % Interval = 0 <=> Interval % Interval = 0)
          BY <1>1, Mirrored
        <5> QED BY <5>2, <5>3
      <4>2. (0 - 2 * Interval) % Interval = 0
        <5>1. 2 * Interval = Interval * 2 + 0 /\ 0 \in 0 .. Interval - 1 /\ 2 * Interval \in Int
          BY <1>1
        <5>2. (2 * Interval) % Interval = 0
          BY <1>1, <5>1, Remainder
        <5> QED BY <1>1, <5>1, <5>2, Mirrored
      <4>3. 0 - Interval < 0 /\ 0 - 2 * Interval < 0
        BY <1>1
      <4> QED BY <2>3, <4>1, <4>2, <4>3 DEF TickMissed
    <3>2. CASE timer >= 0 - Interval /\ YoungAt(0)
      BY <1>1, <1>2, <1>4, <2>0, <2>3, <3>1, <3>2 DEF Young, YoungAt, Pending, Polling, Types
    <3>3. CASE misses = 1 /\ timer >= 0 - 2 * Interval /\ timer < 0 - Interval /\ age + timer <= 0
      BY <1>1, <1>2, <1>4, <2>0, <2>3, <3>1, <3>3 DEF Young, YoungAt, Pending, Polling, Types
    <3> QED BY <2>0, <2>3, <3>2, <3>3 DEF Young
  <2>4. CASE phase = "first"
    BY <1>1, <1>2, <1>4, <2>0, <2>4 DEF Young, Pending, Polling, Types, TickMissed
  <2>5. CASE phase \in {"boot", "jitter"}
    BY <2>5 DEF Placed
  <2> QED BY <2>1, <2>2, <2>3, <2>4, <2>5 DEF Types
<1>9. Old'
  <2> SUFFICES ASSUME age # Never, ticks' > 0
               PROVE  age' >= (ticks' - 1) * Interval + 1 + SinceTick'
    BY <1>4 DEF Old
  <2>1. phase \in {"wait", "poll"} /\ timer' = timer - 1 /\ timer <= Interval /\ timer \in Int
    BY <1>1, <1>3 DEF Placed, Types, TickReached
  <2>2. /\ SinceTick \in 0 .. Interval - 1
        /\ SinceTick' = IF SinceTick = Interval - 1 THEN 0 ELSE SinceTick + 1
    <3>1. 0 - timer \in Int /\ 0 - timer' = (0 - timer) + 1
      BY <2>1
    <3> QED BY <1>1, <3>1, Quotient, RemainderNext DEF SinceTick
  <2>3. timer' \in Int /\ (SinceTick' = 0 <=> timer' % Interval = 0)
    BY <1>1, <1>4, Mirrored DEF SinceTick
  <2>4. age \in Nat /\ (ticks > 0 => age >= (ticks - 1) * Interval + 1 + SinceTick)
    BY DEF Old, Types, Never
  <2>5. age' \in Nat /\ (age' = age + 1 \/ age' = 5 * Interval)
    BY <1>4
  <2>6. CASE TickReached
    <3>1. SinceTick' = 0 /\ SinceTick = Interval - 1
      BY <1>1, <2>1, <2>2, <2>3, <2>6 DEF TickReached
    <3>2. age' >= (ticks' - 1) * Interval + 1
      <4>1. ticks' \in 1 .. 4 /\ (ticks > 0 => age >= (ticks - 1) * Interval + 1 + (Interval - 1))
        BY <1>3, <2>4, <3>1
      <4> HIDE DEF Tick, HealthInv
      <4> QED BY <1>1, <1>3, <2>4, <2>5, <4>1, TickAge
    <3>3. \A a \in Int : a + 0 = a
      OBVIOUS
    <3>4. (ticks' - 1) * Interval + 1 \in Int
      BY <1>1, <1>3
    <3> QED BY <3>1, <3>2, <3>3, <3>4
  <2>7. CASE ~TickReached
    <3>1. ticks' = ticks
      BY <1>3, <2>7
    <3>2. SinceTick' # 0
      <4>1. CASE timer' > 0
        <5>1. timer' \in 0 .. Interval - 1
          BY <1>1, <2>1, <2>3, <4>1
        <5> QED BY <1>1, <2>3, <4>1, <5>1, Nearby
      <4>2. CASE timer' <= 0
        BY <2>1, <2>3, <2>7, <4>2 DEF TickReached
      <4> QED BY <2>3, <4>1, <4>2
    <3>3. SinceTick' = SinceTick + 1
      BY <2>2, <3>2
    <3> HIDE DEF Tick, HealthInv
    <3>4. CASE ticks = 1
      BY <1>1, <2>2, <2>4, <2>5, <3>1, <3>3, <3>4
    <3>5. CASE ticks = 2
      BY <1>1, <2>2, <2>4, <2>5, <3>1, <3>3, <3>5
    <3>6. CASE ticks = 3
      BY <1>1, <2>2, <2>4, <2>5, <3>1, <3>3, <3>6
    <3>7. CASE ticks = 4
      BY <1>1, <2>2, <2>4, <2>5, <3>1, <3>3, <3>7
    <3> QED BY <1>3, <3>1, <3>4, <3>5, <3>6, <3>7
  <2> QED BY <2>6, <2>7
<1>10. Fresh'
  <2> SUFFICES ASSUME LateWithinSlack, age = Never, misses = 0, misses' = misses,
                      ~TickMissed
               PROVE  Fresh'
    BY <1>2, <1>4 DEF Fresh, Never
  <2> QED BY <1>1, <1>2, <1>4 DEF Fresh, Polling, Types
<1> QED BY <1>5, <1>6, <1>7, <1>8, <1>9, <1>10

LEMMA NextHealth ==
    Workable /\ HealthInv /\ [Next]_vars => HealthInv'
<1> SUFFICES ASSUME Workable, HealthInv, [Next]_vars PROVE HealthInv'
  OBVIOUS
<1>1. CASE PollBegins
  BY <1>1, BeginKeeps
<1>2. CASE RecordSuccess
  BY <1>2, SuccessKeeps
<1>3. CASE Fails
  BY <1>3, FailKeeps
<1>4. CASE PollReturns
  BY <1>4, ReturnKeeps
<1>5. CASE Restart
  BY <1>5, RestartKeeps
<1>8. CASE Serves
  BY <1>8, ServeKeeps
<1>6. CASE Tick
  BY <1>6, TickKeeps
<1>7. CASE UNCHANGED vars
  BY <1>7 DEF HealthInv, Types, Placed, InTime, Young, YoungAt, Old, Fresh, Pending,
     Polling, SinceTick, SuccessBy, vars
<1> QED BY <1>1, <1>2, <1>3, <1>4, <1>5, <1>6, <1>7, <1>8 DEF Next

(* The places of the schedule and the ages they allow hold in every state. *)
THEOREM HealthInvariant == ASSUME Workable PROVE Spec => []HealthInv
<1>1. Init => HealthInv
  BY InitHealth
<1>2. HealthInv /\ [Next]_vars => HealthInv'
  BY NextHealth
<1> QED BY <1>1, <1>2, PTL DEF Spec

(* One failed poll or missed tick since the last success, wherever in its  *)
(* poll that success came, leaves the feed younger than the cutoff.        *)
THEOREM AMissIsTolerated == ASSUME Workable PROVE Spec => []ToleratesAMiss
<1>1. HealthInv => ToleratesAMiss
  <2> SUFFICES ASSUME HealthInv, LateWithinSlack, age # Never, misses <= 1
               PROVE  ~(age > 3 * Interval)
    BY DEF ToleratesAMiss, Stale, maxAge, StalenessMultiplier
  <2>1. /\ Interval \in Nat \ {0} /\ Late \in Nat /\ SuccessBy \in Nat
        /\ SuccessBy + Late <= Interval
    BY Bounds
  <2>2. age \in Nat /\ misses \in 0 .. 1 /\ timer \in Int /\ elapsed \in Nat
    BY DEF HealthInv, Types, Never
  <2>3. CASE phase = "wait"
    BY <2>1, <2>2, <2>3 DEF HealthInv, InTime, Young, YoungAt
  <2>4. CASE phase = "poll" /\ Pending
    BY <2>1, <2>2, <2>4 DEF HealthInv, InTime, Young, YoungAt
  <2>5. CASE phase = "poll" /\ ~Pending
    BY <2>1, <2>2, <2>5 DEF HealthInv, Young, YoungAt
  <2>6. CASE phase = "first"
    BY <2>1, <2>2, <2>6 DEF HealthInv, Young
  <2>7. CASE phase \in {"boot", "jitter"}
    BY <2>7 DEF HealthInv, Placed
  <2> QED BY <2>3, <2>4, <2>5, <2>6, <2>7 DEF HealthInv, Types
<1> QED BY <1>1, HealthInvariant, PTL

(* A feed without a success is red before its fourth tick is over, however *)
(* its polls ended and whichever of them hung.                             *)
THEOREM DeadFeedReported == ASSUME Workable PROVE Spec => []DeadFeedIsReported
<1>1. HealthInv => DeadFeedIsReported
  <2> SUFFICES ASSUME HealthInv, ticks > 3, age # Never PROVE age > 3 * Interval
    BY DEF DeadFeedIsReported, Stale, maxAge, StalenessMultiplier
  <2>1. ticks = 4 /\ Interval \in Nat \ {0} /\ age \in Nat /\ timer \in Int
    BY Bounds DEF HealthInv, Types, Never
  <2>2. SinceTick \in 0 .. Interval - 1
    <3>1. 0 - timer \in Int
      BY <2>1
    <3> QED BY <2>1, <3>1, Quotient DEF SinceTick
  <2>3. age >= (4 - 1) * Interval + 1 + SinceTick
    BY <2>1 DEF HealthInv, Old
  <2> QED BY <2>1, <2>2, <2>3
<1> QED BY <1>1, HealthInvariant, PTL

(* While the first poll of a region node, or of the node that publishes,   *)
(* can still succeed, the grace period counted from its start is not over, *)
(* whatever its boot and its jitter were, if that period holds them.       *)
THEOREM DeploySurvives == ASSUME Workable, BootFits PROVE Spec => []GreenWithinGrace
<1>1. HealthInv => GreenWithinGrace
  <2> SUFFICES ASSUME HealthInv, LateWithinSlack, age = Never, misses = 0,
                      feed = "publish" => ~ShouldIngest
               PROVE  uptime <= GracePeriod
    BY DEF GreenWithinGrace
  <2>1. /\ JitterSpan + SuccessBy + Late <= Interval + fetchStoreBudget + cycleSlack
        /\ LongestBoot \in Nat /\ JitterSpan \in Nat /\ SuccessBy \in Nat /\ Late \in Nat
        /\ LongestBoot + JitterSpan + SuccessBy + Late <= GracePeriod /\ GracePeriod \in Nat
    BY FirstSuccess DEF HealthInv, Types
  <2>2. uptime \in Nat /\ timer \in Int /\ elapsed \in Nat
    BY DEF HealthInv, Types
  <2>3. CASE phase = "boot"
    BY <2>1, <2>2, <2>3 DEF HealthInv, Fresh
  <2>4. CASE phase = "jitter"
    BY <2>1, <2>2, <2>4 DEF HealthInv, InTime, Fresh
  <2>5. CASE phase = "first"
    <3>1. Pending
      BY <2>5 DEF HealthInv, Placed, Pending, Polling, Types
    <3>2. /\ uptime + timer < LongestBoot + JitterSpan + elapsed
          /\ elapsed <= SuccessBy /\ timer >= 0 - Late
      BY <2>5, <3>1 DEF HealthInv, InTime, Fresh
    <3> QED BY <2>1, <2>2, <3>2
  <2> QED BY <2>3, <2>4, <2>5 DEF HealthInv, Fresh
<1> QED BY <1>1, HealthInvariant, PTL
=============================================================================
