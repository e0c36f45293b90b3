--------------------------- MODULE StormReports_proofs ---------------------------
(***************************************************************************)
(* For any budget, any delays, any Retry-After and any lateness: no retry  *)
(* is sent with less than the floor left, and the three files leave the    *)
(* upsert its share.  And for any files and any rows: a call that returns  *)
(* has stored every report it was given whose own statement did not fail.  *)
(***************************************************************************)
EXTENDS StormReports, TLAPS

(* When a fetch sleeps, it is until there is the floor left.               *)
SleepsShort ==
    at = "asleep" => wakeAt <= deadline - nextAttemptFloor /\ now <= wakeAt + Late

FetchInv ==
    /\ now \in Nat /\ deadline \in Int /\ sentAt \in Int /\ wakeAt \in Int /\ attempt \in Int
    /\ SleepsShort
    /\ FloorKept

(* What the phase has left when the k-th file begins, and when all three   *)
(* are over (k = 4): four fifths of what it had, less one lateness each.   *)
Left(k, t) ==
    CASE k = 1 -> 1000 * (PhaseEnd - t) >= 1000 * PhaseEnd
      [] k = 2 -> 1000 * (PhaseEnd - t) >= 800 * PhaseEnd - 1000 * Late
      [] k = 3 -> 1000 * (PhaseEnd - t) >= 640 * PhaseEnd - 2000 * Late
      [] k = 4 -> 1000 * (PhaseEnd - t) >= 512 * PhaseEnd - 3000 * Late

LeavesRoom ==
    /\ pc \in {"idle", "fetch", "batch", "rows"} /\ file \in 1 .. 3
    /\ pc = "fetch" => now <= deadline + Late /\ Left(file + 1, deadline + Late)
    /\ RoomToStore

-----------------------------------------------------------------------------
(* A file's deadline lies ahead, and leaves four fifths of what there is.  *)
LEMMA FileTakesAFifth ==
    ASSUME NEW t \in Nat
    PROVE  /\ FileDeadline(t) \in Int /\ FileDeadline(t) >= t
           /\ \/ 1000 * (PhaseEnd - FileDeadline(t)) >= 800 * (PhaseEnd - t) /\ t < PhaseEnd
              \/ FileDeadline(t) = t /\ t >= PhaseEnd
<1>1. PhaseEnd \in Nat
  BY StormAssumption
<1>2. CASE t >= PhaseEnd
  BY <1>1, <1>2 DEF FileDeadline
<1>3. CASE t < PhaseEnd
  <2> DEFINE q == ((PhaseEnd - t) * 20) \div 100
  <2>1. q \in Int /\ q >= 0 /\ 5 * q <= PhaseEnd - t
    BY <1>1, <1>3
  <2>2. FileDeadline(t) = t + q
    BY <1>1, <1>3 DEF FileDeadline
  <2> HIDE DEF q
  <2> QED BY <1>1, <1>3, <2>1, <2>2
<1> QED BY <1>1, <1>2, <1>3

LEMMA EarlierLeavesMore ==
    ASSUME NEW j \in 1 .. 4, NEW s \in Int, NEW t \in Int, s <= t, Left(j, t)
    PROVE  Left(j, s)
<1>1. PhaseEnd \in Nat /\ Late \in Nat
  BY StormAssumption, RetryAssumption
<1>2. CASE j = 1
  BY <1>1, <1>2 DEF Left
<1>3. CASE j = 2
  BY <1>1, <1>3 DEF Left
<1>4. CASE j = 3
  BY <1>1, <1>4 DEF Left
<1>5. CASE j = 4
  BY <1>1, <1>5 DEF Left
<1> QED BY <1>2, <1>3, <1>4, <1>5

LEMMA NextFileLeaves ==
    ASSUME NEW j \in 1 .. 3, NEW t \in Nat, Left(j, t)
    PROVE  Left(j + 1, FileDeadline(t) + Late)
<1> DEFINE d == FileDeadline(t)
<1>1. PhaseEnd \in Nat /\ Late \in Nat
  BY StormAssumption, RetryAssumption
<1>2. /\ d \in Int
      /\ \/ 1000 * (PhaseEnd - d) >= 800 * (PhaseEnd - t) /\ t < PhaseEnd
         \/ d = t /\ t >= PhaseEnd
  BY FileTakesAFifth
<1> HIDE DEF d
<1>3. CASE j = 1
  BY <1>1, <1>2, <1>3 DEF Left, d
<1>4. CASE j = 2
  BY <1>1, <1>2, <1>4 DEF Left, d
<1>5. CASE j = 3
  BY <1>1, <1>2, <1>5 DEF Left, d
<1> QED BY <1>3, <1>4, <1>5

-----------------------------------------------------------------------------
(* One step of a fetch. *)
LEMMA FetchStepKeeps ==
    ASSUME FetchInv, FetchStep
    PROVE  FetchInv'
<1> USE RetryAssumption DEF FetchInv, SleepsShort, FloorKept
<1>1. CASE Answered \/ Rejected \/ GivesUp \/ Cancelled
  BY <1>1 DEF Answered, Rejected, GivesUp, Cancelled, call
<1>2. ASSUME NEW d \in Nat, at = "request", Enough, at' = "asleep",
             wakeAt' = now + Capped(d), UNCHANGED <<now, attempt, deadline, sentAt>>
      PROVE  FetchInv'
  BY <1>2 DEF Enough, Capped, Least, remaining
<1>3. CASE BacksOff
  <2>1. PICK d \in Backoff(attempt) : wakeAt' = now + Capped(d)
    BY <1>3 DEF BacksOff
  <2>2. d \in Nat
    BY DEF Backoff
  <2> QED BY <1>2, <1>3, <2>1, <2>2 DEF BacksOff
<1>4. CASE ToldToWait
  <2>1. PICK d \in RetryAfter : wakeAt' = now + Capped(d)
    BY <1>4 DEF ToldToWait
  <2>2. d \in Nat
    OBVIOUS
  <2> QED BY <1>2, <1>4, <2>1, <2>2 DEF ToldToWait
<1>5. CASE Wakes
  BY <1>5 DEF Wakes
<1>6. CASE FetchTicks
  BY <1>6 DEF FetchTicks, Least, call
<1> QED BY <1>1, <1>3, <1>4, <1>5, <1>6 DEF FetchStep

(* A step of StormReports fetches, begins a fetch, or leaves it alone. *)
LEMMA FetchOrNot ==
    ASSUME FetchInv, [Next]_vars
    PROVE  FetchInv'
<1>1. CASE Fetches
  BY <1>1, FetchStepKeeps DEF Fetches
<1>2. CASE PollBegins
  <2>1. FileDeadline(0) \in Int
    BY FileTakesAFifth
  <2> QED BY <1>2, <2>1 DEF PollBegins, FetchInv, SleepsShort, FloorKept
<1>3. ASSUME NEW rs, GoOn(rs) PROVE FetchInv'
  <2>1. CASE file < 3
    <3>1. FetchBegins(FileDeadline(now)) /\ now' = now
      BY <1>3, <2>1 DEF GoOn
    <3>2. FileDeadline(now) \in Int
      BY FileTakesAFifth DEF FetchInv
    <3> QED BY <3>1, <3>2 DEF FetchBegins, FetchInv, SleepsShort, FloorKept
  <2>2. CASE ~(file < 3)
    BY <1>3, <2>2 DEF GoOn, fetchVars, call, FetchInv, SleepsShort, FloorKept
  <2> QED BY <2>1, <2>2
<1>4. CASE FileRead \/ FileFails
  BY <1>3, <1>4 DEF FileRead, FileFails
<1>5. CASE ~Fetches /\ ~PollBegins /\ ~FileRead /\ ~FileFails
  <2>1. UNCHANGED fetchVars
    BY <1>5 DEF Next, Step, ParseRow, BatchCommits, BatchFails, RowStored, RowFails, NextRow, CtxFires,
       Crash, Midnight, CalmBegins, vars
  <2> QED BY <2>1 DEF fetchVars, call, FetchInv, SleepsShort, FloorKept
<1> QED BY <1>1, <1>2, <1>4, <1>5

LEMMA FetchHolds == Spec => []FetchInv
<1>1. Init => FetchInv
  BY DEF Init, FetchInv, SleepsShort, FloorKept
<1> QED BY <1>1, FetchOrNot, PTL DEF Spec

-----------------------------------------------------------------------------
LEMMA RoomNext ==
    ASSUME FetchInv, LeavesRoom, [Next]_vars
    PROVE  LeavesRoom'
<1> USE DEF LeavesRoom
<1>1. PhaseEnd \in Nat /\ Late \in Nat /\ now \in Nat /\ deadline \in Int
  BY StormAssumption, RetryAssumption DEF FetchInv
<1>2. CASE Fetches
  <2>1. /\ pc = "fetch" /\ FetchStep /\ UNCHANGED <<pc, file>>
    BY <1>2 DEF Fetches, stormVars
  <2>2. deadline' = deadline /\ now' <= deadline + Late
    BY <1>1, <2>1 DEF FetchStep, Answered, Rejected, BacksOff, ToldToWait, GivesUp, Wakes,
       Cancelled, FetchTicks, Least, call, FetchInv
  <2> QED BY <2>1, <2>2 DEF RoomToStore
<1>3. CASE PollBegins
  <2>1. /\ pc' = "fetch" /\ file' = 1 /\ now' = 0 /\ deadline' = FileDeadline(0)
    BY <1>3 DEF PollBegins
  <2>2. Left(1, 0)
    BY <1>1 DEF Left
  <2>3. FileDeadline(0) \in Int /\ FileDeadline(0) >= 0
    BY FileTakesAFifth
  <2>4. Left(2, FileDeadline(0) + Late)
    BY <2>2, NextFileLeaves
  <2> QED BY <1>1, <2>1, <2>3, <2>4 DEF RoomToStore, Left
<1>4. ASSUME NEW rs, pc = "fetch", GoOn(rs) PROVE LeavesRoom'
  <2>1. now <= deadline + Late /\ Left(file + 1, deadline + Late)
    BY <1>4
  <2>2. Left(file + 1, now)
    BY <1>1, <2>1, EarlierLeavesMore
  <2>3. CASE file < 3
    <3>1. pc' = "fetch" /\ file' = file + 1 /\ now' = now /\ deadline' = FileDeadline(now)
      BY <1>4, <2>3 DEF GoOn, FetchBegins
    <3>2. file + 1 \in 1 .. 3
      BY <2>3
    <3>3. FileDeadline(now) \in Int /\ FileDeadline(now) >= now
      BY <1>1, FileTakesAFifth
    <3>4. Left(file + 1 + 1, FileDeadline(now) + Late)
      BY <1>1, <2>2, <3>2, NextFileLeaves
    <3> QED BY <1>1, <3>1, <3>2, <3>3, <3>4 DEF RoomToStore
  <2>4. CASE ~(file < 3)
    <3>1. file = 3 /\ pc' \in {"idle", "batch"} /\ UNCHANGED <<file, now>>
      BY <1>4, <2>4 DEF GoOn, fetchVars
    <3> QED BY <2>2, <3>1 DEF RoomToStore, Left
  <2> QED BY <2>3, <2>4
<1>5. CASE FileRead \/ FileFails
  BY <1>4, <1>5 DEF FileRead, FileFails
<1>6. CASE ~Fetches /\ ~PollBegins /\ ~FileRead /\ ~FileFails
  <2>1. UNCHANGED <<file, now, deadline>>
    BY <1>6 DEF Next, Step, ParseRow, BatchCommits, BatchFails, RowStored, RowFails, NextRow, CtxFires,
       Crash, Midnight, CalmBegins, vars, stormVars, fetchVars, call
  <2>2. \/ pc' = pc
        \/ pc' = "idle"
        \/ pc \in {"batch", "rows"} /\ pc' = "rows"
    BY <1>6 DEF Next, Step, ParseRow, BatchCommits, BatchFails, RowStored, RowFails, NextRow, CtxFires,
       Crash, Midnight, CalmBegins, vars, stormVars
  <2>3. CASE pc' = pc
    BY <2>1, <2>3 DEF RoomToStore
  <2>4. CASE pc' = "idle"
    BY <2>1, <2>4 DEF RoomToStore
  <2>5. CASE pc \in {"batch", "rows"} /\ pc' = "rows"
    BY <2>1, <2>5 DEF RoomToStore
  <2> QED BY <2>2, <2>3, <2>4, <2>5
<1> QED BY <1>2, <1>3, <1>5, <1>6

LEMMA RoomHolds == Spec => []LeavesRoom
<1>1. Init => LeavesRoom
  BY DEF Init, LeavesRoom, RoomToStore
<1>2. FetchInv /\ LeavesRoom /\ [Next]_vars => LeavesRoom'
  BY RoomNext
<1> QED BY <1>1, <1>2, FetchHolds, PTL DEF Spec

-----------------------------------------------------------------------------
(* A retry is never sent that the deadline is bound to kill, whatever      *)
(* Retry-After asks for (constants.go:99-102).                             *)
THEOREM RetriesKeepFloor == Spec => []FloorKept
<1>1. FetchInv => FloorKept
  BY DEF FetchInv
<1> QED BY <1>1, FetchHolds, PTL

(* Three files that retry for all they may leave the upsert half of the    *)
(* phase (constants.go:119-129), for any budget.                           *)
THEOREM FilesLeaveRoom == Spec => []RoomToStore
<1>1. LeavesRoom => RoomToStore
  BY DEF LeavesRoom
<1> QED BY <1>1, RoomHolds, PTL

-----------------------------------------------------------------------------
(* The reports read so far are no more than the records passed.            *)
Before(k) ==
    CASE k = 1 -> 0
      [] k = 2 -> Len(File[1])
      [] k = 3 -> Len(File[1]) + Len(File[2])
      [] k = 4 -> Len(File[1]) + Len(File[2]) + Len(File[3])

Fits == pc = "fetch" => Len(reports) <= Before(file) + (record - 1)

(* A sleep is before an attempt that may be made.                          *)
MayRetry == at = "asleep" => attempt < MaxAttempts - 1

(* Nothing is lost of what has not been handed over.                       *)
NothingLost == pc = "fetch" => lost = {}

Typed == TypeOK /\ Fits /\ MayRetry /\ NothingLost

LEMMA Lengths ==
    /\ \A k \in 1 .. 3 : File[k] \in Seq(Report) /\ Len(File[k]) \in Nat
    /\ \A k \in 1 .. 3 : Before(k) \in Nat /\ Before(k + 1) = Before(k) + Len(File[k])
    /\ \A k \in 1 .. 4 : Before(k) \in Nat /\ Before(k) <= Before(4)
    /\ Len(File[1] \o File[2] \o File[3]) = Before(4)
<1>1. \A k \in 1 .. 3 : File[k] \in Seq(Report) /\ Len(File[k]) \in Nat
  BY StormAssumption
<1>2. Len(File[1] \o File[2]) = Len(File[1]) + Len(File[2]) /\ File[1] \o File[2] \in Seq(Report)
  BY <1>1
<1>3. Len(File[1] \o File[2] \o File[3]) = Before(4)
  BY <1>1, <1>2 DEF Before
<1> DEFINE a == Len(File[1])
           b == Len(File[2])
           c == Len(File[3])
<1>4. /\ Before(1) = 0 /\ Before(2) = a /\ Before(3) = a + b /\ Before(4) = a + b + c
  BY DEF Before
<1>5. a \in Nat /\ b \in Nat /\ c \in Nat
  BY <1>1
<1>6. \A k \in 1 .. 3 : Before(k) \in Nat /\ Before(k + 1) = Before(k) + Len(File[k])
  <2> SUFFICES ASSUME NEW k \in 1 .. 3
               PROVE  Before(k) \in Nat /\ Before(k + 1) = Before(k) + Len(File[k])
    OBVIOUS
  <2>1. \/ k = 1 /\ k + 1 = 2 /\ Len(File[k]) = a
        \/ k = 2 /\ k + 1 = 3 /\ Len(File[k]) = b
        \/ k = 3 /\ k + 1 = 4 /\ Len(File[k]) = c
    OBVIOUS
  <2> HIDE DEF a, b, c
  <2>2. 0 + a = a /\ a \in Nat /\ a + b \in Nat
    BY <1>5
  <2> QED BY <1>4, <2>1, <2>2
<1>7. \A k \in 1 .. 4 : Before(k) \in Nat /\ Before(k) <= Before(4)
  <2> HIDE DEF a, b, c
  <2>1. \A k \in 1 .. 4 : k = 1 \/ k = 2 \/ k = 3 \/ k = 4
    OBVIOUS
  <2>2. /\ 0 <= a + b + c /\ a <= a + b + c /\ a + b <= a + b + c /\ a + b + c <= a + b + c
        /\ a + b \in Nat /\ a + b + c \in Nat /\ 0 \in Nat
    BY <1>5
  <2> QED BY <1>4, <1>5, <2>1, <2>2
<1> QED BY <1>1, <1>3, <1>6, <1>7

LEMMA LengthOfFile ==
    ASSUME NEW k \in 1 .. 3
    PROVE  /\ Len(File[k]) \in Nat /\ Before(k) \in Nat /\ Before(4) \in Nat
           /\ Before(k + 1) = Before(k) + Len(File[k])
           /\ Before(k) + Len(File[k]) <= Before(4)
<1>1. k + 1 \in 1 .. 4 /\ k \in 1 .. 4 /\ 4 \in 1 .. 4
  OBVIOUS
<1> QED BY <1>1, Lengths

LEMMA FetchTypes ==
    ASSUME FetchTypeOK, MayRetry, FetchStep
    PROVE  FetchTypeOK' /\ MayRetry'
<1> USE RetryAssumption DEF FetchTypeOK, MayRetry
<1>1. CASE Answered \/ Rejected \/ GivesUp \/ Cancelled
  BY <1>1 DEF Answered, Rejected, GivesUp, Cancelled, call
<1>2. ASSUME NEW d \in Nat, Enough PROVE now + Capped(d) \in Nat
  BY <1>2 DEF Enough, Capped, Least, remaining
<1>3. CASE BacksOff
  <2>1. PICK d \in Backoff(attempt) : wakeAt' = now + Capped(d)
    BY <1>3 DEF BacksOff
  <2>2. d \in Nat
    BY DEF Backoff
  <2>3. wakeAt' \in Nat
    BY <1>2, <1>3, <2>1, <2>2 DEF BacksOff
  <2> QED BY <1>3, <2>3 DEF BacksOff, Enough
<1>4. CASE ToldToWait
  <2>1. PICK d \in RetryAfter : wakeAt' = now + Capped(d)
    BY <1>4 DEF ToldToWait
  <2>2. d \in Nat
    OBVIOUS
  <2>3. wakeAt' \in Nat
    BY <1>2, <1>4, <2>1, <2>2 DEF ToldToWait
  <2> QED BY <1>4, <2>3 DEF ToldToWait, Enough
<1>5. CASE Wakes
  BY <1>5 DEF Wakes
<1>6. CASE FetchTicks
  BY <1>6 DEF FetchTicks, call
<1> QED BY <1>1, <1>3, <1>4, <1>5, <1>6 DEF FetchStep

(* Where a report that was handed over is: in the table, lost, or still in *)
(* hand; a batch and a fallback have something in hand.                    *)
InHand == {reports[i] : i \in DOMAIN reports}

Handled ==
    /\ pc \in {"batch", "rows"} => reports # <<>> /\ InHand \subseteq handed
    /\ pc = "batch" => handed \subseteq InHand
    /\ pc = "rows" => handed \subseteq table \cup lost \cup InHand
    /\ ReturnedIsStored

LEMMA HeadAndTail ==
    ASSUME NEW s \in Seq(Row), s # <<>>
    PROVE  /\ Head(s) \in Row /\ Tail(s) \in Seq(Row) /\ Len(Tail(s)) = Len(s) - 1
           /\ {s[i] : i \in DOMAIN s} = {Head(s)} \cup {Tail(s)[i] : i \in DOMAIN Tail(s)}
           /\ Len(s) = 1 => {Tail(s)[i] : i \in DOMAIN Tail(s)} = {}
           /\ Len(s) # 1 => Tail(s) # <<>>
<1>1. /\ Len(s) \in Nat \ {0} /\ DOMAIN s = 1 .. Len(s) /\ Head(s) = s[1] /\ Head(s) \in Row
      /\ Tail(s) \in Seq(Row) /\ Len(Tail(s)) = Len(s) - 1 /\ DOMAIN Tail(s) = 1 .. Len(s) - 1
      /\ \A i \in 1 .. Len(s) - 1 : Tail(s)[i] = s[i + 1]
  OBVIOUS
<1>2. ASSUME NEW i \in DOMAIN s PROVE s[i] = Head(s) \/ \E j \in DOMAIN Tail(s) : s[i] = Tail(s)[j]
  <2>1. CASE i = 1
    BY <1>1, <2>1
  <2>2. CASE i # 1
    <3>1. i - 1 \in DOMAIN Tail(s) /\ s[i] = Tail(s)[i - 1]
      BY <1>1, <2>2
    <3> QED BY <3>1
  <2> QED BY <2>1, <2>2
<1>3. ASSUME NEW j \in DOMAIN Tail(s) PROVE \E i \in DOMAIN s : Tail(s)[j] = s[i]
  <2>1. j + 1 \in DOMAIN s /\ Tail(s)[j] = s[j + 1]
    BY <1>1
  <2> QED BY <2>1
<1>4. {s[i] : i \in DOMAIN s} = {Head(s)} \cup {Tail(s)[i] : i \in DOMAIN Tail(s)}
  <2>1. 1 \in DOMAIN s /\ s[1] = Head(s)
    BY <1>1
  <2> DEFINE S == {s[i] : i \in DOMAIN s}
             T == {Tail(s)[i] : i \in DOMAIN Tail(s)}
  <2>2. \A e : e \in S <=> \E i \in DOMAIN s : e = s[i]
    OBVIOUS
  <2>3. \A e : e \in T <=> \E j \in DOMAIN Tail(s) : e = Tail(s)[j]
    OBVIOUS
  <2> HIDE DEF S, T
  <2>4. S = {Head(s)} \cup T
    BY <1>2, <1>3, <2>1, <2>2, <2>3
  <2> QED BY <2>4 DEF S, T
<1>5. Len(s) = 1 => {Tail(s)[i] : i \in DOMAIN Tail(s)} = {}
  BY <1>1
<1>6. Len(s) # 1 => Tail(s) # <<>>
  <2>1. \A t \in Seq(Row) : t = <<>> => Len(t) = 0
    OBVIOUS
  <2>2. Len(s) # 1 => Len(Tail(s)) # 0
    BY <1>1
  <2> QED BY <1>1, <2>1, <2>2, Zenon
<1> QED BY <1>1, <1>4, <1>5, <1>6

LEMMA TypedInit == Init => Typed
<1> SUFFICES ASSUME Init PROVE Typed
  OBVIOUS
<1>1. FetchTypeOK /\ MayRetry
  BY RetryAssumption DEF Init, FetchTypeOK, MayRetry
<1>2. record \in 1 .. Len(File[file]) + 1 /\ file \in 1 .. 3
  BY Lengths DEF Init
<1>3. reports = <<>> /\ <<>> \in Seq(Row) /\ Len(<<>>) = 0
  BY DEF Init
<1>4. Len(reports) <= Len(File[1] \o File[2] \o File[3]) /\ Fits
  BY <1>3, Lengths DEF Init, Fits
<1>5. /\ date \in 0 .. LastDate /\ down \subseteq 1 .. 3
      /\ table \subseteq Row /\ handed \subseteq Row /\ lost \subseteq handed /\ pc = "idle"
  BY StormAssumption DEF Init
<1>6. calm \in BOOLEAN
  BY Zenon DEF Init
<1> QED BY <1>1, <1>2, <1>3, <1>4, <1>5, <1>6 DEF Typed, TypeOK, NothingLost

(* What a step that leaves the fetch, the file and the date alone, or      *)
(* empties what it holds, has to keep.                                     *)
LEMMA TypedKept ==
    ASSUME Typed, FetchTypeOK', MayRetry',
           pc' \in {"idle", "fetch", "batch", "rows"}, UNCHANGED <<file, record, down>>,
           reports' \in Seq(Row), Len(reports') <= Len(reports), pc' = "fetch" => pc = "fetch",
           date' \in 0 .. LastDate, calm' \in BOOLEAN,
           table' \subseteq Row, handed' \subseteq Row, lost' \subseteq handed',
           pc' = "fetch" => lost' = lost
    PROVE  Typed'
<1>1. Len(reports) \in Nat /\ Len(reports') \in Nat
  BY DEF Typed, TypeOK
<1>2. Len(reports') <= Len(File[1] \o File[2] \o File[3])
  BY <1>1, Lengths DEF Typed, TypeOK
<1>3. Fits'
  <2> SUFFICES ASSUME pc' = "fetch" PROVE Len(reports') <= Before(file) + (record - 1)
    BY DEF Fits, Before
  <2>1. /\ file \in 1 .. 4 /\ record \in 1 .. Len(File[file]) + 1
        /\ Len(reports) <= Before(file) + (record - 1)
    BY DEF Typed, TypeOK, Fits
  <2>2. Before(file) \in Nat
    BY <2>1, Lengths
  <2> QED BY <1>1, <2>1, <2>2
<1> QED BY <1>2, <1>3 DEF Typed, TypeOK, NothingLost

(* The types and bounds of the state, part by part. *)
LEMMA TypedParts ==
    ASSUME FetchTypeOK', MayRetry', Fits', NothingLost',
           pc' \in {"idle", "fetch", "batch", "rows"}, file' \in 1 .. 3,
           record' \in 1 .. Len(File[file']) + 1,
           reports' \in Seq(Row), Len(reports') <= Before(4),
           date' \in 0 .. LastDate, down' \subseteq 1 .. 3, calm' \in BOOLEAN,
           table' \subseteq Row, handed' \subseteq Row, lost' \subseteq handed'
    PROVE  Typed'
<1>1. Len(reports') <= Len(File[1] \o File[2] \o File[3])
  BY Lengths
<1>2. TypeOK'
  BY <1>1 DEF TypeOK
<1> QED BY <1>2 DEF Typed

LEMMA TypedNext == Typed /\ Handled /\ [Next]_vars => Typed'
<1> SUFFICES ASSUME Typed, Handled, [Next]_vars PROVE Typed'
  OBVIOUS
<1>0. /\ FetchTypeOK /\ MayRetry /\ pc \in {"idle", "fetch", "batch", "rows"} /\ file \in 1 .. 3
      /\ record \in 1 .. Len(File[file]) + 1 /\ reports \in Seq(Row) /\ Len(reports) \in Nat
      /\ Len(reports) <= Before(4) /\ date \in 0 .. LastDate
      /\ table \subseteq Row /\ handed \subseteq Row /\ lost \subseteq handed
  <2>1. Len(reports) <= Before(4)
    BY Lengths DEF Typed, TypeOK
  <2>2. reports \in Seq(Row) /\ Len(reports) \in Nat
    BY DEF Typed, TypeOK
  <2> QED BY <2>1, <2>2 DEF Typed, TypeOK
<1>1. /\ \A k \in 1 .. 3 : File[k] \in Seq(Report) /\ Len(File[k]) \in Nat
      /\ \A k \in 1 .. 4 : Before(k) \in Nat
      /\ Len(<<>>) = 0 /\ <<>> \in Seq(Row)
  BY Lengths
<1>2. UNCHANGED fetchVars => FetchTypeOK' /\ MayRetry'
  BY <1>0 DEF fetchVars, call, FetchTypeOK, MayRetry
<1>3. CASE Fetches
  <2>1. FetchTypeOK' /\ MayRetry'
    BY <1>0, <1>3, FetchTypes DEF Fetches
  <2>2. UNCHANGED <<pc, file, record, reports, date, table, handed, lost, down, calm>>
    BY <1>3 DEF Fetches, stormVars
  <2>3. reports' \in Seq(Row) /\ Len(reports') <= Len(reports)
    BY <1>0, <2>2
  <2>4. calm' \in BOOLEAN
    BY <2>2 DEF Typed, TypeOK
  <2> QED BY <1>0, <2>1, <2>2, <2>3, <2>4, TypedKept
<1>4. CASE PollBegins
  <2>1. FileDeadline(0) \in Nat
    BY FileTakesAFifth
  <2>2. FetchTypeOK' /\ MayRetry'
    BY <1>4, <2>1, RetryAssumption DEF PollBegins, FetchTypeOK, MayRetry
  <2>3. /\ pc' = "fetch" /\ file' = 1 /\ record' = 1 /\ reports' = <<>> /\ handed' = {}
        /\ lost' = {} /\ UNCHANGED <<table, date, down, calm>>
    BY <1>4 DEF PollBegins, env
  <2>4. record' \in 1 .. Len(File[file']) + 1 /\ Len(reports') <= Before(4)
    BY <1>1, <2>3
  <2>5. Fits'
    <3>1. Before(1) \in Nat /\ Before(1) + (1 - 1) = Before(1)
      BY <1>1
    <3>2. Before(file)' = Before(file') /\ Len(reports)' = 0 /\ (record - 1)' = 1 - 1
      BY <1>1, <2>3 DEF Before
    <3> QED BY <2>3, <3>1, <3>2 DEF Fits
  <2>6. NothingLost'
    BY <2>3 DEF NothingLost
  <2>7. /\ date' \in 0 .. LastDate /\ down' \subseteq 1 .. 3 /\ calm' \in BOOLEAN
        /\ table' \subseteq Row /\ handed' \subseteq Row /\ lost' \subseteq handed'
    BY <2>3 DEF Typed, TypeOK
  <2>8. /\ pc' \in {"idle", "fetch", "batch", "rows"} /\ file' \in 1 .. 3
        /\ reports' \in Seq(Row)
    BY <1>1, <2>3
  <2> QED BY <2>2, <2>4, <2>5, <2>6, <2>7, <2>8, TypedParts
<1>5. CASE ParseRow
  <2>1. /\ pc = "fetch" /\ record <= Len(File[file]) /\ record' = record + 1
        /\ UNCHANGED <<fetchVars, pc, file, table, handed, lost, date, down, calm>>
    BY <1>5 DEF ParseRow, env
  <2>2. <<File[file][record], date>> \in Row
    <3>1. record \in 1 .. Len(File[file])
      BY <1>0, <1>1, <2>1
    <3>2. File[file] \in Seq(Report)
      BY <1>0, <1>1
    <3>3. File[file][record] \in Report
      BY <3>1, <3>2
    <3> QED BY <1>0, <3>3 DEF Row
  <2>3. /\ reports' \in Seq(Row) /\ Len(reports') \in Nat
        /\ Len(reports') <= Len(reports) + 1
    BY <1>0, <1>5, <2>2 DEF ParseRow
  <2>4. Len(reports) <= Before(file) + (record - 1)
    BY <2>1 DEF Typed, Fits
  <2>5. /\ record' \in 1 .. Len(File[file]) + 1
        /\ Len(reports') <= Before(file) + (record' - 1) /\ Len(reports') <= Before(4)
    <3> DEFINE n == Len(File[file])
               b == Before(file)
               e == Before(4)
    <3>1. n \in Nat /\ b \in Nat /\ e \in Nat /\ b + n <= e
      BY <1>0, LengthOfFile
    <3>2. record \in 1 .. n + 1 /\ record <= n /\ Len(reports) <= b + (record - 1)
      BY <1>0, <2>1, <2>4
    <3> HIDE DEF n, b, e
    <3>3. record + 1 \in 1 .. n + 1 /\ Len(reports') <= b + ((record + 1) - 1) /\ Len(reports') <= e
      BY <1>0, <2>3, <3>1, <3>2
    <3> QED BY <2>1, <3>3 DEF n, b, e
  <2>6. Fits'
    <3>1. Before(file)' = Before(file)
      BY <2>1 DEF Before
    <3> QED BY <2>5, <3>1 DEF Fits
  <2>7. NothingLost'
    BY <2>1 DEF Typed, NothingLost
  <2>8. FetchTypeOK' /\ MayRetry'
    BY <1>2, <2>1
  <2>9. /\ date' \in 0 .. LastDate /\ down' \subseteq 1 .. 3 /\ calm' \in BOOLEAN
        /\ table' \subseteq Row /\ handed' \subseteq Row /\ lost' \subseteq handed'
    BY <2>1 DEF Typed, TypeOK
  <2>10. /\ pc' \in {"idle", "fetch", "batch", "rows"} /\ file' \in 1 .. 3
         /\ record' \in 1 .. Len(File[file']) + 1
    BY <1>0, <2>1, <2>5
  <2> QED BY <2>3, <2>5, <2>6, <2>7, <2>8, <2>9, <2>10, TypedParts
<1>6. CASE pc = "fetch" /\ GoOn(reports)
  <2>1. Len(reports) <= Before(file + 1)
    <3> DEFINE n == Len(File[file])
               b == Before(file)
    <3>1. n \in Nat /\ b \in Nat /\ Before(file + 1) = b + n
      BY <1>0, LengthOfFile
    <3>2. Fits
      BY DEF Typed
    <3>3. record \in 1 .. n + 1 /\ Len(reports) <= b + (record - 1)
      BY <1>0, <1>6, <3>2 DEF Fits
    <3> HIDE DEF n, b
    <3>4. record - 1 <= n /\ record - 1 \in Nat /\ Len(reports) \in Nat
      BY <1>0, <3>1, <3>3
    <3> QED BY <3>1, <3>3, <3>4
  <2>2. UNCHANGED <<reports, table, lost, date, down, calm>>
    BY <1>6 DEF GoOn, env
  <2>3. CASE file < 3
    <3>1. /\ pc' = pc /\ file' = file + 1 /\ record' = 1 /\ handed' = handed
          /\ FetchBegins(FileDeadline(now)) /\ now' = now
      BY <1>6, <2>3 DEF GoOn
    <3>2. FileDeadline(now) \in Nat
      <4>1. now \in Nat
        BY <1>0 DEF FetchTypeOK
      <4>2. FileDeadline(now) \in Int /\ FileDeadline(now) >= now
        BY <4>1, FileTakesAFifth
      <4> QED BY <4>1, <4>2
    <3>3. FetchTypeOK' /\ MayRetry'
      BY <1>0, <3>1, <3>2, RetryAssumption DEF FetchBegins, FetchTypeOK, MayRetry
    <3>4. file' \in 1 .. 3 /\ record' \in 1 .. Len(File[file']) + 1
      <4>1. file' \in 1 .. 3
        BY <1>0, <2>3, <3>1
      <4>2. Len(File[file']) \in Nat
        BY <1>1, <4>1
      <4> QED BY <3>1, <4>1, <4>2
    <3>5. Fits'
      <4>1. Before(file') \in Nat /\ Before(file') + (1 - 1) = Before(file')
        BY <1>1, <3>4
      <4>2. Before(file)' = Before(file')
        BY DEF Before
      <4>3. Len(reports') <= Before(file') + (record' - 1)
        <5>1. reports' = reports /\ file' = file + 1 /\ record' = 1
          BY <2>2, <3>1
        <5> QED BY <2>1, <4>1, <5>1
      <4> QED BY <4>2, <4>3 DEF Fits
    <3>6. NothingLost'
      BY <1>6, <2>2, <3>1 DEF Typed, NothingLost
    <3>7. /\ date' \in 0 .. LastDate /\ down' \subseteq 1 .. 3 /\ calm' \in BOOLEAN
          /\ table' \subseteq Row /\ handed' \subseteq Row /\ lost' \subseteq handed'
      BY <2>2, <3>1 DEF Typed, TypeOK
    <3>8. /\ pc' \in {"idle", "fetch", "batch", "rows"} /\ reports' \in Seq(Row)
          /\ Len(reports') <= Before(4)
      BY <1>0, <2>2, <3>1
    <3> QED BY <3>3, <3>4, <3>5, <3>6, <3>7, <3>8, TypedParts
  <2>4. CASE ~(file < 3)
    <3>1. /\ pc' \in {"idle", "batch"} /\ UNCHANGED <<file, record, fetchVars>>
          /\ handed' = {reports[i] : i \in DOMAIN reports}
      BY <1>6, <2>4 DEF GoOn
    <3>2. handed' \subseteq Row /\ lost' \subseteq handed'
      BY <1>0, <1>6, <2>2, <3>1 DEF Typed, NothingLost
    <3>3. date' \in 0 .. LastDate /\ calm' \in BOOLEAN
      BY <2>2 DEF Typed, TypeOK
    <3> QED BY <1>0, <1>2, <2>2, <3>1, <3>2, <3>3, TypedKept
  <2> QED BY <2>3, <2>4
<1>7. CASE FileRead \/ FileFails
  BY <1>6, <1>7 DEF FileRead, FileFails
<1>8. ASSUME reports' = reports \/ reports' = <<>>
      PROVE  reports' \in Seq(Row) /\ Len(reports') <= Len(reports)
  <2>1. CASE reports' = reports
    BY <1>0, <2>1
  <2>2. CASE reports' = <<>>
    <3>1. Len(reports') = 0
      BY <1>1, <2>2
    <3> QED BY <1>0, <1>1, <2>2, <3>1
  <2> QED BY <1>8, <2>1, <2>2
<1>9. calm' \in BOOLEAN /\ date' \in 0 .. LastDate /\ down' = down
  <2>1. calm \in BOOLEAN /\ date \in 0 .. LastDate
    BY DEF Typed, TypeOK
  <2>2. CASE Midnight
    BY <2>1, <2>2, StormAssumption DEF Midnight
  <2>3. CASE CalmBegins
    BY <2>1, <2>3 DEF CalmBegins
  <2>4. CASE UNCHANGED env
    BY <2>1, <2>4 DEF env
  <2>5. PollBegins \/ ParseRow \/ CtxFires \/ Crash => UNCHANGED env
    BY DEF PollBegins, ParseRow, CtxFires, Crash, env
  <2>6. Fetches \/ UNCHANGED vars => UNCHANGED env
    BY DEF Fetches, vars, stormVars, env
  <2>7. FileRead \/ FileFails => UNCHANGED env
    BY DEF FileRead, FileFails, GoOn, env
  <2>8. BatchCommits \/ BatchFails \/ RowStored \/ RowFails => UNCHANGED env
    BY DEF BatchCommits, BatchFails, RowStored, RowFails, NextRow, env
  <2> QED BY <2>2, <2>3, <2>4, <2>5, <2>6, <2>7, <2>8 DEF Next, Step
<1>10. CASE Midnight \/ CalmBegins \/ UNCHANGED vars
  <2>1. UNCHANGED <<fetchVars, pc, file, record, reports, table, handed, lost>>
    BY <1>10 DEF Midnight, CalmBegins, vars, stormVars
  <2> QED BY <1>0, <1>2, <1>9, <2>1, TypedKept
<1>11. CASE BatchCommits \/ BatchFails
  <2>1. /\ UNCHANGED <<fetchVars, file, record, handed, lost>> /\ pc' \in {"idle", "rows"}
        /\ table' = table \/ table' = table \cup handed
        /\ reports' = reports \/ reports' = <<>>
    BY <1>11 DEF BatchCommits, BatchFails
  <2>2. reports' \in Seq(Row) /\ Len(reports') <= Len(reports)
    BY <1>8, <2>1
  <2> QED BY <1>0, <1>2, <1>9, <2>1, <2>2, TypedKept
<1>12. CASE Crash \/ CtxFires
  <2>1. /\ UNCHANGED <<fetchVars, file, record>> /\ pc' = "idle" /\ reports' = <<>>
        /\ handed' = {} /\ lost' = {}
    BY <1>12 DEF Crash, CtxFires
  <2>2. reports' \in Seq(Row) /\ Len(reports') <= Len(reports)
    BY <1>8, <2>1
  <2>3. pc = "rows" => Head(reports) \in Row
    BY <1>0, HeadAndTail DEF Handled
  <2>4. table' \subseteq Row
    BY <1>0, <1>12, <2>3 DEF Crash, CtxFires, env
  <2> QED BY <1>0, <1>2, <1>9, <2>1, <2>2, <2>4, TypedKept
<1>13. CASE RowStored \/ RowFails
  <2>1. /\ pc = "rows" /\ UNCHANGED <<fetchVars, file, record, handed>>
        /\ pc' \in {"idle", "rows"} /\ reports' = Tail(reports)
    BY <1>13 DEF RowStored, RowFails, NextRow
  <2>2. Head(reports) \in Row \cap handed /\ reports # <<>>
    BY <1>0, <2>1, HeadAndTail DEF Handled, InHand
  <2>3. reports' \in Seq(Row) /\ Len(reports') <= Len(reports)
    BY <1>0, <2>1, <2>2, HeadAndTail
  <2>4. table' \subseteq Row /\ lost' \subseteq handed
    BY <1>0, <1>13, <2>2 DEF RowStored, RowFails
  <2> QED BY <1>0, <1>2, <1>9, <2>1, <2>3, <2>4, TypedKept
<1> QED BY <1>3, <1>4, <1>5, <1>7, <1>10, <1>11, <1>12, <1>13 DEF Next, Step

LEMMA HandledNext == Typed /\ Handled /\ [Next]_vars => Handled'
<1> SUFFICES ASSUME Typed, Handled, [Next]_vars PROVE Handled'
  OBVIOUS
<1> USE DEF Handled, ReturnedIsStored, InHand
<1>0. /\ pc \in {"idle", "fetch", "batch", "rows"} /\ reports \in Seq(Row)
      /\ lost \subseteq handed
  BY DEF Typed, TypeOK
<1>1. CASE Fetches \/ Midnight \/ CalmBegins \/ UNCHANGED vars
  BY <1>1 DEF Fetches, Midnight, CalmBegins, vars, stormVars
<1>2. CASE PollBegins \/ ParseRow
  <2>1. pc' = "fetch"
    BY <1>2 DEF PollBegins, ParseRow
  <2> QED BY <2>1
<1>3. CASE FileRead \/ FileFails
  <2>1. pc = "fetch" /\ GoOn(reports)
    BY <1>3 DEF FileRead, FileFails
  <2>2. CASE file < 3
    BY <2>1, <2>2 DEF GoOn
  <2>3. CASE ~(file < 3)
    <3>1. /\ pc' = IF reports = <<>> THEN "idle" ELSE "batch"
          /\ handed' = {reports[i] : i \in DOMAIN reports} /\ reports' = reports
      BY <2>1, <2>3 DEF GoOn
    <3>2. reports = <<>> => handed' = {}
      BY <3>1
    <3> QED BY <3>1, <3>2
  <2> QED BY <2>2, <2>3
<1>4. CASE BatchCommits
  BY <1>4 DEF BatchCommits
<1>5. CASE BatchFails
  BY <1>5 DEF BatchFails
<1>6. CASE Crash \/ CtxFires
  BY <1>6 DEF Crash, CtxFires
<1>7. CASE RowStored \/ RowFails
  <2>1. /\ pc = "rows" /\ handed' = handed /\ reports # <<>>
        /\ pc' = IF Len(reports) = 1 THEN "idle" ELSE "rows"
        /\ reports' = Tail(reports)
        /\ InHand \subseteq handed /\ handed \subseteq table \cup lost \cup InHand
        /\ table \cup lost \cup {Head(reports)} = table' \cup lost'
    BY <1>7 DEF RowStored, RowFails, NextRow
  <2> DEFINE T == {Tail(reports)[i] : i \in DOMAIN Tail(reports)}
  <2>2. /\ InHand = {Head(reports)} \cup T
        /\ Len(reports) = 1 => T = {}
        /\ Len(reports) # 1 => Tail(reports) # <<>>
    BY <1>0, <2>1, HeadAndTail
  <2>3. InHand' = T
    BY <2>1
  <2> HIDE DEF T, InHand
  <2> QED BY <2>1, <2>2, <2>3
<1> QED BY <1>1, <1>2, <1>3, <1>4, <1>5, <1>6, <1>7 DEF Next, Step

LEMMA StormHolds == Spec => [](Typed /\ Handled)
<1>1. Init => Handled
  BY DEF Init, Handled, ReturnedIsStored
<1> QED BY <1>1, TypedInit, TypedNext, HandledNext, PTL DEF Spec

(* The reports and the fetch keep their types, for any files: no poll has  *)
(* more reports in hand than the files have rows, no fetch more attempts   *)
(* than it may make.                                                       *)
THEOREM StormTypeCorrect == Spec => []TypeOK
<1>1. Typed => TypeOK
  BY DEF Typed
<1> QED BY <1>1, StormHolds, PTL

(* A row that fails costs itself (postgres.go:475-477), for any number of  *)
(* rows, whatever commits, is lost at its commit, or falls back.           *)
THEOREM FailureCostsItself == Spec => []ReturnedIsStored
<1>1. Handled => ReturnedIsStored
  BY DEF Handled
<1> QED BY <1>1, StormHolds, PTL
=============================================================================
