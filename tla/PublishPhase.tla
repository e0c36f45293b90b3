------------------------------ MODULE PublishPhase ------------------------------
(***************************************************************************)
(* internal/poller publishSnapshot and internal/publisher: the publish     *)
(* phase of a cycle, on the one node that publishes.                       *)
(*                                                                         *)
(* The merged snapshot is published first, then one snapshot per area, by  *)
(* goroutines that share a semaphore, the phase's context and the health   *)
(* registry.  Each publication is tried MaxTries times; an attempt writes  *)
(* every destination, and fails when any of them reports an error.         *)
(*                                                                         *)
(* A put that times out has been applied by then or never is.  A snapshot  *)
(* is its generated_at, the number of the phase it was built in.           *)
(***************************************************************************)
EXTENDS Integers, Sequences, FiniteSets

CONSTANTS
    Areas,        \* config.Areas, in order
    Concurrency,  \* the values of config.PublishConcurrency a run covers
    MaxTries,     \* config.PublishPutMaxRetries + 1
    Dests,        \* the publishers of Multi: "file" and, when configured, "r2"
    MaxPhases     \* bound: publish phases

Area == {Areas[k] : k \in 1 .. Len(Areas)}
Job == Area \cup {"merged"}

ASSUME PublishAssumption ==
    /\ Areas \in Seq(Area) /\ "merged" \notin Area
    /\ \A i, k \in 1 .. Len(Areas) : Areas[i] = Areas[k] => i = k
    /\ Concurrency \subseteq Nat \ {0}
    /\ MaxTries \in Nat \ {0} /\ MaxPhases \in Nat
    /\ Dests \subseteq {"file", "r2"} /\ Dests # {}

VARIABLES
    pc,           \* the poller's goroutine
    phase,        \* generated_at of this phase's snapshots
    next,         \* the next area to start a worker for
    st, tries,    \* of each job: where its attemptPublish is, attempts made
    gen,          \* of each job: the snapshot its closure holds
    slots,        \* config.PublishConcurrency
    sem, wg,      \* the semaphore and the WaitGroup
    ctxDone,      \* the phase's budget is used up, or the process is stopping
    live,         \* live[d][j]: the snapshot at j's key of destination d
    history,      \* the history keys of R2
    failures,     \* health: publishFailures
    feedPublish,  \* health: last success of FeedPublish
    countedIn,    \* history: the phase the failures were counted in
    complete      \* the last phase ran to its end

vars == <<pc, phase, next, st, tries, gen, slots, sem, wg, ctxDone, live, history,
          failures, feedPublish, countedIn, complete>>
objects == <<live, history>>
health == <<failures, feedPublish, countedIn>>

St == {"none", "try", "pause", "won", "lost"}

TypeOK ==
    /\ pc \in {"idle", "read", "merged", "fanout"}
    /\ phase \in 0 .. MaxPhases
    /\ next \in 1 .. Len(Areas) + 1
    /\ st \in [Job -> St] /\ tries \in [Job -> 0 .. MaxTries]
    /\ gen \in [Job -> 0 .. MaxPhases]
    /\ slots \in Concurrency /\ sem \in 0 .. slots /\ wg \in 0 .. Len(Areas)
    /\ ctxDone \in BOOLEAN /\ complete \in BOOLEAN
    /\ live \in [Dests -> [Job -> 0 .. MaxPhases]]
    /\ history \in SUBSET (1 .. MaxPhases)
    /\ failures \in [Area -> Nat] /\ countedIn \in 0 .. MaxPhases
    /\ feedPublish \in 0 .. MaxPhases

Init ==
    /\ pc = "idle" /\ phase = 0 /\ complete = FALSE
    /\ st = [j \in Job |-> "none"] /\ tries = [j \in Job |-> 0] /\ gen = [j \in Job |-> 0]
    /\ slots \in Concurrency /\ sem = 0 /\ wg = 0 /\ next = 1 /\ ctxDone = FALSE
    /\ failures = [a \in Area |-> 0] /\ feedPublish = 0
    /\ live = [d \in Dests |-> [j \in Job |-> 0]] /\ history = {}
    /\ countedIn = 0

-----------------------------------------------------------------------------
PublishBegins ==
    /\ pc = "idle" /\ phase < MaxPhases
    /\ pc' = "read" /\ phase' = phase + 1
    /\ ctxDone' = FALSE /\ complete' = FALSE
    /\ UNCHANGED <<next, st, tries, gen, sem, wg, objects, health>>

(* GetActiveAlerts fails: nothing is published, no counter is touched. *)
ReadFails ==
    /\ pc = "read"
    /\ pc' = "idle"
    /\ UNCHANGED <<phase, next, st, tries, gen, sem, wg, ctxDone, objects, health, complete>>

(* The variables of j's attemptPublish and closure are gone. *)
Forget(j) ==
    /\ st' = [st EXCEPT ![j] = "none"]
    /\ tries' = [tries EXCEPT ![j] = 0]
    /\ gen' = [gen EXCEPT ![j] = 0]

Start(j) ==
    /\ st' = [st EXCEPT ![j] = "try"]
    /\ tries' = [tries EXCEPT ![j] = 0]
    /\ gen' = [gen EXCEPT ![j] = phase]

(* The snapshot is built, the failure counters are reset. *)
ReadAlerts ==
    /\ pc = "read"
    /\ pc' = "merged"
    /\ failures' = [a \in Area |-> 0] /\ countedIn' = phase
    /\ Start("merged")
    /\ UNCHANGED <<phase, next, sem, wg, ctxDone, objects, feedPublish, complete>>

-----------------------------------------------------------------------------
(* The objects one attempt of j writes: R2's merged snapshot goes to the   *)
(* live key, then to the history key.                                      *)
Puts(j) == Dests \cup (IF j = "merged" /\ "r2" \in Dests THEN {"history"} ELSE {})

\* mutant: an error of R2 is swallowed
MutFileSuffices(j, done) == "file" \in done

(* Multi and R2 return an error if any put did. *)
AllWritten(j, done) == done = Puts(j)

(* One call of Publisher.Publish or PublishState: the objects done are     *)
(* written; it reports success only if all of them are.  The file          *)
(* publisher does not look at the context.                                 *)
Attempt(j) ==
    /\ st[j] = "try"
    /\ \E done \in SUBSET Puts(j), ok \in BOOLEAN :
        /\ ok => AllWritten(j, done)
        /\ "history" \in done => "r2" \in done
        /\ ctxDone => done \subseteq {"file"}
        /\ live' = [d \in Dests |-> IF d \in done THEN [live[d] EXCEPT ![j] = gen[j]]
                                                  ELSE live[d]]
        /\ history' = IF "history" \in done THEN history \cup {gen[j]} ELSE history
        /\ st' = [st EXCEPT ![j] = IF ok THEN "won"
                                   ELSE IF tries[j] + 1 = MaxTries THEN "lost" ELSE "pause"]
    /\ tries' = [tries EXCEPT ![j] = @ + 1]
    /\ UNCHANGED <<pc, phase, next, gen, sem, wg, ctxDone, health, complete>>

(* The pause before the retry ends, or the context is done; the select     *)
(* takes either once both are.                                             *)
PauseEnds(j) ==
    /\ st[j] = "pause"
    /\ \/ st' = [st EXCEPT ![j] = "try"]
       \/ ctxDone /\ st' = [st EXCEPT ![j] = "lost"]
    /\ UNCHANGED <<pc, phase, next, tries, gen, sem, wg, ctxDone, objects, health, complete>>

MergedDone ==
    /\ pc = "merged" /\ st["merged"] \in {"won", "lost"}
    /\ feedPublish' = IF st["merged"] = "won" THEN phase ELSE feedPublish
    /\ Forget("merged")
    /\ pc' = "fanout" /\ next' = 1 /\ sem' = 0 /\ wg' = 0
    /\ UNCHANGED <<phase, ctxDone, objects, failures, countedIn, complete>>

-----------------------------------------------------------------------------
(* publishPerStateSnapshots: a slot is taken before the goroutine starts. *)
Spawn ==
    /\ pc = "fanout" /\ next <= Len(Areas) /\ sem < slots
    /\ sem' = sem + 1 /\ wg' = wg + 1
    /\ Start(Areas[next])
    /\ next' = next + 1
    /\ UNCHANGED <<pc, phase, ctxDone, objects, health, complete>>

CountFailure(a) ==
    /\ failures' = [failures EXCEPT ![a] = @ + 1]
    /\ UNCHANGED <<feedPublish, countedIn>>

(* The worker's deferred calls: its slot is freed, the WaitGroup told. *)
WorkerReturns(a) ==
    /\ sem' = sem - 1 /\ wg' = wg - 1
    /\ Forget(a)
    /\ UNCHANGED <<pc, phase, next, ctxDone, objects, complete>>

WorkerDone(a) ==
    /\ \/ st[a] = "won" /\ UNCHANGED health
       \/ st[a] = "lost" /\ CountFailure(a)
    /\ WorkerReturns(a)

\* mutant: the recovered panic records no failure
MutPanicUncounted(a) ==
    /\ st[a] \in {"try", "pause"}
    /\ UNCHANGED health
    /\ WorkerReturns(a)

\* mutant: the slot is freed on the normal path only
MutPanicKeepsSlot(a) ==
    /\ st[a] \in {"try", "pause"}
    /\ CountFailure(a)
    /\ wg' = wg - 1
    /\ Forget(a)
    /\ UNCHANGED <<pc, phase, next, sem, ctxDone, objects, complete>>

\* mutant: the recovery and the deferred call both free the slot
MutPanicFreesTwice(a) ==
    /\ st[a] \in {"try", "pause"}
    /\ CountFailure(a)
    /\ sem' = sem - 2 /\ wg' = wg - 1
    /\ Forget(a)
    /\ UNCHANGED <<pc, phase, next, ctxDone, objects, complete>>

(* A panic in the worker is recovered in the worker. *)
WorkerPanics(a) ==
    /\ st[a] \in {"try", "pause"}
    /\ CountFailure(a)
    /\ WorkerReturns(a)

\* mutant: no wg.Wait()
MutFanOutNotAwaited ==
    /\ pc = "fanout" /\ next > Len(Areas)
    /\ pc' = "idle" /\ complete' = TRUE
    /\ UNCHANGED <<phase, next, st, tries, gen, sem, wg, ctxDone, objects, health>>

(* wg.Wait() *)
FanOutEnds ==
    /\ pc = "fanout" /\ next > Len(Areas) /\ wg = 0
    /\ pc' = "idle" /\ complete' = TRUE
    /\ UNCHANGED <<phase, next, st, tries, gen, sem, wg, ctxDone, objects, health>>

-----------------------------------------------------------------------------
BudgetExpires ==
    /\ pc # "idle" /\ ~ctxDone
    /\ ctxDone' = TRUE
    /\ UNCHANGED <<pc, phase, next, st, tries, gen, sem, wg, objects, health, complete>>

(* A panic on the poller's own goroutine ends the cycle (pollSafely). *)
PollerPanics ==
    /\ pc \in {"read", "merged"}
    /\ pc' = "idle"
    /\ Forget("merged")
    /\ UNCHANGED <<phase, next, sem, wg, ctxDone, objects, health, complete>>

(* A crash or a redeploy: goroutines, counters and timestamps are gone. *)
Restart ==
    /\ pc' = "idle" /\ complete' = FALSE
    /\ st' = [j \in Job |-> "none"] /\ tries' = [j \in Job |-> 0] /\ gen' = [j \in Job |-> 0]
    /\ sem' = 0 /\ wg' = 0 /\ next' = 1 /\ ctxDone' = FALSE
    /\ failures' = [a \in Area |-> 0] /\ feedPublish' = 0
    /\ countedIn' = 0
    /\ UNCHANGED <<phase, objects>>

JobStep(j) == Attempt(j) \/ PauseEnds(j)

Worker(a) == JobStep(a) \/ WorkerDone(a)

Poller == ReadFails \/ ReadAlerts \/ JobStep("merged") \/ MergedDone \/ Spawn \/ FanOutEnds

Next ==
    /\ \/ PublishBegins \/ Poller \/ BudgetExpires \/ PollerPanics \/ Restart
       \/ \E a \in Area : Worker(a) \/ WorkerPanics(a)
    /\ UNCHANGED slots

Spec == Init /\ [][Next]_vars

(* Goroutines are scheduled, and every attempt and pause has a deadline. *)
FairSpec ==
    /\ Spec
    /\ WF_vars(Poller /\ UNCHANGED slots)
    /\ \A a \in Area : WF_vars(Worker(a) /\ UNCHANGED slots)

-----------------------------------------------------------------------------
(* When a phase has run to its end, an area whose snapshot is not this     *)
(* phase's at every destination is counted, once, and no worker is left:   *)
(* a hung, failing or panicking area costs only itself.                    *)
EveryAreaAccounted ==
    complete =>
        \A a \in Area : /\ st[a] = "none" /\ failures[a] <= 1
                        /\ failures[a] = 0 => \A d \in Dests : live[d][a] = phase

(* /healthz may call "publish" fresh only for a merged snapshot that       *)
(* reached every destination, its history key included; the retry after a  *)
(* put that failed half way never archives a snapshot that is not live.    *)
FreshMeansPublished ==
    /\ feedPublish # 0 =>
        /\ \A d \in Dests : live[d]["merged"] >= feedPublish
        /\ "r2" \in Dests => feedPublish \in history
    /\ \A t \in history : live["r2"]["merged"] >= t

(* No key ever goes back to an older snapshot, and the snapshots a phase   *)
(* writes all carry its one generated_at.                                  *)
ForwardInTime ==
    [][\A d \in Dests, j \in Job :
        live'[d][j] # live[d][j] => live'[d][j] > live[d][j] /\ live'[d][j] = phase]_vars

(* Every phase ends: the semaphore is freed by the workers that fail and   *)
(* panic too, so the poller is never left waiting for a slot or a worker.  *)
EveryPhaseEnds == pc # "idle" ~> pc = "idle"

(* "so /healthz reflects only the most recent cycle's degradation, not a   *)
(* historical total that never recovers" (health/registry.go:76-79): a     *)
(* failure on display between phases is one of the last phase.             *)
CountersAreCurrent ==
    pc = "idle" => \A a \in Area : failures[a] > 0 => countedIn = phase
=============================================================================
