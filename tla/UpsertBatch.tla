------------------------------ MODULE UpsertBatch ------------------------------
(***************************************************************************)
(* internal/store: the write path of the weather_events table, run by      *)
(* every ingest-role node of the fleet against one Postgres database.      *)
(*                                                                         *)
(* A cycle of a node writes the payload it fetched with UpsertAlertsBatch  *)
(* (one transaction; on a non-context error one autocommit statement per   *)
(* alert) and then runs PurgeExpired.  Transactions are READ COMMITTED:    *)
(* their writes are visible at commit, and a row written by an open        *)
(* transaction is locked against every other writer until it ends.         *)
(* Statements, commits, the context and the process fail at any point, and *)
(* a write the client saw fail may have been applied.                      *)
(*                                                                         *)
(* Abstracted: a multi-row UPDATE or DELETE is one step, taken when no     *)
(* other transaction holds a row it would write; the columns that neither  *)
(* the retirement predicate nor the snapshot filter reads.                 *)
(***************************************************************************)
EXTENDS Supersession, Sequences, FiniteSets

CONSTANTS
    Node,         \* ingest-role processes
    Payloads,     \* the alert lists a fetch can return, in feed order
    Unparseable,  \* ids whose `expires` does not parse (parseAlertTimes)
    Poison,       \* ids whose row Postgres always rejects (bad geometry)
    Horizon       \* bound of the clock

ASSUME PayloadAssumption == Payloads \subseteq Seq(Id)

VARIABLES
    pc,         \* where the node is in its cycle
    payload,    \* the alerts argument of UpsertAlertsBatch
    i,          \* the next element of payload to write
    txUp,       \* rows the node's open transaction has upserted
    txRet,      \* rows the node's open transaction has retired
    succeeded,  \* ids the fallback loop wrote without an error
    todo,       \* event types the fallback retirement has yet to run
    result      \* what the last UpsertAlertsBatch returned

node == <<pc, payload, i, txUp, txRet, succeeded, todo, result>>
vars == <<avars, node>>

PC == {"idle", "batch", "commit", "fbUpsert", "fbRetire", "returned"}
Result == {"none", "ok", "degraded", "fatal"}

TypeOK ==
    /\ now \in Int
    /\ events \in [Id -> RowState]
    /\ landed \in SUBSET Id
    /\ superseded \in SUBSET Id
    /\ pc \in [Node -> PC]
    /\ payload \in [Node -> Seq(Id)]
    /\ i \in [Node -> Nat \ {0}]
    /\ txUp \in [Node -> SUBSET Id]
    /\ txRet \in [Node -> SUBSET Id]
    /\ succeeded \in [Node -> SUBSET Id]
    /\ todo \in [Node -> SUBSET {Event[x] : x \in Id}]
    /\ result \in [Node -> Result]

Init ==
    /\ AInit
    /\ pc = [n \in Node |-> "idle"]
    /\ payload = [n \in Node |-> <<>>]
    /\ i = [n \in Node |-> 1]
    /\ txUp = [n \in Node |-> {}]
    /\ txRet = [n \in Node |-> {}]
    /\ succeeded = [n \in Node |-> {}]
    /\ todo = [n \in Node |-> {}]
    /\ result = [n \in Node |-> "none"]

-----------------------------------------------------------------------------
Held(n) == txUp[n] \cup txRet[n]

(* The row locks the other transactions hold. *)
LockedAgainst(n) == UNION {Held(m) : m \in Node \ {n}}

\* mutant: the upsert resets retired_at like every other column
MutUpsertedRefreshesRetiredAt(S) ==
    [x \in Id |-> IF x \in S THEN "live" ELSE events[x]]

(* What the table is once the rows S are upserted: the upsert refreshes    *)
(* every column but retired_at. *)
Upserted(S) == [x \in Id |-> IF x \in S /\ events[x] = "absent" THEN "live"
                             ELSE events[x]]

(* The rows retireByReferenceSQL matches for the messages S, in the table  *)
(* as the statement sees it.                                               *)
Retirable(S, view) ==
    {x \in Id : view[x] = "live" /\ \E y \in S : Supersedes(y, x)}

(* Roll the transaction back (pgx's deferred Rollback, or the server when  *)
(* the connection dies). *)
EndTx(n) ==
    /\ txUp' = [txUp EXCEPT ![n] = {}]
    /\ txRet' = [txRet EXCEPT ![n] = {}]

Return(n, r) ==
    /\ pc' = [pc EXCEPT ![n] = "returned"]
    /\ result' = [result EXCEPT ![n] = r]

\* mutant: the fallback loop starts before the first alert
MutEnterFallbackAtZero(n) ==
    /\ pc' = [pc EXCEPT ![n] = "fbUpsert"]
    /\ i' = [i EXCEPT ![n] = 0]
    /\ succeeded' = [succeeded EXCEPT ![n] = {}]

\* mutant: a failed batch is run again as a batch
MutRetryTheBatch(n) ==
    /\ pc' = [pc EXCEPT ![n] = "batch"]
    /\ i' = [i EXCEPT ![n] = 1]
    /\ succeeded' = [succeeded EXCEPT ![n] = {}]

EnterFallback(n) ==
    /\ pc' = [pc EXCEPT ![n] = "fbUpsert"]
    /\ i' = [i EXCEPT ![n] = 1]
    /\ succeeded' = [succeeded EXCEPT ![n] = {}]

\* mutant: the degraded path retires for the whole payload
MutRetireForAll(n) == {payload[n][k] : k \in 1 .. Len(payload[n])}

(* The alerts the degraded path retires for: those that did land. *)
RetireFor(n) == succeeded[n]

InBatch(n) == pc[n] = "batch" /\ i[n] <= Len(payload[n])

InFallback(n) == pc[n] = "fbUpsert" /\ i[n] <= Len(payload[n])

-----------------------------------------------------------------------------
(* A 200 response was decoded: UpsertAlertsBatch(ctx, p) is called. *)
UpsertAlertsBatch(n, p) ==
    /\ pc[n] = "idle"
    /\ payload' = [payload EXCEPT ![n] = p]
    /\ i' = [i EXCEPT ![n] = 1]
    /\ IF p = <<>>
       THEN Return(n, "ok")
       ELSE pc' = [pc EXCEPT ![n] = "batch"] /\ result' = [result EXCEPT ![n] = "none"]
    /\ UNCHANGED <<avars, txUp, txRet, succeeded, todo>>

(* The next alert is left out of the batch: its `expires` does not parse. *)
BatchSkip(n) ==
    /\ InBatch(n)
    /\ payload[n][i[n]] \in Unparseable
    /\ i' = [i EXCEPT ![n] = @ + 1]
    /\ UNCHANGED <<avars, pc, payload, txUp, txRet, succeeded, todo, result>>

(* The next upsert of the batch runs; it waits while another transaction   *)
(* holds the row. *)
BatchUpsert(n) ==
    /\ InBatch(n)
    /\ payload[n][i[n]] \notin Unparseable \cup Poison \cup LockedAgainst(n)
    /\ txUp' = [txUp EXCEPT ![n] = @ \cup {payload[n][i[n]]}]
    /\ i' = [i EXCEPT ![n] = @ + 1]
    /\ UNCHANGED <<avars, pc, payload, txRet, succeeded, todo, result>>

\* mutant: the retirement does not see the batch it belongs to
MutRetireOnThePool(n) ==
    /\ pc[n] = "batch" /\ ~InBatch(n)
    /\ LET rows == Retirable(txUp[n], events)
       IN /\ rows \cap LockedAgainst(n) = {}
          /\ txRet' = [txRet EXCEPT ![n] = rows]
    /\ pc' = [pc EXCEPT ![n] = "commit"]
    /\ UNCHANGED <<avars, payload, i, txUp, succeeded, todo, result>>

(* retireReferenced(ctx, tx, queued): in the transaction, after every      *)
(* upsert.  It sees committed rows and its own, and retires for the queued *)
(* alerts only.                                                            *)
RetireInTx(n) ==
    /\ pc[n] = "batch" /\ ~InBatch(n)
    /\ LET rows == Retirable(txUp[n], Upserted(txUp[n]))
       IN /\ rows \cap LockedAgainst(n) = {}
          /\ txRet' = [txRet EXCEPT ![n] = rows]
    /\ pc' = [pc EXCEPT ![n] = "commit"]
    /\ UNCHANGED <<avars, payload, i, txUp, succeeded, todo, result>>

ApplyTx(n) ==
    /\ events' = [x \in Id |-> IF x \in txRet[n] THEN "retired" ELSE Upserted(txUp[n])[x]]
    /\ landed' = landed \cup txUp[n]
    /\ superseded' = superseded \cup txRet[n]
    /\ EndTx(n)
    /\ UNCHANGED <<now, payload, todo>>

Commit(n) ==
    /\ pc[n] = "commit"
    /\ ApplyTx(n)
    /\ Return(n, "ok")
    /\ UNCHANGED <<i, succeeded>>

(* The server commits but the client sees an error: the batch is run again *)
(* row by row, or given up if it was the context that fired.               *)
CommitUnacknowledged(n) ==
    /\ pc[n] = "commit"
    /\ ApplyTx(n)
    /\ \/ EnterFallback(n) /\ UNCHANGED result
       \/ Return(n, "fatal") /\ UNCHANGED <<i, succeeded>>

(* Any non-context error: BeginTx, a rejected row, statement_timeout, a    *)
(* deadlock the server breaks, a lost connection. *)
TxError(n) ==
    /\ pc[n] \in {"batch", "commit"}
    /\ EndTx(n)
    /\ EnterFallback(n)
    /\ UNCHANGED <<avars, payload, todo, result>>

(* isFatalBatchErr / ctx.Err(): the cycle is being given up. *)
CtxFires(n) ==
    /\ pc[n] \in {"batch", "commit"} \/ InFallback(n)
    /\ EndTx(n)
    /\ Return(n, "fatal")
    /\ UNCHANGED <<avars, payload, i, succeeded, todo>>

-----------------------------------------------------------------------------
(* One alert of the fallback loop: an autocommit UpsertAlert on the pool.  *)
FallbackUpsert(n) ==
    /\ InFallback(n)
    /\ LET x == payload[n][i[n]] IN
       /\ x \notin Unparseable \cup Poison \cup LockedAgainst(n)
       /\ events' = Upserted({x})
       /\ landed' = landed \cup {x}
       /\ \/ /\ succeeded' = [succeeded EXCEPT ![n] = @ \cup {x}]
             /\ UNCHANGED <<pc, result>>
          \* applied, but the client saw an error, or its context fire
          \/ UNCHANGED <<succeeded, pc, result>>
          \/ Return(n, "fatal") /\ UNCHANGED succeeded
    /\ i' = [i EXCEPT ![n] = @ + 1]
    /\ UNCHANGED <<now, superseded, payload, txUp, txRet, todo>>

(* The alert is skipped (unparseable expires) or its row fails: logged and *)
(* not counted as succeeded. *)
FallbackRowFails(n) ==
    /\ InFallback(n)
    /\ i' = [i EXCEPT ![n] = @ + 1]
    /\ UNCHANGED <<avars, pc, payload, txUp, txRet, succeeded, todo, result>>

(* retireReferenced(ctx, pool, succeeded): one autocommit UPDATE for each  *)
(* event type, in map order. *)
FallbackRetireBegin(n) ==
    /\ pc[n] = "fbUpsert" /\ ~InFallback(n)
    /\ pc' = [pc EXCEPT ![n] = "fbRetire"]
    /\ todo' = [todo EXCEPT ![n] = {Event[y] : y \in {z \in RetireFor(n) : Refs[z] # {}}}]
    /\ UNCHANGED <<avars, payload, i, txUp, txRet, succeeded, result>>

FallbackRetire(n, e) ==
    /\ pc[n] = "fbRetire" /\ e \in todo[n]
    /\ LET rows == Retirable({y \in RetireFor(n) : Event[y] = e}, events)
       IN /\ rows \cap LockedAgainst(n) = {}
          /\ events' = [x \in Id |-> IF x \in rows THEN "retired" ELSE events[x]]
          /\ superseded' = superseded \cup rows
    /\ todo' = [todo EXCEPT ![n] = @ \ {e}]
    /\ UNCHANGED <<now, landed, pc, payload, i, txUp, txRet, succeeded, result>>

(* The remaining UPDATEs are abandoned at the first error, which is logged *)
(* and not returned; with none left the call is over.  Either way the      *)
(* caller is told: degraded, no error. *)
FallbackReturn(n) ==
    /\ pc[n] = "fbRetire"
    /\ Return(n, "degraded")
    /\ todo' = [todo EXCEPT ![n] = {}]
    /\ UNCHANGED <<avars, payload, i, txUp, txRet, succeeded>>

-----------------------------------------------------------------------------
\* mutant: the purge takes retired rows too
MutExpiredOrRetired == {x \in Id : events[x] = "retired" \/ Expires[x] < now}

Expired == {x \in Id : events[x] # "absent" /\ Expires[x] < now}

(* The end of the node's cycle: DELETE ... WHERE expires_at < NOW(). *)
PurgeExpired(n) ==
    /\ pc[n] = "returned"
    /\ Expired \cap LockedAgainst(n) = {}
    /\ events' = [x \in Id |-> IF x \in Expired THEN "absent" ELSE events[x]]
    /\ pc' = [pc EXCEPT ![n] = "idle"]
    /\ UNCHANGED <<now, landed, superseded, payload, i, txUp, txRet, succeeded, todo, result>>

PurgeFails(n) ==
    /\ pc[n] = "returned"
    /\ pc' = [pc EXCEPT ![n] = "idle"]
    /\ UNCHANGED <<avars, payload, i, txUp, txRet, succeeded, todo, result>>

(* The process dies or is redeployed; the server rolls its transaction     *)
(* back and its memory is lost. *)
Crash(n) ==
    /\ pc[n] # "idle"
    /\ EndTx(n)
    /\ pc' = [pc EXCEPT ![n] = "idle"]
    /\ payload' = [payload EXCEPT ![n] = <<>>]
    /\ i' = [i EXCEPT ![n] = 1]
    /\ succeeded' = [succeeded EXCEPT ![n] = {}]
    /\ todo' = [todo EXCEPT ![n] = {}]
    /\ result' = [result EXCEPT ![n] = "none"]
    /\ UNCHANGED avars

Tick == now < Horizon /\ ATick /\ UNCHANGED node

-----------------------------------------------------------------------------
(* What a node waits for, and Postgres's deadlock detector: of every cycle *)
(* of waiting transactions it cancels one statement (SQLSTATE 40P01, which *)
(* is not a context error). *)
WaitsFor(n) ==
    {m \in Node \ {n} :
        \/ InBatch(n) /\ payload[n][i[n]] \in Held(m) \ Unparseable
        \/ /\ pc[n] = "batch" /\ ~InBatch(n)
           /\ Retirable(txUp[n], Upserted(txUp[n])) \cap Held(m) # {}}

WaitCycle(S) ==
    /\ S # {}
    /\ \A n \in S : WaitsFor(n) \cap S # {}
    /\ \A T \in SUBSET S \ {{}, S} : \E n \in T : WaitsFor(n) \cap T = {}

DeadlockVictim == \E S \in SUBSET Node : WaitCycle(S) /\ \E n \in S : TxError(n)

(* The steps that take a cycle of n forward; the failures are not among    *)
(* them, except that a row Postgres rejects always ends the batch. *)
Progress(n) ==
    \/ BatchSkip(n) \/ BatchUpsert(n) \/ RetireInTx(n) \/ Commit(n)
    \/ InBatch(n) /\ payload[n][i[n]] \in Poison /\ TxError(n)
    \/ FallbackUpsert(n)
    \/ InFallback(n) /\ payload[n][i[n]] \in Unparseable \cup Poison /\ FallbackRowFails(n)
    \/ FallbackRetireBegin(n)
    \/ \E e \in todo[n] : FallbackRetire(n, e)
    \/ todo[n] = {} /\ FallbackReturn(n)
    \/ PurgeExpired(n)

Next ==
    \/ \E n \in Node :
        \/ \E p \in Payloads : UpsertAlertsBatch(n, p)
        \/ BatchSkip(n) \/ BatchUpsert(n) \/ RetireInTx(n)
        \/ Commit(n) \/ CommitUnacknowledged(n) \/ TxError(n) \/ CtxFires(n)
        \/ FallbackUpsert(n) \/ FallbackRowFails(n) \/ FallbackRetireBegin(n)
        \/ \E e \in todo[n] : FallbackRetire(n, e)
        \/ FallbackReturn(n)
        \/ PurgeExpired(n) \/ PurgeFails(n) \/ Crash(n)
    \/ Tick

Spec == Init /\ [][Next]_vars

(* Lock waiters are queued in order by Postgres, so a waiter whose lock is *)
(* freed again and again gets it: strong fairness. *)
FairSpec == Spec /\ SF_vars(DeadlockVictim) /\ \A n \in Node : SF_vars(Progress(n))

-----------------------------------------------------------------------------
(* A batch reported as landed has landed: after (err = nil, not degraded)  *)
(* every alert of the payload whose expires parses is in the table, and an *)
(* alert that another of the same payload supersedes is not shown, in      *)
(* whatever order the feed listed them and whoever else was writing them.  *)
OkMeansLanded ==
    \A n \in Node : pc[n] = "returned" /\ result[n] = "ok" =>
        LET sent == {payload[n][k] : k \in 1 .. Len(payload[n])} \ Unparseable
        IN /\ sent \subseteq landed
           /\ \A x, y \in sent : Supersedes(y, x) => x \notin Active

(* Every call of a node's cycle comes to an end, without help from the     *)
(* cycle deadline: row-lock waits and deadlocks between nodes that upsert  *)
(* the same cross-border alerts in different orders always resolve. *)
EveryCycleEnds == \A n \in Node : pc[n] # "idle" ~> pc[n] = "idle"

(* What readers of the table are promised. *)
Promise == INSTANCE Supersession
ImplementsSupersession == Promise!ASpec
=============================================================================
