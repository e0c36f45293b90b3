--------------------------- MODULE UpsertBatch_proofs ---------------------------
(***************************************************************************)
(* The safety of the alert write path, for every set of nodes, messages,   *)
(* payloads, unparseable and rejected alerts.                              *)
(*                                                                         *)
(* None of the three invariants is inductive.  A committed retirement is   *)
(* safe because of what the transaction did before (TxSound), because no   *)
(* other node could touch its rows meanwhile (LocksExclusive), and because *)
(* the table, the history variables and the clock agree (TableSound).      *)
(***************************************************************************)
EXTENDS UpsertBatch, TLAPS

(* Two open transactions never hold the same row. *)
LocksExclusive == \A m, n \in Node : m # n => Held(m) \cap Held(n) = {}

(* A transaction is open only between BeginTx and its end, and retires     *)
(* only rows that are still there, for its own upserts.                    *)
TxSound ==
    \A n \in Node :
        /\ pc[n] \notin {"batch", "commit"} => txUp[n] = {}
        /\ pc[n] # "commit" => txRet[n] = {}
        /\ \A x \in txRet[n] :
            /\ events[x] = "live" \/ (events[x] = "absent" /\ x \in txUp[n])
            /\ \E y \in txUp[n] : Supersedes(y, x)

(* The rows, the history of the rows and the clock. *)
TableSound ==
    /\ \A x \in Id : events[x] # "absent" => x \in landed
    /\ \A x \in Id : events[x] = "retired" => x \in superseded
    /\ \A x \in superseded : events[x] = "retired" \/ Expires[x] < now
    /\ \A n \in Node : succeeded[n] \subseteq landed

(* How far a batch has come: what it has passed is upserted, at the commit *)
(* every upserted row that another upsert supersedes is or will be         *)
(* retired, and an "ok" stands for all that having been committed.         *)
BatchOf(n) ==
    /\ pc[n] = "batch" =>
        \A k \in 1 .. Len(payload[n]) :
            k < i[n] => payload[n][k] \in txUp[n] \cup Unparseable
    /\ pc[n] = "commit" =>
        /\ \A k \in 1 .. Len(payload[n]) : payload[n][k] \in txUp[n] \cup Unparseable
        /\ txUp[n] \cap Unparseable = {}
        /\ \A x, y \in txUp[n] :
            Supersedes(y, x) => x \in txRet[n] \/ events[x] = "retired"
    /\ pc[n] = "batch" => txUp[n] \cap Unparseable = {}
    /\ pc[n] = "returned" /\ result[n] = "ok" =>
        /\ \A k \in 1 .. Len(payload[n]) : payload[n][k] \in landed \cup Unparseable
        /\ \A k, l \in 1 .. Len(payload[n]) :
            payload[n][k] \notin Unparseable /\ payload[n][l] \notin Unparseable
            /\ Supersedes(payload[n][l], payload[n][k]) => payload[n][k] \in superseded

BatchSound == \A n \in Node : BatchOf(n)

IInv ==
    /\ TypeOK
    /\ LocksExclusive
    /\ TxSound
    /\ TableSound
    /\ BatchSound
    /\ RetiredHasLandedSuccessor

-----------------------------------------------------------------------------
(* The element a loop is at is a message. *)
LEMMA NextAlert ==
    ASSUME IInv, NEW n \in Node, InBatch(n) \/ InFallback(n)
    PROVE  payload[n][i[n]] \in Id
<1>1. payload[n] \in Seq(Id) /\ i[n] \in 1 .. Len(payload[n])
  BY DEF InBatch, InFallback, IInv, TypeOK
<1> QED BY <1>1

(* A step of one node leaves the progress of the others alone as long as   *)
(* it takes back nothing that has been committed.                          *)
LEMMA BatchKept ==
    ASSUME BatchSound, NEW n \in Node, BatchOf(n)',
           landed \subseteq landed', superseded \subseteq superseded',
           \A x \in Id : events[x] = "retired" => events'[x] = "retired",
           \A m \in Node : txUp[m] \subseteq Id,
           \A m \in Node \ {n} :
               /\ pc'[m] = pc[m] /\ payload'[m] = payload[m] /\ i'[m] = i[m]
               /\ txUp'[m] = txUp[m] /\ txRet'[m] = txRet[m] /\ result'[m] = result[m]
    PROVE  BatchSound'
<1> SUFFICES ASSUME NEW m \in Node \ {n} PROVE BatchOf(m)'
  BY DEF BatchSound
<1>1. /\ pc'[m] = pc[m] /\ payload'[m] = payload[m] /\ i'[m] = i[m]
      /\ txUp'[m] = txUp[m] /\ txRet'[m] = txRet[m] /\ result'[m] = result[m]
  OBVIOUS
<1>2. BatchOf(m) /\ txUp[m] \subseteq Id
  BY DEF BatchSound
<1> QED BY <1>1, <1>2 DEF BatchOf

(* Before anything is fetched all of it holds. *)
LEMMA InitIInv == Init => IInv
<1> SUFFICES ASSUME Init PROVE IInv OBVIOUS
<1>1. TypeOK BY DEF Init, AInit, TypeOK, RowState, PC, Result
<1>2. LocksExclusive BY DEF Init, LocksExclusive, Held
<1>3. TxSound /\ TableSound /\ BatchSound /\ RetiredHasLandedSuccessor
  BY DEF Init, AInit, TxSound, TableSound, BatchSound, BatchOf, RetiredHasLandedSuccessor
<1> QED BY <1>1, <1>2, <1>3 DEF IInv

(* A call of UpsertAlertsBatch opens an empty transaction, or returns at once. *)
LEMMA UpsertAlertsBatchKeeps ==
    ASSUME IInv, NEW n \in Node, NEW p \in Payloads, UpsertAlertsBatch(n, p)
    PROVE  IInv'
<1>a. \E c \in {"batch", "returned"}, r \in {"none", "ok"} :
        /\ pc' = [pc EXCEPT ![n] = c] /\ result' = [result EXCEPT ![n] = r]
        /\ c = "returned" => p = <<>>
  <2>1. CASE p = <<>>
    BY <2>1 DEF UpsertAlertsBatch, Return
  <2>2. CASE p # <<>>
    BY <2>2 DEF UpsertAlertsBatch, Return
  <2> QED BY <2>1, <2>2
<1>b. /\ pc[n] = "idle"
      /\ payload' = [payload EXCEPT ![n] = p] /\ i' = [i EXCEPT ![n] = 1]
      /\ UNCHANGED <<avars, txUp, txRet, succeeded, todo>>
  BY DEF UpsertAlertsBatch
<1>c. p \in Seq(Id)
  BY PayloadAssumption
<1>1. TypeOK'
  <2>1. payload' \in [Node -> Seq(Id)] BY <1>b, <1>c DEF IInv, TypeOK
  <2>2. pc' \in [Node -> PC] BY <1>a DEF IInv, TypeOK, PC
  <2>3. result' \in [Node -> Result] BY <1>a DEF IInv, TypeOK, Result
  <2>4. i' \in [Node -> Nat \ {0}] BY <1>b DEF IInv, TypeOK
  <2> QED BY <1>b, <2>1, <2>2, <2>3, <2>4 DEF IInv, TypeOK, avars
<1>2. LocksExclusive'
  BY DEF UpsertAlertsBatch, IInv, Held, LocksExclusive
<1>3. TxSound'
  BY <1>a, <1>b DEF IInv, TypeOK, TxSound, avars, Supersedes
<1>4. TableSound'
  BY DEF UpsertAlertsBatch, IInv, TableSound, avars
<1>5. BatchSound'
  BY DEF UpsertAlertsBatch, Return, IInv, TypeOK, BatchSound, BatchOf, TxSound, avars
<1>6. RetiredHasLandedSuccessor'
  BY DEF UpsertAlertsBatch, IInv, RetiredHasLandedSuccessor, avars
<1> QED BY <1>1, <1>2, <1>3, <1>4, <1>5, <1>6 DEF IInv

(* Passing over an unparseable alert leaves the transaction as it is. *)
LEMMA BatchSkipKeeps ==
    ASSUME IInv, NEW n \in Node, BatchSkip(n)
    PROVE  IInv'
<1>1. TypeOK'
  BY DEF BatchSkip, IInv, TypeOK, avars
<1>2. LocksExclusive'
  BY DEF BatchSkip, IInv, Held, LocksExclusive
<1>3. TxSound'
  BY DEF BatchSkip, IInv, TxSound, avars
<1>4. TableSound'
  BY DEF BatchSkip, IInv, TableSound, avars
<1>5. BatchSound'
  BY DEF BatchSkip, InBatch, IInv, TypeOK, BatchSound, BatchOf, TxSound, avars
<1>6. RetiredHasLandedSuccessor'
  BY DEF BatchSkip, IInv, RetiredHasLandedSuccessor, avars
<1> QED BY <1>1, <1>2, <1>3, <1>4, <1>5, <1>6 DEF IInv

(* An upsert takes a lock nobody else holds. *)
LEMMA BatchUpsertKeeps ==
    ASSUME IInv, NEW n \in Node, BatchUpsert(n)
    PROVE  IInv'
<1>1. TypeOK'
  BY DEF BatchUpsert, InBatch, IInv, TypeOK, avars
<1>2. LocksExclusive'
  BY DEF BatchUpsert, LockedAgainst, IInv, Held, LocksExclusive
<1>3. TxSound'
  BY DEF BatchUpsert, InBatch, IInv, TxSound, avars
<1>4. TableSound'
  BY DEF BatchUpsert, IInv, TableSound, avars
<1>5. BatchSound'
  <2>1. /\ UNCHANGED avars
        /\ \A m \in Node \ {n} :
               /\ pc'[m] = pc[m] /\ payload'[m] = payload[m] /\ i'[m] = i[m]
               /\ txUp'[m] = txUp[m] /\ txRet'[m] = txRet[m] /\ result'[m] = result[m]
    BY DEF BatchUpsert, IInv, TypeOK
  <2>2. /\ pc[n] = "batch" /\ pc'[n] = "batch" /\ payload'[n] = payload[n]
        /\ i[n] \in Nat /\ i'[n] = i[n] + 1 /\ payload[n][i[n]] \notin Unparseable
        /\ txUp'[n] = txUp[n] \cup {payload[n][i[n]]}
    BY DEF BatchUpsert, InBatch, IInv, TypeOK
  <2>3. /\ \A k \in 1 .. Len(payload[n]) :
               k < i[n] => payload[n][k] \in txUp[n] \cup Unparseable
        /\ txUp[n] \cap Unparseable = {}
    BY <2>2 DEF IInv, BatchSound, BatchOf
  <2>4. \A k \in 1 .. Len(payload[n]) : k < i[n] + 1 => k < i[n] \/ k = i[n]
    BY <2>2
  <2>5. BatchOf(n)'
    BY <2>2, <2>3, <2>4 DEF BatchOf
  <2> QED BY <2>1, <2>5, BatchKept DEF IInv, TypeOK, avars
<1>6. RetiredHasLandedSuccessor'
  BY DEF BatchUpsert, IInv, RetiredHasLandedSuccessor, avars
<1> QED BY <1>1, <1>2, <1>3, <1>4, <1>5, <1>6 DEF IInv

(* The retirement of the batch covers every pair it has to. *)
LEMMA RetireInTxKeeps ==
    ASSUME IInv, NEW n \in Node, RetireInTx(n)
    PROVE  IInv'
<1> DEFINE rows == Retirable(txUp[n], Upserted(txUp[n]))
<1>a. /\ rows \cap LockedAgainst(n) = {}
      /\ txRet' = [txRet EXCEPT ![n] = rows]
      /\ pc[n] = "batch" /\ pc' = [pc EXCEPT ![n] = "commit"]
      /\ UNCHANGED <<avars, payload, i, txUp, succeeded, todo, result>>
  BY DEF RetireInTx
<1>1. TypeOK'
  BY DEF RetireInTx, Retirable, IInv, TypeOK, PC, avars
<1>2. LocksExclusive'
  <2>1. ASSUME NEW k \in Node, NEW m \in Node, k # m, k # n, m # n
        PROVE (Held(k) \cap Held(m) = {})'
    BY <1>a, <2>1 DEF IInv, LocksExclusive, Held, TypeOK
  <2>2. ASSUME NEW m \in Node, m # n
        PROVE Held(m)' \cap Held(n)' = {}
    <3>1. Held(m)' = Held(m) /\ Held(n)' = txUp[n] \cup rows
      BY <1>a, <2>2 DEF Held, IInv, TypeOK
    <3>2. Held(m) \cap txUp[n] = {}
      BY <2>2 DEF IInv, LocksExclusive, Held
    <3>3. Held(m) \subseteq LockedAgainst(n)
      BY <2>2 DEF LockedAgainst
    <3> QED BY <1>a, <3>1, <3>2, <3>3
  <2> QED BY <2>1, <2>2 DEF LocksExclusive
<1>3. TxSound'
  BY DEF RetireInTx, Retirable, Upserted, IInv, TypeOK, TxSound, avars
<1>4. TableSound'
  BY DEF RetireInTx, IInv, TableSound, avars
<1>5. BatchSound'
  <2>1. \A k \in 1 .. Len(payload[n]) : payload[n][k] \in txUp[n] \cup Unparseable
    <3>1. i[n] \in Nat /\ ~(i[n] <= Len(payload[n])) /\ Len(payload[n]) \in Nat
      BY <1>a DEF RetireInTx, InBatch, IInv, TypeOK
    <3>2. \A k \in 1 .. Len(payload[n]) : k < i[n]
      BY <3>1
    <3> QED BY <1>a, <3>2 DEF IInv, BatchSound, BatchOf
  <2>2. txUp[n] \cap Unparseable = {}
    BY <1>a DEF IInv, BatchSound, BatchOf
  <2>3. \A x, y \in txUp[n] : Supersedes(y, x) => x \in rows \/ events[x] = "retired"
    BY DEF IInv, TypeOK, Retirable, Upserted, RowState
  <2>4. /\ UNCHANGED avars
        /\ \A m \in Node \ {n} :
               /\ pc'[m] = pc[m] /\ payload'[m] = payload[m] /\ i'[m] = i[m]
               /\ txUp'[m] = txUp[m] /\ txRet'[m] = txRet[m] /\ result'[m] = result[m]
    BY DEF RetireInTx, IInv, TypeOK
  <2>5. /\ pc'[n] = "commit" /\ payload'[n] = payload[n] /\ txUp'[n] = txUp[n]
        /\ txRet'[n] = rows /\ events' = events
    BY <1>a DEF IInv, TypeOK, avars
  <2>6. BatchOf(n)'
    BY <2>1, <2>2, <2>3, <2>5 DEF BatchOf
  <2> QED BY <2>4, <2>6, BatchKept DEF IInv, TypeOK, avars
<1>6. RetiredHasLandedSuccessor'
  BY DEF RetireInTx, IInv, RetiredHasLandedSuccessor, avars
<1> QED BY <1>1, <1>2, <1>3, <1>4, <1>5, <1>6 DEF IInv

(* A commit makes exactly what its transaction prepared visible. *)
LEMMA CommitKeeps ==
    ASSUME IInv, NEW n \in Node, Commit(n)
    PROVE  IInv'
<1>1. TypeOK'
  BY DEF Commit, ApplyTx, EndTx, Return, Upserted, IInv, TypeOK, RowState, PC, Result
<1>2. LocksExclusive'
  BY DEF Commit, ApplyTx, EndTx, IInv, Held, LocksExclusive
<1>3. TxSound'
  BY DEF Commit, ApplyTx, EndTx, Return, Upserted, IInv, TypeOK, TxSound, LocksExclusive, Held
<1>4. TableSound'
  BY DEF Commit, ApplyTx, Upserted, IInv, TypeOK, TableSound, TxSound
<1>5. BatchSound'
  <2>1. \A m \in Node \ {n} :
            /\ pc'[m] = pc[m] /\ payload'[m] = payload[m] /\ i'[m] = i[m]
            /\ txUp'[m] = txUp[m] /\ txRet'[m] = txRet[m] /\ result'[m] = result[m]
    BY DEF Commit, ApplyTx, EndTx, Return, IInv, TypeOK
  <2>2. /\ landed' = landed \cup txUp[n] /\ superseded' = superseded \cup txRet[n]
        /\ \A x \in Id : events[x] = "retired" => events'[x] = "retired"
        /\ \A m \in Node : txUp[m] \subseteq Id
    BY DEF Commit, ApplyTx, Upserted, IInv, TypeOK
  <2>3. pc'[n] = "returned" /\ payload'[n] = payload[n]
    BY DEF Commit, ApplyTx, Return, IInv, TypeOK
  <2>4. /\ \A k \in 1 .. Len(payload[n]) : payload[n][k] \in txUp[n] \cup Unparseable
        /\ \A x, y \in txUp[n] : Supersedes(y, x) => x \in txRet[n] \/ events[x] = "retired"
    BY DEF Commit, IInv, BatchSound, BatchOf
  <2>5. \A x \in Id : events[x] = "retired" => x \in superseded
    BY DEF IInv, TableSound
  <2>6. BatchOf(n)'
    BY <2>2, <2>3, <2>4, <2>5 DEF BatchOf, Supersedes
  <2> QED BY <2>1, <2>2, <2>6, BatchKept DEF IInv
<1>6. RetiredHasLandedSuccessor'
  BY DEF Commit, ApplyTx, Upserted, IInv, RetiredHasLandedSuccessor, TxSound
<1> QED BY <1>1, <1>2, <1>3, <1>4, <1>5, <1>6 DEF IInv

(* So does one the client never learns of. *)
LEMMA CommitUnacknowledgedKeeps ==
    ASSUME IInv, NEW n \in Node, CommitUnacknowledged(n)
    PROVE  IInv'
<1>a. ApplyTx(n) /\ pc[n] = "commit"
  BY DEF CommitUnacknowledged
<1>1. TypeOK'
  <2>1. CASE EnterFallback(n) /\ UNCHANGED result
    BY <1>a, <2>1 DEF ApplyTx, EndTx, EnterFallback, IInv, TypeOK, Upserted, RowState, PC
  <2>2. CASE Return(n, "fatal") /\ UNCHANGED <<i, succeeded>>
    BY <1>a, <2>2 DEF ApplyTx, EndTx, Return, IInv, TypeOK, Upserted, RowState, PC, Result
  <2> QED BY <2>1, <2>2 DEF CommitUnacknowledged
<1>2. LocksExclusive'
  BY DEF CommitUnacknowledged, ApplyTx, EndTx, IInv, Held, LocksExclusive
<1>3. TxSound'
  BY DEF CommitUnacknowledged, ApplyTx, EndTx, EnterFallback, Return, Upserted, IInv, TypeOK, TxSound, LocksExclusive, Held
<1>4. TableSound'
  <2>1. ASSUME NEW m \in Node PROVE succeeded'[m] \subseteq landed'
    <3>1. succeeded'[m] \subseteq succeeded[m]
      BY DEF CommitUnacknowledged, EnterFallback, IInv, TypeOK
    <3> QED BY <1>a, <3>1 DEF ApplyTx, IInv, TableSound
  <2>2. \A x \in Id :
                      /\ events'[x] # "absent" => x \in landed'
                      /\ events'[x] = "retired" => x \in superseded'
    BY <1>a DEF ApplyTx, Upserted, IInv, TypeOK, TableSound, TxSound
  <2>3. \A x \in superseded' : events'[x] = "retired" \/ Expires[x] < now'
    BY <1>a DEF ApplyTx, Upserted, IInv, TypeOK, TableSound
  <2> QED BY <2>1, <2>2, <2>3 DEF TableSound
<1>5. BatchSound'
  <2>1. \A m \in Node \ {n} :
            /\ pc'[m] = pc[m] /\ payload'[m] = payload[m] /\ i'[m] = i[m]
            /\ txUp'[m] = txUp[m] /\ txRet'[m] = txRet[m] /\ result'[m] = result[m]
    BY DEF CommitUnacknowledged, ApplyTx, EndTx, EnterFallback, Return, IInv, TypeOK
  <2>2. /\ landed \subseteq landed' /\ superseded \subseteq superseded'
        /\ \A x \in Id : events[x] = "retired" => events'[x] = "retired"
    BY <1>a DEF ApplyTx, Upserted
  <2>3. pc'[n] = "fbUpsert" \/ (pc'[n] = "returned" /\ result'[n] = "fatal")
    BY DEF CommitUnacknowledged, EnterFallback, Return, IInv, TypeOK
  <2>4. BatchOf(n)'
    BY <2>3 DEF BatchOf
  <2> QED BY <2>1, <2>2, <2>4, BatchKept DEF IInv, TypeOK
<1>6. RetiredHasLandedSuccessor'
  BY DEF CommitUnacknowledged, ApplyTx, Upserted, IInv, RetiredHasLandedSuccessor, TxSound
<1> QED BY <1>1, <1>2, <1>3, <1>4, <1>5, <1>6 DEF IInv

(* A failed transaction leaves the table alone and releases its rows. *)
LEMMA TxErrorKeeps ==
    ASSUME IInv, NEW n \in Node, TxError(n)
    PROVE  IInv'
<1>1. TypeOK'
  BY DEF TxError, EndTx, EnterFallback, IInv, TypeOK, PC, avars
<1>2. LocksExclusive'
  BY DEF TxError, EndTx, IInv, Held, LocksExclusive
<1>3. TxSound'
  BY DEF TxError, EndTx, EnterFallback, IInv, TypeOK, TxSound, avars
<1>4. TableSound'
  BY DEF TxError, EnterFallback, IInv, TableSound, avars
<1>5. BatchSound'
  BY DEF TxError, EndTx, EnterFallback, IInv, TypeOK, BatchSound, BatchOf, avars
<1>6. RetiredHasLandedSuccessor'
  BY DEF TxError, IInv, RetiredHasLandedSuccessor, avars
<1> QED BY <1>1, <1>2, <1>3, <1>4, <1>5, <1>6 DEF IInv

(* A cycle given up leaves the table alone and releases its rows. *)
LEMMA CtxFiresKeeps ==
    ASSUME IInv, NEW n \in Node, CtxFires(n)
    PROVE  IInv'
<1>1. TypeOK'
  BY DEF CtxFires, EndTx, Return, IInv, TypeOK, PC, Result, avars
<1>2. LocksExclusive'
  BY DEF CtxFires, EndTx, IInv, Held, LocksExclusive
<1>3. TxSound'
  BY DEF CtxFires, EndTx, Return, IInv, TypeOK, TxSound, avars
<1>4. TableSound'
  BY DEF CtxFires, IInv, TableSound, avars
<1>5. BatchSound'
  BY DEF CtxFires, EndTx, Return, IInv, TypeOK, BatchSound, BatchOf, avars
<1>6. RetiredHasLandedSuccessor'
  BY DEF CtxFires, IInv, RetiredHasLandedSuccessor, avars
<1> QED BY <1>1, <1>2, <1>3, <1>4, <1>5, <1>6 DEF IInv

(* An autocommit upsert touches no row of an open transaction. *)
LEMMA FallbackUpsertKeeps ==
    ASSUME IInv, NEW n \in Node, FallbackUpsert(n)
    PROVE  IInv'
<1>1. TypeOK'
  <2>1. payload[n][i[n]] \in Id
    BY NextAlert DEF FallbackUpsert
  <2>2. pc' \in [Node -> PC] /\ result' \in [Node -> Result]
    BY DEF FallbackUpsert, Return, IInv, TypeOK, PC, Result
  <2>3. succeeded' \in [Node -> SUBSET Id]
    BY <2>1 DEF FallbackUpsert, IInv, TypeOK
  <2>4. events' \in [Id -> RowState] /\ i' \in [Node -> Nat \ {0}]
    BY DEF FallbackUpsert, IInv, TypeOK, Upserted, RowState
  <2> QED BY <2>1, <2>2, <2>3, <2>4 DEF FallbackUpsert, IInv, TypeOK
<1>2. LocksExclusive'
  BY DEF FallbackUpsert, IInv, Held, LocksExclusive
<1>3. TxSound'
  BY DEF FallbackUpsert, InFallback, Upserted, Return, IInv, TypeOK, TxSound
<1>4. TableSound'
  <2> DEFINE x == payload[n][i[n]]
  <2>1. /\ events' = Upserted({x}) /\ landed' = landed \cup {x}
        /\ superseded' = superseded /\ now' = now
    BY DEF FallbackUpsert
  <2>2. \A m \in Node : succeeded'[m] \subseteq succeeded[m] \cup {x}
    BY DEF FallbackUpsert, IInv, TypeOK
  <2> HIDE DEF x
  <2>3. \A y \in Id : \/ events'[y] = events[y]
                      \/ y = x /\ events[y] = "absent" /\ events'[y] = "live"
    BY <2>1 DEF Upserted
  <2>4. \A y \in superseded : events'[y] = "retired" \/ Expires[y] < now'
    BY <2>1, <2>3 DEF IInv, TypeOK, TableSound
  <2> QED BY <2>1, <2>2, <2>3, <2>4 DEF IInv, TableSound
<1>5. BatchSound'
  <2>1. \A m \in Node \ {n} :
            /\ pc'[m] = pc[m] /\ payload'[m] = payload[m] /\ i'[m] = i[m]
            /\ txUp'[m] = txUp[m] /\ txRet'[m] = txRet[m] /\ result'[m] = result[m]
    BY DEF FallbackUpsert, Return, IInv, TypeOK
  <2>2. /\ landed \subseteq landed' /\ superseded \subseteq superseded'
        /\ \A x \in Id : events[x] = "retired" => events'[x] = "retired"
    BY DEF FallbackUpsert, Upserted
  <2>3. pc'[n] = "fbUpsert" \/ (pc'[n] = "returned" /\ result'[n] = "fatal")
    BY DEF FallbackUpsert, InFallback, Return, IInv, TypeOK
  <2>4. BatchOf(n)'
    BY <2>3 DEF BatchOf
  <2> QED BY <2>1, <2>2, <2>4, BatchKept DEF IInv, TypeOK
<1>6. RetiredHasLandedSuccessor'
  BY DEF FallbackUpsert, Upserted, IInv, RetiredHasLandedSuccessor
<1> QED BY <1>1, <1>2, <1>3, <1>4, <1>5, <1>6 DEF IInv

(* A row that fails changes nothing but the loop's index. *)
LEMMA FallbackRowFailsKeeps ==
    ASSUME IInv, NEW n \in Node, FallbackRowFails(n)
    PROVE  IInv'
<1>1. TypeOK'
  BY DEF FallbackRowFails, IInv, TypeOK, avars
<1>2. LocksExclusive'
  BY DEF FallbackRowFails, IInv, Held, LocksExclusive
<1>3. TxSound'
  BY DEF FallbackRowFails, IInv, TxSound, avars
<1>4. TableSound'
  BY DEF FallbackRowFails, IInv, TableSound, avars
<1>5. BatchSound'
  BY DEF FallbackRowFails, InFallback, IInv, BatchSound, BatchOf, avars
<1>6. RetiredHasLandedSuccessor'
  BY DEF FallbackRowFails, IInv, RetiredHasLandedSuccessor, avars
<1> QED BY <1>1, <1>2, <1>3, <1>4, <1>5, <1>6 DEF IInv

(* The retirement is set up from what the loop wrote. *)
LEMMA FallbackRetireBeginKeeps ==
    ASSUME IInv, NEW n \in Node, FallbackRetireBegin(n)
    PROVE  IInv'
<1>1. TypeOK'
  BY DEF FallbackRetireBegin, RetireFor, IInv, TypeOK, PC, avars
<1>2. LocksExclusive'
  BY DEF FallbackRetireBegin, RetireFor, IInv, Held, LocksExclusive
<1>3. TxSound'
  BY DEF FallbackRetireBegin, RetireFor, IInv, TxSound, avars
<1>4. TableSound'
  BY DEF FallbackRetireBegin, RetireFor, IInv, TableSound, avars
<1>5. BatchSound'
  BY DEF FallbackRetireBegin, RetireFor, IInv, BatchSound, BatchOf, avars
<1>6. RetiredHasLandedSuccessor'
  BY DEF FallbackRetireBegin, RetireFor, IInv, RetiredHasLandedSuccessor, avars
<1> QED BY <1>1, <1>2, <1>3, <1>4, <1>5, <1>6 DEF IInv

(* An autocommit UPDATE retires for landed alerts, and only unlocked rows. *)
LEMMA FallbackRetireKeeps ==
    ASSUME IInv, NEW n \in Node, NEW e \in todo[n], FallbackRetire(n, e)
    PROVE  IInv'
<1> DEFINE rows == Retirable({y \in succeeded[n] : Event[y] = e}, events)
<1>a. /\ rows \cap LockedAgainst(n) = {}
      /\ events' = [x \in Id |-> IF x \in rows THEN "retired" ELSE events[x]]
      /\ pc[n] = "fbRetire" /\ UNCHANGED <<txUp, txRet, pc>>
  BY DEF FallbackRetire, RetireFor
<1>1. TypeOK'
  BY DEF FallbackRetire, RetireFor, Retirable, IInv, TypeOK, RowState
<1>2. LocksExclusive'
  BY DEF FallbackRetire, RetireFor, IInv, Held, LocksExclusive
<1>3. TxSound'
  <2>1. ASSUME NEW m \in Node, NEW x \in txRet[m] PROVE x \notin rows
    BY <1>a DEF LockedAgainst, Held, IInv, TxSound
  <2> QED BY <1>a, <2>1 DEF TxSound, IInv, TypeOK
<1>4. TableSound'
  BY DEF FallbackRetire, RetireFor, Retirable, IInv, TypeOK, TableSound
<1>5. BatchSound'
  BY DEF FallbackRetire, RetireFor, IInv, TypeOK, BatchSound, BatchOf, TableSound
<1>6. RetiredHasLandedSuccessor'
  BY DEF FallbackRetire, RetireFor, Retirable, IInv, RetiredHasLandedSuccessor, TableSound
<1> QED BY <1>1, <1>2, <1>3, <1>4, <1>5, <1>6 DEF IInv

(* The degraded return changes no row. *)
LEMMA FallbackReturnKeeps ==
    ASSUME IInv, NEW n \in Node, FallbackReturn(n)
    PROVE  IInv'
<1>1. TypeOK'
  BY DEF FallbackReturn, Return, IInv, TypeOK, PC, Result, avars
<1>2. LocksExclusive'
  BY DEF FallbackReturn, IInv, Held, LocksExclusive
<1>3. TxSound'
  BY DEF FallbackReturn, Return, IInv, TxSound, avars
<1>4. TableSound'
  BY DEF FallbackReturn, IInv, TableSound, avars
<1>5. BatchSound'
  <2>1. /\ UNCHANGED avars
        /\ \A m \in Node \ {n} :
               /\ pc'[m] = pc[m] /\ payload'[m] = payload[m] /\ i'[m] = i[m]
               /\ txUp'[m] = txUp[m] /\ txRet'[m] = txRet[m] /\ result'[m] = result[m]
    BY DEF FallbackReturn, Return, IInv, TypeOK
  <2>2. BatchOf(n)'
    BY DEF FallbackReturn, Return, IInv, TypeOK, Result, BatchOf
  <2> QED BY <2>1, <2>2, BatchKept DEF IInv, TypeOK, avars
<1>6. RetiredHasLandedSuccessor'
  BY DEF FallbackReturn, IInv, RetiredHasLandedSuccessor, avars
<1> QED BY <1>1, <1>2, <1>3, <1>4, <1>5, <1>6 DEF IInv

(* The purge deletes expired and unlocked rows only. *)
LEMMA PurgeExpiredKeeps ==
    ASSUME IInv, NEW n \in Node, PurgeExpired(n)
    PROVE  IInv'
<1>1. TypeOK'
  BY DEF PurgeExpired, IInv, TypeOK, RowState, PC
<1>2. LocksExclusive'
  BY DEF PurgeExpired, IInv, Held, LocksExclusive
<1>3. TxSound'
  BY DEF PurgeExpired, LockedAgainst, IInv, TypeOK, TxSound, Held
<1>4. TableSound'
  BY DEF PurgeExpired, Expired, IInv, TypeOK, TableSound
<1>5. BatchSound'
  BY DEF PurgeExpired, LockedAgainst, IInv, TypeOK, BatchSound, BatchOf, Held
<1>6. RetiredHasLandedSuccessor'
  BY DEF PurgeExpired, IInv, RetiredHasLandedSuccessor
<1> QED BY <1>1, <1>2, <1>3, <1>4, <1>5, <1>6 DEF IInv

(* A failed purge changes no row. *)
LEMMA PurgeFailsKeeps ==
    ASSUME IInv, NEW n \in Node, PurgeFails(n)
    PROVE  IInv'
<1>1. TypeOK'
  BY DEF PurgeFails, IInv, TypeOK, PC, avars
<1>2. LocksExclusive'
  BY DEF PurgeFails, IInv, Held, LocksExclusive
<1>3. TxSound'
  BY DEF PurgeFails, IInv, TxSound, avars
<1>4. TableSound'
  BY DEF PurgeFails, IInv, TableSound, avars
<1>5. BatchSound'
  BY DEF PurgeFails, IInv, BatchSound, BatchOf, avars
<1>6. RetiredHasLandedSuccessor'
  BY DEF PurgeFails, IInv, RetiredHasLandedSuccessor, avars
<1> QED BY <1>1, <1>2, <1>3, <1>4, <1>5, <1>6 DEF IInv

(* A crash releases the rows and forgets the node's memory. *)
LEMMA CrashKeeps ==
    ASSUME IInv, NEW n \in Node, Crash(n)
    PROVE  IInv'
<1>1. TypeOK'
  BY DEF Crash, EndTx, IInv, TypeOK, PC, Result, avars
<1>2. LocksExclusive'
  BY DEF Crash, EndTx, IInv, Held, LocksExclusive
<1>3. TxSound'
  BY DEF Crash, EndTx, IInv, TypeOK, TxSound, avars
<1>4. TableSound'
  BY DEF Crash, IInv, TableSound, avars
<1>5. BatchSound'
  BY DEF Crash, EndTx, IInv, TypeOK, BatchSound, BatchOf, avars
<1>6. RetiredHasLandedSuccessor'
  BY DEF Crash, IInv, RetiredHasLandedSuccessor, avars
<1> QED BY <1>1, <1>2, <1>3, <1>4, <1>5, <1>6 DEF IInv

(* Time passing changes nothing but which rows have expired. *)
LEMMA TickKeeps ==
    ASSUME IInv, Tick
    PROVE  IInv'
<1>1. TypeOK' BY DEF Tick, ATick, node, IInv, TypeOK
<1>2. LocksExclusive' BY DEF Tick, node, IInv, LocksExclusive, Held
<1>3. TxSound' /\ BatchSound' /\ RetiredHasLandedSuccessor'
  BY DEF Tick, ATick, node, IInv, TxSound, BatchSound, BatchOf, RetiredHasLandedSuccessor, Supersedes
<1>4. TableSound' BY MessageAssumption DEF Tick, ATick, node, IInv, TableSound, TypeOK
<1> QED BY <1>1, <1>2, <1>3, <1>4 DEF IInv

(* A step of something else changes nothing. *)
LEMMA StutterKeeps ==
    ASSUME IInv, UNCHANGED vars
    PROVE  IInv'
<1>1. TypeOK' BY DEF vars, avars, node, IInv, TypeOK
<1>2. LocksExclusive' BY DEF vars, avars, node, IInv, LocksExclusive, Held
<1>3. TxSound' /\ TableSound' /\ BatchSound' /\ RetiredHasLandedSuccessor'
  BY DEF vars, avars, node, IInv, TxSound, TableSound, BatchSound, BatchOf, RetiredHasLandedSuccessor, Supersedes
<1> QED BY <1>1, <1>2, <1>3 DEF IInv

(* IInv is inductive. *)
LEMMA NextIInv == IInv /\ [Next]_vars => IInv'
<1> SUFFICES ASSUME IInv, [Next]_vars PROVE IInv' OBVIOUS
<1>1. ASSUME NEW n \in Node, \E p \in Payloads : UpsertAlertsBatch(n, p) PROVE IInv'
  BY <1>1, UpsertAlertsBatchKeeps
<1>2. ASSUME NEW n \in Node, BatchSkip(n) PROVE IInv'
  BY <1>2, BatchSkipKeeps
<1>3. ASSUME NEW n \in Node, BatchUpsert(n) PROVE IInv'
  BY <1>3, BatchUpsertKeeps
<1>4. ASSUME NEW n \in Node, RetireInTx(n) PROVE IInv'
  BY <1>4, RetireInTxKeeps
<1>5. ASSUME NEW n \in Node, Commit(n) PROVE IInv'
  BY <1>5, CommitKeeps
<1>6. ASSUME NEW n \in Node, CommitUnacknowledged(n) PROVE IInv'
  BY <1>6, CommitUnacknowledgedKeeps
<1>7. ASSUME NEW n \in Node, TxError(n) PROVE IInv'
  BY <1>7, TxErrorKeeps
<1>8. ASSUME NEW n \in Node, CtxFires(n) PROVE IInv'
  BY <1>8, CtxFiresKeeps
<1>9. ASSUME NEW n \in Node, FallbackUpsert(n) PROVE IInv'
  BY <1>9, FallbackUpsertKeeps
<1>10. ASSUME NEW n \in Node, FallbackRowFails(n) PROVE IInv'
  BY <1>10, FallbackRowFailsKeeps
<1>11. ASSUME NEW n \in Node, FallbackRetireBegin(n) PROVE IInv'
  BY <1>11, FallbackRetireBeginKeeps
<1>12. ASSUME NEW n \in Node, \E e \in todo[n] : FallbackRetire(n, e) PROVE IInv'
  BY <1>12, FallbackRetireKeeps
<1>13. ASSUME NEW n \in Node, FallbackReturn(n) PROVE IInv'
  BY <1>13, FallbackReturnKeeps
<1>14. ASSUME NEW n \in Node, PurgeExpired(n) PROVE IInv'
  BY <1>14, PurgeExpiredKeeps
<1>15. ASSUME NEW n \in Node, PurgeFails(n) PROVE IInv'
  BY <1>15, PurgeFailsKeeps
<1>16. ASSUME NEW n \in Node, Crash(n) PROVE IInv'
  BY <1>16, CrashKeeps
<1>17. CASE Tick
  BY <1>17, TickKeeps
<1>18. CASE UNCHANGED vars
  BY <1>18, StutterKeeps
<1> QED
  BY <1>1, <1>2, <1>3, <1>4, <1>5, <1>6, <1>7, <1>8, <1>9,
     <1>10, <1>11, <1>12, <1>13, <1>14, <1>15, <1>16, <1>17, <1>18 DEF Next

(* The inductive invariant holds in every reachable state. *)
THEOREM Inductive == Spec => []IInv
<1>1. Init => IInv BY InitIInv
<1>2. IInv /\ [Next]_vars => IInv' BY NextIInv
<1> QED BY <1>1, <1>2, PTL DEF Spec

(* Every variable of the write path keeps its type. *)
THEOREM TypeCorrect == Spec => []TypeOK
<1>1. IInv => TypeOK BY DEF IInv
<1> QED BY <1>1, Inductive, PTL

(* Whatever the interleaving of the nodes, the failures of their           *)
(* statements and the crashes, a row is retired only for a message that    *)
(* supersedes it and that reached the table: no live warning is dropped    *)
(* for a replacement that never arrived (postgres.go:320-324).             *)
THEOREM RetirementIsSafe == Spec => []RetiredHasLandedSuccessor
<1>1. IInv => RetiredHasLandedSuccessor BY DEF IInv
<1> QED BY <1>1, Inductive, PTL

(* What has been superseded stays out of the snapshot, across purges and   *)
(* stale re-inserts: the upsert does not touch retired_at, and the purge   *)
(* deletes strictly expired rows only (queries.go:84-87, 121-125).         *)
THEOREM SupersededStaysHidden == Spec => []NoResurrection
<1>1. IInv => NoResurrection
  <2> SUFFICES ASSUME IInv, NEW x \in superseded, x \in Active PROVE FALSE
    BY DEF NoResurrection
  <2>1. x \in Id /\ events[x] = "live" /\ Expires[x] > now BY DEF Active
  <2>2. Expires[x] < now BY <2>1 DEF IInv, TableSound
  <2>3. Expires[x] \in Int /\ now \in Int BY <2>1, MessageAssumption DEF IInv, TypeOK
  <2> QED BY <2>1, <2>2, <2>3
<1> QED BY <1>1, Inductive, PTL

(* An "ok" of UpsertAlertsBatch means what its callers take it to mean:    *)
(* everything parseable has landed and the batch left none of its own      *)
(* predecessors on display (postgres.go:254-261, 386-392).                 *)
THEOREM OkIsSound == Spec => []OkMeansLanded
<1>1. IInv /\ NoResurrection => OkMeansLanded
  <2> SUFFICES ASSUME IInv, NoResurrection,
                      NEW n \in Node, pc[n] = "returned", result[n] = "ok"
               PROVE  LET sent == {payload[n][k] : k \in 1 .. Len(payload[n])} \ Unparseable
                      IN /\ sent \subseteq landed
                         /\ \A x, y \in sent : Supersedes(y, x) => x \notin Active
    BY DEF OkMeansLanded
  <2> DEFINE sent == {payload[n][k] : k \in 1 .. Len(payload[n])} \ Unparseable
  <2>1. sent \subseteq landed BY DEF IInv, BatchSound, BatchOf
  <2>2. \A x, y \in sent : Supersedes(y, x) => x \in superseded
    BY DEF IInv, BatchSound, BatchOf
  <2> QED BY <2>1, <2>2 DEF NoResurrection
<1> QED BY <1>1, Inductive, SupersededStaysHidden, PTL

-----------------------------------------------------------------------------
(* A step that inserts S and retires R is a write of the abstract table. *)
LEMMA Writes ==
    ASSUME NEW S \in SUBSET Id, NEW R \in SUBSET Id,
           \A x \in R : /\ x \in S \/ events[x] # "absent"
                        /\ \E y \in landed \cup S : Supersedes(y, x),
           events' = [x \in Id |-> IF x \in R THEN "retired" ELSE Upserted(S)[x]],
           landed' = landed \cup S, superseded' = superseded \cup R, now' = now
    PROVE  Promise!ANext
<1>1. Promise!AWrite(S, R)
  BY DEF Promise!AWrite, Promise!Supersedes, Supersedes, Upserted
<1> QED BY <1>1 DEF Promise!ANext

(* A commit is one abstract write. *)
LEMMA ApplyTxWrites ==
    ASSUME IInv, NEW n \in Node, ApplyTx(n)
    PROVE  Promise!ANext
<1>1. txUp[n] \in SUBSET Id /\ txRet[n] \in SUBSET Id BY DEF IInv, TypeOK
<1>2. \A x \in txRet[n] : /\ x \in txUp[n] \/ events[x] # "absent"
                          /\ \E y \in landed \cup txUp[n] : Supersedes(y, x)
  BY DEF IInv, TxSound
<1> QED BY <1>1, <1>2, Writes DEF ApplyTx

(* A fallback upsert is one abstract write of one message. *)
LEMMA FallbackUpsertWrites ==
    ASSUME IInv, NEW n \in Node, FallbackUpsert(n)
    PROVE  Promise!ANext
<1>1. PICK x \in Id : /\ events' = Upserted({x}) /\ landed' = landed \cup {x}
                      /\ UNCHANGED <<now, superseded>>
  BY NextAlert DEF FallbackUpsert
<1>2. events' = [z \in Id |-> IF z \in {} THEN "retired" ELSE Upserted({x})[z]]
  BY <1>1 DEF Upserted
<1>3. {x} \in SUBSET Id /\ {} \in SUBSET Id /\ superseded' = superseded \cup {} /\ now' = now /\ landed' = landed \cup {x}
  BY <1>1
<1> QED BY ONLY <1>2, <1>3, Writes

(* A fallback retirement is one abstract write that inserts nothing. *)
LEMMA FallbackRetireWrites ==
    ASSUME IInv, NEW n \in Node, NEW e \in todo[n], FallbackRetire(n, e)
    PROVE  Promise!ANext
<1> DEFINE R == Retirable({y \in succeeded[n] : Event[y] = e}, events)
<1>1. R \in SUBSET Id BY DEF Retirable
<1>2. events' = [x \in Id |-> IF x \in R THEN "retired" ELSE Upserted({})[x]]
  BY DEF FallbackRetire, RetireFor, Upserted, IInv, TypeOK
<1>3. landed' = landed \cup {} /\ superseded' = superseded \cup R /\ now' = now
  BY DEF FallbackRetire, RetireFor
<1>4. \A x \in R : events[x] # "absent" /\ \E y \in landed \cup {} : Supersedes(y, x)
  BY DEF Retirable, IInv, TableSound
<1> HIDE DEF R
<1> QED BY <1>1, <1>2, <1>3, <1>4, Writes

(* The purge is the abstract one. *)
LEMMA PurgeExpiredPurges ==
    ASSUME NEW n \in Node, IInv, PurgeExpired(n)
    PROVE  Promise!ANext
  BY DEF PurgeExpired, Expired, Promise!ANext, Promise!APurge, IInv, TypeOK

(* The write path implements what the table promises: every step is one    *)
(* abstract write, purge or tick, or leaves the table as it is.            *)
THEOREM Refinement == Spec => ImplementsSupersession
<1>1. Init => Promise!AInit
  BY DEF Init, AInit, Promise!AInit
<1>2. IInv /\ [Next]_vars => [Promise!ANext]_(Promise!avars)
  <2> SUFFICES ASSUME IInv, [Next]_vars PROVE Promise!ANext \/ UNCHANGED Promise!avars
    OBVIOUS
  <2>1. ASSUME NEW n \in Node, Commit(n) \/ CommitUnacknowledged(n) PROVE Promise!ANext
    BY <2>1, ApplyTxWrites DEF Commit, CommitUnacknowledged
  <2>2. ASSUME NEW n \in Node, FallbackUpsert(n) PROVE Promise!ANext
    BY <2>2, FallbackUpsertWrites
  <2>3. ASSUME NEW n \in Node, NEW e \in todo[n], FallbackRetire(n, e) PROVE Promise!ANext
    BY <2>3, FallbackRetireWrites
  <2>4. ASSUME NEW n \in Node, PurgeExpired(n) PROVE Promise!ANext
    BY <2>4, PurgeExpiredPurges
  <2>5. CASE Tick
    BY <2>5 DEF Tick, ATick, Promise!ANext, Promise!ATick
  <2>6. ASSUME NEW n \in Node,
               \/ \E p \in Payloads : UpsertAlertsBatch(n, p)
               \/ BatchSkip(n) \/ BatchUpsert(n) \/ RetireInTx(n) \/ TxError(n) \/ CtxFires(n)
               \/ FallbackRowFails(n) \/ FallbackRetireBegin(n) \/ FallbackReturn(n)
               \/ PurgeFails(n) \/ Crash(n)
        PROVE  UNCHANGED Promise!avars
    BY <2>6 DEF UpsertAlertsBatch, BatchSkip, BatchUpsert, RetireInTx, TxError, CtxFires,
                FallbackRowFails, FallbackRetireBegin, FallbackReturn, PurgeFails, Crash,
                avars, Promise!avars
  <2>7. CASE UNCHANGED vars
    BY <2>7 DEF vars, avars, Promise!avars
  <2> QED BY <2>1, <2>2, <2>3, <2>4, <2>5, <2>6, <2>7 DEF Next
<1> QED BY <1>1, <1>2, Inductive, PTL DEF Spec, ImplementsSupersession, Promise!ASpec
=============================================================================
