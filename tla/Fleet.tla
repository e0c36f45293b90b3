--------------------------------- MODULE Fleet ---------------------------------
(***************************************************************************)
(* The fleet: ingest nodes, each with the alerts document of its own areas *)
(* upstream and the memory PollCycle gives a node, over one table of       *)
(* alerts; and the node that publishes what it reads there.  Nodes boot,   *)
(* crash and are redeployed as in Startup.                                 *)
(*                                                                         *)
(* A step here is a run of another module: a Store the upsert of           *)
(* UpsertBatch with its outcome, a read that of SnapshotRead, a put the    *)
(* merged job of PublishPhase.  A panic of the cycle ends it like a fetch  *)
(* or a put that fails; the window before the flag is PollCycle's.         *)
(*                                                                         *)
(* Each node's document only moves forward, at its own pace; an ETag is    *)
(* the place of the document it was sent with.                             *)
(***************************************************************************)
EXTENDS Startup, FiniteSets

CONSTANTS
    Message, Event, Refs, Expires,  \* as in Supersession
    EventKey,   \* EventKey[x]:  the collapse key of x
    Issued,     \* Issued[x]:    its place in laterIssuance's order
    Feed,       \* Feed[n]: the successive documents of n's areas, sets of Message
    Horizon     \* bound: the last tick of the database clock

ASSUME FleetAssumption ==
    /\ Feed \in [Node -> Seq(SUBSET Message)] /\ \A n \in Node : Feed[n] # <<>>
    /\ Expires \in [Message -> Int]
    /\ Horizon \in Nat

VARIABLES
    now,           \* the database clock
    rows,          \* the table: each message absent, live or retired
    doc,           \* doc[n]: the document /alerts/active serves n
    etag,          \* etag[n]: the document of n's cached ETag, 0 for none
    upsertFailed,  \* upsertFailed[n]: lastAlertsUpsertFailed
    pc, payload,   \* pc[n], payload[n]: n's cycle and what it fetched
    snapshot,      \* snapshot[n]: the alerts n's publish phase has read
    shown,         \* the live object of R2
    calm,          \* environment: from here on nothing fails any more
    landed, superseded  \* history: messages ever stored, ever retired

table == <<now, rows, landed, superseded>>
node == <<etag, upsertFailed, pc, payload, snapshot>>
vars == <<table, doc, node, shown, calm, bootVars>>

(* Where a cycle of n begins. *)
First(n) == IF ShouldIngest(n) THEN "fetch" ELSE "read"

Table == INSTANCE Supersession WITH Id <- Message, events <- rows

TypeOK ==
    /\ BootTypeOK
    /\ now \in 0 .. Horizon
    /\ rows \in [Message -> Table!RowState]
    /\ doc \in [Node -> Nat] /\ \A n \in Node : doc[n] \in 1 .. Len(Feed[n])
    /\ etag \in [Node -> Nat] /\ \A n \in Node : etag[n] \in 0 .. doc[n]
    /\ upsertFailed \in [Node -> BOOLEAN]
    /\ pc \in [Node -> {"fetch", "store", "rest", "read", "put"}]
    /\ \A n \in Node : /\ pc[n] \in {"fetch", "store", "rest"} => ShouldIngest(n)
                       /\ pc[n] \in {"read", "put"} => ShouldPublish(n) \/ ~Configured(n)
    /\ payload \in [Node -> SUBSET Message]
    /\ snapshot \in [Node -> SUBSET Message]
    /\ shown \in SUBSET Message /\ calm \in BOOLEAN
    /\ landed \in SUBSET Message /\ superseded \in SUBSET Message

Init ==
    /\ BootInit
    /\ now = 0 /\ rows = [x \in Message |-> "absent"]
    /\ landed = {} /\ superseded = {}
    /\ doc = [n \in Node |-> 1]
    /\ etag = [n \in Node |-> 0] /\ upsertFailed = [n \in Node |-> FALSE]
    /\ pc = [n \in Node |-> First(n)] /\ payload = [n \in Node |-> {}]
    /\ snapshot = [n \in Node |-> {}] /\ shown = {}
    /\ calm = FALSE

-----------------------------------------------------------------------------
Listed(n) == Feed[n][doc[n]]

UpstreamChanges(n) ==
    /\ doc[n] < Len(Feed[n])
    /\ doc' = [doc EXCEPT ![n] = @ + 1]
    /\ UNCHANGED <<table, node, shown, calm, bootVars>>

Tick ==
    /\ now < Horizon
    /\ now' = now + 1
    /\ UNCHANGED <<rows, landed, superseded, doc, node, shown, calm, bootVars>>

(* Everything after it is a run in which each fault happens finitely often. *)
CalmBegins ==
    /\ ~calm /\ calm' = TRUE
    /\ UNCHANGED <<table, doc, node, shown, bootVars>>

(* n's cycle goes on at p. *)
Goto(n, p) == pc' = [pc EXCEPT ![n] = p]

InCycle(n, p) == boot[n] = "up" /\ pc[n] = p

\* mutant: a 304 clears the flag, as a success does
MutNotModifiedForgives(n) ==
    /\ InCycle(n, "fetch")
    /\ etag[n] = doc[n]
    /\ upsertFailed' = [upsertFailed EXCEPT ![n] = FALSE]
    /\ Goto(n, "rest")
    /\ UNCHANGED <<table, doc, etag, payload, snapshot, shown, calm, bootVars>>

NotModified(n) ==
    /\ InCycle(n, "fetch")
    /\ etag[n] = doc[n]
    /\ Goto(n, "rest")
    /\ UNCHANGED <<table, doc, etag, upsertFailed, payload, snapshot, shown, calm, bootVars>>

(* No answer, or one that does not decode: the ETag stays what it was. *)
FetchFails(n) ==
    /\ ~calm /\ InCycle(n, "fetch")
    /\ Goto(n, "rest")
    /\ UNCHANGED <<table, doc, etag, upsertFailed, payload, snapshot, shown, calm, bootVars>>

Fetched(n) ==
    /\ InCycle(n, "fetch")
    /\ etag' = [etag EXCEPT ![n] = doc[n]]
    /\ payload' = [payload EXCEPT ![n] = Listed(n)]
    /\ Goto(n, "store")
    /\ UNCHANGED <<table, doc, upsertFailed, snapshot, shown, calm, bootVars>>

\* mutant: only rows that are live when the batch begins are retired
MutPredecessors(S) ==
    {x \in Message : rows[x] = "live" /\ x \notin S /\ \E y \in S : Table!Supersedes(y, x)}

(* The rows a batch of the messages S retires: those in the table, its own *)
(* included, that a message of it supersedes.                              *)
Predecessors(S) ==
    {x \in Message : /\ rows[x] # "absent" \/ x \in S
                /\ \E y \in S : Table!Supersedes(y, x)}

(* The messages S are upserted, the rows R retired, in one transaction. *)
Write(S, R) ==
    /\ rows' = [x \in Message |->
           IF x \in R THEN "retired"
           ELSE IF x \in S /\ rows[x] = "absent" THEN "live" ELSE rows[x]]
    /\ landed' = landed \cup S
    /\ superseded' = superseded \cup R
    /\ UNCHANGED now

Stored(n) ==
    /\ InCycle(n, "store")
    /\ Write(payload[n], Predecessors(payload[n]))
    /\ upsertFailed' = [upsertFailed EXCEPT ![n] = FALSE]
    /\ payload' = [payload EXCEPT ![n] = {}]
    /\ Goto(n, "rest")
    /\ UNCHANGED <<doc, etag, snapshot, shown, calm, bootVars>>

\* mutant: the flag is left alone
MutStoreFailsUnnoticed(n) ==
    /\ ~calm /\ InCycle(n, "store")
    /\ UNCHANGED table
    /\ payload' = [payload EXCEPT ![n] = {}]
    /\ Goto(n, "rest")
    /\ UNCHANGED <<doc, etag, upsertFailed, snapshot, shown, calm, bootVars>>

(* A context error; the transaction committed or not. *)
StoreFails(n) ==
    /\ ~calm /\ InCycle(n, "store")
    /\ Write(payload[n], Predecessors(payload[n])) \/ UNCHANGED table
    /\ upsertFailed' = [upsertFailed EXCEPT ![n] = TRUE]
    /\ payload' = [payload EXCEPT ![n] = {}]
    /\ Goto(n, "rest")
    /\ UNCHANGED <<doc, etag, snapshot, shown, calm, bootVars>>

\* mutant: what the snapshot does not show is purged
MutPurgeHidden(x) == rows[x] = "retired" \/ Expires[x] < now

Purgeable(x) == Expires[x] < now

(* Storm reports, and the purge, which may fail. *)
RestOfIngest(n) ==
    /\ InCycle(n, "rest")
    /\ \/ rows' = [x \in Message |-> IF Purgeable(x) THEN "absent" ELSE rows[x]]
       \/ UNCHANGED rows
    /\ Goto(n, IF ShouldPublish(n) THEN "read" ELSE First(n))
    /\ UNCHANGED <<now, landed, superseded, doc, etag, upsertFailed, payload, snapshot,
                   shown, calm, bootVars>>

Collapsed(S) ==
    {x \in S : \A z \in S : EventKey[z] = EventKey[x] => Issued[z] <= Issued[x]}

Read(n) ==
    /\ InCycle(n, "read")
    /\ snapshot' = [snapshot EXCEPT ![n] = Collapsed(Table!Active)]
    /\ Goto(n, "put")
    /\ UNCHANGED <<table, doc, etag, upsertFailed, payload, shown, calm, bootVars>>

Put(n) ==
    /\ InCycle(n, "put")
    /\ shown' = snapshot[n]
    /\ snapshot' = [snapshot EXCEPT ![n] = {}]
    /\ Goto(n, First(n))
    /\ UNCHANGED <<table, doc, etag, upsertFailed, payload, calm, bootVars>>

(* The read or the put fails: the old object stays. *)
PublishFails(n) ==
    /\ ~calm /\ boot[n] = "up" /\ pc[n] \in {"read", "put"}
    /\ snapshot' = [snapshot EXCEPT ![n] = {}]
    /\ Goto(n, First(n))
    /\ UNCHANGED <<table, doc, etag, upsertFailed, payload, shown, calm, bootVars>>

(* The process is gone: a crash, or a deploy that lets a poll end first.   *)
Restart(n) ==
    /\ Exit(n) /\ (calm => boot[n] = "wedged")
    /\ etag' = [etag EXCEPT ![n] = 0]
    /\ upsertFailed' = [upsertFailed EXCEPT ![n] = FALSE]
    /\ payload' = [payload EXCEPT ![n] = {}] /\ snapshot' = [snapshot EXCEPT ![n] = {}]
    /\ Goto(n, First(n))
    /\ UNCHANGED <<table, doc, shown, calm>>

Booting(n) ==
    /\ BootStep(n) /\ (calm => ~Wedge(n) /\ ~MigrateFails(n))
    /\ UNCHANGED <<table, doc, node, shown, calm>>

Cycle(n) ==
    \/ NotModified(n) \/ FetchFails(n) \/ Fetched(n) \/ Stored(n) \/ StoreFails(n)
    \/ RestOfIngest(n) \/ Read(n) \/ Put(n) \/ PublishFails(n)

Next ==
    \/ Tick \/ CalmBegins
    \/ \E n \in Node : UpstreamChanges(n) \/ Booting(n) \/ Cycle(n) \/ Restart(n)

Spec == Init /\ [][Next]_vars

(* Fly restarts what has exited, every wait of a process has a deadline,   *)
(* and in the end somebody restarts a process that hangs.                  *)
FairSpec ==
    /\ Spec
    /\ \A n \in Node : /\ WF_vars(Booting(n) \/ Cycle(n))
                       /\ WF_vars(calm /\ Restart(n))

-----------------------------------------------------------------------------
(* The table the fleet writes is the one Supersession promises: no row is  *)
(* retired for a message that did not land, nothing superseded comes back, *)
(* nothing is deleted before its time, whichever node wrote what when.     *)
ImplementsTable == Table!ASpec

(* What a 304 says (heartbeat.go:19-21) is true of the whole fleet's       *)
(* table: between the stores of a node that knows of no failed one, every  *)
(* message of the document its ETag stands for can be shown, unless it has *)
(* been superseded or is over, whatever the other nodes wrote, retired and *)
(* purged since, and however often a fetch failed in between.  (A store is *)
(* whole here: for the rows a degraded one drops see PollCycle.)           *)
ETagVouches ==
    \A n \in Node :
        (etag[n] # 0 /\ pc[n] # "store" /\ ~upsertFailed[n]) =>
            \A x \in Feed[n][etag[n]] : x \in Table!Active \cup superseded \/ Expires[x] <= now

(* The documents come to rest, and the faults end. *)
ComesToRest == <>(calm /\ \A n \in Node : doc[n] = Len(Feed[n]))

(* What NWS lists is shown: a message in the last document of an ingest    *)
(* node's areas that does not expire is in the live object in the end, or  *)
(* superseded, or collapsed into a later message about the same event,     *)
(* whatever restarts, failed fetches, failed upserts and lost commits are  *)
(* on the way.  Or the node knows that it is not, and withholds its        *)
(* heartbeat for good.                                                     *)
ListedIsShown ==
    ComesToRest =>
        \A n \in Node, x \in Message :
            (ShouldIngest(n) /\ x \in Last(Feed[n]) /\ Expires[x] > Horizon) =>
                \/ <>[](\/ x \in shown \cup superseded
                        \/ \E z \in shown : EventKey[z] = EventKey[x] /\ Issued[z] > Issued[x])
                \/ <>[]upsertFailed[n]

(* What NWS has replaced is not shown: when every node that has ever been  *)
(* served x is served a message that supersedes it in the end, x leaves    *)
(* the live object for good, in whatever order the nodes write the two.    *)
SupersededLeaves ==
    ComesToRest =>
        \A x, y \in Message :
            (/\ Table!Supersedes(y, x)
             /\ \A n \in Node : (\E i \in DOMAIN Feed[n] : x \in Feed[n][i]) => y \in Last(Feed[n])) =>
                \/ <>[](x \notin shown)
                \/ \E n \in Node : <>[]upsertFailed[n]
=============================================================================
