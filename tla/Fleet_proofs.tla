------------------------------ MODULE Fleet_proofs ------------------------------
(***************************************************************************)
(* For any number of nodes of any mode and build, any documents upstream   *)
(* and any failures: the advisory lock is enough for the nodes that boot,  *)
(* the table the fleet writes is the abstract one with all it promises,    *)
(* and what a node's ETag vouches for is in it.                            *)
(***************************************************************************)
EXTENDS Fleet, WellFoundedInduction, TLAPS

-----------------------------------------------------------------------------
(* The lock is one transaction's at a time. *)
OneHolder == \A m, n \in Node : Holds(m) /\ Holds(n) => m = n

(* What the holder saw when its checks ran is still so. *)
HolderSees == \A n \in Node : boot[n] = "migrate" => sees[n] = schema

BootInv == BootTypeOK /\ OneHolder /\ HolderSees /\ SchemaSuffices

LEMMA BootInvInit == BootInit => BootInv
  BY DEF BootInit, BootInv, BootTypeOK, BootState, OneHolder, HolderSees, SchemaSuffices, Holds

(* A step of n that leaves the lock to others, or gives it up. *)
LEMMA LockNotTaken ==
    ASSUME BootInv, NEW n \in Node, NEW s \in BootState \ {"migrate"},
           s = "wedged" => Holds(n), s # "up",
           boot' = [boot EXCEPT ![n] = s], sees' \in [Node -> Nat],
           \A m \in Node \ {n} : sees'[m] = sees[m], schema' = schema
    PROVE  BootInv'
  BY StartupAssumption DEF BootInv, BootTypeOK, BootState, OneHolder, HolderSees, SchemaSuffices, Holds

LEMMA BootInvNext == BootInv /\ [BootNext]_bootVars => BootInv'
<1> SUFFICES ASSUME BootInv, [BootNext]_bootVars PROVE BootInv'
  OBVIOUS
<1>1. CASE UNCHANGED bootVars
  BY <1>1 DEF bootVars, BootInv, BootTypeOK, OneHolder, HolderSees, SchemaSuffices, Holds
<1>2. ASSUME NEW n \in Node, Boot(n) \/ LockTimesOut(n) PROVE BootInv'
  BY <1>2, LockNotTaken DEF Boot, LockTimesOut, BootState, BootInv, BootTypeOK
<1>3. ASSUME NEW n \in Node, MigrateFails(n) \/ Wedge(n) \/ Exit(n) PROVE BootInv'
  BY <1>3, LockNotTaken DEF MigrateFails, Wedge, Exit, BootState, BootInv, BootTypeOK, Holds
<1>4. ASSUME NEW n \in Node, AcquireLock(n) PROVE BootInv'
  BY <1>4 DEF AcquireLock, LockFree, Holds, BootState, BootInv, BootTypeOK, OneHolder,
     HolderSees, SchemaSuffices
<1>5. ASSUME NEW n \in Node, Migrated(n) PROVE BootInv'
  <2>1. schema' \in Nat /\ schema <= schema' /\ Build[n] <= schema'
    <3>1. schema \in Nat /\ Build[n] \in Nat
      BY StartupAssumption DEF BootInv, BootTypeOK
    <3>2. schema' = IF schema < Build[n] THEN Build[n] ELSE schema
      BY <1>5 DEF Migrated
    <3> QED BY <3>1, <3>2
  <2>2. \A m \in Node \ {n} : ~Holds(m) /\ boot'[m] = boot[m] /\ sees'[m] = sees[m]
    BY <1>5 DEF Migrated, BootInv, BootTypeOK, OneHolder, Holds
  <2>3. boot'[n] = "up" /\ BootTypeOK'
    BY <1>5, <2>1 DEF Migrated, BootInv, BootTypeOK, BootState
  <2>4. SchemaSuffices'
    BY <2>1, <2>2, <2>3, StartupAssumption DEF SchemaSuffices, BootInv, BootTypeOK
  <2>5. OneHolder' /\ HolderSees'
    BY <2>2, <2>3 DEF OneHolder, HolderSees, Holds
  <2> QED BY <2>3, <2>4, <2>5 DEF BootInv
<1> QED BY <1>1, <1>2, <1>3, <1>4, <1>5 DEF BootNext, BootStep

LEMMA BootHolds == BootSpec => []BootInv
  BY BootInvInit, BootInvNext, PTL DEF BootSpec

(* What BootTypeOK says of boot, sees and schema, for any fleet. *)
THEOREM BootTypeCorrect == BootSpec => []BootTypeOK
<1>1. BootInv => BootTypeOK
  BY DEF BootInv
<1> QED BY <1>1, BootHolds, PTL

(* No two sessions pass the existence checks and then race on the catalog  *)
(* (postgres.go:104-107), however many nodes boot at once.                 *)
THEOREM LockSerializes == BootSpec => []NoCatalogRace
<1>1. BootInv => NoCatalogRace
  BY DEF BootInv, HolderSees, NoCatalogRace
<1> QED BY <1>1, BootHolds, PTL

(* A deploy is order-safe (queries.go:42-45): a node that polls has every  *)
(* column it uses, whatever older or newer builds boot before or after it. *)
THEOREM DeployIsOrderSafe == BootSpec => []SchemaSuffices
<1>1. BootInv => SchemaSuffices
  BY DEF BootInv
<1> QED BY <1>1, BootHolds, PTL
-----------------------------------------------------------------------------
LEMMA ListedAreMessages ==
    ASSUME TypeOK, NEW n \in Node
    PROVE  Listed(n) \in SUBSET Message
<1>1. Feed[n] \in Seq(SUBSET Message) /\ doc[n] \in 1 .. Len(Feed[n])
  BY FleetAssumption DEF TypeOK
<1> QED BY <1>1 DEF Listed

(* The places of a cycle that n's mode has. *)
Place(n) ==
    {p \in {"fetch", "store", "rest", "read", "put"} :
        /\ p \in {"fetch", "store", "rest"} => ShouldIngest(n)
        /\ p \in {"read", "put"} => ShouldPublish(n) \/ ~Configured(n)}

LEMMA FirstIsAPlace ==
    ASSUME NEW n \in Node
    PROVE  First(n) \in Place(n)
  BY DEF First, Place, Configured, ShouldIngest, ShouldPublish

(* What a step of n's memory must keep to keep the types. *)
LEMMA StepKeepsTypes ==
    ASSUME TypeOK, BootTypeOK', NEW n \in Node, NEW p \in Place(n),
           pc' = [pc EXCEPT ![n] = p],
           etag' \in [Node -> Nat], \A m \in Node : etag'[m] \in 0 .. doc[m],
           upsertFailed' \in [Node -> BOOLEAN],
           payload' \in [Node -> SUBSET Message], snapshot' \in [Node -> SUBSET Message],
           rows' \in [Message -> Table!RowState],
           shown' \in SUBSET Message, calm' \in BOOLEAN,
           landed' \in SUBSET Message, superseded' \in SUBSET Message,
           UNCHANGED <<now, doc>>
    PROVE  TypeOK'
  BY DEF TypeOK, Place, ShouldIngest, ShouldPublish, Mode, Configured, requireExplicitModeOnFly

(* The same for a step that touches neither the table nor a document.      *)
LEMMA QuietStepKeepsTypes ==
    ASSUME TypeOK, BootTypeOK', NEW n \in Node, NEW p \in Place(n),
           pc' = [pc EXCEPT ![n] = p],
           etag' \in [Node -> Nat], \A m \in Node : etag'[m] \in 0 .. doc[m],
           payload' \in [Node -> SUBSET Message], snapshot' \in [Node -> SUBSET Message],
           shown' \in SUBSET Message, UNCHANGED <<table, doc, upsertFailed, calm>>
    PROVE  TypeOK'
<1>1. /\ upsertFailed' \in [Node -> BOOLEAN] /\ rows' \in [Message -> Table!RowState]
      /\ landed' \in SUBSET Message /\ superseded' \in SUBSET Message /\ UNCHANGED <<now, doc>>
  BY DEF TypeOK, table
<1>2. calm' \in BOOLEAN
  BY Zenon DEF TypeOK
<1> QED BY <1>1, <1>2, StepKeepsTypes

LEMMA WriteKeepsTypes ==
    ASSUME TypeOK, NEW S \in SUBSET Message,
           Write(S, Predecessors(S)) \/ UNCHANGED table
    PROVE  /\ rows' \in [Message -> Table!RowState] /\ UNCHANGED now
           /\ landed' \in SUBSET Message /\ superseded' \in SUBSET Message
  BY DEF TypeOK, Write, Predecessors, Table!RowState, table

LEMMA TypesNext == TypeOK /\ BootTypeOK' /\ [Next]_vars => TypeOK'
<1> SUFFICES ASSUME TypeOK, BootTypeOK', [Next]_vars PROVE TypeOK'
  OBVIOUS
<1>1. ASSUME NEW n \in Node, UpstreamChanges(n) PROVE TypeOK'
  <2>1. Len(Feed[n]) \in Nat
    BY FleetAssumption
  <2> QED BY <1>1, <2>1 DEF UpstreamChanges, TypeOK, table, node, bootVars
<1>2. ASSUME NEW n \in Node, Booting(n) PROVE TypeOK'
  BY <1>2 DEF Booting, TypeOK, table, node
<1>3. CASE Tick \/ CalmBegins \/ UNCHANGED vars
  <2>1. now' \in 0 .. Horizon
    BY <1>3, FleetAssumption DEF Tick, CalmBegins, TypeOK, table, vars
  <2>3. calm' \in BOOLEAN
    <3>1. calm' = calm \/ calm' = TRUE
      BY <1>3 DEF Tick, CalmBegins, vars
    <3> QED BY <3>1 DEF TypeOK
  <2>2. UNCHANGED <<rows, landed, superseded, doc, node, shown>>
    BY <1>3 DEF Tick, CalmBegins, table, vars
  <2>4. BootTypeOK'
    OBVIOUS
  <2> QED BY <2>1, <2>2, <2>3, <2>4 DEF TypeOK, node
<1>4. ASSUME NEW n \in Node, NotModified(n) \/ FetchFails(n) PROVE TypeOK'
  <2>1. "rest" \in Place(n)
    BY <1>4 DEF NotModified, FetchFails, InCycle, TypeOK, Place
  <2>2. /\ pc' = [pc EXCEPT ![n] = "rest"]
        /\ UNCHANGED <<table, doc, etag, upsertFailed, payload, snapshot, shown, calm>>
    BY <1>4 DEF NotModified, FetchFails, Goto
  <2>3. /\ etag' \in [Node -> Nat] /\ \A m \in Node : etag'[m] \in 0 .. doc[m]
        /\ payload' \in [Node -> SUBSET Message] /\ snapshot' \in [Node -> SUBSET Message]
        /\ shown' \in SUBSET Message
    BY <2>2 DEF TypeOK
  <2> QED BY <2>1, <2>2, <2>3, QuietStepKeepsTypes
<1>5. ASSUME NEW n \in Node, Fetched(n) PROVE TypeOK'
  <2>1. "store" \in Place(n)
    BY <1>5 DEF Fetched, InCycle, TypeOK, Place
  <2>2. payload' \in [Node -> SUBSET Message]
    BY <1>5, ListedAreMessages DEF Fetched, TypeOK
  <2>3. etag' \in [Node -> Nat] /\ \A m \in Node : etag'[m] \in 0 .. doc[m]
    BY <1>5 DEF Fetched, TypeOK
  <2>4. /\ pc' = [pc EXCEPT ![n] = "store"]
        /\ UNCHANGED <<table, doc, upsertFailed, snapshot, shown, calm>>
    BY <1>5 DEF Fetched, Goto
  <2>5. snapshot' \in [Node -> SUBSET Message] /\ shown' \in SUBSET Message
    BY <2>4 DEF TypeOK
  <2> QED BY <2>1, <2>2, <2>3, <2>4, <2>5, QuietStepKeepsTypes
<1>6. ASSUME NEW n \in Node, Stored(n) \/ StoreFails(n) PROVE TypeOK'
  <2>1. "rest" \in Place(n)
    BY <1>6 DEF Stored, StoreFails, InCycle, TypeOK, Place
  <2>2. payload[n] \in SUBSET Message
    BY DEF TypeOK
  <2>3. /\ rows' \in [Message -> Table!RowState] /\ UNCHANGED now
        /\ landed' \in SUBSET Message /\ superseded' \in SUBSET Message
    BY <1>6, <2>2, WriteKeepsTypes DEF Stored, StoreFails
  <2>4. payload' \in [Node -> SUBSET Message] /\ upsertFailed' \in [Node -> BOOLEAN]
    BY <1>6 DEF Stored, StoreFails, TypeOK
  <2>5. /\ pc' = [pc EXCEPT ![n] = "rest"]
        /\ UNCHANGED <<doc, etag, snapshot, shown, calm>>
    BY <1>6 DEF Stored, StoreFails, Goto
  <2>6. /\ etag' \in [Node -> Nat] /\ \A m \in Node : etag'[m] \in 0 .. doc[m]
        /\ snapshot' \in [Node -> SUBSET Message] /\ shown' \in SUBSET Message
        /\ calm' \in BOOLEAN
    BY <2>5 DEF TypeOK
  <2> QED BY <2>1, <2>3, <2>4, <2>5, <2>6, StepKeepsTypes
<1>7. ASSUME NEW n \in Node, RestOfIngest(n) PROVE TypeOK'
  <2> DEFINE p == IF ShouldPublish(n) THEN "read" ELSE First(n)
  <2>1. p \in Place(n)
    BY FirstIsAPlace DEF Place
  <2>2. rows' \in [Message -> Table!RowState]
    BY <1>7 DEF RestOfIngest, TypeOK, Table!RowState
  <2> HIDE DEF p
  <2>3. pc' = [pc EXCEPT ![n] = p]
    BY <1>7 DEF RestOfIngest, Goto, p
  <2> QED BY <1>7, <2>1, <2>2, <2>3, StepKeepsTypes DEF RestOfIngest, TypeOK
<1>8. ASSUME NEW n \in Node, Read(n) PROVE TypeOK'
  <2>1. "put" \in Place(n)
    BY <1>8 DEF Read, InCycle, TypeOK, Place
  <2>2. snapshot' \in [Node -> SUBSET Message]
    BY <1>8 DEF Read, Collapsed, Table!Active, TypeOK
  <2>3. /\ pc' = [pc EXCEPT ![n] = "put"]
        /\ UNCHANGED <<table, doc, etag, upsertFailed, payload, shown, calm>>
    BY <1>8 DEF Read, Goto
  <2>4. /\ etag' \in [Node -> Nat] /\ \A m \in Node : etag'[m] \in 0 .. doc[m]
        /\ payload' \in [Node -> SUBSET Message] /\ shown' \in SUBSET Message
    BY <2>3 DEF TypeOK
  <2> QED BY <2>1, <2>2, <2>3, <2>4, QuietStepKeepsTypes
<1>9. ASSUME NEW n \in Node, Put(n) \/ PublishFails(n) PROVE TypeOK'
  <2>1. snapshot' \in [Node -> SUBSET Message] /\ shown' \in SUBSET Message
    BY <1>9 DEF Put, PublishFails, TypeOK
  <2>2. /\ pc' = [pc EXCEPT ![n] = First(n)] /\ First(n) \in Place(n)
        /\ UNCHANGED <<table, upsertFailed, payload, calm, doc>>
    BY <1>9, FirstIsAPlace DEF Put, PublishFails, Goto
  <2>3. etag' \in [Node -> Nat] /\ \A m \in Node : etag'[m] \in 0 .. doc[m]
    BY <1>9 DEF Put, PublishFails, TypeOK
  <2>4. payload' \in [Node -> SUBSET Message]
    BY <2>2 DEF TypeOK
  <2> QED BY <2>1, <2>2, <2>3, <2>4, QuietStepKeepsTypes
<1>10. ASSUME NEW n \in Node, Restart(n) PROVE TypeOK'
  <2>1. /\ snapshot' \in [Node -> SUBSET Message] /\ payload' \in [Node -> SUBSET Message]
        /\ upsertFailed' \in [Node -> BOOLEAN]
    BY <1>10 DEF Restart, TypeOK
  <2>2. etag' \in [Node -> Nat] /\ \A m \in Node : etag'[m] \in 0 .. doc[m]
    BY <1>10 DEF Restart, TypeOK
  <2> QED BY <1>10, <2>1, <2>2, FirstIsAPlace, StepKeepsTypes DEF Restart, Goto, TypeOK, table
<1> QED BY <1>1, <1>2, <1>3, <1>4, <1>5, <1>6, <1>7, <1>8, <1>9, <1>10 DEF Next, Cycle

-----------------------------------------------------------------------------
(* The nodes of a fleet boot, migrate and exit as Startup has them,        *)
(* whatever else they do.                                                  *)
THEOREM FleetBoots == Spec => BootSpec
<1>1. Init => BootInit
  BY DEF Init
<1>2. [Next]_vars => [BootNext]_bootVars
  BY DEF Next, Tick, CalmBegins, UpstreamChanges, Booting, Cycle, NotModified, FetchFails,
     Fetched, Stored, StoreFails, RestOfIngest, Read, Put, PublishFails, Restart, BootNext,
     vars
<1> QED BY <1>1, <1>2, PTL DEF Spec, BootSpec

LEMMA InitTypes == Init => TypeOK
<1> SUFFICES ASSUME Init PROVE TypeOK
  OBVIOUS
<1>1. BootTypeOK
  BY DEF Init, BootInit, BootTypeOK, BootState
<1>2. \A n \in Node : First(n) \in Place(n)
  BY FirstIsAPlace
<1>3. \A n \in Node : Len(Feed[n]) \in Nat \ {0}
  BY FleetAssumption
<1>4. pc = [n \in Node |-> First(n)] /\ doc = [n \in Node |-> 1] /\ etag = [n \in Node |-> 0]
  BY DEF Init
<1>5. /\ pc \in [Node -> {"fetch", "store", "rest", "read", "put"}]
      /\ \A n \in Node : /\ pc[n] \in {"fetch", "store", "rest"} => ShouldIngest(n)
                         /\ pc[n] \in {"read", "put"} => ShouldPublish(n) \/ ~Configured(n)
  BY <1>2, <1>4 DEF Place
<1>6. /\ doc \in [Node -> Nat] /\ \A n \in Node : doc[n] \in 1 .. Len(Feed[n])
      /\ etag \in [Node -> Nat] /\ \A n \in Node : etag[n] \in 0 .. doc[n]
  BY <1>3, <1>4
<1>7. now \in 0 .. Horizon /\ rows \in [Message -> Table!RowState]
  BY FleetAssumption DEF Init, Table!RowState
<1>8. /\ payload \in [Node -> SUBSET Message] /\ snapshot \in [Node -> SUBSET Message]
      /\ landed \in SUBSET Message /\ superseded \in SUBSET Message /\ shown \in SUBSET Message
  BY DEF Init
<1>9. upsertFailed \in [Node -> BOOLEAN] /\ calm \in BOOLEAN
  BY Zenon DEF Init
<1> QED BY <1>1, <1>5, <1>6, <1>7, <1>8, <1>9 DEF TypeOK

(* The fleet's state keeps its types: a node is where its mode lets it be, *)
(* its ETag is never ahead of what upstream has served.                    *)
THEOREM FleetTypeCorrect == Spec => []TypeOK
<1>1. BootInv => BootTypeOK
  BY DEF BootInv
<1> QED BY <1>1, InitTypes, TypesNext, FleetBoots, BootHolds, PTL DEF Spec

-----------------------------------------------------------------------------
(* Upserting S and retiring what it supersedes is one abstract write. *)
LEMMA WriteWrites ==
    ASSUME NEW S \in SUBSET Message, Write(S, Predecessors(S))
    PROVE  Table!ANext
<1> DEFINE R == Predecessors(S)
<1>1. R \in SUBSET Message
  BY DEF Predecessors
<1>2. \A x \in R : /\ x \in S \/ rows[x] # "absent"
                   /\ \E y \in landed \cup S : Table!Supersedes(y, x)
  BY DEF Predecessors
<1>3. Table!AWrite(S, R)
  BY <1>2 DEF Write, Table!AWrite
<1> QED BY <1>1, <1>3 DEF Table!ANext

(* Every step of the fleet is one write, purge or tick of the abstract     *)
(* table, or leaves the table alone.                                       *)
LEMMA StepOfTable == TypeOK /\ [Next]_vars => [Table!ANext]_(Table!avars)
<1> SUFFICES ASSUME TypeOK, [Next]_vars PROVE Table!ANext \/ UNCHANGED table
  BY DEF table, Table!avars
<1>1. ASSUME NEW n \in Node, Stored(n) \/ StoreFails(n)
      PROVE  Table!ANext \/ UNCHANGED table
  BY <1>1, WriteWrites DEF Stored, StoreFails, TypeOK
<1>2. ASSUME NEW n \in Node, RestOfIngest(n) PROVE Table!ANext \/ UNCHANGED table
  <2>1. CASE UNCHANGED rows
    BY <1>2, <2>1 DEF RestOfIngest, table
  <2>2. CASE rows' = [x \in Message |-> IF Purgeable(x) THEN "absent" ELSE rows[x]]
    BY <1>2, <2>2 DEF RestOfIngest, Purgeable, Table!ANext, Table!APurge
  <2> QED BY <1>2, <2>1, <2>2 DEF RestOfIngest
<1>3. CASE Tick
  BY <1>3 DEF Tick, Table!ANext, Table!ATick
<1>4. ASSUME NEW n \in Node,
             \/ NotModified(n) \/ FetchFails(n) \/ Fetched(n) \/ Read(n) \/ Put(n)
             \/ PublishFails(n) \/ UpstreamChanges(n) \/ Booting(n) \/ Restart(n)
      PROVE  UNCHANGED table
  BY <1>4 DEF NotModified, FetchFails, Fetched, Read, Put, PublishFails,
     UpstreamChanges, Booting, Restart
<1>5. CASE CalmBegins \/ UNCHANGED vars
  BY <1>5 DEF CalmBegins, vars
<1> QED BY <1>1, <1>2, <1>3, <1>4, <1>5 DEF Next, Cycle

(* The table the fleet writes is the one Supersession promises: every      *)
(* write, purge and tick is one of its own, and nothing else touches it.   *)
THEOREM FleetKeepsTable == Spec => ImplementsTable
<1>1. Init => Table!AInit
  BY DEF Init, Table!AInit
<1> QED BY <1>1, StepOfTable, FleetTypeCorrect, PTL DEF Spec, ImplementsTable, Table!ASpec

-----------------------------------------------------------------------------
(* In a running fleet too, migrations do not race on the catalog. *)
THEOREM FleetMigratesSafely == Spec => []NoCatalogRace
  BY FleetBoots, LockSerializes, PTL

(* And no node polls without a column it uses, in the middle of a deploy.  *)
THEOREM FleetDeploysSafely == Spec => []SchemaSuffices
  BY FleetBoots, DeployIsOrderSafe, PTL

-----------------------------------------------------------------------------
(* What the abstract table promises, from its own specification.           *)

(* A superseded row is hidden, or gone when it could not be shown anyway.  *)
HiddenForGood == \A x \in superseded : rows[x] = "retired" \/ Expires[x] < now

TableInv ==
    /\ now \in Int /\ rows \in [Message -> Table!RowState] /\ superseded \in SUBSET Message
    /\ Table!RetiredHasLandedSuccessor
    /\ HiddenForGood

LEMMA TableKeepsPromises == Table!ASpec => []TableInv
<1>1. Table!AInit => TableInv
  BY DEF Table!AInit, TableInv, Table!RowState, Table!RetiredHasLandedSuccessor, HiddenForGood
<1>2. TableInv /\ [Table!ANext]_(Table!avars) => TableInv'
  <2> SUFFICES ASSUME TableInv, [Table!ANext]_(Table!avars) PROVE TableInv'
    OBVIOUS
  <2> USE DEF TableInv, Table!RowState, Table!RetiredHasLandedSuccessor, HiddenForGood
  <2>1. ASSUME NEW S \in SUBSET Message, NEW R \in SUBSET Message, Table!AWrite(S, R)
        PROVE  TableInv'
    <3>1. /\ now' \in Int /\ rows' \in [Message -> Table!RowState]
          /\ superseded' \in SUBSET Message
      BY <2>1 DEF Table!AWrite
    <3>2. Table!RetiredHasLandedSuccessor'
      BY <2>1 DEF Table!AWrite, Table!Supersedes
    <3>3. HiddenForGood'
      BY <2>1 DEF Table!AWrite
    <3> QED BY <3>1, <3>2, <3>3
  <2>2. CASE Table!APurge
    BY <2>2 DEF Table!APurge, Table!Supersedes
  <2>3. CASE Table!ATick
    BY <2>3, FleetAssumption DEF Table!ATick, Table!Supersedes
  <2>4. CASE UNCHANGED Table!avars
    BY <2>4 DEF Table!avars, Table!Supersedes
  <2> QED BY <2>1, <2>2, <2>3, <2>4 DEF Table!ANext
<1> QED BY <1>1, <1>2, PTL DEF Table!ASpec

(* In the table of the whole fleet a row is only retired for a message     *)
(* that has landed, by whichever node.                                     *)
THEOREM FleetRetiresSafely == Spec => []Table!RetiredHasLandedSuccessor
<1>1. TableInv => Table!RetiredHasLandedSuccessor
  BY DEF TableInv
<1> QED BY <1>1, FleetKeepsTable, TableKeepsPromises, PTL DEF ImplementsTable

(* And what one node has superseded no other node's stale payload and no   *)
(* purge ever shows again.                                                 *)
THEOREM FleetNeverResurrects == Spec => []Table!NoResurrection
<1>1. TableInv => Table!NoResurrection
  <2> SUFFICES ASSUME TableInv, NEW x \in superseded, x \in Table!Active PROVE FALSE
    BY DEF Table!NoResurrection
  <2> QED BY FleetAssumption DEF TableInv, HiddenForGood, Table!Active
<1> QED BY <1>1, FleetKeepsTable, TableKeepsPromises, PTL DEF ImplementsTable

-----------------------------------------------------------------------------
(* What the publisher shows, whatever the nodes do between its read and    *)
(* its put.                                                                *)

(* Of one event's messages none is older than another. *)
OnePerEvent(S) == \A x, z \in S : EventKey[x] = EventKey[z] => Issued[z] <= Issued[x]

(* All that is in the live object, or read for it, has been stored, and an *)
(* event is there with its last message only (collapse.go:3-9).         *)
ShownIsSound ==
    /\ shown \subseteq landed /\ OnePerEvent(shown)
    /\ \A n \in Node : snapshot[n] \subseteq landed /\ OnePerEvent(snapshot[n])

Gone(x) == x \in superseded \/ Expires[x] <= now

OnItsWay(x) == x \in shown \/ \E n \in Node : x \in snapshot[n]

(* A message that has been superseded or is over, once it has left the     *)
(* live object and no put of an earlier read is under way, is never shown  *)
(* again: no node's stale payload, purge, lost commit, crash or failed     *)
(* publish brings it back, however many nodes publish.                     *)
GoneStaysGone == [][\A x \in Message : Gone(x) /\ ~OnItsWay(x) => ~OnItsWay(x)']_vars

(* A snapshot is read from the table or dropped, the live object is put    *)
(* from one.                                                               *)
LEMMA StepOfShown ==
    ASSUME TypeOK, [Next]_vars
    PROVE  /\ \A m \in Node : snapshot'[m] \in {snapshot[m], {}, Collapsed(Table!Active)}
           /\ shown' = shown \/ \E n \in Node : shown' = snapshot[n]
           /\ landed \subseteq landed'
<1> DEFINE Goal == /\ \A m \in Node : snapshot'[m] \in {snapshot[m], {}, Collapsed(Table!Active)}
                   /\ shown' = shown \/ \E n \in Node : shown' = snapshot[n]
                   /\ landed \subseteq landed'
<1>1. ASSUME NEW n \in Node, Stored(n) \/ StoreFails(n) PROVE Goal
  <2>1. UNCHANGED <<snapshot, shown>> /\ landed \subseteq landed'
    BY <1>1 DEF Stored, StoreFails, Write, table
  <2> QED BY <2>1
<1>2. ASSUME NEW n \in Node,
             \/ NotModified(n) \/ FetchFails(n) \/ Fetched(n) \/ RestOfIngest(n)
             \/ UpstreamChanges(n) \/ Booting(n)
      PROVE  Goal
  <2>1. UNCHANGED <<snapshot, shown, landed>>
    BY <1>2 DEF NotModified, FetchFails, Fetched, RestOfIngest, UpstreamChanges, Booting,
       table, node
  <2> QED BY <2>1
<1>3. ASSUME NEW n \in Node, Read(n) PROVE Goal
  <2>1. /\ snapshot' = [snapshot EXCEPT ![n] = Collapsed(Table!Active)]
        /\ UNCHANGED <<shown, landed>>
    BY <1>3 DEF Read, table
  <2> QED BY <2>1 DEF TypeOK
<1>4. ASSUME NEW n \in Node, Put(n) \/ PublishFails(n) \/ Restart(n) PROVE Goal
  <2>1. /\ snapshot' = [snapshot EXCEPT ![n] = {}] /\ landed' = landed
        /\ shown' = shown \/ shown' = snapshot[n]
    BY <1>4 DEF Put, PublishFails, Restart, table
  <2> QED BY <2>1 DEF TypeOK
<1>5. CASE Tick \/ CalmBegins \/ UNCHANGED vars
  <2>1. UNCHANGED <<snapshot, shown, landed>>
    BY <1>5 DEF Tick, CalmBegins, vars, table, node
  <2> QED BY <2>1
<1> QED BY <1>1, <1>2, <1>3, <1>4, <1>5 DEF Next, Cycle

(* A row is in the table because its message has landed. *)
LEMMA RowsHaveLanded ==
    Spec => [](\A x \in Message : rows[x] # "absent" => x \in landed)
<1> DEFINE P == \A x \in Message : rows[x] # "absent" => x \in landed
<1>1. Init => P
  BY DEF Init
<1>2. TypeOK /\ P /\ [Next]_vars => P'
  <2> SUFFICES ASSUME TypeOK, P, [Table!ANext]_(Table!avars) PROVE P'
    BY StepOfTable
  <2>1. ASSUME NEW S \in SUBSET Message, NEW R \in SUBSET Message, Table!AWrite(S, R) PROVE P'
    BY <2>1 DEF Table!AWrite
  <2>2. CASE Table!APurge
    BY <2>2 DEF Table!APurge
  <2>3. CASE Table!ATick \/ UNCHANGED Table!avars
    BY <2>3 DEF Table!ATick, Table!avars
  <2> QED BY <2>1, <2>2, <2>3 DEF Table!ANext
<1> QED BY <1>1, <1>2, FleetTypeCorrect, PTL DEF Spec

(* The live object holds stored messages only, the last of each event.     *)
THEOREM ShownIsStored == Spec => []ShownIsSound
<1> DEFINE P == \A x \in Message : rows[x] # "absent" => x \in landed
<1>1. Init => ShownIsSound
  BY DEF Init, ShownIsSound, OnePerEvent
<1>2. TypeOK /\ P /\ ShownIsSound /\ [Next]_vars => ShownIsSound'
  <2> SUFFICES ASSUME TypeOK, P, ShownIsSound, [Next]_vars PROVE ShownIsSound'
    OBVIOUS
  <2> DEFINE Fresh == Collapsed(Table!Active)
             Good(S) == S \subseteq landed /\ OnePerEvent(S)
  <2>1. Good(Fresh)
    BY DEF Collapsed, Table!Active, OnePerEvent
  <2>2. Good({})
    BY DEF OnePerEvent
  <2>3. Good(shown) /\ \A n \in Node : Good(snapshot[n])
    BY DEF ShownIsSound
  <2> HIDE DEF Good, Fresh
  <2>4. /\ \A m \in Node : snapshot'[m] \in {snapshot[m], {}, Fresh}
        /\ shown' = shown \/ \E n \in Node : shown' = snapshot[n]
        /\ landed \subseteq landed'
    BY StepOfShown DEF Fresh
  <2>5. Good(shown') /\ \A m \in Node : Good(snapshot'[m])
    BY <2>1, <2>2, <2>3, <2>4
  <2> QED BY <2>4, <2>5 DEF Good, ShownIsSound, OnePerEvent
<1> QED BY <1>1, <1>2, RowsHaveLanded, FleetTypeCorrect, PTL DEF Spec

(* What is superseded or over and has left the live object stays away.     *)
THEOREM GoneMessagesStayGone == Spec => GoneStaysGone
<1>1. TypeOK /\ Table!NoResurrection /\ [Next]_vars =>
          [\A x \in Message : Gone(x) /\ ~OnItsWay(x) => ~OnItsWay(x)']_vars
  <2> SUFFICES ASSUME TypeOK, Table!NoResurrection, [Next]_vars,
                      NEW x \in Message, Gone(x), ~OnItsWay(x)
               PROVE  ~OnItsWay(x)'
    OBVIOUS
  <2>1. x \notin Collapsed(Table!Active)
    <3>1. Expires[x] \in Int /\ now \in Int
      BY FleetAssumption DEF TypeOK
    <3>2. x \notin Table!Active
      BY <3>1 DEF Gone, Table!NoResurrection, Table!Active
    <3> QED BY <3>2 DEF Collapsed
  <2>2. x \notin shown /\ \A n \in Node : x \notin snapshot[n]
    BY DEF OnItsWay
  <2>3. x \notin shown' /\ \A n \in Node : x \notin snapshot'[n]
    BY <2>1, <2>2, StepOfShown
  <2> QED BY <2>3 DEF OnItsWay
<1> QED BY <1>1, FleetNeverResurrects, FleetTypeCorrect, PTL DEF Spec, GoneStaysGone

-----------------------------------------------------------------------------
(* What a node's ETag stands for, while the node stores and afterwards.    *)
ETagIsStored ==
    \A n \in Node : etag[n] # 0 =>
        IF pc[n] = "store" THEN payload[n] = Feed[n][etag[n]]
        ELSE upsertFailed[n] \/ Feed[n][etag[n]] \subseteq landed

StoresWhatItFetched == \A n \in Node : pc[n] = "store" => etag[n] # 0

(* What has landed leaves the live rows by a successor or by its expiry.   *)
LandedIsLive ==
    /\ \A x \in landed : rows[x] = "live" \/ x \in superseded \/ Expires[x] < now
    /\ \A x \in Message : rows[x] = "retired" => x \in superseded

VouchInv == ETagIsStored /\ StoresWhatItFetched /\ LandedIsLive

LEMMA VouchInit == Init => VouchInv
  BY DEF Init, First, VouchInv, ETagIsStored, StoresWhatItFetched, LandedIsLive

(* A step that leaves n's document, flag and payload alone. *)
LEMMA VouchKept ==
    ASSUME VouchInv, TypeOK,
           UNCHANGED <<etag, upsertFailed>>,
           \A n \in Node : \/ pc'[n] = pc[n] /\ payload'[n] = payload[n]
                           \/ pc[n] # "store" /\ pc'[n] # "store",
           landed \subseteq landed', LandedIsLive'
    PROVE  VouchInv'
  BY DEF VouchInv, ETagIsStored, StoresWhatItFetched

(* A purge takes what is over; a write retires what it supersedes. *)
LEMMA LandedStaysLive ==
    ASSUME TypeOK, LandedIsLive, [Table!ANext]_(Table!avars)
    PROVE  LandedIsLive' /\ landed \subseteq landed'
<1> USE DEF LandedIsLive
<1>0. /\ now \in Int /\ rows \in [Message -> Table!RowState] /\ landed \in SUBSET Message
      /\ superseded \in SUBSET Message
  BY FleetAssumption DEF TypeOK
<1>1. ASSUME NEW S \in SUBSET Message, NEW R \in SUBSET Message, Table!AWrite(S, R)
      PROVE  LandedIsLive' /\ landed \subseteq landed'
  <2>1. landed' = landed \cup S /\ superseded' = superseded \cup R /\ now' = now
    BY <1>1 DEF Table!AWrite
  <2>2. \A x \in Message : rows'[x] = IF x \in R THEN "retired"
                                   ELSE IF x \in S /\ rows[x] = "absent" THEN "live"
                                   ELSE rows[x]
    BY <1>1 DEF Table!AWrite
  <2>3. \A x \in Message : rows[x] \in {"absent", "live", "retired"}
    BY <1>0 DEF Table!RowState
  <2> QED BY <1>0, <2>1, <2>2, <2>3
<1>2. CASE Table!APurge
  <2>1. landed' = landed /\ superseded' = superseded /\ now' = now
    BY <1>2 DEF Table!APurge
  <2>2. \A x \in Message : rows'[x] = IF Expires[x] < now THEN "absent" ELSE rows[x]
    BY <1>2 DEF Table!APurge
  <2> QED BY <1>0, <2>1, <2>2
<1>3. CASE Table!ATick
  BY <1>0, <1>3, FleetAssumption DEF Table!ATick
<1>4. CASE UNCHANGED Table!avars
  BY <1>4 DEF Table!avars
<1> QED BY <1>1, <1>2, <1>3, <1>4 DEF Table!ANext

LEMMA VouchNext == TypeOK /\ TypeOK' /\ VouchInv /\ [Next]_vars => VouchInv'
<1> SUFFICES ASSUME TypeOK, TypeOK', VouchInv, [Next]_vars PROVE VouchInv'
  OBVIOUS
<1>0. LandedIsLive' /\ landed \subseteq landed'
  BY StepOfTable, LandedStaysLive DEF VouchInv
<1>1. ASSUME NEW n \in Node,
             \/ NotModified(n) \/ FetchFails(n) \/ RestOfIngest(n) \/ Read(n) \/ Put(n)
             \/ PublishFails(n)
      PROVE  VouchInv'
  <2>1. UNCHANGED <<etag, upsertFailed, payload>>
    BY <1>1 DEF NotModified, FetchFails, RestOfIngest, Read, Put, PublishFails
  <2>2. \A m \in Node : pc'[m] = pc[m] \/ (pc[m] # "store" /\ pc'[m] # "store")
    BY <1>1 DEF NotModified, FetchFails, RestOfIngest, Read, Put, PublishFails, Goto, InCycle,
       First, TypeOK
  <2> QED BY <1>0, <2>1, <2>2, VouchKept
<1>2. ASSUME NEW n \in Node, Fetched(n) PROVE VouchInv'
  <2>1. /\ etag'[n] = doc[n] /\ doc[n] # 0 /\ pc'[n] = "store" /\ payload'[n] = Feed[n][doc[n]]
        /\ upsertFailed' = upsertFailed
    BY <1>2, FleetAssumption DEF Fetched, Goto, Listed, TypeOK
  <2>2. \A m \in Node \ {n} : etag'[m] = etag[m] /\ pc'[m] = pc[m] /\ payload'[m] = payload[m]
    BY <1>2 DEF Fetched, Goto, TypeOK
  <2> QED BY <1>0, <2>1, <2>2 DEF VouchInv, ETagIsStored, StoresWhatItFetched
<1>3. ASSUME NEW n \in Node, Stored(n) \/ StoreFails(n) PROVE VouchInv'
  <2>1. pc[n] = "store" /\ pc'[n] = "rest" /\ etag' = etag
    BY <1>3 DEF Stored, StoreFails, InCycle, Goto, TypeOK
  <2>2. upsertFailed'[n] \/ payload[n] \subseteq landed'
    BY <1>3 DEF Stored, StoreFails, Write, TypeOK
  <2>3. \A m \in Node \ {n} : /\ upsertFailed'[m] = upsertFailed[m] /\ pc'[m] = pc[m]
                              /\ payload'[m] = payload[m]
    BY <1>3 DEF Stored, StoreFails, Goto, TypeOK
  <2> QED BY <1>0, <2>1, <2>2, <2>3 DEF VouchInv, ETagIsStored, StoresWhatItFetched
<1>4. ASSUME NEW n \in Node, Restart(n) PROVE VouchInv'
  <2>1. etag'[n] = 0 /\ pc'[n] # "store"
    BY <1>4 DEF Restart, Goto, First, TypeOK
  <2>2. \A m \in Node \ {n} : /\ upsertFailed'[m] = upsertFailed[m] /\ pc'[m] = pc[m]
                              /\ payload'[m] = payload[m] /\ etag'[m] = etag[m]
    BY <1>4 DEF Restart, Goto, TypeOK
  <2> QED BY <1>0, <2>1, <2>2 DEF VouchInv, ETagIsStored, StoresWhatItFetched
<1>5. ASSUME UNCHANGED node PROVE VouchInv'
  BY <1>0, <1>5, VouchKept DEF node
<1>6. ASSUME NEW n \in Node, UpstreamChanges(n) \/ Booting(n) PROVE UNCHANGED node
  BY <1>6 DEF UpstreamChanges, Booting
<1>7. ASSUME Tick \/ CalmBegins \/ UNCHANGED vars PROVE UNCHANGED node
  BY <1>7 DEF Tick, CalmBegins, vars
<1> QED BY <1>1, <1>2, <1>3, <1>4, <1>5, <1>6, <1>7 DEF Next, Cycle

(* Whatever other nodes write, retire and purge after it, and however      *)
(* often a fetch fails: what a node without a failed store last fetched    *)
(* can be shown, or is superseded, or is over.  A 304 may vouch for it.    *)
THEOREM ETagIsSound == Spec => []ETagVouches
<1>1. TypeOK /\ VouchInv => ETagVouches
  <2> SUFFICES ASSUME TypeOK, VouchInv, NEW n \in Node,
                      etag[n] # 0, pc[n] # "store", ~upsertFailed[n],
                      NEW x \in Feed[n][etag[n]], ~(Expires[x] <= now)
               PROVE  x \in Table!Active \/ x \in superseded
    BY DEF ETagVouches
  <2>1. x \in landed /\ x \in Message /\ now \in Int
    BY FleetAssumption DEF VouchInv, ETagIsStored, TypeOK
  <2>2. Expires[x] \in Int
    BY <2>1, FleetAssumption
  <2> QED BY <2>1, <2>2 DEF VouchInv, LandedIsLive, Table!Active
<1> QED BY <1>1, VouchInit, VouchNext, FleetTypeCorrect, PTL DEF Spec

-----------------------------------------------------------------------------
(* The areas of a node: induction over the tokens of NWS_AREA. *)
LEMMA LeastNat ==
    ASSUME NEW T \in SUBSET Nat, T # {}
    PROVE  \E x \in T : \A y \in T : x <= y
<1> DEFINE Less == {pair \in Nat \X Nat : pair[1] < pair[2]}
<1>1. IsWellFoundedOn(Less, Nat)
  BY NatLessThanWellFounded DEF OpToRel
<1>2. \E x \in T : \A y \in T : ~(<<y, x>> \in Less)
  <2> HIDE DEF Less
  <2> QED BY <1>1, WFMin
<1>3. PICK x \in T : \A y \in T : ~(<<y, x>> \in Less)
  BY <1>2
<1>4. ASSUME NEW y \in T PROVE x <= y
  <2>1. <<y, x>> \in Nat \X Nat /\ ~(y < x)
    BY <1>3
  <2> QED BY <2>1
<1> QED BY <1>3, <1>4

LEMMA SetInduction ==
    ASSUME NEW S, 0 \in S, \A n \in Nat : n \in S => n + 1 \in S
    PROVE  Nat \subseteq S
<1> DEFINE T == Nat \ S
<1> SUFFICES ASSUME T # {} PROVE FALSE
  OBVIOUS
<1>1. PICK x \in T : \A y \in T : x <= y
  BY LeastNat
<1>2. x # 0 /\ x - 1 \in Nat
  OBVIOUS
<1>3. x - 1 \in S
  BY <1>1, <1>2
<1> QED BY <1>2, <1>3

(* One iteration for the i-th token, from the codes so far. *)
Parsed(g, i, tokens) == IF i = 0 THEN <<>> ELSE AddCode(g[i - 1], tokens[i])

LEMMA ParsedExists ==
    ASSUME NEW tokens, NEW m \in Nat
    PROVE  \E g : g = [i \in 0 .. m |-> Parsed(g, i, tokens)]
<1> DEFINE S == {n \in Nat : \E g : g = [i \in 0 .. n |-> Parsed(g, i, tokens)]}
<1>1. 0 \in S
  <2> DEFINE g == [i \in 0 .. 0 |-> <<>>]
  <2>1. \A i \in 0 .. 0 : i = 0
    OBVIOUS
  <2>2. g = [i \in 0 .. 0 |-> Parsed(g, i, tokens)]
    BY <2>1 DEF Parsed
  <2> QED BY <2>2
<1>2. ASSUME NEW n \in Nat, n \in S PROVE n + 1 \in S
  <2>1. PICK g : g = [i \in 0 .. n |-> Parsed(g, i, tokens)]
    BY <1>2
  <2> DEFINE h == [i \in 0 .. n + 1 |-> IF i = n + 1 THEN Parsed(g, i, tokens) ELSE g[i]]
  <2>2. ASSUME NEW i \in 0 .. n + 1 PROVE h[i] = Parsed(h, i, tokens)
    <3>1. i # 0 => i - 1 \in 0 .. n /\ h[i - 1] = g[i - 1]
      OBVIOUS
    <3>2. Parsed(h, i, tokens) = Parsed(g, i, tokens)
      BY <3>1 DEF Parsed
    <3>3. i # n + 1 => i \in 0 .. n
      OBVIOUS
    <3>4. i # n + 1 => g[i] = Parsed(g, i, tokens)
      BY <2>1, <3>3
    <3> QED BY <3>2, <3>4
  <2>3. h = [i \in 0 .. n + 1 |-> Parsed(h, i, tokens)]
    BY <2>2, Zenon
  <2>4. \E gg : gg = [i \in 0 .. n + 1 |-> Parsed(gg, i, tokens)]
    BY <2>3, Zenon
  <2>5. n + 1 \in Nat
    OBVIOUS
  <2> QED BY <2>4, <2>5, Zenon
<1>3. Nat \subseteq S
  BY <1>1, <1>2, SetInduction
<1> QED BY <1>3

(* Codes without a repetition, and all those among the first n tokens. *)
AreasOf(areas, tokens, n) ==
    /\ areas \in Seq(StateCode)
    /\ \A i, j \in 1 .. Len(areas) : areas[i] = areas[j] => i = j
    /\ \A i \in 1 .. Len(areas) : \E j \in 1 .. n : tokens[j] = areas[i]
    /\ \A j \in 1 .. n : tokens[j] \in StateCode =>
           \E i \in 1 .. Len(areas) : areas[i] = tokens[j]

LEMMA NextToken ==
    ASSUME NEW tokens \in Seq(STRING), NEW n \in Nat, n + 1 <= Len(tokens),
           NEW areas, AreasOf(areas, tokens, n)
    PROVE  AreasOf(AddCode(areas, tokens[n + 1]), tokens, n + 1)
<1> DEFINE t == tokens[n + 1]
           m == Len(areas)
           next == AddCode(areas, t)
<1>1. /\ areas \in Seq(StateCode) /\ m \in Nat
      /\ n + 1 \in 1 .. n + 1 /\ \A j \in 1 .. n : j \in 1 .. n + 1
      /\ \A j \in 1 .. n + 1 : j \in 1 .. n \/ j = n + 1
  BY DEF AreasOf
<1>2. CASE t \in StateCode /\ ~Contains(areas, t)
  <2>1. next = Append(areas, t)
    BY <1>2 DEF AddCode
  <2>2. \A i \in 1 .. m : areas[i] # t
    BY <1>2 DEF Contains
  <2> HIDE DEF next, t
  <2>3. /\ next \in Seq(StateCode) /\ Len(next) = m + 1 /\ next[m + 1] = t
        /\ \A i \in 1 .. m : next[i] = areas[i]
    BY <1>1, <1>2, <2>1
  <2>a. /\ \A i, j \in 1 .. m : areas[i] = areas[j] => i = j
        /\ \A i \in 1 .. m : \E j \in 1 .. n : tokens[j] = areas[i]
        /\ \A j \in 1 .. n : tokens[j] \in StateCode => \E i \in 1 .. m : areas[i] = tokens[j]
    BY Zenon DEF AreasOf
  <2> HIDE DEF m
  <2>4. /\ m + 1 \in 1 .. m + 1 /\ \A i \in 1 .. m : i \in 1 .. m + 1
        /\ \A i \in 1 .. m + 1 : i \in 1 .. m \/ i = m + 1
    BY <1>1
  <2>5. \A i, j \in 1 .. Len(next) : next[i] = next[j] => i = j
    <3>1. SUFFICES ASSUME NEW i \in 1 .. m + 1, NEW j \in 1 .. m + 1, next[i] = next[j]
                   PROVE  i = j
      BY <2>3
    <3>2. /\ i \in 1 .. m \/ i = m + 1
          /\ j \in 1 .. m \/ j = m + 1
      BY <2>4
    <3>3. CASE i \in 1 .. m /\ j \in 1 .. m
      <4>1. areas[i] = areas[j]
        BY <2>3, <3>1, <3>3
      <4> QED BY <2>a, <3>3, <4>1
    <3>4. CASE i \in 1 .. m /\ j = m + 1
      BY <2>2, <2>3, <3>1, <3>4
    <3>5. CASE i = m + 1 /\ j \in 1 .. m
      BY <2>2, <2>3, <3>1, <3>5
    <3> QED BY <3>2, <3>3, <3>4, <3>5
  <2>6. \A i \in 1 .. Len(next) : \E j \in 1 .. n + 1 : tokens[j] = next[i]
    BY <1>1, <2>a, <2>3, <2>4 DEF t
  <2>7. \A j \in 1 .. n + 1 : tokens[j] \in StateCode =>
            \E i \in 1 .. Len(next) : next[i] = tokens[j]
    BY <1>1, <2>a, <2>3, <2>4 DEF t
  <2> QED BY <2>3, <2>5, <2>6, <2>7 DEF AreasOf, next, t
<1>3. CASE ~(t \in StateCode /\ ~Contains(areas, t))
  <2>1. next = areas
    BY <1>3 DEF AddCode
  <2>2. t \in StateCode => \E i \in 1 .. m : areas[i] = t
    BY <1>3 DEF Contains
  <2> QED BY <1>1, <2>1, <2>2 DEF AreasOf
<1> QED BY <1>2, <1>3

(* Whatever NWS_AREA says, the areas of a node are codes of states, each   *)
(* once (so no two workers of a publish phase write the same key), and the *)
(* tokens that are codes are all among them (main.go:185-216).             *)
THEOREM AreasAreDistinct ==
    ASSUME NEW n \in Node, RawArea[n] # <<>>
    PROVE  AreasOf(parseAreas(RawArea[n]), RawArea[n], Len(RawArea[n]))
<1> DEFINE tokens == RawArea[n]
           m == Len(tokens)
           f == CHOOSE g : g = [i \in 0 .. m |-> Parsed(g, i, tokens)]
<1>1. tokens \in Seq(STRING) /\ m \in Nat
  BY AreaAssumption
<1>2. parseAreas(tokens) = f[m]
  BY DEF parseAreas, Parsed
<1>3. f = [i \in 0 .. m |-> Parsed(f, i, tokens)]
  BY <1>1, ParsedExists
<1> HIDE DEF m, f, tokens
<1> DEFINE S == {i \in Nat : i <= m => AreasOf(f[i], tokens, i)}
<1>4. 0 \in S
  <2>1. f[0] = <<>>
    BY <1>1, <1>3 DEF Parsed
  <2>2. f[0] \in Seq(StateCode) /\ Len(f[0]) = 0 /\ 1 .. 0 = {}
    BY <2>1
  <2>3. AreasOf(f[0], tokens, 0)
    BY <2>2 DEF AreasOf
  <2> QED BY <2>3
<1>5. ASSUME NEW i \in Nat, i \in S PROVE i + 1 \in S
  <2> SUFFICES ASSUME i + 1 <= m PROVE AreasOf(f[i + 1], tokens, i + 1)
    OBVIOUS
  <2>1. AreasOf(f[i], tokens, i) /\ i + 1 \in 0 .. m /\ i + 1 # 0 /\ i + 1 - 1 = i
    BY <1>1, <1>5
  <2>2. f[i + 1] = AddCode(f[i], tokens[i + 1])
    <3>1. f[i + 1] = Parsed(f, i + 1, tokens)
      BY <1>3, <2>1
    <3>2. i + 1 # 0 /\ i + 1 - 1 = i
      BY <2>1
    <3> QED BY <3>1, <3>2 DEF Parsed
  <2> QED BY <1>1, <2>1, <2>2, NextToken DEF m
<1>6. m \in S
  BY <1>1, <1>4, <1>5, SetInduction
<1>7. AreasOf(f[m], tokens, m)
  BY <1>1, <1>6
<1> QED BY <1>2, <1>7 DEF m, tokens
=============================================================================
