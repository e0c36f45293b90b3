-------------------------------- MODULE Startup --------------------------------
(***************************************************************************)
(* cmd/ingest run and store.Migrate: how the nodes of a fleet come up      *)
(* against one database, several of them at once and of several builds.    *)
(*                                                                         *)
(* A schema is the number of the newest migration in it: every statement   *)
(* of migrateSQL adds something IF NOT EXISTS, so a build's migrations are *)
(* those of the builds before it and its own.  The existence checks read   *)
(* the catalog, the objects they found missing are created, and become     *)
(* visible at the commit.                                                  *)
(***************************************************************************)
EXTENDS Integers, Sequences, SequencesExt

CONSTANTS
    Node,
    Build,      \* Build[n]: the newest migration of n's binary
    RawArea,    \* RawArea[n]: the tokens of NWS_AREA, <<>> when it is blank
    RawMode,    \* RawMode[n]: MODE, "" when it is unset
    OnFly,      \* FLY_APP_NAME is set
    StateCode   \* the codes of nws/fips.go

ASSUME StartupAssumption ==
    /\ Build \in [Node -> Nat \ {0}]
    /\ OnFly \in BOOLEAN

ASSUME AreaAssumption == RawArea \in [Node -> Seq(STRING)] /\ "WI" \in StateCode

VARIABLES
    boot,    \* boot[n]: how far n's process is
    sees,    \* sees[n]: the schema n's existence checks found, 0 out of a migration
    schema   \* the committed schema

bootVars == <<boot, sees, schema>>

BootState == {
    "down",
    "lock",     \* waits for migrateAdvisoryLockKey
    "migrate",  \* holds it
    "wedged",   \* holds it, and hangs on an open connection
    "up"}       \* in Poller.Run

BootTypeOK ==
    /\ boot \in [Node -> BootState]
    /\ sees \in [Node -> Nat]
    /\ schema \in Nat

BootInit ==
    /\ boot = [n \in Node |-> "down"]
    /\ sees = [n \in Node |-> 0]
    /\ schema = 0

-----------------------------------------------------------------------------
(* One token: a valid code is taken, once. *)
AddCode(codes, token) ==
    IF token \in StateCode /\ ~Contains(codes, token) THEN Append(codes, token) ELSE codes

(* The codes among the tokens, in order of appearance. *)
parseAreas(tokens) ==
    LET out[i \in 0 .. Len(tokens)] == IF i = 0 THEN <<>> ELSE AddCode(out[i - 1], tokens[i])
    IN IF tokens = <<>> THEN <<"WI">> ELSE out[Len(tokens)]

Mode(n) == IF RawMode[n] = "" THEN "both" ELSE RawMode[n]

ShouldIngest(n) == Mode(n) \in {"ingest", "both"}
ShouldPublish(n) == Mode(n) \in {"publish", "both"}

requireExplicitModeOnFly(n) == OnFly => RawMode[n] # ""

(* What run() refuses to start without. *)
Configured(n) ==
    /\ parseAreas(RawArea[n]) # <<>>
    /\ requireExplicitModeOnFly(n)
    /\ Mode(n) \in {"ingest", "publish", "both"}

Holds(n) == boot[n] \in {"migrate", "wedged"}
LockFree == \A n \in Node : ~Holds(n)

(* The process starts, connects and opens the migration's transaction. *)
Boot(n) ==
    /\ boot[n] = "down" /\ Configured(n)
    /\ boot' = [boot EXCEPT ![n] = "lock"]
    /\ UNCHANGED <<sees, schema>>

\* mutant: no advisory lock around the DDL
MutAcquireLockUnguarded(n) ==
    /\ boot[n] = "lock"
    /\ boot' = [boot EXCEPT ![n] = "migrate"]
    /\ sees' = [sees EXCEPT ![n] = schema]
    /\ UNCHANGED schema

(* pg_advisory_xact_lock returns; the DDL begins with its checks. *)
AcquireLock(n) ==
    /\ boot[n] = "lock" /\ LockFree
    /\ boot' = [boot EXCEPT ![n] = "migrate"]
    /\ sees' = [sees EXCEPT ![n] = schema]
    /\ UNCHANGED schema

\* mutant: SET LOCAL lock_timeout is missing
MutLockTimesOutNever(n) == FALSE /\ UNCHANGED bootVars

(* 55P03 after migrateLockTimeout: the process exits. *)
LockTimesOut(n) ==
    /\ boot[n] = "lock" /\ ~LockFree
    /\ boot' = [boot EXCEPT ![n] = "down"]
    /\ UNCHANGED <<sees, schema>>

\* mutant: the schema becomes what the binary knows, whatever there was
MutMigratedDrops(n) ==
    /\ boot[n] = "migrate"
    /\ boot' = [boot EXCEPT ![n] = "up"]
    /\ schema' = Build[n]
    /\ sees' = [sees EXCEPT ![n] = 0]

(* Commit: what was missing is there, what was there stays.  Creating what *)
(* another session has created since the check is an error.                *)
Migrated(n) ==
    /\ boot[n] = "migrate"
    /\ sees[n] < Build[n] => schema = sees[n]
    /\ boot' = [boot EXCEPT ![n] = "up"]
    /\ schema' = IF schema < Build[n] THEN Build[n] ELSE schema
    /\ sees' = [sees EXCEPT ![n] = 0]

(* A statement or the commit fails, by a lock timeout of its own, a lost   *)
(* connection or a duplicate: rollback, and the process exits.             *)
MigrateFails(n) ==
    /\ boot[n] = "migrate"
    /\ boot' = [boot EXCEPT ![n] = "down"]
    /\ sees' = [sees EXCEPT ![n] = 0]
    /\ UNCHANGED schema

(* The process hangs inside its transaction, the connection stays open. *)
Wedge(n) ==
    /\ boot[n] = "migrate"
    /\ boot' = [boot EXCEPT ![n] = "wedged"]
    /\ sees' = [sees EXCEPT ![n] = 0]
    /\ UNCHANGED schema

(* A crash, a kill, or SIGTERM at any point: the connections close, and    *)
(* the server rolls back and frees the lock.                               *)
Exit(n) ==
    /\ boot[n] # "down"
    /\ boot' = [boot EXCEPT ![n] = "down"]
    /\ sees' = [sees EXCEPT ![n] = 0]
    /\ UNCHANGED schema

BootStep(n) ==
    Boot(n) \/ AcquireLock(n) \/ LockTimesOut(n) \/ Migrated(n) \/ MigrateFails(n) \/ Wedge(n)

BootNext == \E n \in Node : BootStep(n) \/ Exit(n)

BootSpec == BootInit /\ [][BootNext]_bootVars

-----------------------------------------------------------------------------
(* "two sessions can both pass the IF NOT EXISTS existence check before    *)
(* either commits, then race on the catalog insert" (postgres.go:104-107): *)
(* what a migration found missing is still missing when it creates it.     *)
NoCatalogRace ==
    \A n \in Node : boot[n] = "migrate" /\ sees[n] < Build[n] => schema = sees[n]

(* A rolling deploy is order-safe (queries.go:42-45): whatever builds come *)
(* up, go down and come up again in whatever order, no node that polls is  *)
(* ever without a column it uses.                                          *)
SchemaSuffices == \A n \in Node : boot[n] = "up" => Build[n] <= schema

(* "instead of an indefinite hang" (postgres.go:152): a node does not wait *)
(* for ever behind one that is wedged, even if nobody ever restarts that.  *)
WaitEnds == \A n \in Node : []<>(boot[n] # "lock")
=============================================================================
