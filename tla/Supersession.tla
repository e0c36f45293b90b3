----------------------------- MODULE Supersession -----------------------------
(***************************************************************************)
(* What the weather_events table promises its readers, whatever the number *)
(* of ingest nodes and however their writes interleave, fail or are        *)
(* repeated.  It says nothing of transactions, batches or fallbacks: a     *)
(* write lands some messages and supersedes some others, time passes, and  *)
(* rows past their expiry are deleted.  UpsertBatch implements it.         *)
(*                                                                         *)
(* A CAP message never changes: NWS issues a new id for every              *)
(* continuation, extension or correction (collapse.go:4-5), so what a      *)
(* message says is a function of its id.                                   *)
(***************************************************************************)
EXTENDS Integers

CONSTANTS
    Id,         \* the CAP message ids (nws_id)
    Event,      \* Event[x]:   its event_type
    Refs,       \* Refs[x]:    the ids its references[] name
    Expires     \* Expires[x]: its expires_at

ASSUME MessageAssumption ==
    /\ Refs \in [Id -> SUBSET Id]
    /\ Expires \in [Id -> Int]

VARIABLES
    now,        \* the database clock
    events,     \* events[x]: the row of x, absent, live or retired
    landed,     \* history: every id some write has ever inserted
    superseded  \* history: every id whose row has ever been retired

avars == <<now, events, landed, superseded>>

RowState == {"absent", "live", "retired"}

(* y's message replaces x's: it references x and has the same event_type. *)
Supersedes(y, x) == x \in Refs[y] /\ Event[x] = Event[y]

(* The rows the snapshot query selects (activeAlertsSQL). *)
Active == {x \in Id : events[x] = "live" /\ Expires[x] > now}

-----------------------------------------------------------------------------
AInit ==
    /\ now = 0
    /\ events = [x \in Id |-> "absent"]
    /\ landed = {}
    /\ superseded = {}

(* One committed write: the messages S land, the rows R are retired.  A    *)
(* retired row stays retired when its message lands again, and only a      *)
(* message that has landed can retire another.                             *)
AWrite(S, R) ==
    /\ \A x \in R : /\ x \in S \/ events[x] # "absent"
                    /\ \E y \in landed \cup S : Supersedes(y, x)
    /\ events' = [x \in Id |-> IF x \in R THEN "retired"
                               ELSE IF x \in S /\ events[x] = "absent" THEN "live"
                               ELSE events[x]]
    /\ landed' = landed \cup S
    /\ superseded' = superseded \cup R
    /\ UNCHANGED now

(* Only rows past their expiry are ever deleted. *)
APurge ==
    /\ events' = [x \in Id |-> IF Expires[x] < now THEN "absent" ELSE events[x]]
    /\ UNCHANGED <<now, landed, superseded>>

ATick == now' = now + 1 /\ UNCHANGED <<events, landed, superseded>>

ANext == (\E S, R \in SUBSET Id : AWrite(S, R)) \/ APurge \/ ATick

ASpec == AInit /\ [][ANext]_avars

-----------------------------------------------------------------------------
(* Fail-safe of the fallback path (postgres.go:322-326): a row is retired  *)
(* only if a message that supersedes it has itself reached the table, so a *)
(* live warning is never dropped for a replacement that never arrived.     *)
RetiredHasLandedSuccessor ==
    \A x \in Id : events[x] = "retired" => \E y \in landed : Supersedes(y, x)

(* Decision 6 (queries.go:84-87) carried across the hard delete: once a    *)
(* message has been superseded the snapshot never shows it again, not even *)
(* when its row is purged and a stale payload inserts it once more.        *)
NoResurrection == superseded \cap Active = {}
=============================================================================
