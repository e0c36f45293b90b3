------------------------------ MODULE SnapshotRead ------------------------------
(***************************************************************************)
(* internal/store GetActiveAlerts and collapseByEvent, and the poller's    *)
(* filterAlertsByState: from the active rows of the table to the alerts of *)
(* the merged snapshot and of each state's.                                *)
(*                                                                         *)
(* The rows are those of one statement, so one moment of the table; they   *)
(* arrive one by one, newest effective_at first, in no particular order    *)
(* among equals, and the connection may be lost at any of them.            *)
(*                                                                         *)
(* A row is what is read of it: the entries of its VTEC parameter ("" a    *)
(* blank one, "no P-VTEC" one that does not parse, or else the event it    *)
(* names), and the states that its SAME codes and its area_desc name.      *)
(* What its parameters and its description say of a tornado, its bulletin, *)
(* is told when the row is scanned, and may be anything.  Storm motion is  *)
(* left out: a vector or none, the row stays.                              *)
(***************************************************************************)
EXTENDS Integers, Sequences, FiniteSets, TornadoDetect

CONSTANTS
    Rows,       \* records: id, vtec, type, area, effective, expires, same, desc
    Bulletins   \* records: detection, threat, lines, hazard, radar

ASSUME RowAssumption ==
    /\ IsFiniteSet(Rows)
    /\ \A a, b \in Rows : a.id = b.id => a = b
    /\ \A a \in Rows : a.id \in Int /\ a.effective \in Int /\ a.expires \in Int
    /\ \A a, b \in Rows : a.area = b.area => a.desc = b.desc

VARIABLES
    pc,
    active,    \* what activeAlertsSQL selected (history)
    rest,      \* those of them still to come
    lost,      \* the connection broke: rows.Err()
    scanned,   \* the row at hand, with its bulletin and detection, or NoRow
    alerts,    \* the rows appended
    k,         \* collapseByEvent: the next of alerts
    winners,   \* its map from collapse key to index in out
    out

vars == <<pc, active, rest, lost, scanned, alerts, k, winners, out>>

NoRow == [row |-> "none"]

TypeOK ==
    /\ pc \in {"idle", "reading", "collapsing", "done", "failed"}
    /\ active \in SUBSET Rows /\ rest \in SUBSET active
    /\ alerts \in Seq(Rows) /\ out \in Seq(Rows)
    /\ Len(alerts) + Cardinality(rest) + (IF scanned = NoRow THEN 0 ELSE 1)
           = Cardinality(active)
    /\ Len(out) < k
    /\ lost \in BOOLEAN
    /\ scanned # NoRow => scanned.row \in active \ rest
    /\ k \in 1 .. Len(alerts) + 1
    /\ \A key \in DOMAIN winners : winners[key] \in 1 .. Len(out)

NoWinners == [key \in {} |-> 0]

Init ==
    /\ pc = "idle" /\ active = {}
    /\ rest = {} /\ lost = FALSE /\ scanned = NoRow /\ alerts = <<>>
    /\ k = 1 /\ winners = NoWinners /\ out = <<>>

-----------------------------------------------------------------------------
(* One call; the next one starts from nothing again. *)
Query ==
    /\ pc = "idle" /\ pc' = "reading"
    /\ active' \in SUBSET Rows /\ rest' = active'
    /\ UNCHANGED <<lost, scanned, alerts, k, winners, out>>

(* ORDER BY effective_at DESC *)
Newest(a) == \A b \in rest : a.effective >= b.effective

(* rows.Next(), Scan and the derivations. *)
ScanRow ==
    /\ pc = "reading" /\ ~lost /\ scanned = NoRow
    /\ \E a \in rest, b \in Bulletins :
        /\ Newest(a)
        /\ scanned' = [row |-> a, bulletin |-> b, detection |-> DetectTornado(b)]
        /\ rest' = rest \ {a}
    /\ UNCHANGED <<pc, active, lost, alerts, k, winners, out>>

(* mutant: a row whose detection fails to parse is skipped *)
MutAppendRow ==
    /\ scanned # NoRow
    /\ alerts' = IF scanned.detection.drift THEN alerts ELSE Append(alerts, scanned.row)
    /\ scanned' = NoRow
    /\ UNCHANGED <<pc, active, rest, lost, k, winners, out>>

(* Whatever fails to parse is logged, and the row stays. *)
AppendRow ==
    /\ scanned # NoRow
    /\ alerts' = Append(alerts, scanned.row)
    /\ scanned' = NoRow
    /\ UNCHANGED <<pc, active, rest, lost, k, winners, out>>

(* Query or Scan returns an error. *)
ReadFails ==
    /\ pc = "reading" /\ scanned = NoRow
    /\ pc' = "failed"
    /\ UNCHANGED <<active, rest, lost, scanned, alerts, k, winners, out>>

ConnectionLost ==
    /\ pc = "reading" /\ ~lost /\ scanned = NoRow
    /\ lost' = TRUE
    /\ UNCHANGED <<pc, active, rest, scanned, alerts, k, winners, out>>

(* mutant: no rows.Err() after the loop *)
MutRowsEnd ==
    /\ pc = "reading" /\ scanned = NoRow /\ (lost \/ rest = {})
    /\ pc' = "collapsing"
    /\ UNCHANGED <<active, rest, lost, scanned, alerts, k, winners, out>>

(* rows.Next() is false at the end and at an error alike: rows.Err() tells *)
(* them apart.                                                             *)
RowsEnd ==
    /\ pc = "reading" /\ scanned = NoRow /\ (lost \/ rest = {})
    /\ pc' = IF lost THEN "failed" ELSE "collapsing"
    /\ UNCHANGED <<active, rest, lost, scanned, alerts, k, winners, out>>

-----------------------------------------------------------------------------
(* ParseVTEC and EventID: the first entry that parses as a P-VTEC. *)
eventID(a) ==
    LET parsed == SelectSeq(a.vtec, LAMBDA e : e \notin {"", "no P-VTEC"})
    IN IF parsed = <<>> THEN "" ELSE Head(parsed)

HasEvent(a) == eventID(a) # ""

CollapseKey(a) == <<eventID(a), a.type, a.area>>

(* mutant: the comparison of effective_at is turned around *)
MutEarlierIssuance(candidate, incumbent) ==
    \/ candidate.effective < incumbent.effective
    \/ /\ candidate.effective = incumbent.effective
       /\ candidate.id > incumbent.id

(* A total order of the rows of an event: effective_at, then expires_at,   *)
(* then nws_id.                                                            *)
laterIssuance(candidate, incumbent) ==
    \/ candidate.effective > incumbent.effective
    \/ /\ candidate.effective = incumbent.effective
       /\ \/ candidate.expires > incumbent.expires
          \/ candidate.expires = incumbent.expires /\ candidate.id > incumbent.id

(* One iteration: a row without a VTEC event passes, the first of its key  *)
(* is appended, a later issuance takes the place of the winner so far.     *)
Keep(a) ==
    /\ out' = Append(out, a)
    /\ winners' = IF ~HasEvent(a) THEN winners
                  ELSE [key \in DOMAIN winners \cup {CollapseKey(a)} |->
                           IF key = CollapseKey(a) THEN Len(out) + 1 ELSE winners[key]]

Contend(a, idx) ==
    /\ out' = IF laterIssuance(a, out[idx]) THEN [out EXCEPT ![idx] = a] ELSE out
    /\ UNCHANGED winners

CollapseRow ==
    /\ pc = "collapsing" /\ k <= Len(alerts)
    /\ LET a == alerts[k]
       IN IF HasEvent(a) /\ CollapseKey(a) \in DOMAIN winners
          THEN Contend(a, winners[CollapseKey(a)])
          ELSE Keep(a)
    /\ k' = k + 1
    /\ UNCHANGED <<pc, active, rest, lost, scanned, alerts>>

CollapseEnds ==
    /\ pc = "collapsing" /\ k > Len(alerts)
    /\ pc' = "done"
    /\ UNCHANGED <<active, rest, lost, scanned, alerts, k, winners, out>>

Next ==
    \/ Query \/ ScanRow \/ AppendRow \/ ReadFails \/ ConnectionLost \/ RowsEnd
    \/ CollapseRow \/ CollapseEnds

Spec == Init /\ [][Next]_vars

-----------------------------------------------------------------------------
(* mutant: no fallback to area_desc *)
MutSameOnly(a) == a.same

(* deriveStates: the SAME codes decide unless none of them names a state. *)
deriveStates(a) == IF a.same # {} THEN a.same ELSE a.desc

(* The slice of one state: out, row by row, of the rows that name it. *)
filterAlertsByState(state) ==
    LET kept[i \in 0 .. Len(out)] ==
            IF i = 0 THEN <<>>
            ELSE IF state \in deriveStates(out[i]) THEN Append(kept[i - 1], out[i])
            ELSE kept[i - 1]
    IN kept[Len(out)]

-----------------------------------------------------------------------------
(* b stands for a: it is a, or a later message of the same warning, of the *)
(* same product and footprint.                                             *)
StandsFor(b, a) ==
    \/ b = a
    \/ HasEvent(a) /\ CollapseKey(b) = CollapseKey(a) /\ laterIssuance(b, a)

Survivors == {a \in active : \A b \in active : StandsFor(b, a) => b = a}

(* A snapshot is exact: of the rows the query selected, every one without  *)
(* a VTEC event and the last of every event, each once.  So it is never    *)
(* truncated (postgres.go:765-769) and does not depend on the order in     *)
(* which equals arrived (collapse.go:67-68).                               *)
SnapshotIsExact ==
    pc = "done" => /\ {out[i] : i \in DOMAIN out} = Survivors
                   /\ Len(out) = Cardinality(Survivors)

NewestFirst(s) ==
    \A i, j \in DOMAIN s : i < j => s[i].effective >= s[j].effective

(* The collapse replaces rows in place, and yet the order the query asked  *)
(* for survives it (collapse.go:16-17).                                    *)
OrderSurvives == pc = "done" => NewestFirst(out)

(* No state is left unwarned by the collapse, by the slicing or by a       *)
(* message without usable SAME codes: each state in the area_desc of a     *)
(* selected row has the row, or a later message of its warning, in its     *)
(* slice, unless the SAME codes of one of these leave that state out.      *)
EveryStateIsWarned ==
    pc = "done" =>
        \A a \in active : \A state \in a.desc :
            (\A b \in active : StandsFor(b, a) /\ b.same # {} => state \in b.same) =>
                LET slice == filterAlertsByState(state)
                IN \E i \in DOMAIN slice : StandsFor(slice[i], a)

(* No row of the snapshot claims more of a tornado than its message does,  *)
(* whatever its sources say together (detection.go:22-39): confirmed only  *)
(* by a structured source; radar indicated only by one, or by a narrative  *)
(* that names radar as its source and has a tornado as its hazard that is  *)
(* not just possible; never against the word of the source with more       *)
(* authority; and no threat but the one its sources say of a tornado.      *)
(* (Nothing is said here of what a word of POSSIBLE should come to, nor of *)
(* a tornado named beside winds or gusts.)                                 *)
DetectionIsVouched ==
    scanned # NoRow => NoOverclaim(scanned.bulletin, scanned.detection)

(* And what the structured sources do say is kept: the level their word is *)
(* gets shown, with the threat they say; a word that is not known is       *)
(* reported as drift, and only such a word is (detection.go:149-152).      *)
WordIsKept ==
    scanned # NoRow => NoUnderclaim(scanned.bulletin, scanned.detection)
=============================================================================
