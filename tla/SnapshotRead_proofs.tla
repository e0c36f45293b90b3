--------------------------- MODULE SnapshotRead_proofs ---------------------------
(***************************************************************************)
(* Why a snapshot is exact, for any set of rows in any order the query may *)
(* deliver them: the loop invariant of collapseByEvent.  And why what it   *)
(* says of a tornado is vouched for, for any bulletin whatsoever.          *)
(***************************************************************************)
EXTENDS SnapshotRead, FiniteSetTheorems, SequenceTheorems, WellFoundedInduction, TLAPS

-----------------------------------------------------------------------------
(* The threat shown is what the sources say of it. *)
LEMMA ThreatIsSaid ==
    ASSUME NEW b
    PROVE  /\ Threat(b) # "BASE" => SaysThreat(b, Threat(b))
           /\ \A threat \in Threats : SaysThreat(b, threat) => Threat(b) = threat
<1> DEFINE param == firstParam(b.threat)
           tag == Tag(b.lines, "TORNADO DAMAGE THREAT")
<1>1. Threat(b) = IF param \in Threats THEN param ELSE IF tag \in Threats THEN tag ELSE "BASE"
  BY DEF Threat
<1>2. \A threat : SaysThreat(b, threat) <=> param = threat \/ (param \notin Threats /\ tag = threat)
  BY DEF SaysThreat
<1> HIDE DEF param, tag
<1>3. Threat(b) # "BASE" => SaysThreat(b, Threat(b))
  BY <1>1, <1>2
<1>4. ASSUME NEW threat \in Threats, SaysThreat(b, threat) PROVE Threat(b) = threat
  BY <1>1, <1>2, <1>4
<1> QED BY <1>3, <1>4

(* No bulletin is overstated, and none understated. *)
LEMMA DetectionIsFaithful ==
    ASSUME NEW b
    PROVE  NoOverclaim(b, DetectTornado(b)) /\ NoUnderclaim(b, DetectTornado(b))
<1> DEFINE token == firstParam(b.detection)
           tag == Tag(b.lines, "TORNADO")
           level == Level(b, token, tag)
           d == DetectTornado(b)
<1>1. /\ Word(b) = IF token # "" THEN token ELSE tag
      /\ Sources(b) = {token, tag}
  BY DEF Word, Sources
<1>2. d = IF Unknown(token) \/ (token \notin Levels /\ Unknown(tag)) THEN Drift
          ELSE IF level = "none" THEN NoDetection
          ELSE [level |-> level, threat |-> Threat(b), drift |-> FALSE]
  BY DEF DetectTornado
<1>3. level = IF token \in Levels THEN token
              ELSE IF tag \in Levels THEN tag
              ELSE IF isTornadoHazard(b.hazard) /\ b.radar THEN "RADAR INDICATED"
              ELSE "none"
  BY DEF Level
<1> HIDE DEF token, tag, level, d
<1>4. CASE Unknown(token) \/ (token \notin Levels /\ Unknown(tag))
  <2>1. d.level = "none" /\ d.threat = "BASE" /\ d.drift
    BY <1>2, <1>4 DEF Drift, NoDetection
  <2>2. Word(b) \notin Levels /\ \E word \in Sources(b) : Unknown(word)
    BY <1>1, <1>4 DEF Unknown, Levels
  <2> QED BY <2>1, <2>2 DEF NoOverclaim, NoUnderclaim, d
<1>5. CASE ~Unknown(token) /\ (token \in Levels \/ ~Unknown(tag)) /\ level = "none"
  <2>1. d.level = "none" /\ d.threat = "BASE" /\ ~d.drift
    BY <1>2, <1>5 DEF NoDetection
  <2>2. token \notin Levels /\ tag \notin Levels
    BY <1>3, <1>5 DEF Levels
  <2>3. Word(b) \notin Levels /\ ~Unknown(Word(b))
    BY <1>1, <1>5, <2>2 DEF Unknown
  <2> QED BY <2>1, <2>3 DEF NoOverclaim, NoUnderclaim, d
<1>6. CASE ~Unknown(token) /\ (token \in Levels \/ ~Unknown(tag)) /\ level # "none"
  <2>1. d.level = level /\ d.threat = Threat(b) /\ ~d.drift
    BY <1>2, <1>6
  <2>2. /\ d.threat # "BASE" => SaysThreat(b, d.threat)
        /\ \A threat \in Threats : SaysThreat(b, threat) => d.threat = threat
    BY <2>1, ThreatIsSaid
  <2>3. Word(b) \in Levels => level = Word(b)
    BY <1>1, <1>3, <1>6 DEF Unknown, Levels
  <2>4. ~Unknown(Word(b)) /\ (Word(b) \notin {"", "POSSIBLE"} => level = Word(b))
    BY <1>1, <1>3, <1>6, <2>3 DEF Unknown, Levels
  <2>5. /\ level = "OBSERVED" => level \in Sources(b)
        /\ level = "RADAR INDICATED" => level \in Sources(b) \/ Narrated(b)
    BY <1>1, <1>3, <1>6 DEF Levels, Narrated, isTornadoHazard, Secondary
  <2>6. NoOverclaim(b, d)
    BY <1>6, <2>1, <2>2, <2>4, <2>5 DEF NoOverclaim
  <2>7. NoUnderclaim(b, d)
    BY <2>1, <2>2, <2>3, <2>4 DEF NoUnderclaim
  <2> QED BY <2>6, <2>7 DEF d
<1> QED BY <1>4, <1>5, <1>6

(* The detection of the row at hand is that of its bulletin. *)
Derived == scanned # NoRow => scanned.detection = DetectTornado(scanned.bulletin)

LEMMA DerivedHolds == Spec => []Derived
<1>1. Init => Derived
  BY DEF Init, Derived
<1>2. Derived /\ [Next]_vars => Derived'
  <2> SUFFICES ASSUME Derived, [Next]_vars PROVE Derived'
    OBVIOUS
  <2>1. CASE ScanRow
    <3>1. PICK a \in rest, b \in Bulletins :
              scanned' = [row |-> a, bulletin |-> b, detection |-> DetectTornado(b)]
      BY <2>1 DEF ScanRow
    <3> QED BY <3>1 DEF Derived
  <2>2. CASE AppendRow
    BY <2>2 DEF AppendRow, Derived
  <2>3. CASE ~ScanRow /\ ~AppendRow
    <3>1. UNCHANGED scanned
      BY <2>3 DEF Next, Query, ReadFails, ConnectionLost, RowsEnd, CollapseRow,
         CollapseEnds, vars
    <3> QED BY <3>1 DEF Derived
  <2> QED BY <2>1, <2>2, <2>3
<1> QED BY <1>1, <1>2, PTL DEF Spec

(* Whatever a bulletin says, and in whatever combination, no row of the    *)
(* snapshot has a level or a threat that no source of it says, nor one     *)
(* against a source with more authority (detection.go:22-39).              *)
THEOREM NothingIsOverclaimed == Spec => []DetectionIsVouched
<1>1. Derived => DetectionIsVouched
  BY DetectionIsFaithful DEF Derived, DetectionIsVouched
<1> QED BY <1>1, DerivedHolds, PTL

(* Nor is the level or the threat lost that its structured sources say,    *)
(* nor a token that is new (detection.go:149-152).                         *)
THEOREM NothingIsUnderclaimed == Spec => []WordIsKept
<1>1. Derived => WordIsKept
  BY DetectionIsFaithful DEF Derived, WordIsKept
<1> QED BY <1>1, DerivedHolds, PTL

-----------------------------------------------------------------------------
(* laterIssuance is a strict total order of the rows. *)
LEMMA LaterIsTotal ==
    ASSUME NEW a \in Rows, NEW b \in Rows
    PROVE  /\ a # b => laterIssuance(a, b) \/ laterIssuance(b, a)
           /\ ~(laterIssuance(a, b) /\ laterIssuance(b, a))
           /\ laterIssuance(a, b) => a.effective >= b.effective
<1>1. /\ a.id \in Int /\ a.effective \in Int /\ a.expires \in Int
      /\ b.id \in Int /\ b.effective \in Int /\ b.expires \in Int
      /\ a.id = b.id => a = b
  BY RowAssumption
<1> QED BY <1>1 DEF laterIssuance

LEMMA LaterIsTransitive ==
    ASSUME NEW a \in Rows, NEW b \in Rows, NEW c \in Rows,
           laterIssuance(a, b), laterIssuance(b, c)
    PROVE  laterIssuance(a, c)
<1>1. /\ a.id \in Int /\ a.effective \in Int /\ a.expires \in Int
      /\ b.id \in Int /\ b.effective \in Int /\ b.expires \in Int
      /\ c.id \in Int /\ c.effective \in Int /\ c.expires \in Int
  BY RowAssumption
<1> QED BY <1>1 DEF laterIssuance

-----------------------------------------------------------------------------
(* The loop over the rows. *)
Types ==
    /\ pc \in {"idle", "reading", "collapsing", "done", "failed"}
    /\ active \in SUBSET Rows /\ rest \in SUBSET active
    /\ lost \in BOOLEAN
    /\ alerts \in Seq(Rows) /\ out \in Seq(Rows)
    /\ k \in 1 .. Len(alerts) + 1

(* Only a call that is reading has a row at hand, and none has collapsed a *)
(* row before it has read them all.                                        *)
Phases ==
    /\ scanned # NoRow => pc = "reading" /\ scanned.row \in active \ rest
    /\ pc \in {"idle", "reading"} => k = 1 /\ out = <<>> /\ winners = NoWinners
    /\ pc = "idle" => alerts = <<>> /\ scanned = NoRow
    /\ pc \in {"collapsing", "done"} => rest = {} /\ scanned = NoRow
    /\ pc = "done" => k = Len(alerts) + 1

(* Every selected row is still to come, at hand or appended, and that once.*)
NoneLost ==
    /\ \A i \in 1 .. Len(alerts) : alerts[i] \in active \ rest
    /\ scanned # NoRow => \A i \in 1 .. Len(alerts) : alerts[i] # scanned.row
    /\ \A i, j \in 1 .. Len(alerts) : alerts[i] = alerts[j] => i = j
    /\ \A a \in active : \/ a \in rest
                         \/ scanned # NoRow /\ a = scanned.row
                         \/ \E i \in 1 .. Len(alerts) : a = alerts[i]

(* They come newest first. *)
Sorted ==
    /\ \A i, j \in 1 .. Len(alerts) : i < j => alerts[i].effective >= alerts[j].effective
    /\ \A i \in 1 .. Len(alerts), b \in rest : alerts[i].effective >= b.effective
    /\ scanned # NoRow =>
           /\ \A i \in 1 .. Len(alerts) : alerts[i].effective >= scanned.row.effective
           /\ \A b \in rest : scanned.row.effective >= b.effective

ReadInv == Types /\ Phases /\ NoneLost /\ Sorted

(* The loop over alerts: what has been kept are rows that were read, each  *)
(* once; the winner of a key is the last of its rows so far.               *)
KeptOnce ==
    /\ \A i \in 1 .. Len(out) : \E j \in 1 .. k - 1 : out[i] = alerts[j]
    /\ \A i, j \in 1 .. Len(out) : out[i] = out[j] => i = j

Beaten(a) ==
    /\ CollapseKey(a) \in DOMAIN winners
    /\ LET w == out[winners[CollapseKey(a)]] IN w = a \/ laterIssuance(w, a)

NoneForgotten ==
    \A j \in 1 .. k - 1 : IF ~HasEvent(alerts[j])
                         THEN \E i \in 1 .. Len(out) : out[i] = alerts[j]
                         ELSE Beaten(alerts[j])

WinnersIndexOut ==
    /\ \A key \in DOMAIN winners :
           /\ winners[key] \in 1 .. Len(out)
           /\ HasEvent(out[winners[key]]) /\ CollapseKey(out[winners[key]]) = key
    /\ \A i \in 1 .. Len(out) : HasEvent(out[i]) =>
           CollapseKey(out[i]) \in DOMAIN winners /\ winners[CollapseKey(out[i])] = i

StaysSorted ==
    /\ \A i, j \in 1 .. Len(out) : i < j => out[i].effective >= out[j].effective
    /\ \A i \in 1 .. Len(out), j \in k .. Len(alerts) : out[i].effective >= alerts[j].effective

CollapseInv == KeptOnce /\ NoneForgotten /\ WinnersIndexOut /\ StaysSorted

LEMMA ReadInvInit == Init => ReadInv /\ CollapseInv
<1> SUFFICES ASSUME Init PROVE ReadInv /\ CollapseInv
  OBVIOUS
<1>1. /\ pc = "idle" /\ active = {} /\ rest = {} /\ scanned = NoRow /\ alerts = <<>> /\ k = 1
      /\ winners = NoWinners /\ out = <<>> /\ Len(alerts) = 0 /\ Len(out) = 0
  BY DEF Init
<1>2. lost \in BOOLEAN
  BY DEF Init
<1>3. DOMAIN winners = {}
  BY <1>1 DEF NoWinners
<1>4. ReadInv
  BY <1>1, <1>2 DEF ReadInv, Types, Phases, NoneLost, Sorted
<1>5. CollapseInv
  BY <1>1, <1>3 DEF CollapseInv, KeptOnce, NoneForgotten, WinnersIndexOut, StaysSorted
<1> QED BY <1>4, <1>5

(* Reading keeps what reading has promised. *)
LEMMA ReadInvNext ==
    ASSUME ReadInv, WinnersIndexOut, [Next]_vars
    PROVE  ReadInv'
<1> USE DEF ReadInv
<1>1. CASE Query
  <2>1. /\ pc = "idle" /\ pc' = "reading" /\ active' \in SUBSET Rows /\ rest' = active'
        /\ UNCHANGED <<lost, scanned, alerts, k, winners, out>>
    BY <1>1 DEF Query
  <2>2. alerts = <<>> /\ scanned = NoRow /\ Len(alerts) = 0
    BY <2>1 DEF Phases
  <2> QED BY <2>1, <2>2 DEF Types, Phases, NoneLost, Sorted
<1>2. CASE ScanRow
  <2>1. PICK a \in rest, b \in Bulletins :
            /\ pc = "reading" /\ ~lost /\ scanned = NoRow /\ Newest(a)
            /\ scanned' = [row |-> a, bulletin |-> b, detection |-> DetectTornado(b)]
            /\ rest' = rest \ {a}
            /\ UNCHANGED <<pc, active, lost, alerts, k, winners, out>>
    BY <1>2 DEF ScanRow
  <2>2. scanned'.row = a /\ a \in active /\ a \in Rows /\ scanned' # NoRow
    <3>1. DOMAIN scanned' # DOMAIN NoRow
      BY <2>1 DEF NoRow
    <3> QED BY <2>1, <3>1 DEF Types
  <2>3. Types' /\ Phases'
    BY <2>1, <2>2 DEF Types, Phases
  <2>4. NoneLost'
    BY <2>1, <2>2 DEF Types, NoneLost
  <2>5. Sorted'
    BY <2>1, <2>2 DEF Types, Sorted, Newest
  <2> QED BY <2>3, <2>4, <2>5
<1>3. CASE AppendRow
  <2> DEFINE a == scanned.row
             n == Len(alerts)
  <2>1. /\ scanned # NoRow /\ alerts' = Append(alerts, a) /\ scanned' = NoRow
        /\ UNCHANGED <<pc, active, rest, lost, k, winners, out>>
    BY <1>3 DEF AppendRow
  <2>2. a \in active \ rest /\ a \in Rows /\ pc = "reading" /\ k = 1
    BY <2>1 DEF Phases, Types
  <2> HIDE DEF a
  <2>3. /\ n \in Nat /\ alerts' \in Seq(Rows) /\ Len(alerts') = n + 1 /\ alerts'[n + 1] = a
        /\ \A i \in 1 .. n : alerts'[i] = alerts[i]
    BY <2>1, <2>2 DEF Types
  <2>4. \A i \in 1 .. n + 1 : i \in 1 .. n \/ i = n + 1
    BY <2>3
  <2>5. Types' /\ Phases'
    BY <2>1, <2>2, <2>3 DEF Types, Phases
  <2>6. NoneLost'
    BY <2>1, <2>2, <2>3, <2>4 DEF NoneLost, a
  <2>7. Sorted'
    <3>1. \A i \in 1 .. n : alerts[i].effective >= a.effective
      BY <2>1 DEF Sorted, a
    <3>2. \A b \in rest : a.effective >= b.effective
      BY <2>1 DEF Sorted, a
    <3> HIDE DEF n
    <3>3. \A i, j \in 1 .. n + 1 : i < j => i \in 1 .. n
      BY <2>3 DEF n
    <3> QED BY <2>1, <2>3, <2>4, <3>1, <3>2, <3>3 DEF Sorted, n
  <2> QED BY <2>5, <2>6, <2>7
<1>4. CASE ReadFails \/ ConnectionLost \/ RowsEnd \/ CollapseEnds
  <2>1. UNCHANGED <<active, rest, scanned, alerts, k, winners, out>>
    BY <1>4 DEF ReadFails, ConnectionLost, RowsEnd, CollapseEnds
  <2>2. lost' \in BOOLEAN
    <3>1. lost' = lost \/ lost' = TRUE
      BY <1>4 DEF ReadFails, ConnectionLost, RowsEnd, CollapseEnds
    <3> QED BY <3>1 DEF Types
  <2>3. pc' \in {"reading", "collapsing", "done", "failed"}
    BY <1>4 DEF ReadFails, ConnectionLost, RowsEnd, CollapseEnds
  <2>4. Types'
    BY <2>1, <2>2, <2>3 DEF Types
  <2>5. Phases'
    BY <1>4, <2>1 DEF ReadFails, ConnectionLost, RowsEnd, CollapseEnds, Phases, Types
  <2> QED BY <2>1, <2>4, <2>5 DEF NoneLost, Sorted
<1>5. CASE CollapseRow
  <2>1. /\ pc = "collapsing" /\ k <= Len(alerts) /\ k' = k + 1
        /\ UNCHANGED <<pc, active, rest, lost, scanned, alerts>>
    BY <1>5 DEF CollapseRow
  <2>2. alerts[k] \in Rows
    BY <2>1 DEF Types
  <2>3. out' \in Seq(Rows)
    <3>1. \/ out' = Append(out, alerts[k]) \/ out' = out
          \/ \E idx \in 1 .. Len(out) : out' = [out EXCEPT ![idx] = alerts[k]]
      BY <1>5 DEF CollapseRow, Keep, Contend, WinnersIndexOut
    <3>2. ASSUME NEW idx \in 1 .. Len(out) PROVE [out EXCEPT ![idx] = alerts[k]] \in Seq(Rows)
      BY <2>2, ExceptSeq DEF Types
    <3>3. out \in Seq(Rows) /\ Append(out, alerts[k]) \in Seq(Rows)
      BY <2>2 DEF Types
    <3> QED BY <3>1, <3>2, <3>3
  <2> QED BY <2>1, <2>3 DEF Types, Phases, NoneLost, Sorted
<1>6. CASE UNCHANGED vars
  <2>1. UNCHANGED <<pc, active, rest, lost, scanned, alerts, k, winners, out>>
    BY <1>6 DEF vars
  <2>2. Types' /\ Phases'
    BY <2>1 DEF Types, Phases
  <2>3. NoneLost' /\ Sorted'
    BY <2>1 DEF NoneLost, Sorted
  <2> QED BY <2>2, <2>3
<1> QED BY <1>1, <1>2, <1>3, <1>4, <1>5, <1>6 DEF Next

(* The row that is collapsed is none of those kept, nor newer than any. *)
LEMMA NextRowIsNew ==
    ASSUME ReadInv, CollapseInv, k <= Len(alerts)
    PROVE  /\ alerts[k] \in Rows /\ k \in Nat /\ k >= 1
           /\ \A i \in 1 .. Len(out) : out[i] \in Rows /\ out[i] # alerts[k]
           /\ \A j \in 1 .. k - 1 : alerts[j] \in Rows
           /\ \A i \in 1 .. Len(out) : out[i].effective >= alerts[k].effective
  BY DEF ReadInv, CollapseInv, Types, NoneLost, KeptOnce, StaysSorted

LEMMA RowsAreDated == \A a \in Rows : a.effective \in Int
  BY RowAssumption

(* The first of its key, or a row without a VTEC event. *)
LEMMA KeepKeeps ==
    ASSUME ReadInv, CollapseInv, k <= Len(alerts), k' = k + 1, alerts' = alerts,
           Keep(alerts[k]),
           ~HasEvent(alerts[k]) \/ CollapseKey(alerts[k]) \notin DOMAIN winners
    PROVE  CollapseInv'
<1> DEFINE a == alerts[k]
           m == Len(out)
<1>1. /\ a \in Rows /\ k \in Nat /\ k >= 1
      /\ \A i \in 1 .. m : out[i] \in Rows /\ out[i] # a
      /\ \A i \in 1 .. m : out[i].effective >= a.effective
  BY NextRowIsNew
<1>2. /\ m \in Nat /\ Len(out') = m + 1 /\ out'[m + 1] = a
      /\ \A i \in 1 .. m : out'[i] = out[i]
  BY <1>1 DEF Keep, ReadInv, Types
<1>3. \A i \in 1 .. m + 1 : i \in 1 .. m \/ i = m + 1
  BY <1>2
<1>4. \A j \in 1 .. k' - 1 : j \in 1 .. k - 1 \/ j = k
  BY <1>1
<1>5. k \in 1 .. k' - 1 /\ \A j \in 1 .. k - 1 : j \in 1 .. k' - 1
  BY <1>1
<1>6. winners' = IF ~HasEvent(a) THEN winners
                 ELSE [key \in DOMAIN winners \cup {CollapseKey(a)} |->
                           IF key = CollapseKey(a) THEN m + 1 ELSE winners[key]]
  BY DEF Keep
<1>7. \A key \in DOMAIN winners : key \in DOMAIN winners' /\ winners'[key] = winners[key]
  BY <1>6
<1>8. HasEvent(a) => CollapseKey(a) \in DOMAIN winners' /\ winners'[CollapseKey(a)] = m + 1
  BY <1>6
<1>9. \A key \in DOMAIN winners' :
          key \in DOMAIN winners \/ (HasEvent(a) /\ key = CollapseKey(a))
  BY <1>6
<1>10. \A key \in DOMAIN winners : winners[key] \in 1 .. m
  BY DEF CollapseInv, WinnersIndexOut
<1> HIDE DEF a, m
<1>11. KeptOnce'
  <2>1. \A i \in 1 .. m : \E j \in 1 .. k - 1 : out[i] = alerts[j]
    BY DEF CollapseInv, KeptOnce, m
  <2>2. \A i \in 1 .. m + 1 : \E j \in 1 .. k' - 1 : out'[i] = alerts'[j]
    <3>1. alerts' = alerts /\ k \in 1 .. k' - 1 /\ out'[m + 1] = alerts[k]
      BY <1>2, <1>5 DEF a
    <3>2. \A i \in 1 .. m : \E j \in 1 .. k' - 1 : out'[i] = alerts[j]
      BY <1>2, <1>5, <2>1
    <3> QED BY <1>3, <3>1, <3>2
  <2>3. \A i, j \in 1 .. m : out[i] = out[j] => i = j
    BY DEF CollapseInv, KeptOnce, m
  <2>4. \A i, j \in 1 .. m + 1 : out'[i] = out'[j] => i = j
    <3>1. \A i \in 1 .. m : out'[i] # out'[m + 1]
      BY <1>1, <1>2
    <3>2. \A i, j \in 1 .. m : out'[i] = out'[j] => i = j
      BY <1>2, <2>3
    <3> QED BY <1>3, <3>1, <3>2
  <2> QED BY <1>2, <2>2, <2>4 DEF KeptOnce
<1>12. NoneForgotten'
  <2>1. ASSUME NEW j \in 1 .. k - 1, ~HasEvent(alerts[j])
        PROVE  \E i \in 1 .. Len(out') : out'[i] = alerts[j]
    <3>1. PICK i \in 1 .. m : out[i] = alerts[j]
      BY <2>1 DEF CollapseInv, NoneForgotten, m
    <3> QED BY <1>2, <3>1
  <2>2. ASSUME NEW j \in 1 .. k - 1, HasEvent(alerts[j]) PROVE Beaten(alerts[j])'
    <3>1. Beaten(alerts[j])
      BY <2>2 DEF CollapseInv, NoneForgotten
    <3>2. out'[winners'[CollapseKey(alerts[j])]] = out[winners[CollapseKey(alerts[j])]]
      BY <1>2, <1>7, <1>10, <3>1 DEF Beaten
    <3> QED BY <1>7, <3>1, <3>2 DEF Beaten, CollapseKey, laterIssuance
  <2>3. ASSUME NEW j \in 1 .. k' - 1, j = k, ~HasEvent(alerts[j])
        PROVE  \E i \in 1 .. Len(out') : out'[i] = alerts[j]
    BY <1>2, <2>3 DEF a
  <2>4. ASSUME NEW j \in 1 .. k' - 1, j = k, HasEvent(alerts[j]) PROVE Beaten(alerts[j])'
    <3>1. CollapseKey(alerts[j])' = CollapseKey(alerts[j]) /\ alerts[j] = a
      BY <2>4 DEF a
    <3> QED BY <1>2, <1>8, <2>4, <3>1 DEF Beaten
  <2>5. \A j \in 1 .. k' - 1 : HasEvent(alerts[j])' <=> HasEvent(alerts[j])
    OBVIOUS
  <2> QED BY <1>4, <2>1, <2>2, <2>3, <2>4, <2>5 DEF NoneForgotten
<1>13. WinnersIndexOut'
  <2>1. \A key \in DOMAIN winners' :
           /\ winners'[key] \in 1 .. m + 1
           /\ HasEvent(out'[winners'[key]]) /\ CollapseKey(out'[winners'[key]]) = key
    BY <1>2, <1>7, <1>8, <1>9, <1>10 DEF CollapseInv, WinnersIndexOut
  <2>2. \A i \in 1 .. m + 1 : HasEvent(out'[i]) =>
           CollapseKey(out'[i]) \in DOMAIN winners' /\ winners'[CollapseKey(out'[i])] = i
    BY <1>2, <1>3, <1>7, <1>8 DEF CollapseInv, WinnersIndexOut, m
  <2> QED BY <1>2, <2>1, <2>2 DEF WinnersIndexOut, HasEvent, CollapseKey
<1>14. StaysSorted'
  <2>1. \A j \in k + 1 .. Len(alerts) : a.effective >= alerts[j].effective
    BY <1>1 DEF ReadInv, Types, Sorted, a
  <2>2. \A i \in 1 .. m : \A j \in k + 1 .. Len(alerts) : out[i].effective >= alerts[j].effective
    BY <1>1 DEF ReadInv, Types, CollapseInv, StaysSorted, m
  <2>3. \A i, j \in 1 .. m : i < j => out[i].effective >= out[j].effective
    BY DEF CollapseInv, StaysSorted, m
  <2>4. \A i, j \in 1 .. m + 1 : i < j => i \in 1 .. m
    BY <1>2
  <2>5. \A i, j \in 1 .. m + 1 : i < j => out'[i].effective >= out'[j].effective
    BY <1>1, <1>2, <1>3, <2>3, <2>4
  <2>6. \A i \in 1 .. m + 1 : \A j \in k + 1 .. Len(alerts) : out'[i].effective >= alerts[j].effective
    BY <1>2, <1>3, <2>1, <2>2
  <2> QED BY <1>2, <2>5, <2>6 DEF StaysSorted
<1> QED BY <1>11, <1>12, <1>13, <1>14 DEF CollapseInv

(* A further row of an event: it takes the winner's place or leaves it. *)
LEMMA ContendKeeps ==
    ASSUME ReadInv, CollapseInv, k <= Len(alerts), k' = k + 1, alerts' = alerts,
           HasEvent(alerts[k]), CollapseKey(alerts[k]) \in DOMAIN winners,
           Contend(alerts[k], winners[CollapseKey(alerts[k])])
    PROVE  CollapseInv'
<1> DEFINE a == alerts[k]
           m == Len(out)
           idx == winners[CollapseKey(a)]
           w == out[idx]
<1>1. /\ a \in Rows /\ k \in Nat /\ k >= 1 /\ a.effective \in Int
      /\ \A i \in 1 .. m : out[i] \in Rows /\ out[i] # a /\ out[i].effective \in Int
      /\ \A i \in 1 .. m : out[i].effective >= a.effective
      /\ \A j \in 1 .. k - 1 : alerts[j] \in Rows
  BY NextRowIsNew, RowsAreDated
<1>2. /\ idx \in 1 .. m /\ HasEvent(w) /\ CollapseKey(w) = CollapseKey(a)
      /\ HasEvent(a) /\ CollapseKey(a) \in DOMAIN winners
  BY DEF CollapseInv, WinnersIndexOut
<1>3. winners' = winners /\ out' = IF laterIssuance(a, w) THEN [out EXCEPT ![idx] = a] ELSE out
  BY DEF Contend
<1>4. \A j \in 1 .. k' - 1 : j \in 1 .. k - 1 \/ j = k
  BY <1>1
<1>5. k \in 1 .. k' - 1 /\ \A j \in 1 .. k - 1 : j \in 1 .. k' - 1
  BY <1>1
<1>6. /\ \A i \in 1 .. m : \E j \in 1 .. k - 1 : out[i] = alerts[j]
      /\ \A i, j \in 1 .. m : out[i] = out[j] => i = j
  BY DEF CollapseInv, KeptOnce
<1>7. \A j \in 1 .. k' - 1 :
          /\ HasEvent(alerts[j])' <=> HasEvent(alerts[j])
          /\ CollapseKey(alerts[j])' = CollapseKey(alerts[j])
  OBVIOUS
<1>8. CASE laterIssuance(a, w)
  <2>1. /\ Len(out') = m /\ out'[idx] = a
        /\ \A i \in 1 .. m : i # idx => out'[i] = out[i]
    <3>1. out \in Seq(Rows)
      BY DEF ReadInv, Types
    <3> HIDE DEF idx, a
    <3> QED BY <1>1, <1>2, <1>3, <1>8, <3>1, ExceptSeq DEF m
  <2>2. a.effective = w.effective
    BY <1>1, <1>2, <1>8, LaterIsTotal
  <2> HIDE DEF a, m, idx, w
  <2>3. KeptOnce'
    <3>1. \A i \in 1 .. m : \E j \in 1 .. k' - 1 : out'[i] = alerts'[j]
      BY <1>5, <1>6, <2>1 DEF a
    <3>2. \A i, j \in 1 .. m : out'[i] = out'[j] => i = j
      BY <1>1, <1>6, <2>1
    <3> QED BY <2>1, <3>1, <3>2 DEF KeptOnce
  <2>4. NoneForgotten'
    <3>1. ASSUME NEW j \in 1 .. k - 1, ~HasEvent(alerts[j])
          PROVE  \E i \in 1 .. Len(out') : out'[i] = alerts[j]
      <4>1. PICK i \in 1 .. m : out[i] = alerts[j]
        BY <3>1 DEF CollapseInv, NoneForgotten, m
      <4>2. i # idx
        BY <1>2, <3>1, <4>1 DEF w
      <4> QED BY <2>1, <4>1, <4>2
    <3>2. ASSUME NEW j \in 1 .. k - 1, HasEvent(alerts[j]) PROVE Beaten(alerts[j])'
      <4> DEFINE key == CollapseKey(alerts[j])
      <4>1. /\ key \in DOMAIN winners /\ winners[key] \in 1 .. m
            /\ CollapseKey(out[winners[key]]) = key
            /\ out[winners[key]] = alerts[j] \/ laterIssuance(out[winners[key]], alerts[j])
        BY <3>2 DEF CollapseInv, NoneForgotten, Beaten, WinnersIndexOut, m
      <4>2. CASE key = CollapseKey(a)
        <5>1. out'[winners[key]] = a /\ out[winners[key]] = w
          BY <2>1, <4>2 DEF idx, w
        <5>2. laterIssuance(a, alerts[j])
          BY <1>1, <1>2, <1>8, <4>1, <5>1, LaterIsTransitive DEF w
        <5> QED BY <1>3, <1>5, <1>7, <4>1, <5>1, <5>2 DEF Beaten
      <4>3. CASE key # CollapseKey(a)
        <5>1. out'[winners[key]] = out[winners[key]]
          BY <1>2, <2>1, <4>1, <4>3 DEF w
        <5> QED BY <1>3, <1>5, <1>7, <4>1, <5>1 DEF Beaten
      <4> QED BY <4>2, <4>3
    <3>3. ASSUME NEW j \in 1 .. k' - 1, j = k PROVE HasEvent(alerts[j]) /\ Beaten(alerts[j])'
      <4>1. out'[winners[CollapseKey(alerts[j])]] = alerts[j]
        BY <2>1, <3>3 DEF a, idx
      <4> QED BY <1>2, <1>3, <1>7, <3>3, <4>1 DEF Beaten, a
    <3> QED BY <1>4, <1>7, <3>1, <3>2, <3>3 DEF NoneForgotten
  <2>5. WinnersIndexOut'
    <3>1. ASSUME NEW key \in DOMAIN winners
          PROVE  /\ winners[key] \in 1 .. m
                 /\ HasEvent(out'[winners[key]]) /\ CollapseKey(out'[winners[key]]) = key
      BY <1>2, <2>1 DEF CollapseInv, WinnersIndexOut, m, w
    <3>2. ASSUME NEW i \in 1 .. m, HasEvent(out'[i])
          PROVE  CollapseKey(out'[i]) \in DOMAIN winners /\ winners[CollapseKey(out'[i])] = i
      <4>1. CASE i = idx
        BY <1>2, <2>1, <4>1 DEF idx
      <4>2. CASE i # idx
        BY <2>1, <3>2, <4>2 DEF CollapseInv, WinnersIndexOut, m
      <4> QED BY <4>1, <4>2
    <3> QED BY <1>3, <2>1, <3>1, <3>2 DEF WinnersIndexOut
  <2>6. StaysSorted'
    <3>1. \A i \in 1 .. m : out'[i].effective = out[i].effective
      BY <2>1, <2>2 DEF w
    <3>2. k' .. Len(alerts) \subseteq k .. Len(alerts)
      BY <1>1 DEF ReadInv, Types
    <3> QED BY <2>1, <3>1, <3>2 DEF CollapseInv, StaysSorted, m
  <2> QED BY <2>3, <2>4, <2>5, <2>6 DEF CollapseInv
<1>9. CASE ~laterIssuance(a, w)
  <2>1. out' = out /\ laterIssuance(w, a)
    BY <1>1, <1>2, <1>3, <1>9, LaterIsTotal
  <2> HIDE DEF a, m, idx, w
  <2>2. KeptOnce'
    BY <1>5, <1>6, <2>1 DEF KeptOnce, m
  <2>3. NoneForgotten'
    <3>1. ASSUME NEW j \in 1 .. k - 1, ~HasEvent(alerts[j])
          PROVE  \E i \in 1 .. Len(out') : out'[i] = alerts[j]
      BY <2>1, <3>1 DEF CollapseInv, NoneForgotten
    <3>2. ASSUME NEW j \in 1 .. k - 1, HasEvent(alerts[j]) PROVE Beaten(alerts[j])'
      BY <1>3, <1>5, <1>7, <2>1, <3>2 DEF CollapseInv, NoneForgotten, Beaten
    <3>3. ASSUME NEW j \in 1 .. k' - 1, j = k PROVE HasEvent(alerts[j]) /\ Beaten(alerts[j])'
      BY <1>2, <1>3, <1>7, <2>1, <3>3 DEF Beaten, a, w, idx
    <3> QED BY <1>4, <1>7, <3>1, <3>2, <3>3 DEF NoneForgotten
  <2>4. WinnersIndexOut'
    BY <1>3, <2>1 DEF CollapseInv, WinnersIndexOut
  <2>5. StaysSorted'
    <3>1. k' .. Len(alerts) \subseteq k .. Len(alerts)
      BY <1>1 DEF ReadInv, Types
    <3> QED BY <2>1, <3>1 DEF CollapseInv, StaysSorted
  <2> QED BY <2>2, <2>3, <2>4, <2>5 DEF CollapseInv
<1> QED BY <1>8, <1>9

LEMMA CollapseInvNext ==
    ASSUME ReadInv, CollapseInv, [Next]_vars
    PROVE  CollapseInv'
<1>1. CASE CollapseRow
  <2>1. k <= Len(alerts) /\ k' = k + 1 /\ alerts' = alerts
    BY <1>1 DEF CollapseRow
  <2>2. CASE HasEvent(alerts[k]) /\ CollapseKey(alerts[k]) \in DOMAIN winners
    BY <1>1, <2>1, <2>2, ContendKeeps DEF CollapseRow
  <2>3. CASE ~(HasEvent(alerts[k]) /\ CollapseKey(alerts[k]) \in DOMAIN winners)
    BY <1>1, <2>1, <2>3, KeepKeeps DEF CollapseRow
  <2> QED BY <2>2, <2>3
<1>2. CASE AppendRow
  <2>1. k = 1 /\ out = <<>> /\ winners = NoWinners /\ UNCHANGED <<k, out, winners>>
    BY <1>2 DEF AppendRow, ReadInv, Phases
  <2>2. Len(out') = 0 /\ DOMAIN winners' = {} /\ k' = 1
    BY <2>1 DEF NoWinners
  <2> QED BY <2>2 DEF CollapseInv, KeptOnce, NoneForgotten, WinnersIndexOut, StaysSorted
<1>3. CASE ~CollapseRow /\ ~AppendRow
  <2>1. UNCHANGED <<alerts, k, winners, out>>
    BY <1>3 DEF Next, Query, ScanRow, ReadFails, ConnectionLost, RowsEnd, CollapseEnds, vars
  <2> QED BY <2>1 DEF CollapseInv, KeptOnce, NoneForgotten, Beaten, WinnersIndexOut, StaysSorted
<1> QED BY <1>1, <1>2, <1>3

LEMMA LoopsHold == Spec => [](ReadInv /\ CollapseInv)
<1>1. Init => ReadInv /\ CollapseInv
  BY ReadInvInit
<1>2. ReadInv /\ CollapseInv /\ [Next]_vars => (ReadInv /\ CollapseInv)'
  BY ReadInvNext, CollapseInvNext DEF CollapseInv
<1> QED BY <1>1, <1>2, PTL DEF Spec

-----------------------------------------------------------------------------
(* When all rows are collapsed, what is kept are the survivors. *)
LEMMA KeptAreSurvivors ==
    ASSUME ReadInv, CollapseInv, pc = "done"
    PROVE  {out[i] : i \in 1 .. Len(out)} = Survivors
<1>1. k = Len(alerts) + 1 /\ rest = {} /\ scanned = NoRow /\ Len(alerts) \in Nat
  BY DEF ReadInv, Phases, Types
<1>2. 1 .. k - 1 = 1 .. Len(alerts)
  BY <1>1
<1>3. /\ \A j \in 1 .. Len(alerts) : alerts[j] \in active
      /\ \A a \in active : \E j \in 1 .. Len(alerts) : a = alerts[j]
  BY <1>1 DEF ReadInv, NoneLost
<1>4. active \in SUBSET Rows
  BY DEF ReadInv, Types
<1>5. \A i \in 1 .. Len(out) : out[i] \in active
  BY <1>2, <1>3 DEF CollapseInv, KeptOnce
<1>6. ASSUME NEW a, NEW b, CollapseKey(a) = CollapseKey(b) PROVE HasEvent(a) <=> HasEvent(b)
  BY Zenon, <1>6 DEF CollapseKey, HasEvent
<1>7. ASSUME NEW i \in 1 .. Len(out) PROVE out[i] \in Survivors
  <2> SUFFICES ASSUME NEW b \in active, b # out[i], HasEvent(out[i]),
                      CollapseKey(b) = CollapseKey(out[i]), laterIssuance(b, out[i])
               PROVE  FALSE
    BY <1>5, <1>6 DEF Survivors, StandsFor
  <2>1. HasEvent(b)
    BY <1>6
  <2>2. PICK j \in 1 .. k - 1 : b = alerts[j]
    BY <1>2, <1>3
  <2>3. Beaten(b)
    BY <2>1, <2>2 DEF CollapseInv, NoneForgotten
  <2>4. winners[CollapseKey(b)] = i
    BY DEF CollapseInv, WinnersIndexOut
  <2>5. laterIssuance(out[i], b)
    BY <2>3, <2>4 DEF Beaten
  <2> QED BY <1>4, <1>5, <2>5, LaterIsTotal
<1>8. ASSUME NEW a \in Survivors PROVE \E i \in 1 .. Len(out) : out[i] = a
  <2>1. a \in active /\ \A b \in active : StandsFor(b, a) => b = a
    BY DEF Survivors
  <2>2. PICK j \in 1 .. k - 1 : a = alerts[j]
    BY <1>2, <1>3, <2>1
  <2>3. CASE ~HasEvent(a)
    BY <2>2, <2>3 DEF CollapseInv, NoneForgotten
  <2>4. CASE HasEvent(a)
    <3> DEFINE i == winners[CollapseKey(a)]
    <3>1. /\ i \in 1 .. Len(out) /\ CollapseKey(out[i]) = CollapseKey(a)
          /\ out[i] = a \/ laterIssuance(out[i], a)
      BY <2>2, <2>4 DEF CollapseInv, NoneForgotten, Beaten, WinnersIndexOut
    <3>2. out[i] = a \/ StandsFor(out[i], a)
      BY <2>4, <3>1 DEF StandsFor
    <3> QED BY <1>5, <2>1, <3>1, <3>2
  <2> QED BY <2>3, <2>4
<1> QED BY <1>7, <1>8 DEF Survivors

(* A finished snapshot holds exactly one row of every warning, its last,   *)
(* and every row without one (collapse.go, postgres.go:765-769).           *)
THEOREM CollapseIsExact == Spec => []SnapshotIsExact
<1>1. ReadInv /\ CollapseInv => SnapshotIsExact
  <2> SUFFICES ASSUME ReadInv, CollapseInv, pc = "done"
               PROVE  /\ {out[i] : i \in DOMAIN out} = Survivors
                      /\ Len(out) = Cardinality(Survivors)
    BY DEF SnapshotIsExact
  <2> DEFINE m == Len(out)
  <2>1. m \in Nat /\ DOMAIN out = 1 .. m
    BY DEF ReadInv, Types
  <2>2. {out[i] : i \in 1 .. m} = Survivors
    BY KeptAreSurvivors
  <2>3. \A i, j \in 1 .. m : out[i] = out[j] => i = j
    BY DEF CollapseInv, KeptOnce
  <2>4. out \in [1 .. m -> Survivors]
    BY <2>1, <2>2 DEF ReadInv, Types
  <2>5. out \in Injection(1 .. m, Survivors)
    BY <2>3, <2>4 DEF Injection, IsInjective
  <2>6. out \in Surjection(1 .. m, Survivors)
    BY <2>2, <2>4 DEF Surjection
  <2>7. ExistsBijection(1 .. m, Survivors)
    BY <2>5, <2>6 DEF ExistsBijection, Bijection
  <2>8. IsFiniteSet(1 .. m) /\ Cardinality(1 .. m) = m
    <3> HIDE DEF m
    <3>1. 1 \in Int /\ m \in Int
      BY <2>1
    <3>2. /\ IsFiniteSet(1 .. m)
          /\ Cardinality(1 .. m) = IF 1 > m THEN 0 ELSE m - 1 + 1
      BY <3>1, FS_Interval
    <3> QED BY <2>1, <3>2
  <2>9. Cardinality(Survivors) = m
    BY <2>7, <2>8, FS_Bijection
  <2> QED BY <2>1, <2>2, <2>9
<1> QED BY <1>1, LoopsHold, PTL

(* Replacing rows in place keeps the order of the query (collapse.go:16).  *)
THEOREM CollapseKeepsOrder == Spec => []OrderSurvives
<1>1. ReadInv /\ CollapseInv => OrderSurvives
  BY DEF ReadInv, Types, CollapseInv, StaysSorted, OrderSurvives, NewestFirst
<1> QED BY <1>1, LoopsHold, PTL

-----------------------------------------------------------------------------
(* The loop of filterAlertsByState: induction over the rows. *)
LEMMA LeastNat ==
    ASSUME NEW T \in SUBSET Nat, T # {}
    PROVE  \E x \in T : \A y \in T : x <= y
<1> DEFINE Less == {pair \in Nat \X Nat : pair[1] < pair[2]}
<1>1. IsWellFoundedOn(Less, Nat)
  BY NatLessThanWellFounded DEF OpToRel
<1>2. \E x \in T : \A y \in T : ~(<<y, x>> \in Less)
  <2> HIDE DEF Less
  <2> QED BY <1>1, WFMin
<1>3. PICK x \in T : \A y \in T : ~(<<y, x>> \in Less)
  BY <1>2
<1>4. ASSUME NEW y \in T PROVE x <= y
  <2>1. <<y, x>> \in Nat \X Nat /\ ~(y < x)
    BY <1>3
  <2> QED BY <2>1
<1> QED BY <1>3, <1>4

LEMMA SetInduction ==
    ASSUME NEW S, 0 \in S, \A n \in Nat : n \in S => n + 1 \in S
    PROVE  Nat \subseteq S
<1> DEFINE T == Nat \ S
<1> SUFFICES ASSUME T # {} PROVE FALSE
  OBVIOUS
<1>1. PICK x \in T : \A y \in T : x <= y
  BY LeastNat
<1>2. x # 0 /\ x - 1 \in Nat
  OBVIOUS
<1>3. x - 1 \in S
  BY <1>1, <1>2
<1> QED BY <1>2, <1>3

(* One iteration for the i-th row, from the slices so far. *)
Sliced(g, i, state) ==
    IF i = 0 THEN <<>>
    ELSE IF state \in deriveStates(out[i]) THEN Append(g[i - 1], out[i])
    ELSE g[i - 1]

LEMMA SliceExists ==
    ASSUME NEW state, NEW m \in Nat
    PROVE  \E g : g = [i \in 0 .. m |-> Sliced(g, i, state)]
<1> DEFINE S == {n \in Nat : \E g : g = [i \in 0 .. n |-> Sliced(g, i, state)]}
<1>1. 0 \in S
  <2> DEFINE g == [i \in 0 .. 0 |-> <<>>]
  <2>1. \A i \in 0 .. 0 : i = 0
    OBVIOUS
  <2>2. g = [i \in 0 .. 0 |-> Sliced(g, i, state)]
    BY <2>1 DEF Sliced
  <2> QED BY <2>2
<1>2. ASSUME NEW n \in Nat, n \in S PROVE n + 1 \in S
  <2>1. PICK g : g = [i \in 0 .. n |-> Sliced(g, i, state)]
    BY <1>2
  <2> DEFINE h == [i \in 0 .. n + 1 |-> IF i = n + 1 THEN Sliced(g, i, state) ELSE g[i]]
  <2>2. ASSUME NEW i \in 0 .. n + 1 PROVE h[i] = Sliced(h, i, state)
    <3>1. i # 0 => i - 1 \in 0 .. n /\ h[i - 1] = g[i - 1]
      OBVIOUS
    <3>2. Sliced(h, i, state) = Sliced(g, i, state)
      BY <3>1 DEF Sliced
    <3>3. i # n + 1 => i \in 0 .. n
      OBVIOUS
    <3>4. i # n + 1 => g[i] = Sliced(g, i, state)
      BY <2>1, <3>3
    <3> QED BY <3>2, <3>4
  <2>3. h = [i \in 0 .. n + 1 |-> Sliced(h, i, state)]
    BY <2>2, Zenon
  <2>4. \E gg : gg = [i \in 0 .. n + 1 |-> Sliced(gg, i, state)]
    BY <2>3, Zenon
  <2>5. n + 1 \in Nat
    OBVIOUS
  <2> QED BY <2>4, <2>5, Zenon
<1>3. Nat \subseteq S
  BY <1>1, <1>2, SetInduction
<1> QED BY <1>3

(* What the loop has done by row n: every row that names the state is      *)
(* there, no other, and two that follow each other do so in out.           *)
SliceOf(slice, state, n) ==
    /\ slice \in Seq(Rows)
    /\ \A j \in 1 .. n : state \in deriveStates(out[j]) =>
           \E i \in 1 .. Len(slice) : slice[i] = out[j]
    /\ \A i \in 1 .. Len(slice) :
           \E j \in 1 .. n : slice[i] = out[j] /\ state \in deriveStates(out[j])
    /\ \A h, i \in 1 .. Len(slice) : h < i =>
           \E j, l \in 1 .. n : j < l /\ slice[h] = out[j] /\ slice[i] = out[l]

(* One iteration keeps all of it. *)
LEMMA NextOfSlice ==
    ASSUME NEW state, NEW n \in Nat, n + 1 \in 1 .. Len(out), out \in Seq(Rows),
           NEW slice, SliceOf(slice, state, n),
           NEW next, next = IF state \in deriveStates(out[n + 1])
                            THEN Append(slice, out[n + 1]) ELSE slice
    PROVE  SliceOf(next, state, n + 1)
<1> DEFINE m == Len(slice)
           a == out[n + 1]
<1>1. /\ slice \in Seq(Rows) /\ m \in Nat /\ a \in Rows /\ n + 1 \in 1 .. n + 1
      /\ \A j \in 1 .. n : j \in 1 .. n + 1 /\ j < n + 1
      /\ \A j \in 1 .. n + 1 : j \in 1 .. n \/ j = n + 1
  BY DEF SliceOf
<1>2. /\ \A j \in 1 .. n : state \in deriveStates(out[j]) => \E i \in 1 .. m : slice[i] = out[j]
      /\ \A i \in 1 .. m :
             \E j \in 1 .. n : slice[i] = out[j] /\ state \in deriveStates(out[j])
      /\ \A h, i \in 1 .. m : h < i =>
             \E j, l \in 1 .. n : j < l /\ slice[h] = out[j] /\ slice[i] = out[l]
  BY Zenon DEF SliceOf
<1>3. CASE state \notin deriveStates(a)
  <2>1. next = slice
    BY <1>3
  <2>2. \A j \in 1 .. n + 1 : state \in deriveStates(out[j]) => j \in 1 .. n
    BY <1>1, <1>3
  <2>3. \A j \in 1 .. n + 1 : state \in deriveStates(out[j]) =>
            \E i \in 1 .. Len(next) : next[i] = out[j]
    BY <1>2, <2>1, <2>2
  <2>4. \A i \in 1 .. Len(next) :
            \E j \in 1 .. n + 1 : next[i] = out[j] /\ state \in deriveStates(out[j])
    BY <1>1, <1>2, <2>1
  <2>5. \A h, i \in 1 .. Len(next) : h < i =>
            \E j, l \in 1 .. n + 1 : j < l /\ next[h] = out[j] /\ next[i] = out[l]
    BY <1>1, <1>2, <2>1
  <2>6. next \in Seq(Rows)
    BY <1>1, <2>1
  <2> QED BY <2>3, <2>4, <2>5, <2>6, Zenon DEF SliceOf
<1>4. CASE state \in deriveStates(a)
  <2>1. next = Append(slice, a)
    BY <1>4
  <2>2. /\ next \in Seq(Rows) /\ Len(next) = m + 1 /\ next[m + 1] = a
        /\ \A i \in 1 .. m : next[i] = slice[i]
    BY <1>1, <2>1
  <2> HIDE DEF m
  <2>3. /\ m + 1 \in 1 .. Len(next) /\ \A i \in 1 .. m : i \in 1 .. Len(next)
        /\ \A i \in 1 .. Len(next) : i \in 1 .. m \/ i = m + 1
        /\ \A h, i \in 1 .. Len(next) : h < i => h \in 1 .. m
    BY <1>1, <2>2
  <2>4. \A j \in 1 .. n + 1 : state \in deriveStates(out[j]) =>
            \E i \in 1 .. Len(next) : next[i] = out[j]
    <3>1. SUFFICES ASSUME NEW j \in 1 .. n + 1, state \in deriveStates(out[j])
                   PROVE  \E i \in 1 .. Len(next) : next[i] = out[j]
      OBVIOUS
    <3>2. CASE j \in 1 .. n
      <4>1. PICK i \in 1 .. m : slice[i] = out[j]
        BY <1>2, <3>1, <3>2
      <4> QED BY <2>2, <2>3, <4>1
    <3>3. CASE j = n + 1
      BY <2>2, <2>3, <3>3
    <3> QED BY <1>1, <3>2, <3>3
  <2>5. \A i \in 1 .. Len(next) :
            \E j \in 1 .. n + 1 : next[i] = out[j] /\ state \in deriveStates(out[j])
    <3>1. SUFFICES ASSUME NEW i \in 1 .. Len(next)
                   PROVE  \E j \in 1 .. n + 1 : next[i] = out[j] /\ state \in deriveStates(out[j])
      OBVIOUS
    <3>2. CASE i \in 1 .. m
      <4>1. PICK j \in 1 .. n : slice[i] = out[j] /\ state \in deriveStates(out[j])
        BY <1>2, <3>2
      <4> QED BY <1>1, <2>2, <3>2, <4>1
    <3>3. CASE i = m + 1
      <4>1. next[i] = out[n + 1] /\ state \in deriveStates(out[n + 1])
        BY <1>4, <2>2, <3>3
      <4> HIDE DEF a
      <4> QED BY <1>1, <4>1
    <3> QED BY <2>3, <3>2, <3>3
  <2>6. ASSUME NEW h \in 1 .. Len(next), NEW i \in 1 .. Len(next), h < i
        PROVE  \E j, l \in 1 .. n + 1 : j < l /\ next[h] = out[j] /\ next[i] = out[l]
    <3>1. h \in 1 .. m
      BY <2>3, <2>6
    <3>2. CASE i \in 1 .. m
      <4>1. PICK j \in 1 .. n, l \in 1 .. n : j < l /\ slice[h] = out[j] /\ slice[i] = out[l]
        BY <1>2, <2>6, <3>1, <3>2
      <4> QED BY <1>1, <2>2, <3>1, <3>2, <4>1
    <3>3. CASE i = m + 1
      <4>1. PICK j \in 1 .. n : slice[h] = out[j]
        BY <1>2, <3>1
      <4>2. /\ j \in 1 .. n + 1 /\ j < n + 1 /\ next[h] = out[j]
            /\ n + 1 \in 1 .. n + 1 /\ next[i] = out[n + 1]
        BY <1>1, <2>2, <3>1, <3>3, <4>1
      <4> HIDE DEF a
      <4> QED BY <4>2
    <3> QED BY <2>3, <3>2, <3>3
  <2> QED BY <2>2, <2>4, <2>5, <2>6, Zenon DEF SliceOf
<1> QED BY <1>3, <1>4

LEMMA SliceIsExact ==
    ASSUME NEW state, out \in Seq(Rows)
    PROVE  SliceOf(filterAlertsByState(state), state, Len(out))
<1> DEFINE m == Len(out)
           f == CHOOSE g : g = [i \in 0 .. m |-> Sliced(g, i, state)]
<1>1. m \in Nat
  OBVIOUS
<1>2. filterAlertsByState(state) = f[m]
  BY DEF filterAlertsByState, Sliced
<1>3. f = [i \in 0 .. m |-> Sliced(f, i, state)]
  BY <1>1, SliceExists
<1> HIDE DEF m, f
<1> DEFINE Done(n) == SliceOf(f[n], state, n)
           S == {n \in Nat : n <= m => Done(n)}
<1>4. 0 \in S
  <2>1. f[0] = <<>> /\ Len(<<>>) = 0 /\ <<>> \in Seq(Rows)
    BY <1>1, <1>3 DEF Sliced
  <2>2. 1 .. 0 = {}
    OBVIOUS
  <2>3. SliceOf(f[0], state, 0)
    BY <2>1, <2>2 DEF SliceOf
  <2> QED BY <2>3
<1>5. ASSUME NEW n \in Nat, n \in S PROVE n + 1 \in S
  <2> SUFFICES ASSUME n + 1 <= m PROVE Done(n + 1)
    OBVIOUS
  <2>1. Done(n)
    BY <1>1, <1>5
  <2>2. n + 1 \in 0 .. m /\ n + 1 # 0 /\ n + 1 - 1 = n /\ n + 1 \in 1 .. Len(out)
    BY <1>1 DEF m
  <2>3. f[n + 1] = Sliced(f, n + 1, state)
    BY <1>3, <2>2
  <2>4. f[n + 1] = IF state \in deriveStates(out[n + 1]) THEN Append(f[n], out[n + 1]) ELSE f[n]
    BY <2>2, <2>3 DEF Sliced
  <2> QED BY <2>1, <2>2, <2>4, NextOfSlice
<1>6. m \in S
  BY <1>1, <1>4, <1>5, SetInduction
<1>7. Done(m)
  BY <1>1, <1>6
<1> QED BY <1>2, <1>7 DEF m

(* Every row that was selected has one in out that stands for it. *)
LEMMA EveryRowIsRepresented ==
    ASSUME ReadInv, CollapseInv, pc = "done", NEW a \in active
    PROVE  \E i \in 1 .. Len(out) : out[i] \in active /\ StandsFor(out[i], a)
<1>1. k = Len(alerts) + 1 /\ rest = {} /\ scanned = NoRow /\ Len(alerts) \in Nat
  BY DEF ReadInv, Phases, Types
<1>2. 1 .. k - 1 = 1 .. Len(alerts)
  BY <1>1
<1>3. \A i \in 1 .. Len(out) : out[i] \in active
  BY <1>1, <1>2 DEF ReadInv, NoneLost, CollapseInv, KeptOnce
<1>4. PICK j \in 1 .. k - 1 : a = alerts[j]
  BY <1>1, <1>2 DEF ReadInv, NoneLost
<1>5. CASE ~HasEvent(a)
  BY <1>3, <1>4, <1>5 DEF CollapseInv, NoneForgotten, StandsFor
<1>6. CASE HasEvent(a)
  <2> DEFINE i == winners[CollapseKey(a)]
  <2>1. /\ i \in 1 .. Len(out) /\ CollapseKey(out[i]) = CollapseKey(a)
        /\ out[i] = a \/ laterIssuance(out[i], a)
    BY <1>4, <1>6 DEF CollapseInv, NoneForgotten, Beaten, WinnersIndexOut
  <2> QED BY <1>3, <1>6, <2>1 DEF StandsFor
<1> QED BY <1>5, <1>6

(* Each state in the area_desc of a selected row has it, or a later        *)
(* message of its warning, in its slice, unless the SAME codes of one of   *)
(* these leave it out (poller.go:647-660, collapse.go:16-24): for every    *)
(* set of rows of which those with one area_desc name one set of states.   *)
THEOREM NoStateIsLeftOut == Spec => []EveryStateIsWarned
<1>1. ReadInv /\ CollapseInv => EveryStateIsWarned
  <2> SUFFICES ASSUME ReadInv, CollapseInv, pc = "done",
                      NEW a \in active, NEW state \in a.desc,
                      \A b \in active : StandsFor(b, a) /\ b.same # {} => state \in b.same
               PROVE  LET slice == filterAlertsByState(state)
                      IN \E i \in DOMAIN slice : StandsFor(slice[i], a)
    BY DEF EveryStateIsWarned
  <2>1. active \in SUBSET Rows /\ out \in Seq(Rows)
    BY DEF ReadInv, Types
  <2>2. PICK j \in 1 .. Len(out) : out[j] \in active /\ StandsFor(out[j], a)
    BY EveryRowIsRepresented
  <2>3. out[j].area = a.area
    BY <2>2 DEF StandsFor, CollapseKey
  <2>4. out[j].desc = a.desc
    BY <2>1, <2>2, <2>3, RowAssumption
  <2>5. state \in deriveStates(out[j])
    BY <2>2, <2>4 DEF deriveStates
  <2> DEFINE slice == filterAlertsByState(state)
  <2>6. slice \in Seq(Rows) /\ \E i \in 1 .. Len(slice) : slice[i] = out[j]
    BY <2>1, <2>5, SliceIsExact DEF SliceOf
  <2> HIDE DEF slice
  <2>7. DOMAIN slice = 1 .. Len(slice)
    BY <2>6
  <2>8. \E i \in DOMAIN slice : StandsFor(slice[i], a)
    BY <2>2, <2>6, <2>7
  <2> QED BY <2>8 DEF slice
<1> QED BY <1>1, LoopsHold, PTL

(* The states some row names. *)
States == UNION {a.same \cup a.desc : a \in Rows}

(* The file of a state is the merged snapshot's own view of it: of its     *)
(* rows exactly those that name the state, each once, newest first         *)
(* (filterAlertsByState, poller.go:647-660).                               *)
SlicesAreExact ==
    pc = "done" =>
        \A state \in States :
            LET slice == filterAlertsByState(state)
            IN /\ {slice[i] : i \in DOMAIN slice} =
                      {out[j] : j \in {l \in DOMAIN out : state \in deriveStates(out[l])}}
               /\ \A h, i \in DOMAIN slice : slice[h] = slice[i] => h = i
               /\ NewestFirst(slice)

(* For every set of rows, in every order the query may deliver.            *)
THEOREM SlicesAgreeWithSnapshot == Spec => []SlicesAreExact
<1>1. ReadInv /\ CollapseInv /\ OrderSurvives => SlicesAreExact
  <2> SUFFICES ASSUME ReadInv, CollapseInv, OrderSurvives, pc = "done",
                      NEW state \in States, NEW slice, slice = filterAlertsByState(state)
               PROVE  /\ {slice[i] : i \in DOMAIN slice} =
                             {out[j] : j \in {l \in DOMAIN out : state \in deriveStates(out[l])}}
                      /\ \A h, i \in DOMAIN slice : slice[h] = slice[i] => h = i
                      /\ NewestFirst(slice)
    BY DEF SlicesAreExact
  <2>1. out \in Seq(Rows) /\ DOMAIN out = 1 .. Len(out) /\ Len(out) \in Nat
    BY DEF ReadInv, Types
  <2>2. SliceOf(slice, state, Len(out))
    BY <2>1, SliceIsExact
  <2>3. DOMAIN slice = 1 .. Len(slice) /\ Len(slice) \in Nat
    BY <2>2 DEF SliceOf
  <2>4. {slice[i] : i \in DOMAIN slice} =
            {out[j] : j \in {l \in DOMAIN out : state \in deriveStates(out[l])}}
    <3>1. ASSUME NEW j \in DOMAIN out, state \in deriveStates(out[j])
          PROVE  \E i \in DOMAIN slice : slice[i] = out[j]
      <4>1. j \in 1 .. Len(out)
        BY <2>1
      <4>2. PICK i \in 1 .. Len(slice) : slice[i] = out[j]
        BY <2>2, <3>1, <4>1, Zenon DEF SliceOf
      <4> QED BY <2>3, <4>2
    <3>2. ASSUME NEW i \in DOMAIN slice
          PROVE  \E j \in DOMAIN out : slice[i] = out[j] /\ state \in deriveStates(out[j])
      <4>1. i \in 1 .. Len(slice)
        BY <2>3
      <4>2. PICK j \in 1 .. Len(out) : slice[i] = out[j] /\ state \in deriveStates(out[j])
        BY <2>2, <4>1, Zenon DEF SliceOf
      <4> QED BY <2>1, <4>2
    <3> QED BY <3>1, <3>2
  <2>5. \A h, i \in DOMAIN slice : h < i =>
            \E j, l \in DOMAIN out : j < l /\ slice[h] = out[j] /\ slice[i] = out[l]
    <3>1. SUFFICES ASSUME NEW h \in DOMAIN slice, NEW i \in DOMAIN slice, h < i
                   PROVE  \E j, l \in DOMAIN out : j < l /\ slice[h] = out[j] /\ slice[i] = out[l]
      OBVIOUS
    <3>2. h \in 1 .. Len(slice) /\ i \in 1 .. Len(slice)
      BY <2>3
    <3>3. PICK j \in 1 .. Len(out), l \in 1 .. Len(out) :
              j < l /\ slice[h] = out[j] /\ slice[i] = out[l]
      BY <2>2, <3>1, <3>2 DEF SliceOf
    <3> QED BY <2>1, <3>3
  <2>6. \A j, l \in DOMAIN out : out[j] = out[l] => j = l
    BY <2>1 DEF CollapseInv, KeptOnce
  <2>7. \A h, i \in DOMAIN slice : h < i => slice[h] # slice[i]
    BY <2>1, <2>5, <2>6
  <2>8. \A h, i \in DOMAIN slice : slice[h] = slice[i] => h = i
    <3>1. \A h, i \in DOMAIN slice : h < i \/ i < h \/ h = i
      BY <2>3
    <3> QED BY <2>7, <3>1
  <2>9. NewestFirst(slice)
    BY <2>5 DEF OrderSurvives, NewestFirst
  <2> QED BY <2>4, <2>8, <2>9
<1> QED BY <1>1, LoopsHold, CollapseKeepsOrder, PTL

-----------------------------------------------------------------------------
(* No row is counted twice or not at all. *)
Counted ==
    /\ Len(out) < k
    /\ Len(alerts) + Cardinality(rest) + (IF scanned = NoRow THEN 0 ELSE 1)
           = Cardinality(active)

LEMMA CountedNext ==
    ASSUME ReadInv, WinnersIndexOut, Counted, [Next]_vars
    PROVE  Counted'
<1>1. IsFiniteSet(rest) /\ Cardinality(rest) \in Nat
  <2>1. rest \in SUBSET Rows /\ IsFiniteSet(Rows)
    BY RowAssumption DEF ReadInv, Types
  <2> QED BY <2>1, FS_Subset, FS_CardinalityType
<1>2. Len(alerts) \in Nat /\ Len(out) \in Nat /\ k \in Nat
  BY DEF ReadInv, Types
<1>3. CASE Query
  <2>1. Len(alerts) = 0 /\ scanned = NoRow
    BY <1>3 DEF Query, ReadInv, Phases
  <2>2. UNCHANGED <<alerts, scanned, out, k>> /\ rest' = active'
    BY <1>3 DEF Query
  <2>3. IsFiniteSet(rest') /\ Cardinality(rest') \in Nat
    <3>1. rest' \in SUBSET Rows /\ IsFiniteSet(Rows)
      BY <1>3, RowAssumption DEF Query
    <3> QED BY <3>1, FS_Subset, FS_CardinalityType
  <2> QED BY <2>1, <2>2, <2>3 DEF Counted
<1>4. CASE ScanRow
  <2>1. PICK a \in rest, b \in Bulletins :
            /\ scanned = NoRow
            /\ scanned' = [row |-> a, bulletin |-> b, detection |-> DetectTornado(b)]
            /\ rest' = rest \ {a}
            /\ UNCHANGED <<active, alerts, k, out>>
    BY <1>4 DEF ScanRow
  <2>2. Cardinality(rest') = Cardinality(rest) - 1
    BY <1>1, <2>1, FS_RemoveElement
  <2>3. scanned' # NoRow
    <3>1. DOMAIN scanned' # DOMAIN NoRow
      BY <2>1 DEF NoRow
    <3> QED BY <3>1
  <2> QED BY <1>1, <1>2, <2>1, <2>2, <2>3 DEF Counted
<1>5. CASE AppendRow
  <2>1. Len(alerts') = Len(alerts) + 1
    BY <1>5 DEF AppendRow, ReadInv, Types
  <2>2. scanned # NoRow /\ scanned' = NoRow /\ UNCHANGED <<active, rest, out, k>>
    BY <1>5 DEF AppendRow
  <2> QED BY <1>1, <1>2, <2>1, <2>2 DEF Counted
<1>6. CASE CollapseRow
  <2>1. Len(out') <= Len(out) + 1
    <3>1. CASE Keep(alerts[k])
      <4>1. out' = Append(out, alerts[k])
        BY <3>1 DEF Keep
      <4> QED BY <1>2, <4>1 DEF ReadInv, Types
    <3>2. ASSUME NEW idx, Contend(alerts[k], idx) PROVE Len(out') <= Len(out) + 1
      <4>1. Len([out EXCEPT ![idx] = alerts[k]]) = Len(out)
        BY DEF ReadInv, Types
      <4> QED BY <1>2, <3>2, <4>1 DEF Contend
    <3> QED BY <1>6, <3>1, <3>2 DEF CollapseRow
  <2>2. k' = k + 1 /\ UNCHANGED <<alerts, rest, scanned, active>>
    BY <1>6 DEF CollapseRow
  <2>3. Len(out') \in Nat
    BY ReadInvNext DEF ReadInv, Types
  <2> QED BY <1>2, <2>1, <2>2, <2>3 DEF Counted
<1>7. CASE ~Query /\ ~ScanRow /\ ~AppendRow /\ ~CollapseRow
  <2>1. UNCHANGED <<active, rest, scanned, alerts, k, out>>
    BY <1>7 DEF Next, ReadFails, ConnectionLost, RowsEnd, CollapseEnds, vars
  <2> QED BY <2>1 DEF Counted
<1> QED BY <1>3, <1>4, <1>5, <1>6, <1>7

(* Every selected row is to come, at hand, or appended, and none of them   *)
(* twice; the collapse never makes more rows of them.                      *)
THEOREM SnapshotTypeCorrect == Spec => []TypeOK
<1>1. Init => Counted
  BY FS_EmptySet DEF Init, Counted
<1>2. ReadInv /\ CollapseInv /\ Counted /\ [Next]_vars => Counted'
  BY CountedNext DEF CollapseInv
<1>3. ReadInv /\ CollapseInv /\ Counted => TypeOK
  BY DEF ReadInv, Types, Phases, CollapseInv, WinnersIndexOut, Counted, TypeOK
<1> QED BY <1>1, <1>2, <1>3, LoopsHold, PTL DEF Spec
=============================================================================
