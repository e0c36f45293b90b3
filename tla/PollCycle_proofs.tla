---------------------------- MODULE PollCycle_proofs ----------------------------
(***************************************************************************)
(* Why a heartbeat can be trusted, for every mode, retry bound and history *)
(* of the upstream: with neither of the two faults that defeat it, the     *)
(* cached ETag and the flag lastAlertsUpsertFailed together know whether   *)
(* the payload behind the ETag reached the store.                          *)
(***************************************************************************)
EXTENDS PollCycle, TLAPS

(* The client never holds an ETag newer than the last payload it decoded,  *)
(* nor upstream an older payload than that.                                *)
Ordered ==
    /\ decoded <= upstream /\ answered <= upstream
    /\ pc = "decode" => prev <= decoded /\ etag <= answered /\ decoded <= answered
    /\ pc # "decode" => etag <= decoded
    /\ pc = "upsert" => decoded = answered

(* With the flag down, a payload whose ETag is still held has landed. *)
FlagVouches ==
    /\ pc = "decode" /\ ~upsertFailed /\ prev # 0 => decoded \in landed
    /\ pc \notin {"decode", "upsert"} /\ ~upsertFailed /\ etag # 0 => decoded \in landed

(* A cycle that is about to be called healthy has earned it. *)
OutcomeVouched ==
    /\ pc \in {"rest", "publish", "heartbeat"} /\ ShouldIngest /\ alertsOK =>
        answered \in landed
    /\ beat => pc = "idle"

HInv == TypeOK /\ Ordered /\ FlagVouches /\ OutcomeVouched /\ HeartbeatVouched

(* Initially nothing is claimed. *)
LEMMA InitHInv == Init => HInv
<1> SUFFICES ASSUME Init PROVE HInv OBVIOUS
<1>1. TypeOK
  <2>1. 1 \in Version /\ 0 \in 0 .. MaxVersion /\ 0 \in 0 .. MaxAttempts - 1
    BY ParamAssumption DEF Version
  <2> QED BY <2>1 DEF Init, TypeOK, PC
<1> QED
  BY <1>1, ParamAssumption DEF Init, HInv, Ordered, FlagVouches, OutcomeVouched, HeartbeatVouched

(* Every step, under every fault, keeps the types. *)
LEMMA NextTypeOK ==
    ASSUME TypeOK, [Next]_vars
    PROVE  TypeOK'
<1>0. 0 \in 0 .. MaxVersion /\ 0 \in 0 .. MaxAttempts - 1
  BY ParamAssumption
<1> USE ParamAssumption DEF TypeOK, Version, PC, store, client, outcome
<1>1. CASE UpstreamChanges
  BY <1>1 DEF UpstreamChanges
<1>2. CASE CycleBegins
  BY <1>0, <1>2 DEF CycleBegins
<1>3. CASE FetchRetries
  BY <1>3 DEF FetchRetries
<1>4. CASE FetchFails
  BY <1>4 DEF FetchFails, AlertsDone
<1>5. CASE NotModified
  BY <1>5 DEF NotModified, AlertsDone
<1>6. CASE Response200
  BY <1>6 DEF Response200
<1>7. CASE DecodeFails
  BY <1>7 DEF DecodeFails, AlertsDone
<1>8. CASE Decode
  BY <1>8 DEF Decode
<1>9. CASE Stored
  BY <1>9 DEF Stored, AlertsDone
<1>10. CASE StoreFails
  BY <1>10 DEF StoreFails, AlertsDone
<1>11. CASE RestOfIngest
  BY <1>11 DEF RestOfIngest
<1>12. CASE Publish
  BY <1>12 DEF Publish
<1>13. CASE Heartbeat
  BY <1>13 DEF Heartbeat, shouldHeartbeat
<1>14. CASE CyclePanics
  BY <1>14 DEF CyclePanics
<1>15. CASE Restart
  BY <1>0, <1>15 DEF Restart
<1>16. CASE UNCHANGED vars
  BY <1>16 DEF vars
<1> QED
  BY <1>1, <1>2, <1>3, <1>4, <1>5, <1>6, <1>7, <1>8, <1>9, <1>10, <1>11, <1>12,
     <1>13, <1>14, <1>15, <1>16 DEF Next, Step

(* Every step keeps the claims, unless rows fail unreported or a cycle     *)
(* panics between the ETag's capture and the flag's update.                *)
LEMMA NextHInv ==
    ASSUME Faults \cap {"panic_before_flag", "rows_fail"} = {}, HInv, [Next]_vars
    PROVE  Ordered' /\ FlagVouches' /\ OutcomeVouched' /\ HeartbeatVouched'
<1> USE ParamAssumption DEF HInv, TypeOK, Version, PC, store, client, outcome,
        Ordered, FlagVouches, OutcomeVouched, HeartbeatVouched
<1>1. CASE UpstreamChanges
  BY <1>1 DEF UpstreamChanges
<1>2. CASE CycleBegins
  BY <1>2 DEF CycleBegins
<1>3. CASE FetchRetries
  BY <1>3 DEF FetchRetries
<1>4. CASE FetchFails
  BY <1>4 DEF FetchFails, AlertsDone
<1>5. CASE NotModified
  BY <1>5 DEF NotModified, AlertsDone
<1>6. CASE Response200
  BY <1>6 DEF Response200
<1>7. CASE DecodeFails
  BY <1>7 DEF DecodeFails, AlertsDone
<1>8. CASE Decode
  BY <1>8 DEF Decode
<1>9. CASE Stored
  BY <1>9 DEF Stored, AlertsDone
<1>10. CASE StoreFails
  BY <1>10 DEF StoreFails, AlertsDone
<1>11. CASE RestOfIngest
  BY <1>11 DEF RestOfIngest
<1>12. CASE Publish
  BY <1>12 DEF Publish
<1>13. CASE Heartbeat
  BY <1>13 DEF Heartbeat, shouldHeartbeat
<1>14. CASE CyclePanics
  BY <1>14 DEF CyclePanics
<1>15. CASE Restart
  BY <1>15 DEF Restart
<1>16. CASE UNCHANGED vars
  BY <1>16 DEF vars
<1> QED
  BY <1>1, <1>2, <1>3, <1>4, <1>5, <1>6, <1>7, <1>8, <1>9, <1>10, <1>11, <1>12,
     <1>13, <1>14, <1>15, <1>16 DEF Next, Step

(* A node reports itself healthy only for a cycle whose upstream content   *)
(* is in the store and whose merged snapshot was published                 *)
(* (poller/heartbeat.go:16-23), whatever fails, panics or restarts, except *)
(* for the two faults named.                                               *)
THEOREM HeartbeatIsSound ==
    ASSUME Faults \cap {"panic_before_flag", "rows_fail"} = {}
    PROVE  Spec => []HeartbeatVouched
<1>1. Init => HInv BY InitHInv
<1>2. HInv /\ [Next]_vars => HInv' BY NextHInv, NextTypeOK DEF HInv
<1>3. HInv => HeartbeatVouched BY DEF HInv
<1> QED BY <1>1, <1>2, <1>3, PTL DEF Spec

(* The variables of a cycle keep their types, under every fault. *)
THEOREM PollTypeCorrect == Spec => []TypeOK
<1>1. Init => TypeOK BY InitHInv DEF HInv
<1>2. TypeOK /\ [Next]_vars => TypeOK' BY NextTypeOK
<1> QED BY <1>1, <1>2, PTL DEF Spec
=============================================================================
