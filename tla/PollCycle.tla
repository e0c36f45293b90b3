------------------------------- MODULE PollCycle -------------------------------
(***************************************************************************)
(* internal/poller: one node's poll cycle, from the conditional GET of the *)
(* NWS alerts to the dead-man's-switch heartbeat.                          *)
(*                                                                         *)
(* Three facts outlive a cycle: the ETag the NWS client caches, the flag   *)
(* lastAlertsUpsertFailed, and what the store holds.  On a 304 the node    *)
(* writes nothing and trusts the flag to say whether the payload behind    *)
(* the ETag ever reached the store; on a restart it forgets both.          *)
(*                                                                         *)
(* Upstream content is a version number, each with an ETag of its own.     *)
(* Storm reports and the purge touch none of this state: one step.         *)
(***************************************************************************)
EXTENDS Integers

CONSTANTS
    Mode,         \* "ingest", "publish" or "both"
    MaxVersion,   \* bound: versions the upstream goes through
    MaxAttempts,  \* retry.MaxAttempts
    Faults        \* the faults of a run, out of FaultKind

FaultKind == {
    "panic",              \* anywhere but between the fetch and the flag
    "panic_before_flag",  \* between the ETag's capture and the flag's update
    "store_fails",        \* UpsertAlertsBatch returns an error
    "retire_fails",       \* rows land, the degraded path's retirement does not
    "rows_fail"}          \* the degraded path loses rows and reports no error

ASSUME ParamAssumption ==
    /\ Mode \in {"ingest", "publish", "both"}
    /\ MaxVersion \in Nat \ {0} /\ MaxAttempts \in Nat \ {0}
    /\ Faults \subseteq FaultKind

VARIABLES
    upstream,      \* the version /alerts/active serves
    landed,        \* versions whose alerts are all in the store
    retired,       \* versions whose references have been retired too
    etag,          \* the client's cached ETag, 0 when it has none
    prev,          \* the ETag a failed decode rolls back to
    upsertFailed,  \* lastAlertsUpsertFailed
    pc,            \* where the cycle is
    attempt,       \* attempt of the fetch's retry loop
    decoded,       \* the most recent 200-path payload (history across cycles)
    answered,      \* the version upstream confirmed in this cycle, 0 if none
    alertsOK, mergedPublishOK,
    beat           \* the last cycle to end sent its heartbeat

vars == <<upstream, landed, retired, etag, prev, upsertFailed, pc, attempt,
          decoded, answered, alertsOK, mergedPublishOK, beat>>
store == <<landed, retired>>
client == <<etag, prev>>
outcome == <<answered, alertsOK, mergedPublishOK, beat>>

Version == 1 .. MaxVersion

ShouldIngest == Mode \in {"ingest", "both"}
ShouldPublish == Mode \in {"publish", "both"}

PC == {"idle", "fetch", "decode", "upsert", "rest", "publish", "heartbeat"}

TypeOK ==
    /\ upstream \in Version
    /\ landed \in SUBSET (0 .. MaxVersion) /\ retired \in SUBSET (0 .. MaxVersion)
    /\ etag \in 0 .. MaxVersion /\ prev \in 0 .. MaxVersion
    /\ upsertFailed \in BOOLEAN
    /\ pc \in PC
    /\ attempt \in 0 .. MaxAttempts - 1
    /\ decoded \in 0 .. MaxVersion /\ answered \in 0 .. MaxVersion
    /\ alertsOK \in BOOLEAN /\ mergedPublishOK \in BOOLEAN /\ beat \in BOOLEAN

Init ==
    /\ upstream = 1
    /\ landed = {} /\ retired = {}
    /\ etag = 0 /\ prev = 0 /\ upsertFailed = FALSE
    /\ pc = "idle" /\ attempt = 0
    /\ decoded = 0 /\ answered = 0
    /\ alertsOK = TRUE /\ mergedPublishOK = TRUE /\ beat = FALSE

-----------------------------------------------------------------------------
UpstreamChanges ==
    /\ upstream < MaxVersion
    /\ upstream' = upstream + 1
    /\ UNCHANGED <<store, client, upsertFailed, pc, attempt, decoded, outcome>>

(* The next tick: poll begins, with both outcomes vacuously true. *)
CycleBegins ==
    /\ pc = "idle"
    /\ pc' = IF ShouldIngest THEN "fetch" ELSE "publish"
    /\ attempt' = 0 /\ answered' = 0
    /\ alertsOK' = TRUE /\ mergedPublishOK' = TRUE /\ beat' = FALSE
    /\ UNCHANGED <<upstream, store, client, upsertFailed, decoded>>

(* pollAlerts returns, ok or not; the rest of the ingest phase runs. *)
AlertsDone(ok) ==
    /\ pc' = "rest"
    /\ alertsOK' = ok
    /\ UNCHANGED <<attempt, mergedPublishOK, beat>>

\* mutant: the attempt counter wraps
MutFetchRetriesForever ==
    /\ pc = "fetch"
    /\ attempt' = (attempt + 1) % MaxAttempts
    /\ UNCHANGED <<upstream, store, client, upsertFailed, pc, decoded, outcome>>

(* A transport error, 429 or 5xx with attempts and budget left. *)
FetchRetries ==
    /\ pc = "fetch" /\ attempt < MaxAttempts - 1
    /\ attempt' = attempt + 1
    /\ UNCHANGED <<upstream, store, client, upsertFailed, pc, decoded, outcome>>

(* Any other status, the attempts used up, or the budget too tight. *)
FetchFails ==
    /\ pc = "fetch"
    /\ AlertsDone(FALSE)
    /\ UNCHANGED <<upstream, store, client, upsertFailed, decoded, answered>>

\* mutant: a 304 vouches without looking at the flag
MutNotModifiedIsOK ==
    /\ pc = "fetch" /\ etag = upstream
    /\ answered' = upstream
    /\ AlertsDone(TRUE)
    /\ UNCHANGED <<upstream, store, client, upsertFailed, decoded>>

(* 304: the ETag is current.  It vouches for data that reached the store   *)
(* unless the last 200-path upsert failed.                                 *)
NotModified ==
    /\ pc = "fetch" /\ etag = upstream
    /\ answered' = upstream
    /\ AlertsDone(~upsertFailed)
    /\ UNCHANGED <<upstream, store, client, upsertFailed, decoded>>

(* 200: the new ETag, if the response has one, is cached before decoding.  *)
Response200 ==
    /\ pc = "fetch"
    /\ answered' = upstream
    /\ prev' = etag
    /\ etag' \in {etag, upstream}
    /\ pc' = "decode"
    /\ UNCHANGED <<upstream, store, upsertFailed, attempt, decoded, alertsOK,
                   mergedPublishOK, beat>>

\* mutant: no rollback of the ETag
MutDecodeFailsKeepsETag ==
    /\ pc = "decode"
    /\ AlertsDone(FALSE)
    /\ UNCHANGED <<upstream, store, client, upsertFailed, decoded, answered>>

DecodeFails ==
    /\ pc = "decode"
    /\ etag' = prev
    /\ AlertsDone(FALSE)
    /\ UNCHANGED <<upstream, store, prev, upsertFailed, decoded, answered>>

Decode ==
    /\ pc = "decode"
    /\ decoded' = answered
    /\ pc' = "upsert"
    /\ UNCHANGED <<upstream, store, client, upsertFailed, attempt, outcome>>

(* UpsertAlertsBatch returns no error: on the clean path everything landed *)
(* and was retired, on the degraded path some of it may not have been.     *)
Stored ==
    /\ pc = "upsert"
    /\ \/ landed' = landed \cup {decoded} /\ retired' = retired \cup {decoded}
       \/ "retire_fails" \in Faults /\ landed' = landed \cup {decoded} /\ UNCHANGED retired
       \/ "rows_fail" \in Faults /\ UNCHANGED store
    /\ upsertFailed' = FALSE
    /\ AlertsDone(TRUE)
    /\ UNCHANGED <<upstream, client, decoded, answered>>

(* It returns a context error, the transaction committed or not. *)
StoreFails ==
    /\ pc = "upsert" /\ "store_fails" \in Faults
    /\ \/ landed' = landed \cup {decoded} /\ retired' = retired \cup {decoded}
       \/ UNCHANGED store
    /\ upsertFailed' = TRUE
    /\ AlertsDone(FALSE)
    /\ UNCHANGED <<upstream, client, decoded, answered>>

(* pollStormReports and PurgeExpired: their failures are logged only. *)
RestOfIngest ==
    /\ pc = "rest"
    /\ pc' = IF ShouldPublish THEN "publish" ELSE "heartbeat"
    /\ UNCHANGED <<upstream, store, client, upsertFailed, attempt, decoded, outcome>>

Publish ==
    /\ pc = "publish"
    /\ mergedPublishOK' \in BOOLEAN
    /\ pc' = "heartbeat"
    /\ UNCHANGED <<upstream, store, client, upsertFailed, attempt, decoded,
                   answered, alertsOK, beat>>

shouldHeartbeat == (ShouldIngest => alertsOK) /\ (ShouldPublish => mergedPublishOK)

Heartbeat ==
    /\ pc = "heartbeat"
    /\ beat' = shouldHeartbeat
    /\ pc' = "idle"
    /\ UNCHANGED <<upstream, store, client, upsertFailed, attempt, decoded,
                   answered, alertsOK, mergedPublishOK>>

(* pollSafely recovers a panic of the cycle: what it had changed stays     *)
(* changed, the rest of the cycle is skipped.                              *)
CyclePanics ==
    /\ \/ "panic" \in Faults /\ pc \in PC \ {"idle", "decode", "upsert"}
       \/ "panic_before_flag" \in Faults /\ pc \in {"decode", "upsert"}
    /\ pc' = "idle"
    /\ UNCHANGED <<upstream, store, client, upsertFailed, attempt, decoded, outcome>>

(* A crash or a redeploy: the process's memory is gone, the store is not.  *)
Restart ==
    /\ pc' = "idle" /\ attempt' = 0
    /\ etag' = 0 /\ prev' = 0 /\ upsertFailed' = FALSE
    /\ answered' = 0
    /\ alertsOK' = TRUE /\ mergedPublishOK' = TRUE /\ beat' = FALSE
    /\ UNCHANGED <<upstream, store, decoded>>

Step ==
    \/ CycleBegins \/ FetchRetries \/ FetchFails \/ NotModified \/ Response200
    \/ DecodeFails \/ Decode \/ Stored \/ StoreFails \/ RestOfIngest
    \/ Publish \/ Heartbeat

Next == Step \/ UpstreamChanges \/ CyclePanics \/ Restart

Spec == Init /\ [][Next]_vars

(* Run keeps polling and every call has a deadline. *)
FairSpec == Spec /\ WF_vars(Step)

(* What a node cannot bring about by itself: upstream answers, and its     *)
(* answer decodes and is stored, infinitely often if asked that often.     *)
OthersCooperate ==
    SF_vars(NotModified \/ Response200) /\ SF_vars(Decode) /\ SF_vars(Stored)

-----------------------------------------------------------------------------
(* A heartbeat is worth what heartbeat.go:16-23 says: what upstream        *)
(* confirmed in that cycle, by a 200 or by a 304 to an ETag cached cycles  *)
(* ago, is in the store, and the merged snapshot was published.            *)
HeartbeatVouched ==
    beat => /\ ShouldIngest => answered \in landed
            /\ ShouldPublish => mergedPublishOK

(* Every cycle ends, even if upstream never answers: retries are bounded,  *)
(* failures are not fatal.                                                 *)
EveryCycleEnds == pc # "idle" ~> pc = "idle"

(* A node catches up with upstream however many fetches fail, payloads do  *)
(* not decode and cycles panic on the way: a payload that did not decode   *)
(* is asked for again, not answered by 304.  Or the store refused it: the  *)
(* 304s that follow never offer it again, and the flag that keeps the      *)
(* dead-man's switch silent stays up for good.                             *)
LatestLands ==
    OthersCooperate =>
        (<>(upstream = MaxVersion) => <>(MaxVersion \in landed) \/ <>[]upsertFailed)

(* "fallback retire failed (will retry next cycle)" (postgres.go:328):     *)
(* references whose retirement failed are retired by a later cycle.        *)
RetireIsRetried ==
    OthersCooperate =>
        \A v \in Version : v \in landed \ retired ~> \E w \in retired : w >= v
=============================================================================
