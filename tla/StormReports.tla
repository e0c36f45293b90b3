------------------------------ MODULE StormReports ------------------------------
(***************************************************************************)
(* The storm reports of a node, cycle after cycle: pollStormReports, the   *)
(* three files of the Storm Prediction Center, and                         *)
(* UpsertStormReportsBatch with its transaction and its fallback.          *)
(*                                                                         *)
(* The clock starts with each call of pollStormReports and stops while it  *)
(* stores: from there on the context may fire at any step.  A report is    *)
(* known by its type, location and HHMM, which with the date it is given   *)
(* are the table's key.                                                    *)
(***************************************************************************)
EXTENDS Fetch, Sequences

CONSTANTS
    Report,
    File,       \* File[k]: the reports of the k-th file, as sequences
    Malformed,  \* reports whose row is short or has no coordinates
    Poison,     \* reports Postgres rejects
    PhaseEnd,   \* what is left of the fetch+store budget when the call begins
    LastDate    \* bound: the dates are 0 .. LastDate

ASSUME StormAssumption ==
    /\ File \in [1 .. 3 -> Seq(Report)] /\ Malformed \cup Poison \subseteq Report
    /\ PhaseEnd \in Nat /\ LastDate \in Nat

VARIABLES
    pc,        \* "idle", "fetch", "batch" or "rows"
    file,      \* the file being fetched
    record,    \* the row of it that is parsed next
    reports,   \* what has been fetched, in order, dated; in "rows" what is left
    date,      \* the UTC date
    table,     \* the keys of storm_reports
    handed,    \* what the call was given (history)
    lost,      \* rows of it whose own statement failed (history)
    down,      \* environment: files that cannot be had
    calm       \* environment: from here on nothing else fails

stormVars == <<pc, file, record, reports, date, table, handed, lost, down, calm>>
vars == <<fetchVars, stormVars>>
env == <<date, down, calm>>

Row == Report \X (0 .. LastDate)

TypeOK ==
    /\ FetchTypeOK
    /\ pc \in {"idle", "fetch", "batch", "rows"} /\ file \in 1 .. 3
    /\ record \in 1 .. Len(File[file]) + 1
    /\ reports \in Seq(Row) /\ Len(reports) <= Len(File[1] \o File[2] \o File[3])
    /\ date \in 0 .. LastDate
    /\ table \subseteq Row /\ handed \subseteq Row /\ lost \subseteq handed
    /\ down \subseteq 1 .. 3 /\ calm \in BOOLEAN

Init ==
    /\ now = 0 /\ at = "failed" /\ attempt = 0 /\ deadline = 0 /\ sentAt = 0 /\ wakeAt = 0
    /\ pc = "idle" /\ file = 1 /\ record = 1 /\ reports = <<>> /\ date = 0
    /\ table = {} /\ handed = {} /\ lost = {}
    /\ down \in SUBSET (1 .. 3) /\ calm = FALSE

-----------------------------------------------------------------------------
(* 00:00Z. *)
Midnight ==
    /\ date < LastDate /\ date' = date + 1
    /\ UNCHANGED <<fetchVars, pc, file, record, reports, table, handed, lost, down, calm>>

CalmBegins ==
    /\ ~calm /\ calm' = TRUE
    /\ UNCHANGED <<fetchVars, pc, file, record, reports, date, table, handed, lost, down>>

\* mutant: each file may take what the phase has left
MutFetchTakesAll(t) == PhaseEnd

(* withBudgetFraction of SPCFetchBudgetPercent, at time t. *)
FileDeadline(t) == IF t >= PhaseEnd THEN t ELSE t + ((PhaseEnd - t) * 20) \div 100

PollBegins ==
    /\ pc = "idle"
    /\ pc' = "fetch" /\ file' = 1 /\ record' = 1 /\ reports' = <<>>
    /\ now' = 0 /\ at' = "request" /\ attempt' = 0
    /\ deadline' = FileDeadline(0) /\ sentAt' = 0 /\ wakeAt' = 0
    /\ handed' = {} /\ lost' = {}
    /\ UNCHANGED <<table, env>>

(* When all is calm a file that is not down answers in time. *)
AnswersInTime ==
    at' # "failed" /\ now' < deadline /\ (at = "request" => at' # "asleep")

(* The file's fetch, attempt by attempt; one that is down is refused. *)
Fetches ==
    /\ pc = "fetch" /\ FetchStep
    /\ file \in down => ~Answered
    /\ calm /\ file \notin down /\ now < deadline => AnswersInTime
    /\ UNCHANGED stormVars

(* The next file, or the upsert; nothing to upsert is no call. *)
GoOn(rs) ==
    /\ reports' = rs
    /\ IF file < 3
       THEN /\ file' = file + 1 /\ record' = 1 /\ FetchBegins(FileDeadline(now))
            /\ UNCHANGED <<now, pc, handed>>
       ELSE /\ pc' = IF rs = <<>> THEN "idle" ELSE "batch"
            /\ handed' = {rs[i] : i \in DOMAIN rs}
            /\ UNCHANGED <<file, record, fetchVars>>
    /\ UNCHANGED <<table, lost, env>>

(* parseCSVReports: a row that does not parse is skipped; the HHMM of one  *)
(* that does gets the date the clock shows when it is its turn.            *)
ParseRow ==
    /\ pc = "fetch" /\ at = "answered" /\ record <= Len(File[file])
    /\ reports' = IF File[file][record] \in Malformed THEN reports
                  ELSE Append(reports, <<File[file][record], date>>)
    /\ record' = record + 1
    /\ UNCHANGED <<fetchVars, pc, file, table, handed, lost, env>>

FileRead ==
    /\ pc = "fetch" /\ at = "answered" /\ record > Len(File[file])
    /\ GoOn(reports)

\* mutant: the call ends at the first file that fails
MutFileFailsEndsCall ==
    /\ pc = "fetch" /\ at = "failed"
    /\ pc' = "idle"
    /\ UNCHANGED <<fetchVars, file, record, reports, table, handed, lost, env>>

(* "A tornado-feed failure shouldn't kill hail + wind ingest". *)
FileFails ==
    /\ pc = "fetch" /\ at = "failed"
    /\ GoOn(reports)

Rejects(row) == row[1] \in Poison

(* The transaction: ON CONFLICT DO NOTHING for every row. *)
BatchCommits ==
    /\ pc = "batch" /\ \A row \in handed : ~Rejects(row)
    /\ table' = table \cup handed
    /\ pc' = "idle" /\ reports' = <<>>
    /\ UNCHANGED <<fetchVars, file, record, handed, lost, env>>

(* A row is rejected, or the transaction fails, its commit seen or not. *)
BatchFails ==
    /\ pc = "batch"
    /\ calm => \E row \in handed : Rejects(row)
    /\ \/ UNCHANGED table
       \/ (\A row \in handed : ~Rejects(row)) /\ table' = table \cup handed
    /\ pc' = "rows"
    /\ UNCHANGED <<fetchVars, file, record, reports, handed, lost, env>>

(* The fallback is at its next row, or returns. *)
NextRow ==
    /\ reports' = Tail(reports)
    /\ pc' = IF Len(reports) = 1 THEN "idle" ELSE "rows"
    /\ UNCHANGED <<fetchVars, file, record, handed, env>>

RowStored ==
    /\ pc = "rows" /\ ~Rejects(Head(reports))
    /\ table' = table \cup {Head(reports)}
    /\ NextRow
    /\ UNCHANGED lost

\* mutant: the fallback ends at a row that fails
MutRowFailsEndsCall ==
    /\ pc = "rows" /\ (calm => Rejects(Head(reports)))
    /\ lost' = lost \cup {Head(reports)}
    /\ pc' = "idle"
    /\ UNCHANGED <<fetchVars, file, record, reports, table, handed, env>>

(* Logged, and on to the next. *)
RowFails ==
    /\ pc = "rows" /\ (calm => Rejects(Head(reports)))
    /\ lost' = lost \cup {Head(reports)}
    /\ NextRow
    /\ UNCHANGED table

(* A context error ends the call with one; a transaction in flight or a    *)
(* row may have been applied.  What was to come is not written.            *)
CtxFires ==
    /\ ~calm /\ pc \in {"batch", "rows"}
    /\ \/ UNCHANGED table
       \/ pc = "batch" /\ (\A row \in handed : ~Rejects(row)) /\ table' = table \cup handed
       \/ pc = "rows" /\ ~Rejects(Head(reports)) /\ table' = table \cup {Head(reports)}
    /\ pc' = "idle" /\ reports' = <<>> /\ handed' = {} /\ lost' = {}
    /\ UNCHANGED <<fetchVars, file, record, env>>

(* The process dies, or the poll panics. *)
Crash ==
    /\ ~calm /\ pc # "idle"
    /\ pc' = "idle" /\ reports' = <<>> /\ handed' = {} /\ lost' = {}
    /\ UNCHANGED <<fetchVars, file, record, table, env>>

Step ==
    \/ PollBegins \/ Fetches \/ ParseRow \/ FileRead \/ FileFails
    \/ BatchCommits \/ BatchFails \/ RowStored \/ RowFails

Next == Step \/ CtxFires \/ Crash \/ Midnight \/ CalmBegins

Spec == Init /\ [][Next]_vars

(* Every wait has a deadline, and Run polls again. *)
FairSpec == Spec /\ WF_vars(Step)

-----------------------------------------------------------------------------
(* Three files that retry for all they may leave the upsert half of what   *)
(* the call began with (constants.go:119-129): 0.8^3, rounded and late.    *)
RoomToStore ==
    pc \in {"batch", "rows"} => 1000 * (PhaseEnd - now) >= 512 * PhaseEnd - 3000 * Late

(* A row that fails costs itself (postgres.go:475-477): when the call      *)
(* returns without an error every other row it was given is in the table,  *)
(* whether the batch committed, was lost at its commit, or fell back.      *)
ReturnedIsStored == pc = "idle" => handed \subseteq table \cup lost

(* A report SPC keeps listing gets stored, even if another file never can  *)
(* be fetched, another row never stored, and fetches, transactions and     *)
(* processes fail on the way.                                              *)
ListedIsStored ==
    <>calm =>
        \A k \in 1 .. 3 : \A i \in DOMAIN File[k] :
            (k \notin down /\ File[k][i] \notin Malformed \cup Poison) =>
                <>(\E d \in 0 .. LastDate : <<File[k][i], d>> \in table)
=============================================================================
