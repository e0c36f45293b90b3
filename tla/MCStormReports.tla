---------------------------- MODULE MCStormReports ----------------------------
(* A tick is 250 ms: less than four seconds are left when the call begins, *)
(* three ticks of them for the first file.  One file has a row that does   *)
(* not parse, one a report that Postgres rejects.                          *)
EXTENDS StormReports
CONSTANTS t1, t2, h1, w1
MCReport == {t1, t2, h1, w1}
MCFile == <<<<t1, t2>>, <<h1>>, <<w1>>>>
=============================================================================
