----------------------------- MODULE MCUpsertBatch -----------------------------
(* Two ingest nodes, four messages: warning2 continues warning1, the        *)
(* statement that follows them references warning2 under another event type *)
(* and is rejected by Postgres, and the expires of garbled does not parse.  *)
EXTENDS UpsertBatch, TLC

CONSTANTS warning1, warning2, statement, garbled

MCEvent ==
    (warning1 :> "warning") @@ (warning2 :> "warning")
        @@ (statement :> "statement") @@ (garbled :> "warning")
MCRefs ==
    (warning1 :> {}) @@ (warning2 :> {warning1})
        @@ (statement :> {warning2}) @@ (garbled :> {warning1})
MCExpires ==
    (warning1 :> 2) @@ (warning2 :> 1) @@ (statement :> 2) @@ (garbled :> 2)

MCPayloads ==
    {<<>>, <<warning1, warning2>>, <<warning2, warning1>>,
     <<warning2, statement>>, <<garbled, warning1>>}
MCPoisonPayloads ==
    {<<warning1, warning2>>, <<warning2, warning1>>, <<warning2, statement>>}

NodeSymmetry == Permutations(Node)
=============================================================================
