-------------------------------- MODULE MCFleet --------------------------------
(* Two ingest nodes of neighbouring areas and a publisher; a warning w1 on *)
(* the border, and w2, which replaces it with another footprint.           *)
EXTENDS Fleet, TLC
CONSTANTS n1, n2, n3, w1, w2
MCNode == {n1, n2, n3}
MCMessage == {w1, w2}
MCBuild == n1 :> 1 @@ n2 :> 2 @@ n3 :> 1
MCRawArea == n1 :> <<"WI", "IL", "WI">> @@ n2 :> <<"IL">> @@ n3 :> <<>>
MCRawMode == n1 :> "ingest" @@ n2 :> "ingest" @@ n3 :> "publish"
MCEvent == [x \in MCMessage |-> "tornado_warning"]
MCRefs == w1 :> {} @@ w2 :> {w1}
MCExpires == w1 :> 1 @@ w2 :> 3
MCEventKey == w1 :> "e1" @@ w2 :> "e2"
MCIssued == w1 :> 1 @@ w2 :> 2
MCFeed == n1 :> <<{w1}, {w2}>> @@ n2 :> <<{w1, w2}>> @@ n3 :> <<{}>>
=============================================================================
