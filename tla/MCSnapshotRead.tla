----------------------------- MODULE MCSnapshotRead -----------------------------
(* Four messages of one warning with ties, the statement that follows them,  *)
(* whose SAME codes leave a state of its area out, and a product whose VTEC  *)
(* does not parse.                                                           *)
EXTENDS SnapshotRead

Row(id, vtec, type, area, effective, expires, same) ==
    [id |-> id, vtec |-> vtec, type |-> type, area |-> area,
     effective |-> effective, expires |-> expires, same |-> same,
     desc |-> IF area = "border" THEN {"WI", "IL"} ELSE {"WI"}]

MCRows == {
    Row(1, <<"TO.W.0042">>, "warning", "border", 1, 3, {"WI", "IL"}),
    Row(2, <<"no P-VTEC", "TO.W.0042">>, "warning", "border", 2, 3, {}),
    Row(3, <<"TO.W.0042", "TO.W.0007">>, "warning", "border", 2, 3, {"WI", "IL"}),
    Row(4, <<"", "TO.W.0042">>, "warning", "border", 2, 4, {"WI", "IL"}),
    Row(5, <<"TO.W.0042">>, "statement", "border", 2, 4, {"WI"}),
    Row(6, <<"no P-VTEC">>, "watch", "inland", 1, 4, {})}

(* Every structured token against every tag block, with or without a       *)
(* narrative; the values of the threat come with a few of them.            *)
Hazards == {{}, {"tornado"}, {"damaging", "winds", "tornado"},
            {"wind", "gust", "mph", "tornado", "possible"}}

MCBulletins ==
    [detection : {<<>>, <<"", "OBSERVED">>, <<"RADAR INDICATED">>, <<"POSSIBLE">>, <<"NEW TOKEN">>},
     threat    : {<<>>, <<"CONSIDERABLE">>, <<"NEW TOKEN">>},
     lines     : {<<>>, <<<<"HAIL", "1.75IN">>>>, <<<<"TORNADO", "RADAR INDICATED">>>>,
                  <<<<"TORNADO", "POSSIBLE">>, <<"TORNADO", "OBSERVED">>>>,
                  <<<<"TORNADO", "POSSIBLE">>, <<"TORNADO DAMAGE THREAT", "CATASTROPHIC">>>>,
                  <<<<"TORNADO", "NEW TOKEN">>>>},
     hazard    : Hazards,
     radar     : BOOLEAN]
=============================================================================
