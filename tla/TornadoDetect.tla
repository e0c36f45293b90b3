----------------------------- MODULE TornadoDetect -----------------------------
(***************************************************************************)
(* internal/nws DetectTornado and the parsers it rests on: from the        *)
(* parameters and the description of a message to the detection axis (is   *)
(* there a tornado?) and the damage-threat axis of the snapshot.           *)
(*                                                                         *)
(* A bulletin is what they read of a message:                              *)
(*   detection, threat  the entries of tornadoDetection and                *)
(*                      tornadoDamageThreat, tokens as normalizeToken      *)
(*                      leaves them, "" a blank one, <<>> when absent      *)
(*   lines              <<key, value>> pairs, the well-formed lines of the *)
(*                      first && block of the description                  *)
(*   hazard             the words of its HAZARD line, {} when it has none  *)
(*   radar              its SOURCE line says "radar indicated"             *)
(* SourceText, which is only displayed, is left out.                       *)
(***************************************************************************)
EXTENDS Integers, Sequences

Levels  == {"RADAR INDICATED", "OBSERVED"}
Threats == {"CONSIDERABLE", "CATASTROPHIC"}

NoDetection == [level |-> "none", threat |-> "BASE", drift |-> FALSE]
Drift       == [NoDetection EXCEPT !.drift = TRUE]

(* The first entry that is not blank. *)
firstParam(entries) ==
    LET present == SelectSeq(entries, LAMBDA e : e # "")
    IN IF present = <<>> THEN "" ELSE Head(present)

(* ParseWarningTags: a key that is repeated keeps its last value, one that *)
(* is missing is "".                                                       *)
Tag(lines, key) ==
    LET at == {i \in DOMAIN lines : lines[i][1] = key}
    IN IF at = {} THEN ""
       ELSE lines[CHOOSE i \in at : \A j \in at : j <= i][2]

(* "" is no word on the matter.  POSSIBLE, the embedded tornado of a severe *)
(* thunderstorm warning, is known and gives no level by itself.            *)
Unknown(token) == token \notin Levels \cup {"", "POSSIBLE"}

(* As whole words: the regular expression does not see "winds" or "gusts". *)
Secondary == {"possible", "wind", "hail", "mph", "gust"}

(* mutant: any mention of a tornado will do *)
MutIsTornadoHazard(hazard) == "tornado" \in hazard

isTornadoHazard(hazard) == "tornado" \in hazard /\ hazard \cap Secondary = {}

(* Tier 1, the structured parameter; tier 2, the tag block; tier 3, the    *)
(* narrative, which is heard only of a tornado hazard and only as far as   *)
(* "radar indicated".                                                      *)
Level(b, token, tag) ==
    IF token \in Levels THEN token
    ELSE IF tag \in Levels THEN tag
    ELSE IF isTornadoHazard(b.hazard) /\ b.radar THEN "RADAR INDICATED"
    ELSE "none"

Threat(b) ==
    LET param == firstParam(b.threat)
        tag   == Tag(b.lines, "TORNADO DAMAGE THREAT")
    IN IF param \in Threats THEN param ELSE IF tag \in Threats THEN tag ELSE "BASE"

(* mutant: an unknown parameter leaves the matter to the tag block *)
MutDetectTornado(b) ==
    LET token == firstParam(b.detection)
        tag   == Tag(b.lines, "TORNADO")
        level == Level(b, token, tag)
    IN IF level = "none" THEN NoDetection
       ELSE [level |-> level, threat |-> Threat(b), drift |-> FALSE]

(* Drift is (nil, err): a token that was consulted and is not known.  The  *)
(* tag is consulted only if the parameter has not decided.                 *)
DetectTornado(b) ==
    LET token == firstParam(b.detection)
        tag   == Tag(b.lines, "TORNADO")
        level == Level(b, token, tag)
    IN IF Unknown(token) \/ (token \notin Levels /\ Unknown(tag)) THEN Drift
       ELSE IF level = "none" THEN NoDetection
       ELSE [level |-> level, threat |-> Threat(b), drift |-> FALSE]

-----------------------------------------------------------------------------
(* What the structured sources say: the parameter, or, where it is absent  *)
(* or blank, the tag block (detection.go:22-33).                           *)
Sources(b) == {firstParam(b.detection), Tag(b.lines, "TORNADO")}

Word(b) ==
    IF firstParam(b.detection) # "" THEN firstParam(b.detection) ELSE Tag(b.lines, "TORNADO")

(* Of the threat, too, the parameter's word comes before the tag's.        *)
SaysThreat(b, threat) ==
    LET param == firstParam(b.threat)
        tag   == Tag(b.lines, "TORNADO DAMAGE THREAT")
    IN param = threat \/ (param \notin Threats /\ tag = threat)

Narrated(b) == b.radar /\ "tornado" \in b.hazard /\ "possible" \notin b.hazard

NoOverclaim(b, d) ==
    /\ d.level = "OBSERVED" => "OBSERVED" \in Sources(b)
    /\ d.level = "RADAR INDICATED" => "RADAR INDICATED" \in Sources(b) \/ Narrated(b)
    /\ d.level # "none" /\ Word(b) \notin {"", "POSSIBLE"} => d.level = Word(b)
    /\ d.threat # "BASE" => d.level # "none" /\ SaysThreat(b, d.threat)

NoUnderclaim(b, d) ==
    /\ Word(b) \in Levels => d.level = Word(b)
    /\ d.level # "none" => \A threat \in Threats : SaysThreat(b, threat) => d.threat = threat
    /\ Unknown(Word(b)) => d.drift
    /\ d.drift => \E word \in Sources(b) : Unknown(word)
=============================================================================
