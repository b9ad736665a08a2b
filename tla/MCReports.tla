------------------------------ MODULE MCReports ------------------------------
(* Exports of two visits, or of the turf of one of them, and reports on    *)
(* them: two canvassers at one household, in the night when the clocks go  *)
(* forward from UTC+10 to UTC+11, at two o'clock.                          *)
EXTENDS Reports, TLC

CONSTANTS v1, v2

FiltersDef == {{v1, v2}, {v1}}

OneHousehold == [v \in Visits |-> "house"]
Authors == (v1 :> "ann") @@ (v2 :> "bob")
Gps == (v1 :> "low_accuracy") @@ (v2 :> "verified")
Times == (v1 :> 13) @@ (v2 :> 16)     \* 23:00 on day 0; 03:00 on day 1, after the change
Ids == (v1 :> 2) @@ (v2 :> 1)
=============================================================================
