--------------------------- MODULE MCDomeMasters ----------------------------
(***************************************************************************)
(* One dome over two observatories: two central servers, one of them the   *)
(* state master, and a driver that never fails.                            *)
(***************************************************************************)
EXTENDS Dome

CONSTANTS c1, c2

MCCentralds == {c1, c2}
MCMaster == c1

W(o, p, w) == [onoff |-> o, period |-> p, weather |-> w]

\* The servers disagree about the night, the weather and being off.
MCWords == {W("on", NIGHT, "good"), W("on", NIGHT, "bad"),
            W("hard_off", DAY, "good")}
=============================================================================
