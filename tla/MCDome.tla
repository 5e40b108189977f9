------------------------------- MODULE MCDome -------------------------------
(***************************************************************************)
(* One dome under one central server, with a driver every call of which    *)
(* may fail.                                                               *)
(***************************************************************************)
EXTENDS Dome

CONSTANT c1

MCCentralds == {c1}
MCMaster == c1

W(o, p, w) == [onoff |-> o, period |-> p, weather |-> w]

\* Night on and off, bad weather in the night, and the day.
MCWords == {W("on", NIGHT, "good"), W("on", NIGHT, "bad"),
            W("standby", NIGHT, "good"), W("hard_off", DAY, "good")}

\* Liveness is checked with an observatory that is always on.
MCLiveWords == {W("on", NIGHT, "good"), W("on", NIGHT, "bad")}
=============================================================================
