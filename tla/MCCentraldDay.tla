--------------------------- MODULE MCCentraldDay ---------------------------
(***************************************************************************)
(* The day: the sun goes through all its periods while the operator        *)
(* switches the system between all its states and forces periods.  One     *)
(* device, in the opening sequence, reports closed or open.                *)
(***************************************************************************)
EXTENDS Centrald

CONSTANTS d1

MCDevices == {d1}

MCWords == {w \in Word : /\ w.ready = "ready"
                         /\ w.weather = "good"
                         /\ w.move = "can_move"
                         /\ w.blocks \in {{"open"}, {"close"}}}

MCRequired == {{}}

MCSequences == {<<d1>>}

MCPeriods == {DUSK, MORNING}

MCCommands == OnOff

MCSuns == DAY .. MORNING
=============================================================================
