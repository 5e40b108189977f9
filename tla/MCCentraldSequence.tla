------------------------- MODULE MCCentraldSequence -------------------------
(***************************************************************************)
(* Opening and closing: two devices in the opening sequence, which report  *)
(* every combination of blocks and may break and come back; the operator   *)
(* switches the system on and off and orders sequences by hand.            *)
(***************************************************************************)
EXTENDS Centrald

CONSTANTS d1, d2

MCDevices == {d1, d2}

\* A device is closed, moving or open.
MCWords == {w \in Word : /\ w.ready = "ready"
                         /\ w.weather = "good"
                         /\ w.move = "can_move"
                         /\ w.blocks # {}}

MCRequired == {{}}

MCSequences == {<<d1, d2>>}

MCPeriods == {}

\* The run takes place at night, with the system on or off.
MCCommands == {"on", "hard_off"}

MCSuns == {NIGHT}
=============================================================================
