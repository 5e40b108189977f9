-------------------------- MODULE MCCentraldVotes --------------------------
(***************************************************************************)
(* Votes: two devices, one or both required, words that differ in          *)
(* readiness, weather and stop.  The opening sequence is empty.            *)
(***************************************************************************)
EXTENDS Centrald

CONSTANTS d1, d2

MCDevices == {d1, d2}

\* A device that is not ready has no opinion yet.
MCWords == {w \in Word : /\ w.blocks = {}
                         /\ w.ready = "not_ready" => w = InitWord}

MCRequired == {{d1}, {d1, d2}}

MCSequences == {<< >>}

MCPeriods == {}

\* The run takes place at night, with the system on or off.
MCCommands == {"on", "hard_off"}

MCSuns == {NIGHT}
=============================================================================
