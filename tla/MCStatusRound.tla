---------------------------- MODULE MCStatusRound ---------------------------
(***************************************************************************)
(* A client commands the mount and another the camera.  In MCStatusRound   *)
(* the mount and the focuser block the camera, which queues value changes; *)
(* in MCStatusLost the mount and the camera block each other, and one may  *)
(* be lost.  In MCBothMount both clients command the mount.                *)
(***************************************************************************)
EXTENDS StatusRound

MCTargetOf == [x \in Clients |-> IF x = "x1" THEN "tel" ELSE "cam"]

MCBothMount == [x \in Clients |-> "tel"]

MCBlockOthers == [d \in Devices |-> Devices \ {d}]

MCBlockCamera == [d \in Devices |-> IF d = "cam" THEN {"tel", "foc"} ELSE {}]

MCOneRun == [x \in Clients |-> 1]

MCTwoRuns == [x \in Clients |-> 2]

=============================================================================
