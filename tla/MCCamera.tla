------------------------------ MODULE MCCamera ------------------------------
(***************************************************************************)
(* A camera without frame transfer: a client exposes three times, changes  *)
(* the filter and the window, and comes and goes.  Two clients with two    *)
(* exposures show that OK may go to the wrong one.                         *)
(***************************************************************************)
EXTENDS Camera
=============================================================================
