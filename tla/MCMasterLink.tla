---------------------------- MODULE MCMasterLink ----------------------------
(***************************************************************************)
(* A device that asks for the state of others, asks for keys and lets      *)
(* clients in, over a link that is lost a few times.                       *)
(***************************************************************************)
EXTENDS MasterLink
=============================================================================
