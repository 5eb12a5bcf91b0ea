---------------------------- MODULE MCMasterLogic ----------------------------
(***************************************************************************)
(* An instance of MasterLogic for TLC with everything the modules can send *)
(* to the master.                                                          *)
(***************************************************************************)
EXTENDS MasterLogic

AllRequests == Requests

AllEvents == Event
=============================================================================
