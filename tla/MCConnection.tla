---------------------------- MODULE MCConnection ----------------------------
(***************************************************************************)
(* Instances of Connection for TLC: the other module sends one packet, or  *)
(* two packets with a heartbeat between them, so that both queues hold     *)
(* more than one packet.  (MCServices has one for liveness.)               *)
(***************************************************************************)
EXTENDS Connection

OnePacket == <<"DATA">>
PacketsAndHeartbeat == <<"DATA", "WATCHDOG", "DATA">>
=============================================================================
