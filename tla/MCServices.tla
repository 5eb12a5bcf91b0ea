----------------------------- MODULE MCServices -----------------------------
(***************************************************************************)
(* An instance of Services for TLC: the other module sends a heartbeat and *)
(* one packet, and one end of the link writes.                             *)
(***************************************************************************)
EXTENDS Services

HeartbeatAndPacket == <<"WATCHDOG", "DATA">>
TwoByA == [A |-> 2, B |-> 0]
=============================================================================
