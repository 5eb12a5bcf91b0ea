------------------------------ MODULE MCBspLink ------------------------------
(***************************************************************************)
(* Instances of BspLink for TLC.                                           *)
(***************************************************************************)
EXTENDS BspLink

\* End A writes two messages while end B writes one.
Writes == [e \in End |-> IF e = "A" THEN 2 ELSE 1]

\* Only end A writes.
OneWay == [e \in End |-> IF e = "A" THEN 2 ELSE 0]
=============================================================================
