----------------------------- MODULE ReliableLink -----------------------------
(***************************************************************************)
(* What serial::Client promises the communication layers of the two        *)
(* modules (serial/client.h, test/ut/serial_client.cpp): each end reads    *)
(* the messages the other end wrote, in order, complete and once, whatever *)
(* the line does to the bytes.                                             *)
(***************************************************************************)
EXTENDS Integers, Sequences

CONSTANT Message

VARIABLES sent,      \* what has been given to Client::write at each end
          received   \* what Client::read has returned at each end

End == {"A", "B"}
Peer(e) == IF e = "A" THEN "B" ELSE "A"

Init == /\ sent = [e \in End |-> <<>>]
        /\ received = [e \in End |-> <<>>]

Write(e, m) == /\ sent' = [sent EXCEPT ![e] = Append(@, m)]
               /\ UNCHANGED received

Read(e) == LET n == Len(received[e]) + 1
           IN  /\ n <= Len(sent[Peer(e)])
               /\ received' = [received EXCEPT ![e] = Append(@, sent[Peer(e)][n])]
               /\ UNCHANGED sent

Next == \E e \in End : Read(e) \/ \E m \in Message : Write(e, m)

Spec == Init /\ [][Next]_<<sent, received>>
=============================================================================
