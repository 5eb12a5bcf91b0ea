----------------------------- MODULE SortedLine -----------------------------
(***************************************************************************)
(* What the line promises about the items that leave it: they are of types *)
(* that are to be kept, and the hollow ones among them follow the cycle    *)
(* HOLLOW, HOLLOW, HOLLOW_METAL (SortOrder in master/plugin/items.h), from *)
(* any point of it.  Only the last Depth items count.                      *)
(***************************************************************************)
EXTENDS Naturals, SequencesExt

CONSTANT Depth

VARIABLE delivered    \* the types of the last Depth items, the newest first

Cycle == <<"HOLLOW", "HOLLOW", "HOLLOW_METAL">>

Kept == {"CODED_000", "CODED_011", "CODED_101", "CODED_110"}

Hollow(s) == {i \in DOMAIN s : s[i] \in Range(Cycle)}

InCycle(n) == Cycle[(n % 3) + 1]

Sorted(s) == /\ Range(s) \subseteq Kept \cup Range(Cycle)
             /\ \E phase \in 1..3 :
                  \A i \in Hollow(s) :
                     s[i] = InCycle(phase + Cardinality({j \in Hollow(s) : j >= i}))

Init == delivered = <<>>

Deliver(t) == LET s == <<t>> \o delivered IN
              /\ delivered' = SubSeq(s, 1, IF Len(s) > Depth THEN Depth ELSE Len(s))
              /\ Sorted(delivered')

Next == \E t \in Kept \cup Range(Cycle) : Deliver(t)

Spec == Init /\ [][Next]_delivered
=============================================================================
