------------------------------- MODULE Sorter -------------------------------
(***************************************************************************)
(* Which items leave the line: Master::analyse() and Master::evaluate(),   *)
(* which each module's ANALYSE report calls for the item at its switch,    *)
(* Run::history(), which tells the plugin of the item what is ahead of it, *)
(* and the policies of the plugins, among them Sortable.                   *)
(*                                                                         *)
(* The items are those of mItems, the newest first.  What a measurement    *)
(* looks like is left open: it matches any plugin or none.  Only one item  *)
(* at a time is at a switch or on module 2 (PAUSE and EXPECT_NEW, modelled *)
(* in RunNet).                                                             *)
(***************************************************************************)
EXTENDS Naturals, SequencesExt

CONSTANTS Type,       \* the types that items may have
          Depth,      \* MXT_MAX_DEPTH
          MaxLine     \* bound: items on the line

SorterAssumption ==
    /\ Type \subseteq {"HOLLOW", "HOLLOW_METAL", "FLAT", "UPSIDEDOWN"}
                     \cup {"CODED_000", "CODED_001", "CODED_010", "CODED_011",
                           "CODED_100", "CODED_101", "CODED_110", "CODED_111"}
    /\ Depth \in Nat /\ MaxLine \in Nat

VARIABLES line,       \* mItems
          full        \* the modules whose ramp is full

vars == <<line, full>>

Item == [at : {"M1", "M1_SWITCH", "M1_END", "M2", "M2_SWITCH", "DONE"},
         plugin : Type \cup {"NULL"},
         action : {"VOID", "KEEP", "TOSS_M", "TOSS_S", "TOSS"},
         pass : BOOLEAN]    \* the module was sent KEEP_NEXT for it

-----------------------------------------------------------------------------
(* Sortable<HOLLOW, HOLLOW, HOLLOW_METAL> *)
Cycle == <<"HOLLOW", "HOLLOW", "HOLLOW_METAL">>
SIZE == Len(Cycle)

contained(t) == t \in Range(Cycle)

\* A history is the set of the positions on the line whose items it has; the
\* last item is the one at the lowest position.
Hollow(h) == {j \in h : contained(line[j].plugin)}
Rank(h, j) == Cardinality({k \in h : k <= j})

\* How many hollow items are looked at.
Past(h) == IF Cardinality(h) < SIZE THEN Cardinality(h) ELSE SIZE

InCycle(n) == Cycle[(n % SIZE) + 1]

\* Mutant of Follows: the history is compared the wrong way round.
FollowsForwards(h, i) ==
    \A j \in h : Rank(h, j) <= SIZE => line[j].plugin = InCycle(i + Rank(h, j))

\* The last hollow items of h follow the cycle from its i-th place on.
Follows(h, i) ==
    \A j \in h : Rank(h, j) <= SIZE => line[j].plugin = InCycle(i + Past(h) + 1 - Rank(h, j))

\* What may come after h.
predictNext(h) == {InCycle(i + Past(Hollow(h)) + 1) : i \in {i \in 1..SIZE : Follows(Hollow(h), i)}}

\* The oldest items of a history that fits nowhere are forgotten.
Since(h, j) == {k \in h : k <= j}

decideSorted(t, h) ==
    LET fits == {j \in h : predictNext(Since(h, j)) # {}}
    IN IF fits # {} /\ t \notin predictNext(Since(h, Max(fits))) THEN "TOSS_S" ELSE "KEEP"

decide(t, h) == CASE contained(t) -> decideSorted(t, h)
                  [] t \in {"CODED_000", "CODED_011", "CODED_101", "CODED_110"} -> "KEEP"
                  [] t \in {"FLAT", "CODED_001", "CODED_100"} -> "TOSS_M"
                  [] t \in {"CODED_010", "CODED_111"} -> "TOSS_S"
                  [] t = "UPSIDEDOWN" -> "TOSS"

-----------------------------------------------------------------------------
\* The items ahead of line[i] that have a type and are to be kept.
history(i) == {j \in i + 1 .. Len(line) : line[j].plugin # "NULL" /\ line[j].action = "KEEP"}

\* analyse(): m is the best match, NULL when it is not good enough.  A type
\* found before is kept when this measurement matches nothing.
Analysed(x, m) ==
    CASE m = "NULL" -> [x EXCEPT !.action = "TOSS"]
      [] m # "NULL" /\ x.plugin \notin {"NULL", m} -> [x EXCEPT !.action = "TOSS", !.plugin = "NULL"]
      [] OTHER -> [x EXCEPT !.plugin = m]

Decided(x, h) ==
    IF x.plugin = "NULL" THEN x.action
    ELSE LET a == decide(x.plugin, h) IN IF a = "TOSS_M" /\ x.at = "M2_SWITCH" THEN "TOSS" ELSE a

Here(x) == IF x.at = "M1_SWITCH" THEN "TOSS_M" ELSE "TOSS_S"

\* evaluate(): the ramp of module 2 takes what module 1 has no room for.
Evaluated(x, h) ==
    LET d == Decided(x, h)
        a == IF d = "TOSS" THEN Here(x) ELSE d
    IN CASE a = "KEEP" -> [x EXCEPT !.action = a, !.pass = TRUE]
         [] a = "TOSS_M" /\ "M" \in full -> [x EXCEPT !.action = "TOSS_S", !.pass = TRUE]
         [] a = "TOSS_S" /\ "S" \notin full /\ x.at = "M1_SWITCH" -> [x EXCEPT !.action = a, !.pass = TRUE]
         [] OTHER -> [x EXCEPT !.action = a, !.pass = FALSE]

-----------------------------------------------------------------------------
Init == line = <<>> /\ full = {}

OnLine == {i \in 1..Len(line) : line[i].at # "DONE"}
At(seg) == {i \in 1..Len(line) : line[i].at = seg}
Oldest(seg) == CHOOSE i \in At(seg) : \A j \in At(seg) : j <= i

Arrive == /\ Cardinality(OnLine) < MaxLine
          /\ line' = <<[at |-> "M1", plugin |-> "NULL", action |-> "VOID", pass |-> FALSE]>> \o line
          /\ UNCHANGED full

\* An ANALYSE report from the module whose items are at from.
Analyse(from, switch) ==
    /\ At(from) # {} /\ At(switch) = {}
    /\ LET i == Oldest(from)
           x == [line[i] EXCEPT !.at = switch]
       IN \E m \in Type \cup {"NULL"} :
            line' = [line EXCEPT ![i] = Evaluated(Analysed(x, m), history(i))]
    /\ UNCHANGED full

Trimmed(s) ==
    LET done == {i \in 1..Len(s) : s[i].at = "DONE"}
    IN IF Cardinality(done) > Depth THEN Front(s) ELSE s

\* The module reports that the item it was to keep has passed the switch.
PassSwitch(switch, to) == /\ \E i \in At(switch) : line[i].pass
                    /\ line' = Trimmed([line EXCEPT ![Oldest(switch)].at = to])
                    /\ UNCHANGED full

HandOver == /\ At("M1_END") # {} /\ At("M2") \cup At("M2_SWITCH") = {}
            /\ line' = [line EXCEPT ![Oldest("M1_END")].at = "M2"]
            /\ UNCHANGED full

\* An item goes down a ramp, or is lost wherever it is.
Leave == /\ \E i \in OnLine : line' = RemoveAt(line, i)
          /\ UNCHANGED full

RampChanges == /\ full' \in SUBSET {"M", "S"}
               /\ UNCHANGED line

Next == \/ Arrive
        \/ Analyse("M1", "M1_SWITCH") \/ Analyse("M2", "M2_SWITCH")
        \/ PassSwitch("M1_SWITCH", "M1_END") \/ PassSwitch("M2_SWITCH", "DONE")
        \/ HandOver \/ Leave \/ RampChanges

Spec == Init /\ [][Next]_vars

-----------------------------------------------------------------------------
TypeOK == /\ line \in Seq(Item) /\ Cardinality(OnLine) <= MaxLine
          /\ full \subseteq {"M", "S"}

\* The types of the items that are done, which are the last ones of the line.
Delivered == LET n == Cardinality(At("DONE"))
             IN  [k \in 1..n |-> line[Len(line) - n + k].plugin]

Promise == INSTANCE SortedLine WITH delivered <- Delivered

\* Refinement: whatever the two modules make of an item, whichever items are
\* lost, taken for something else or sent on because a ramp is full, those
\* that leave module 2 are to be kept, and the hollow ones are in order.
KeptInOrder == Promise!Spec
=============================================================================
