------------------------------ MODULE MasterRun ------------------------------
(***************************************************************************)
(* The item tracker of the master as a state machine of its own: one step  *)
(* per packet that hsm::Run::handle gets while the master is in its run    *)
(* state, and one for the master entering that state again.  The packets   *)
(* come in any order in which the two modules could report, lost and       *)
(* spurious items included.                                                *)
(***************************************************************************)
EXTENDS RunNet, FiniteSets

CONSTANT MaxItems   \* bound: items on module 1 at a time

ASSUME MaxItemsAssumption == MaxItems \in Nat \ {0}

VARIABLE net

vars == <<net>>

Init == net = Fresh

Receive(e) ==
    /\ e = <<"M", "NEW_ITEM", "START">> => net.tok["COUNT"] < MaxItems
    /\ e = HandOverLost => net.expecting > 0
    /\ net' = Handle(Answered(net, e), e, <<>>)

Enter == net' = Resend(net)

Next == \/ \E e \in Event : Receive(e)
        \/ Enter

Spec == Init /\ [][Next]_vars

-----------------------------------------------------------------------------
\* Types of the tracker state; nothing is left in the error buffer between
\* two packets.
TypeOK == Typed(net) /\ net.buf = <<>>

\* COUNT, which decides when module 1 stops and whether the master is idle,
\* is the number of items tracked on module 1, the one that waits for
\* module 2 included.
CountIsLoad == LoadCounted(net)

\* Module 2 is either ready, or promised one item, or holds one item.
OneItemOnM2 == OneOnM2(net)

\* Module 1 is either waiting for items, running, or paused for module 2.
OneRunMode == OneMode(net)

\* The segments of the item buffer agree with the marking, so no transition
\* removes from an empty segment (which throws) or counts one below zero.
\* An item that waits in PRESTART is still in the last segment of module 1.
SegmentsTrackTokens == SizesMatch(net)

\* The last motor command each module was sent is the one its part of the
\* net calls for: module 1 moves in RUNNING, module 2 while it is promised or
\* holds an item that has not reached the end.
MotorsFollowNet == MotorsMatch(net)

\* Between two packets the tracker has nothing left to do.  No NIL transition
\* is enabled: the net never waits for a packet to do what it could have
\* done.  Module 1 is paused exactly while an item waits at its end for a
\* module 2 that is not ready; a pause never outlives its reason.  And
\* module 2 has been told to expect exactly the item that is on its way to
\* it: hsm::Run never repeats an EXPECT_NEW and never forgets one.
NothingEnabled == \A t \in Automatic : ~CanFire(net, t)

PausedForM2 ==
    net.tok["RUN_PAUSED"] = 1 <=> net.tok["M1_END"] > 0 /\ net.tok["M2RDY"] = 0

ExpectationsMatch == net.expecting = net.tok["PRESTART"]

Settled == NothingEnabled /\ PausedForM2 /\ ExpectationsMatch

Items(n) == OnM1(n) + n.tok["PRESTART"] + OnM2(n)

LossesIn(s) == {i \in DOMAIN s : s[i].to = "MASTER" /\ s[i].msg # "ITEM_APPEARED"}

LossReports(n) == Cardinality(LossesIn(n.out))

\* An item never disappears from the tracker in silence: what a step drops
\* is announced item by item in errors, or is one item that left the line
\* through a ramp or the end of module 2.
NoSilentLoss ==
    [][Items(net') < Items(net)
         => \/ LossReports(net') = Items(net) - Items(net')
            \/ LossReports(net') = 0 /\ Items(net') = Items(net) - 1]_vars

\* master_logic.cpp:452 "can handle a dissappeared item": one report of a
\* missing item is answered with one error, for one item.
OneLossPerReport == [][Items(net') >= Items(net) - 1]_vars
=============================================================================
