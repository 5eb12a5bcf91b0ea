------------------------------- MODULE RunNet -------------------------------
(***************************************************************************)
(* The item tracker of the master: the Petri net and the segmented buffer  *)
(* of hsm::Run (master/hsm/run.cpp on lib/petri_net.h and                  *)
(* lib/segmented_buffer.h), as functions from one state of the tracker to  *)
(* the next.  The modules that own variables (MasterRun, MasterLogic)      *)
(* apply Handle and Resend to them.                                        *)
(*                                                                         *)
(* A tracker state is a record                                             *)
(*   tok        the marking of the net (PetriNet::mStates)                 *)
(*   size       the segment lengths of mItems (SegmentedBuffer::mSizes)    *)
(*   motor      the last RESUME or SUSPEND sent to each module             *)
(*   expecting  EXPECT_NEWs sent to module 2 that it has not used up yet   *)
(*   out        the packets given to the communication layer by this call  *)
(*   buf        mBuffer: the errors that flush() will send                 *)
(***************************************************************************)
EXTENDS Integers, Sequences

CONSTANT Depth      \* how many finished items mItems keeps (MXT_MAX_DEPTH)

ASSUME DepthAssumption == Depth \in Nat

M1Segment == {"M1_START", "M1_HS", "M1_SWITCH", "M1_PREEND", "M1_END"}
M2Segment == {"M2_START", "M2_HS", "M2_SWITCH", "M2_PREEND", "M2_END"}
Segment   == M1Segment \cup M2Segment \cup {"DONE"}
Place     == M1Segment \cup M2Segment \cup
             {"PRESTART", "M2RDY", "COUNT", "RUN_RDY", "RUNNING", "RUN_PAUSED"}

(***************************************************************************)
(* An event is <<module, message, light barrier>>.  LB_START is encoded as *)
(* zero (data/location_data.h), so a packet that carries no location is    *)
(* the same event as one located at LB_START.                              *)
(***************************************************************************)
NIL == <<"-", "NIL", "START">>

Packet(to, src, kind, msg, at) == [to |-> to, src |-> src, kind |-> kind, msg |-> msg, at |-> at]

Report(src, msg, at) == Packet("MASTER", src, "Error", msg, at)
Command(to, msg)     == Packet(to, "MASTER", "Run", msg, "START")

(***************************************************************************)
(* What the run managers of the two modules send (base/run/init_logic.cpp) *)
(* and the tracker reacts to.                                              *)
(***************************************************************************)
Passages == {"NEW_ITEM", "IN_HEIGHTSENSOR", "ANALYSE", "KEEP_NEXT", "REACHED_END",
             "END_FREE", "ITEM_REMOVED"}

Faults == ({"ITEM_DISAPPEARED"} \X {"START", "HS", "SWITCH", "RAMP", "END"})
             \cup ({"ITEM_STUCK"} \X {"START", "HS", "SWITCH", "END"})
             \cup ({"ITEM_APPEARED"} \X {"HS", "SWITCH", "RAMP", "END"})

Event == {<<m, p, "START">> : m \in {"M", "S"}, p \in Passages}
            \cup {<<m, f[1], f[2]>> : m \in {"M", "S"}, f \in Faults}

HandOverLost == <<"S", "ITEM_DISAPPEARED", "START">>

(***************************************************************************)
(* A transition needs a token on every place of take and none on those of  *)
(* empty; it moves one item from the segments dec to the segments inc and  *)
(* buffers the errors of report.                                           *)
(***************************************************************************)
Transition(on, take, empty, give, dec, inc, report) ==
    [on |-> on, take |-> take, empty |-> empty, give |-> give,
     dec |-> dec, inc |-> inc, report |-> report]

Move(src, msg, from, to) ==
    Transition(<<src, msg, "START">>, {from}, {}, {to}, {from}, {to}, <<>>)

\* Mutant of Losses: the disappearance of an item is not reported.
NoLosses(src, msg, at) == <<>>

Losses(src, msg, at) ==
    IF msg = "ITEM_REMOVED" THEN <<>> ELSE <<Report(src, msg, at)>>

\* Mutant of LossOnM1: the item stays in its segment.
LossOnM1Kept(msg, at, seg) ==
    Transition(<<"M", msg, at>>, {seg, "COUNT"}, {}, {}, {}, {}, Losses("M", msg, at))

LossOnM1(msg, at, seg) ==
    Transition(<<"M", msg, at>>, {seg, "COUNT"}, {}, {}, {seg}, {}, Losses("M", msg, at))

\* Mutant of LossOnM2: module 2 does not become ready again.
LossOnM2Busy(msg, at, seg) ==
    Transition(<<"S", msg, at>>, {seg}, {}, {}, {seg}, {}, Losses("S", msg, at))

LossOnM2(msg, at, seg) ==
    Transition(<<"S", msg, at>>, {seg}, {}, {"M2RDY"}, {seg}, {}, Losses("S", msg, at))

NewOnM1 == Transition(<<"M", "NEW_ITEM", "START">>, {}, {}, {"M1_START", "COUNT"},
                      {}, {"M1_START"}, <<>>)

NewOnM2 == Transition(<<"S", "NEW_ITEM", "START">>, {"PRESTART", "COUNT"}, {}, {"M2_START"},
                      {"M1_END"}, {"M2_START"}, <<>>)

LostInHandOver ==
    Transition(<<"S", "ITEM_DISAPPEARED", "START">>, {"PRESTART", "COUNT"}, {}, {"M2RDY"},
               {"M1_END"}, {}, <<Report("S", "ITEM_DISAPPEARED", "START")>>)

LeaveM2 == Transition(<<"S", "END_FREE", "START">>, {"M2_END"}, {}, {"M2RDY"},
                      {"M2_END"}, {"DONE"}, <<>>)

UnexpectedOnM2 ==
    Transition(<<"S", "NEW_ITEM", "START">>, {}, {"PRESTART"}, {}, {}, {},
               <<Report("S", "ITEM_APPEARED", "START")>>)

Moves == { Move("M", "IN_HEIGHTSENSOR", "M1_START", "M1_HS"),
           Move("M", "ANALYSE", "M1_HS", "M1_SWITCH"),
           Move("M", "KEEP_NEXT", "M1_SWITCH", "M1_PREEND"),
           Move("M", "END_FREE", "M1_PREEND", "M1_END"),
           Move("S", "IN_HEIGHTSENSOR", "M2_START", "M2_HS"),
           Move("S", "ANALYSE", "M2_HS", "M2_SWITCH"),
           Move("S", "KEEP_NEXT", "M2_SWITCH", "M2_PREEND"),
           Move("S", "REACHED_END", "M2_PREEND", "M2_END") }

LossesOnM1 == { LossOnM1("ITEM_DISAPPEARED", "HS", "M1_START"),
                LossOnM1("ITEM_DISAPPEARED", "SWITCH", "M1_HS"),
                LossOnM1("ITEM_DISAPPEARED", "RAMP", "M1_SWITCH"),
                LossOnM1("ITEM_DISAPPEARED", "END", "M1_PREEND"),
                LossOnM1("ITEM_STUCK", "START", "M1_START"),
                LossOnM1("ITEM_STUCK", "HS", "M1_HS"),
                LossOnM1("ITEM_STUCK", "SWITCH", "M1_SWITCH"),
                LossOnM1("ITEM_STUCK", "END", "M1_PREEND"),
                LossOnM1("ITEM_REMOVED", "START", "M1_SWITCH") }

LossesOnM2 == { LossOnM2("ITEM_DISAPPEARED", "HS", "M2_START"),
                LossOnM2("ITEM_DISAPPEARED", "SWITCH", "M2_HS"),
                LossOnM2("ITEM_DISAPPEARED", "RAMP", "M2_SWITCH"),
                LossOnM2("ITEM_DISAPPEARED", "END", "M2_PREEND"),
                LossOnM2("ITEM_STUCK", "START", "M2_START"),
                LossOnM2("ITEM_STUCK", "HS", "M2_HS"),
                LossOnM2("ITEM_STUCK", "SWITCH", "M2_SWITCH"),
                LossOnM2("ITEM_REMOVED", "START", "M2_SWITCH") }

(***************************************************************************)
(* No trigger has more than two transitions.  process() fires the ready    *)
(* ones from the last declared to the first: Later holds the second        *)
(* transition of each trigger that has two.                                *)
(***************************************************************************)
Later == { UnexpectedOnM2,
           LossOnM1("ITEM_DISAPPEARED", "SWITCH", "M1_SWITCH"),
           LossOnM2("ITEM_DISAPPEARED", "SWITCH", "M2_SWITCH") }

Earlier == Moves \cup LossesOnM1 \cup LossesOnM2
             \cup {NewOnM1, NewOnM2, LostInHandOver, LeaveM2}

(***************************************************************************)
(* The transitions triggered by NIL, in declaration order.                 *)
(***************************************************************************)
StartHandOver == Transition(NIL, {"M1_END", "M2RDY"}, {"RUN_PAUSED"}, {"PRESTART"}, {}, {}, <<>>)
StartM1       == Transition(NIL, {"COUNT", "RUN_RDY"}, {}, {"COUNT", "RUNNING"}, {}, {}, <<>>)
StopEmptyM1   == Transition(NIL, {"RUNNING"}, {"COUNT"}, {"RUN_RDY"}, {}, {}, <<>>)
PauseM1       == Transition(NIL, {"RUNNING", "M1_END"}, {"M2RDY"}, {"M1_END", "RUN_PAUSED"},
                            {}, {}, <<>>)
UnpauseM1     == Transition(NIL, {"RUN_PAUSED", "M2RDY"}, {}, {"M2RDY", "RUNNING"}, {}, {}, <<>>)

Automatic == {StartHandOver, StartM1, StopEmptyM1, PauseM1, UnpauseM1}

(***************************************************************************)
(* PetriNet::canFire and PetriNet::fire.  A listener is called when the    *)
(* net effect of the transition on its place is not zero; it then looks at *)
(* the new marking.  The listeners of M2RDY and M2_END are the same one.   *)
(***************************************************************************)
CanFire(n, t) == /\ \A p \in t.take  : n.tok[p] >= 1
                 /\ \A p \in t.empty : n.tok[p] = 0

Count(b) == IF b THEN 1 ELSE 0

Marked(n, t) ==
    [p \in Place |-> n.tok[p] - Count(p \in t.take) + Count(p \in t.give)]

\* Mutant of Changes: a listener hears of new tokens only.
Grows(t, p) == p \in t.give /\ p \notin t.take

Changes(t, p) == (p \in t.take) # (p \in t.give)

M2Busy(tok) == tok["M2RDY"] = 0 /\ tok["M2_END"] = 0

M2Orders(tok) == IF M2Busy(tok)
                   THEN <<Command("S", "RESUME"), Command("S", "EXPECT_NEW")>>
                   ELSE <<Command("S", "SUSPEND")>>

M1Orders(tok) == IF tok["RUNNING"] > 0 THEN <<Command("M", "RESUME")>>
                                       ELSE <<Command("M", "SUSPEND")>>

Sizes(n, t) ==
    LET moved == [s \in Segment |-> n.size[s] - Count(s \in t.dec) + Count(s \in t.inc)]
    IN  IF moved["DONE"] > Depth THEN [moved EXCEPT !["DONE"] = Depth] ELSE moved

Fire(n, t) ==
    LET tok  == Marked(n, t)
        end  == Changes(t, "M2_END")
        rdy  == Changes(t, "M2RDY")
        run  == Changes(t, "RUNNING")
    IN  [tok       |-> tok,
         size      |-> Sizes(n, t),
         motor     |-> [m \in {"M", "S"} |->
                          IF m = "M"
                            THEN IF ~run THEN n.motor[m]
                                 ELSE IF tok["RUNNING"] > 0 THEN "RESUME" ELSE "SUSPEND"
                            ELSE IF ~(end \/ rdy) THEN n.motor[m]
                                 ELSE IF M2Busy(tok) THEN "RESUME" ELSE "SUSPEND"],
         expecting |-> n.expecting +
                         (IF M2Busy(tok) THEN Count(end) + Count(rdy) ELSE 0),
         out       |-> n.out \o (IF end THEN M2Orders(tok) ELSE <<>>)
                             \o (IF rdy THEN M2Orders(tok) ELSE <<>>)
                             \o (IF run THEN M1Orders(tok) ELSE <<>>),
         buf       |-> n.buf \o t.report]

(***************************************************************************)
(* PetriNet::process.  The transitions of the trigger are chosen by the    *)
(* marking the call finds, and checked again when their turn comes; then   *)
(* the first enabled NIL transition fires, from the top after each firing, *)
(* until none is enabled.  Four rounds are enough: the invariant Settled   *)
(* of MasterRun says that none is enabled after them, and SettleRests of   *)
(* RunNetProofs shows it of every sound marking.                           *)
(***************************************************************************)
FireOneOf(n, T) ==
    IF \E t \in T : CanFire(n, t) THEN Fire(n, CHOOSE t \in T : CanFire(n, t)) ELSE n

Round(n) == IF CanFire(n, StartHandOver) THEN Fire(n, StartHandOver)
            ELSE IF CanFire(n, StartM1)     THEN Fire(n, StartM1)
            ELSE IF CanFire(n, StopEmptyM1) THEN Fire(n, StopEmptyM1)
            ELSE IF CanFire(n, PauseM1)     THEN Fire(n, PauseM1)
            ELSE IF CanFire(n, UnpauseM1)   THEN Fire(n, UnpauseM1)
            ELSE n

\* Mutant of Settle: the automatic transitions are tried once.
SettleOnce(n) == Round(n)

Settle(n) == Round(Round(Round(Round(n))))

Ready(n, T, e) == {t \in T : t.on = e /\ CanFire(n, t)}

Triggered(n, e) == FireOneOf(FireOneOf(n, Ready(n, Later, e)), Ready(n, Earlier, e))

Process(n, e) == Settle(Triggered(n, e))

(***************************************************************************)
(* Run::handle.  verdict is what the analyser sends for an ANALYSE; the    *)
(* item it looks up is in the SWITCH segment, and when that is empty       *)
(* SegmentedBuffer::get throws and the rest of the call is skipped.        *)
(***************************************************************************)
SwitchOf(src) == IF src = "M" THEN "M1_SWITCH" ELSE "M2_SWITCH"

\* Mutant of Flush: the buffer is sent but not cleared.
FlushAgain(n) == [n EXCEPT !.out = n.out \o n.buf]

Flush(n) == [n EXCEPT !.out = n.out \o n.buf, !.buf = <<>>]

Handle(n, e, verdict) ==
    LET m == Process([n EXCEPT !.out = <<>>], e)
    IN  IF e[2] = "ANALYSE"
          THEN IF m.size[SwitchOf(e[1])] = 0 THEN m
               ELSE Flush([m EXCEPT !.out = m.out \o verdict])
        ELSE IF e[2] = "ITEM_APPEARED"
          THEN Flush([m EXCEPT !.buf = Append(m.buf, Report(e[1], "ITEM_APPEARED", e[3]))])
        ELSE Flush(m)

(***************************************************************************)
(* Module 2 uses an EXPECT_NEW up when an item breaks its first light      *)
(* barrier or when the time for that has passed.                           *)
(***************************************************************************)
Answered(n, e) ==
    IF e \in {<<"S", "NEW_ITEM", "START">>, HandOverLost} /\ n.expecting > 0
      THEN [n EXCEPT !.expecting = n.expecting - 1] ELSE n

(***************************************************************************)
(* Run::enter, after Manager::enter has announced the mode: the modules    *)
(* that were moving are told to move again.                                *)
(***************************************************************************)
Resend(n) ==
    [n EXCEPT !.out = (IF n.tok["RUNNING"] > 0 THEN <<Command("M", "RESUME")>> ELSE <<>>)
                   \o (IF M2Busy(n.tok) THEN <<Command("S", "RESUME")>> ELSE <<>>)]

(***************************************************************************)
(* Run::isEmpty: nothing on module 1, and nothing on module 2 before its   *)
(* end.                                                                    *)
(***************************************************************************)
IsEmpty(n) == n.tok["COUNT"] = 0 /\ ~M2Busy(n.tok)

Fresh == [tok       |-> [p \in Place |-> Count(p \in {"RUN_RDY", "M2RDY"})],
          size      |-> [s \in Segment |-> 0],
          motor     |-> [m \in {"M", "S"} |-> "SUSPEND"],
          expecting |-> 0,
          out       |-> <<>>,
          buf       |-> <<>>]
-----------------------------------------------------------------------------
(***************************************************************************)
(* What holds of every tracker state.  Each part is kept by every firing,  *)
(* so it holds in the middle of process() too.                             *)
(***************************************************************************)
OnM1(n) == n.tok["M1_START"] + n.tok["M1_HS"] + n.tok["M1_SWITCH"]
             + n.tok["M1_PREEND"] + n.tok["M1_END"]
OnM2(n) == n.tok["M2_START"] + n.tok["M2_HS"] + n.tok["M2_SWITCH"]
             + n.tok["M2_PREEND"] + n.tok["M2_END"]

Typed(n) ==
    /\ n.tok \in [Place -> Nat]
    /\ n.size \in [Segment -> Nat]
    /\ n.size["DONE"] <= Depth
    /\ n.motor \in [{"M", "S"} -> {"RESUME", "SUSPEND"}]
    /\ n.expecting \in Nat

LoadCounted(n) == n.tok["COUNT"] = OnM1(n) + n.tok["PRESTART"]

OneOnM2(n) == n.tok["M2RDY"] + n.tok["PRESTART"] + OnM2(n) = 1

OneMode(n) == n.tok["RUN_RDY"] + n.tok["RUNNING"] + n.tok["RUN_PAUSED"] = 1

SizesMatch(n) ==
    /\ \A s \in (M1Segment \cup M2Segment) \ {"M1_END"} : n.size[s] = n.tok[s]
    /\ n.size["M1_END"] = n.tok["M1_END"] + n.tok["PRESTART"]

MotorsMatch(n) ==
    /\ n.motor["M"] = "RESUME" <=> n.tok["RUNNING"] = 1
    /\ n.motor["S"] = "RESUME" <=> M2Busy(n.tok)

Sound(n) == /\ Typed(n)       /\ LoadCounted(n) /\ OneOnM2(n)
            /\ OneMode(n)     /\ SizesMatch(n)  /\ MotorsMatch(n)
=============================================================================
