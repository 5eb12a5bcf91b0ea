----------------------------- MODULE RunManager -----------------------------
(***************************************************************************)
(* A module in run mode: base/run_manager.cpp, its Petri net               *)
(* (base/run/init_logic.cpp on lib/petri_net.h) and its timers             *)
(* (base/run/time_controller.cpp).                                         *)
(*                                                                         *)
(* The net holds a token for every item on the belt and, for all places    *)
(* but two, a timer for every token.  A timer that expires does not act    *)
(* itself: the timer thread puts a TIMER packet into the handler's queue,  *)
(* and by the time the handler takes it out a light barrier may already    *)
(* have moved the token on, the belt may have been stopped or another      *)
(* manager may have been switched in.                                      *)
(*                                                                         *)
(* Time is left out but for the order of the timers of one place.  They    *)
(* run for the same time, so the oldest expires first; that includes the   *)
(* ones set in the 120 ms in which a belt runs again and the older timers  *)
(* do not, as long as no two items enter one place within 240 ms.          *)
(***************************************************************************)
EXTENDS Integers, Sequences, FiniteSets

CONSTANTS MaxItems,   \* bound: times an item breaks the first barrier
          MaxExpect,  \* bound: EXPECT_NEW commands
          MaxStops,   \* bound: times the belt is suspended
          MaxLeaves   \* bound: times another manager is switched in

ASSUME BoundsAssumption == {MaxItems, MaxExpect, MaxStops, MaxLeaves} \subseteq Nat

(***************************************************************************)
(* run::State and, for the places with a timer, the event it sends.        *)
(***************************************************************************)
Alarm == [BF_LB_START   |-> "EXPECT_NEW_OVER",   IN_LB_START  |-> "START_1",
          BW_START_HS   |-> "ITEM_READY_HS",     BF_LB_HS     |-> "START_2",
          IN_LB_HS      |-> "HS_1",              BW_HS_SWITCH |-> "ITEM_READY_SWITCH",
          BF_LB_SWITCH  |-> "HS_2",              IN_LB_SWITCH |-> "SWITCH_1",
          BF_LB_RAMP    |-> "LOST_IN_RAMP",      IN_LB_RAMP   |-> "RAMP",
          SWITCH_CTRL   |-> "CLOSE_SWITCH",      BF_END       |-> "SWITCH_3",
          BW_SWITCH_END |-> "ITEM_READY_END",    IN_LB_END    |-> "STUCK_IN_END"]

Timed  == DOMAIN Alarm
Place  == Timed \cup {"IN_SWITCH", "IN_SWITCH_KEEP"}
Timers == {Alarm[s] : s \in Timed}

HalEvent == {"LB_START", "I_LB_START", "LB_HS", "I_LB_HS", "LB_SWITCH", "I_LB_SWITCH",
             "LB_RAMP", "I_LB_RAMP", "LB_END", "I_LB_END"}

(***************************************************************************)
(* One transition of the net: the nr-th one declared for its trigger, the  *)
(* places it takes from and puts to, the place that has to be empty, and   *)
(* what its listener does: the timers it deletes, the timers it sets and   *)
(* what it tells the master.                                               *)
(***************************************************************************)
T(on, nr, from, to, deletes, sets, says) ==
    [on |-> on, nr |-> nr, from |-> from, to |-> to, empty |-> {},
     deletes |-> deletes, sets |-> sets, says |-> says]

\* A barrier that nothing was expected at.
Unexpected(on, place) ==
    [on |-> on, nr |-> 2, from |-> {}, to |-> {}, empty |-> {place},
     deletes |-> {}, sets |-> {}, says |-> {"ITEM_APPEARED"}]

\* A timer says that what should have happened at a place did not.
Lost(place, report) == T(Alarm[place], 1, {place}, {}, {place}, {}, {report})

\* From one place with a timer to the next.
Step(on, a, b, says) == T(on, 1, {a}, {b}, {a}, {b}, says)

ToHeightSensor ==
    {T("EXPECT_NEW", 1, {}, {"BF_LB_START"}, {}, {"BF_LB_START"}, {}),
     Lost("BF_LB_START", "NOT_HANDED_OVER"),
     T("LB_START", 1, {}, {"IN_LB_START"}, {}, {"IN_LB_START"}, {"NEW_ITEM"}),
     T("LB_START", 2, {"BF_LB_START"}, {}, {"BF_LB_START"}, {}, {}),
     Lost("IN_LB_START", "ITEM_STUCK"),
     Step("I_LB_START", "IN_LB_START", "BW_START_HS", {}),
     Step("ITEM_READY_HS", "BW_START_HS", "BF_LB_HS", {}),
     Lost("BF_LB_HS", "ITEM_DISAPPEARED"),
     Step("LB_HS", "BF_LB_HS", "IN_LB_HS", {"IN_HEIGHTSENSOR"}),
     Unexpected("LB_HS", "BF_LB_HS")}

ToSwitch ==
    {Lost("IN_LB_HS", "ITEM_STUCK"),
     Step("I_LB_HS", "IN_LB_HS", "BW_HS_SWITCH", {}),
     Step("ITEM_READY_SWITCH", "BW_HS_SWITCH", "BF_LB_SWITCH", {}),
     Lost("BF_LB_SWITCH", "ITEM_DISAPPEARED"),
     T("LB_SWITCH", 1, {"BF_LB_SWITCH"}, {"IN_SWITCH", "IN_LB_SWITCH"},
       {"BF_LB_SWITCH"}, {"IN_LB_SWITCH"}, {"ANALYSE"}),
     Unexpected("LB_SWITCH", "BF_LB_SWITCH")}

\* Mutant of KeepNext: the item in the switch is not marked.
KeepNextUnmarked == T("KEEP_NEXT", 1, {"IN_SWITCH"}, {}, {}, {}, {})

KeepNext == T("KEEP_NEXT", 1, {"IN_SWITCH"}, {"IN_SWITCH_KEEP"}, {}, {}, {})

\* Mutant of RampFull: the item that fills the ramp is not reported.
RampFullOnly == T("RAMP", 1, {"IN_LB_RAMP"}, {}, {"IN_LB_RAMP"}, {}, {"RAMP_FULL"})

RampFull == T("RAMP", 1, {"IN_LB_RAMP"}, {}, {"IN_LB_RAMP"}, {}, {"ITEM_REMOVED", "RAMP_FULL"})

SwitchAndRamp ==
    {KeepNext, RampFull,
     Lost("IN_LB_SWITCH", "ITEM_STUCK"),
     T("I_LB_SWITCH", 1, {"IN_SWITCH", "IN_LB_SWITCH"}, {"BF_LB_RAMP"},
       {"IN_LB_SWITCH"}, {"BF_LB_RAMP"}, {}),
     Lost("BF_LB_RAMP", "ITEM_DISAPPEARED"),
     Step("LB_RAMP", "BF_LB_RAMP", "IN_LB_RAMP", {}),
     Unexpected("LB_RAMP", "BF_LB_RAMP"),
     T("I_LB_RAMP", 1, {"IN_LB_RAMP"}, {}, {"IN_LB_RAMP"}, {}, {"ITEM_REMOVED"})}

ToEnd ==
    {T("I_LB_SWITCH", 2, {"IN_SWITCH_KEEP", "IN_LB_SWITCH"}, {"BW_SWITCH_END", "SWITCH_CTRL"},
       {"IN_LB_SWITCH"}, {"SWITCH_CTRL", "BW_SWITCH_END"}, {}),
     T("CLOSE_SWITCH", 1, {"SWITCH_CTRL"}, {}, {"SWITCH_CTRL"}, {}, {"KEEP_NEXT"}),
     Step("ITEM_READY_END", "BW_SWITCH_END", "BF_END", {}),
     Lost("BF_END", "ITEM_DISAPPEARED"),
     Step("LB_END", "BF_END", "IN_LB_END", {"REACHED_END"}),
     Unexpected("LB_END", "BF_END"),
     T("I_LB_END", 1, {"IN_LB_END"}, {}, {"IN_LB_END"}, {}, {"END_FREE"}),
     Lost("IN_LB_END", "ITEM_STUCK")}

Net == ToHeightSensor \cup ToSwitch \cup SwitchAndRamp \cup ToEnd

-----------------------------------------------------------------------------
VARIABLES tokens,   \* the marking of mLogic
          timers,   \* TimeCtrl::mTimer: of every place, its timers, oldest first
          paused,   \* TimeCtrl::mPaused
          delay,    \* TimeCtrl::mDelayTimer is running
          resumer,  \* the thread of the delay timer: idle, started or raced
          raced,    \* a suspend has overtaken a resume that had already started
          ticks,    \* TIMER packets in the handler's queue
          active,   \* the handler's current manager is this one
          belt,     \* the motor runs
          open,     \* the switch is open
          asked,    \* items the master has still to decide about
          present,  \* items on this module, going by what the master was told
          dropped,  \* another manager has been given a TIMER packet
          arrived, expected, stops, leaves

clock  == <<paused, delay, resumer, raced>>
mode   == <<active, belt>>
bounds == <<arrived, expected, stops, leaves>>
vars == <<tokens, timers, clock, ticks, mode, open, asked, present, dropped, bounds>>

Init == /\ tokens = [s \in Place |-> 0]
        /\ timers = [s \in Timed |-> <<>>]
        /\ paused = FALSE /\ delay = FALSE /\ resumer = "idle" /\ raced = FALSE
        /\ ticks = <<>>
        /\ active = TRUE /\ belt = FALSE /\ open = FALSE
        /\ asked = 0 /\ present = 0 /\ dropped = FALSE
        /\ arrived = 0 /\ expected = 0 /\ stops = 0 /\ leaves = 0

(***************************************************************************)
(* TimeCtrl::deleteTimer and setTimer on the queue of a place.             *)
(***************************************************************************)
\* Mutant of DeleteTimer: all timers of the place go.
DeleteAllTimers(q) == <<>>

DeleteTimer(q) == SubSeq(q, 2, Len(q))

\* Mutant of NewTimer: a timer set while the others are paused runs.
AlwaysRunning == "running"

NewTimer == IF paused THEN "halted" ELSE "running"

SetTimer(q) == Append(q, NewTimer)

\* pauseCallback and resumeCallback on every timer; one that has expired
\* stays as it is.
Halt(q) == [i \in DOMAIN q |-> IF q[i] = "running" THEN "halted" ELSE q[i]]

\* Mutant of Continue: halted timers stay halted.
Unchanged(q) == q

Continue(q) == [i \in DOMAIN q |-> IF q[i] = "halted" THEN "running" ELSE q[i]]

(***************************************************************************)
(* PetriNet::process.  A transition that can fire when the event comes in  *)
(* fires, the last one declared first, if it still can by then.  So an     *)
(* item that was expected at the first barrier first loses its timer and   *)
(* then enters as any other, and an item that is to be kept leaves the     *)
(* switch before one that is not.                                          *)
(***************************************************************************)
\* Mutant of CanFire: one marked place is enough.
CanFireAny(t, m) == /\ t.from = {} \/ \E s \in t.from : m[s] > 0
                    /\ \A s \in t.empty : m[s] = 0

CanFire(t, m) == /\ \A s \in t.from : m[s] > 0
                 /\ \A s \in t.empty : m[s] = 0

\* Mutant of SwitchAfter: the switch is never closed.
SwitchStays(t, o) == o \/ t.on = "KEEP_NEXT"

SwitchAfter(t, o) == t.on # "CLOSE_SWITCH" /\ SwitchStays(t, o)

TokensAfter(t, m) == [s \in Place |-> m[s] + (IF s \in t.to THEN 1 ELSE 0) - (IF s \in t.from THEN 1 ELSE 0)]

TimersAfter(t, q) ==
    [s \in Timed |-> LET left == IF s \in t.deletes THEN DeleteTimer(q[s]) ELSE q[s]
                     IN  IF s \in t.sets THEN SetTimer(left) ELSE left]

Fire(t, r) == [tokens |-> TokensAfter(t, r.tokens), timers |-> TimersAfter(t, r.timers),
               open   |-> SwitchAfter(t, r.open),   says   |-> r.says \cup t.says]

Candidates(e, nr, r) ==
    {t \in Net : t.on = e /\ t.nr = nr /\ CanFire(t, tokens) /\ CanFire(t, r.tokens)}

Try(e, nr, r) == LET able == Candidates(e, nr, r)
                 IN  IF able = {} THEN r ELSE Fire(CHOOSE t \in able : TRUE, r)

Before == [tokens |-> tokens, timers |-> timers, open |-> open, says |-> {}]

After(e) == Try(e, 1, Try(e, 2, Before))

\* What the reports of one event tell the master about the items that are here.
Change(says) ==
    IF "NEW_ITEM" \in says THEN 1
    ELSE IF says \cap {"ITEM_STUCK", "ITEM_DISAPPEARED", "ITEM_REMOVED", "END_FREE"} # {} THEN -1
    ELSE 0

Process(e) ==
    LET r == After(e)
    IN  /\ tokens' = r.tokens /\ timers' = r.timers /\ open' = r.open
        /\ present' = present + Change(r.says)

(***************************************************************************)
(* handle: a light barrier has changed.  Items may be put on the belt and  *)
(* taken off at any place, so any barrier may report any time, and twice   *)
(* the same if it changes back before it is read.  At the switch the item  *)
(* is sent for analysis; without a height map it is an error, and there    *)
(* will be no decision.                                                    *)
(***************************************************************************)
Sense(e) ==
    /\ active
    /\ IF e = "LB_START" THEN arrived < MaxItems /\ arrived' = arrived + 1
                         ELSE UNCHANGED arrived
    /\ Process(e)
    /\ asked' \in IF "ANALYSE" \in After(e).says THEN {asked, asked + 1} ELSE {asked}
    /\ UNCHANGED <<clock, ticks, mode, dropped, expected, stops, leaves>>

(***************************************************************************)
(* accept: the commands of the master.  A command that another manager     *)
(* gets is lost.                                                           *)
(***************************************************************************)
ExpectNew ==
    /\ active /\ expected < MaxExpect
    /\ expected' = expected + 1
    /\ Process("EXPECT_NEW")
    /\ UNCHANGED <<clock, ticks, mode, asked, dropped, arrived, stops, leaves>>

\* The master has decided about an item: keep it, or toss it with no command.
Decide(keep) ==
    /\ asked > 0
    /\ asked' = asked - 1
    /\ IF active /\ keep THEN Process("KEEP_NEXT") ELSE UNCHANGED <<tokens, timers, open, present>>
    /\ UNCHANGED <<clock, ticks, mode, dropped, bounds>>

(***************************************************************************)
(* suspend stops the motor and all timers, and a resume that is still to   *)
(* come; resume starts the motor and lets the timers follow a little       *)
(* later, when the belt is up to speed.                                    *)
(***************************************************************************)
StopClock == /\ timers' = [s \in Timed |-> Halt(timers[s])]
             /\ paused' = TRUE /\ delay' = FALSE
             /\ resumer' = IF resumer = "started" THEN "raced" ELSE resumer
             /\ raced' = (raced \/ resumer = "started")

Suspend ==
    /\ active /\ stops < MaxStops
    /\ stops' = stops + 1
    /\ belt' = FALSE
    /\ StopClock
    /\ UNCHANGED <<tokens, ticks, active, open, asked, present, dropped, arrived, expected, leaves>>

Resume ==
    /\ active
    /\ belt' = TRUE
    /\ paused' = FALSE
    /\ delay' = (delay \/ paused)
    /\ UNCHANGED <<tokens, timers, resumer, raced, ticks, active, open, asked, present, dropped, bounds>>

(***************************************************************************)
(* Another manager is switched in and this one back again.  leave stops    *)
(* the belt and closes the switch; enter does nothing to the net.          *)
(***************************************************************************)
Leave ==
    /\ active /\ leaves < MaxLeaves
    /\ leaves' = leaves + 1
    /\ active' = FALSE /\ belt' = FALSE /\ open' = FALSE
    /\ StopClock
    /\ UNCHANGED <<tokens, ticks, asked, present, dropped, arrived, expected, stops>>

Enter ==
    /\ ~active
    /\ active' = TRUE
    /\ UNCHANGED <<tokens, timers, clock, ticks, belt, open, asked, present, dropped, bounds>>

(***************************************************************************)
(* The delay is over: a thread of its own (lib/timer/async.cpp) runs       *)
(* resumeAllTimer, with no lock against the handler's thread.  If that     *)
(* suspends in the meantime, mPaused and every timer end up as one or the  *)
(* other of the two threads left them.                                     *)
(***************************************************************************)
DelayOver ==
    /\ delay /\ resumer = "idle"
    /\ delay' = FALSE /\ resumer' = "started"
    /\ UNCHANGED <<tokens, timers, paused, raced, ticks, mode, open, asked, present, dropped, bounds>>

ResumeAll ==
    /\ resumer # "idle"
    /\ resumer' = "idle"
    /\ LET used == {s \in Timed : timers[s] # <<>>}
       IN  \E late \in (IF resumer = "started" THEN {used} ELSE SUBSET used) :
             timers' = [s \in Timed |-> IF s \in late THEN Continue(timers[s]) ELSE timers[s]]
    /\ paused' \in IF resumer = "started" THEN {FALSE} ELSE {FALSE, paused}
    /\ UNCHANGED <<tokens, delay, raced, ticks, mode, open, asked, present, dropped, bounds>>

(***************************************************************************)
(* The oldest timer of a place expires, and the handler's thread takes the *)
(* packet of it, which says what has expired but not for which item.       *)
(***************************************************************************)
Oldest(q) == {i \in DOMAIN q : q[i] = "running" /\ \A j \in 1..i-1 : q[j] = "expired"}

Expire(s) ==
    /\ \E i \in Oldest(timers[s]) : timers' = [timers EXCEPT ![s][i] = "expired"]
    /\ ticks' = Append(ticks, Alarm[s])
    /\ UNCHANGED <<tokens, clock, mode, open, asked, present, dropped, bounds>>

Tick ==
    /\ ticks # <<>>
    /\ ticks' = Tail(ticks)
    /\ dropped' = (dropped \/ ~active)
    /\ IF active THEN Process(Head(ticks)) ELSE UNCHANGED <<tokens, timers, open, present>>
    /\ UNCHANGED <<clock, mode, asked, bounds>>

Next == \/ \E e \in HalEvent : Sense(e)
        \/ \E keep \in BOOLEAN : Decide(keep)
        \/ ExpectNew \/ Suspend \/ Resume \/ Leave \/ Enter
        \/ DelayOver \/ ResumeAll \/ Tick
        \/ \E s \in Timed : Expire(s)

(***************************************************************************)
(* The timer thread, the thread of the delay timer and the handler's       *)
(* thread run; nothing makes an item or the master do anything.  Only      *)
(* Tick takes a packet, so its fairness is stated of the queue alone.      *)
(***************************************************************************)
TakesPacket == ticks # <<>> /\ ticks' = Tail(ticks)

Fairness == /\ WF_ticks(TakesPacket) /\ WF_vars(DelayOver) /\ WF_vars(ResumeAll)
            /\ \A s \in Timed : WF_vars(Expire(s))

Spec == Init /\ [][Next]_vars /\ Fairness
-----------------------------------------------------------------------------
Status == {"running", "halted", "expired"}

TypeOK == /\ tokens \in [Place -> Nat]
          /\ timers \in [Timed -> Seq(Status)]
          /\ {paused, delay, raced, active, belt, open, dropped} \subseteq BOOLEAN
          /\ resumer \in {"idle", "started", "raced"}
          /\ ticks \in Seq(Timers)
          /\ asked \in Nat /\ present \in Int
          /\ {arrived, expected, stops, leaves} \subseteq Nat

\* Every token in a place with timers has a timer of its own, whatever comes
\* late, twice or never: deleteTimer always finds one (it would throw, and the
\* handler would skip the rest of the listener), and none is left to run on.
TimersMatchTokens == \A s \in Timed : Len(timers[s]) = tokens[s]

\* Neither an item nor an alarm is lost.  The master can count on the reports:
\* NEW_ITEM less the items that were reported gone are the items the net
\* follows.  (A token for IN_SWITCH stands for an item of IN_LB_SWITCH and is
\* not counted again.)  And for every timer that has expired there is still a
\* TIMER packet to come, also when a barrier and a packet have taken each
\* other's token; until another manager gets a packet.
Followed(m) == m["IN_LB_START"] + m["BW_START_HS"] + m["BF_LB_HS"] + m["IN_LB_HS"]
             + m["BW_HS_SWITCH"] + m["BF_LB_SWITCH"] + m["IN_LB_SWITCH"] + m["BF_LB_RAMP"]
             + m["IN_LB_RAMP"] + m["BW_SWITCH_END"] + m["BF_END"] + m["IN_LB_END"]

ReportsBalance == present = Followed(tokens)

Count(q, x) == Cardinality({i \in DOMAIN q : q[i] = x})

AlarmsPending == ~dropped => \A s \in Timed : Count(timers[s], "expired") <= Count(ticks, Alarm[s])

NothingLost == ReportsBalance /\ AlarmsPending

\* While the timers are paused none runs, the ones set since then included;
\* only a suspend that overtakes a resume can break that.
QuietWhilePaused ==
    paused /\ ~raced => \A s \in Timed : \A i \in DOMAIN timers[s] : timers[s][i] # "running"

\* The time-out of an item in the barrier of the switch (SWITCH_1) takes its
\* token off the barrier and leaves the one in the switch for good.
StuckInSwitch == tokens["IN_SWITCH"] + tokens["IN_SWITCH_KEEP"] > tokens["IN_LB_SWITCH"]

\* The timer that closes the switch is set, or its packet is in the queue.
Closing == \/ \E i \in DOMAIN timers["SWITCH_CTRL"] : timers["SWITCH_CTRL"][i] # "expired"
           \/ Count(ticks, "CLOSE_SWITCH") > 0

\* Until an item has been reported stuck in the switch, an open switch is going
\* to be closed: an item that is to be kept is still in its barrier, or the
\* timer that closes it runs or stands still with the belt, or its packet is on
\* the way.  After such a report the switch can stay open with nothing in it;
\* then it is the change to another manager that closes it.
SwitchIsClosedAgain ==
    open => /\ active
            /\ \/ tokens["IN_SWITCH_KEEP"] > 0 /\ tokens["IN_LB_SWITCH"] > 0
               \/ Closing
               \/ StuckInSwitch

\* An item in the barrier of the switch is in the switch, so when it leaves the
\* barrier the net always sends it somewhere.
SwitchKnowsItem == tokens["IN_LB_SWITCH"] <= tokens["IN_SWITCH"] + tokens["IN_SWITCH_KEEP"]

\* Once the belt keeps running, every item is in the end passed on or reported
\* missing, whatever the barriers do: no token stays for ever in a place that
\* has a timer.
Running == active /\ belt /\ ~dropped /\ ~raced

BeltClears == <>[]Running => <>[](\A s \in Timed : tokens[s] = 0)
=============================================================================
