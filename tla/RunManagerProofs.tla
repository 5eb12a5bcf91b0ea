-------------------------- MODULE RunManagerProofs --------------------------
(***************************************************************************)
(* The invariants of a module's net and its timers, for every number of    *)
(* items, stops and mode switches.  The argument is about the table of     *)
(* transitions: RowsMatch shows that each listener deletes and sets the    *)
(* timers of just the places its transition takes from and puts to, and    *)
(* what each transition does around the switch; FireKeeps carries that     *)
(* over to the state, and the rest follows whatever order events come in.  *)
(***************************************************************************)
EXTENDS RunManager, SequenceTheorems, FiniteSetTheorems, TLAPS

\* By how much a transition changes the marking of a place.
Delta(t, s) == (IF s \in t.to THEN 1 ELSE 0) - (IF s \in t.from THEN 1 ELSE 0)

RowOK(t) ==
    /\ t.from \subseteq Place /\ t.to \subseteq Place
    /\ \A s \in Timed : (s \in t.deletes <=> s \in t.from) /\ (s \in t.sets <=> s \in t.to)
    /\ Delta(t, "IN_LB_SWITCH") <= Delta(t, "IN_SWITCH") + Delta(t, "IN_SWITCH_KEEP")
    /\ t.on # "CLOSE_SWITCH" => "SWITCH_CTRL" \notin t.deletes
    /\ t.on = "KEEP_NEXT" => Delta(t, "IN_SWITCH_KEEP") = 1
    /\ "IN_SWITCH_KEEP" \in t.from => "SWITCH_CTRL" \in t.sets

\* The places of the net by name.
LEMMA Places ==
    /\ Timed = {"BF_LB_START", "IN_LB_START", "BW_START_HS", "BF_LB_HS", "IN_LB_HS",
                "BW_HS_SWITCH", "BF_LB_SWITCH", "IN_LB_SWITCH", "BF_LB_RAMP", "IN_LB_RAMP",
                "SWITCH_CTRL", "BF_END", "BW_SWITCH_END", "IN_LB_END"}
    /\ Place = Timed \cup {"IN_SWITCH", "IN_SWITCH_KEEP"}
BY DEF Timed, Alarm, Place

\* No other place has the packet that closes the switch, or one that opens it.
LEMMA Alarms ==
    \A s \in Timed \ {"SWITCH_CTRL"} : Alarm[s] # "CLOSE_SWITCH" /\ Alarm[s] # "KEEP_NEXT"
BY DEF Timed, Alarm

\* Every listener deletes and sets the timers of just the places its
\* transition takes from and puts to, and moves the switch with the item.
LEMMA RowsMatch == ASSUME NEW t \in Net PROVE RowOK(t)
<1> USE Places DEF RowOK, Delta
<1>1. CASE t \in ToHeightSensor
  BY <1>1, Alarms DEF ToHeightSensor, T, Lost, Step, Unexpected
<1>2. CASE t \in ToSwitch
  BY <1>2, Alarms DEF ToSwitch, T, Lost, Step, Unexpected
<1>3. CASE t \in SwitchAndRamp
  BY <1>3, Alarms DEF SwitchAndRamp, KeepNext, RampFull, T, Lost, Step, Unexpected
<1>4. CASE t \in ToEnd
  BY <1>4, Alarms DEF ToEnd, T, Lost, Step, Unexpected
<1> QED BY <1>1, <1>2, <1>3, <1>4 DEF Net

-----------------------------------------------------------------------------
\* What holds of a marking, the timers and the switch; q says that the timers
\* have to be quiet.
Matches(m, w) == /\ m \in [Place -> Nat] /\ w \in [Timed -> Seq(Status)]
                 /\ \A s \in Timed : Len(w[s]) = m[s]

SwitchSound(m, o) == /\ o \in BOOLEAN
                     /\ m["IN_LB_SWITCH"] <= m["IN_SWITCH"] + m["IN_SWITCH_KEEP"]

Quiet(w) == \A s \in Timed : \A i \in DOMAIN w[s] : w[s][i] # "running"

Good(r, q) == Matches(r.tokens, r.timers) /\ SwitchSound(r.tokens, r.open) /\ (q => Quiet(r.timers))

\* deleteTimer on a queue that is not empty, and setTimer.
LEMMA TimerLength ==
    ASSUME NEW w \in Seq(Status)
    PROVE  /\ Len(w) > 0 => DeleteTimer(w) \in Seq(Status) /\ Len(DeleteTimer(w)) = Len(w) - 1
           /\ SetTimer(w) \in Seq(Status) /\ Len(SetTimer(w)) = Len(w) + 1
<1>1. Len(w) > 0 => DeleteTimer(w) \in Seq(Status) /\ Len(DeleteTimer(w)) = Len(w) - 1
  <2> DEFINE d == SubSeq(w, 2, Len(w))
             n == Len(w)
  <2>1. n \in Nat /\ \A i \in 2..n : w[i] \in Status
    OBVIOUS
  <2>2. d \in Seq(Status) /\ Len(d) = IF 2 <= n THEN n - 2 + 1 ELSE 0
    BY <2>1, SubSeqProperties
  <2>3. DeleteTimer(w) = d
    BY DEF DeleteTimer
  <2> HIDE DEF d, n
  <2>4. n > 0 => Len(d) = n - 1
    BY <2>1, <2>2
  <2> QED BY <2>2, <2>3, <2>4 DEF n
<1>2. NewTimer \in Status
  BY DEF NewTimer, Status
<1>3. SetTimer(w) \in Seq(Status) /\ Len(SetTimer(w)) = Len(w) + 1
  <2> HIDE DEF NewTimer
  <2> QED BY <1>2, AppendProperties DEF SetTimer
<1> QED BY <1>1, <1>3

\* Neither of them makes a quiet queue run while the timers are paused.
LEMMA TimerQuiet ==
    ASSUME NEW w \in Seq(Status), \A i \in DOMAIN w : w[i] # "running"
    PROVE  /\ \A i \in DOMAIN DeleteTimer(w) : DeleteTimer(w)[i] # "running"
           /\ paused => \A i \in DOMAIN SetTimer(w) : SetTimer(w)[i] # "running"
BY DEF DeleteTimer, SetTimer, NewTimer

\* Firing keeps one timer for every token,
LEMMA FireMatches ==
    ASSUME NEW t \in Net, NEW m, NEW w, Matches(m, w), CanFire(t, m)
    PROVE  Matches(TokensAfter(t, m), TimersAfter(t, w))
<1> DEFINE n == TokensAfter(t, m)
           x == TimersAfter(t, w)
<1>1. RowOK(t) BY RowsMatch
<1>2. n \in [Place -> Nat]
  BY <1>1 DEF Matches, CanFire, TokensAfter, RowOK
<1>3. ASSUME NEW s \in Timed
      PROVE  x[s] \in Seq(Status) /\ Len(x[s]) = n[s]
  <2> DEFINE left == IF s \in t.deletes THEN DeleteTimer(w[s]) ELSE w[s]
  <2>1. w[s] \in Seq(Status) /\ Len(w[s]) = m[s] /\ m[s] \in Nat /\ s \in Place
    BY Places DEF Matches
  <2>2. s \in t.from => m[s] > 0
    BY DEF CanFire
  <2>3. left \in Seq(Status) /\ Len(left) = m[s] - (IF s \in t.from THEN 1 ELSE 0)
    BY SMTT(30), <1>1, <2>1, <2>2, TimerLength DEF RowOK
  <2>4. x[s] = IF s \in t.sets THEN SetTimer(left) ELSE left
    BY DEF TimersAfter
  <2>5. n[s] = m[s] + (IF s \in t.to THEN 1 ELSE 0) - (IF s \in t.from THEN 1 ELSE 0)
    BY <2>1 DEF TokensAfter
  <2>6. SetTimer(left) \in Seq(Status) /\ Len(SetTimer(left)) = Len(left) + 1
    BY <2>3, TimerLength
  <2> HIDE DEF left, n, x
  <2> QED BY <1>1, <2>1, <2>3, <2>4, <2>5, <2>6 DEF RowOK
<1>4. x \in [Timed -> Seq(Status)]
  BY <1>3 DEF TimersAfter
<1> QED BY <1>2, <1>3, <1>4 DEF Matches

\* the agreement of the switch with the net,
LEMMA FireSwitch ==
    ASSUME NEW t \in Net, NEW m \in [Place -> Nat], NEW o, SwitchSound(m, o)
    PROVE  SwitchSound(TokensAfter(t, m), SwitchAfter(t, o))
<1> DEFINE n == TokensAfter(t, m)
<1>1. RowOK(t) BY RowsMatch
<1>2. ASSUME NEW s \in Place PROVE n[s] = m[s] + Delta(t, s) /\ Delta(t, s) \in Int
  BY DEF TokensAfter, Delta
<1>3. {"IN_LB_SWITCH", "IN_SWITCH", "IN_SWITCH_KEEP", "SWITCH_CTRL"} \subseteq Place
  BY Places
<1>4. n["IN_LB_SWITCH"] <= n["IN_SWITCH"] + n["IN_SWITCH_KEEP"]
  <2> HIDE DEF n
  <2> QED BY <1>1, <1>2, <1>3 DEF RowOK, SwitchSound
<1>5. SwitchAfter(t, o) \in BOOLEAN
  BY DEF SwitchAfter, SwitchStays
<1> QED BY <1>4, <1>5 DEF SwitchSound

\* and, while paused, the timers quiet.
LEMMA FireQuiet ==
    ASSUME NEW t \in Net, NEW w \in [Timed -> Seq(Status)], Quiet(w), paused
    PROVE  Quiet(TimersAfter(t, w))
<1> SUFFICES ASSUME NEW s \in Timed
             PROVE  \A i \in DOMAIN TimersAfter(t, w)[s] : TimersAfter(t, w)[s][i] # "running"
  BY DEF Quiet
<1> DEFINE left == IF s \in t.deletes THEN DeleteTimer(w[s]) ELSE w[s]
<1>1. left \in Seq(Status)
  BY DEF DeleteTimer
<1>2. \A i \in DOMAIN left : left[i] # "running"
  BY TimerQuiet DEF Quiet
<1>3. TimersAfter(t, w)[s] = IF s \in t.sets THEN SetTimer(left) ELSE left
  BY DEF TimersAfter
<1> HIDE DEF left
<1> QED BY <1>1, <1>2, <1>3, TimerQuiet

\* One transition, and the one or two that an event fires.
LEMMA FireKeeps ==
    ASSUME NEW t \in Net, NEW r, NEW q, Good(r, q), q => paused, CanFire(t, r.tokens)
    PROVE  Good(Fire(t, r), q)
<1>1. Matches(TokensAfter(t, r.tokens), TimersAfter(t, r.timers))
  BY FireMatches DEF Good
<1>2. SwitchSound(TokensAfter(t, r.tokens), SwitchAfter(t, r.open))
  BY FireSwitch DEF Good, Matches
<1>3. q => Quiet(TimersAfter(t, r.timers))
  BY FireQuiet DEF Good, Matches
<1> QED BY <1>1, <1>2, <1>3 DEF Good, Fire

\* So does trying a transition of an event that may not be enabled,
LEMMA TryKeeps ==
    ASSUME NEW e, NEW nr, NEW r, NEW q, Good(r, q), q => paused
    PROVE  Good(Try(e, nr, r), q)
<1>1. CASE Candidates(e, nr, r) = {}
  BY <1>1 DEF Try
<1>2. CASE Candidates(e, nr, r) # {}
  <2> DEFINE t == CHOOSE t \in Candidates(e, nr, r) : TRUE
  <2>1. t \in Candidates(e, nr, r)
    BY <1>2
  <2>2. t \in Net /\ CanFire(t, r.tokens)
    BY <2>1 DEF Candidates
  <2>3. Try(e, nr, r) = Fire(t, r)
    BY <1>2 DEF Try
  <2> HIDE DEF t
  <2> QED BY <2>2, <2>3, FireKeeps
<1> QED BY <1>1, <1>2

\* The invariant: Good of the state, and that a resume which a suspend has
\* overtaken is on record.
MustBeQuiet == paused /\ ~raced

Inv == /\ Matches(tokens, timers) /\ SwitchSound(tokens, open)
       /\ MustBeQuiet => Quiet(timers)
       /\ paused \in BOOLEAN /\ raced \in BOOLEAN
       /\ resumer \in {"idle", "started", "raced"}
       /\ resumer = "raced" => raced

\* and PetriNet::process, which tries both.
LEMMA ProcessKeeps ==
    ASSUME Inv, NEW e, Process(e), UNCHANGED clock
    PROVE  Inv'
<1>1. Good(Before, MustBeQuiet)
  BY DEF Inv, Good, Before
<1>2. Good(After(e), MustBeQuiet)
  BY <1>1, TryKeeps DEF After, MustBeQuiet
<1>3. tokens' = After(e).tokens /\ timers' = After(e).timers /\ open' = After(e).open
  BY DEF Process
<1>4. Matches(tokens', timers') /\ SwitchSound(tokens', open') /\ (MustBeQuiet => Quiet(timers'))
  BY <1>2, <1>3 DEF Good
<1> QED BY <1>4 DEF Inv, clock, MustBeQuiet

\* Pausing, resuming and expiring change what a timer does, not how many there
\* are.
LEMMA SameLength ==
    ASSUME NEW w \in Seq(Status)
    PROVE  /\ Halt(w) \in Seq(Status) /\ Len(Halt(w)) = Len(w)
           /\ Continue(w) \in Seq(Status) /\ Len(Continue(w)) = Len(w)
           /\ \A i \in DOMAIN Halt(w) : Halt(w)[i] # "running"
BY DEF Halt, Continue, Status

\* Stopping the belt leaves the net alone; it may close the switch.
LEMMA StopKeeps ==
    ASSUME Inv, StopClock, tokens' = tokens, open' \in {open, FALSE}
    PROVE  Inv'
<1>1. Matches(tokens, timers') /\ Quiet(timers')
  BY SameLength DEF Inv, StopClock, Matches, Quiet
<1>2. SwitchSound(tokens, open')
  <2>1. CASE open' = open
    BY <2>1 DEF Inv
  <2>2. CASE open' = FALSE
    BY <2>2, Zenon DEF Inv, SwitchSound
  <2> QED BY <2>1, <2>2
<1> QED BY <1>1, <1>2 DEF Inv, StopClock

\* A timer that expires is still the timer of its token.
LEMMA ExpireKeeps ==
    ASSUME Inv, NEW s \in Timed, Expire(s)
    PROVE  Inv'
<1> PICK i \in Oldest(timers[s]) : timers' = [timers EXCEPT ![s][i] = "expired"]
  BY DEF Expire
<1>1. timers \in [Timed -> Seq(Status)] /\ i \in DOMAIN timers[s] /\ "expired" \in Status
  BY DEF Inv, Matches, Oldest, Status
<1>2. [timers[s] EXCEPT ![i] = "expired"] \in Seq(Status)
  BY <1>1
<1>3. Len([timers[s] EXCEPT ![i] = "expired"]) = Len(timers[s])
  BY <1>1
<1>4. timers' = [timers EXCEPT ![s] = [timers[s] EXCEPT ![i] = "expired"]]
  OBVIOUS
<1>5. UNCHANGED <<tokens, clock, open>>
  BY DEF Expire
<1>6. Matches(tokens, timers')
  BY <1>1, <1>2, <1>3, <1>4 DEF Inv, Matches
<1>7. MustBeQuiet => Quiet(timers')
  BY <1>1, <1>4 DEF Inv, Quiet
<1> QED BY <1>5, <1>6, <1>7 DEF Inv, clock, MustBeQuiet

\* The delayed resume, overtaken or not, starts timers and sets none.
LEMMA ResumeAllKeeps ==
    ASSUME Inv, ResumeAll
    PROVE  Inv'
<1>1. PICK late : timers' = [s \in Timed |-> IF s \in late THEN Continue(timers[s]) ELSE timers[s]]
  BY DEF ResumeAll
<1>2. Matches(tokens, timers')
  BY <1>1, SameLength DEF Inv, Matches
<1>3. raced' \/ paused' = FALSE
  BY DEF ResumeAll, Inv
<1>4. paused' \in BOOLEAN /\ resumer' = "idle" /\ UNCHANGED <<tokens, raced, open>>
  BY DEF ResumeAll, Inv
<1> QED BY <1>2, <1>3, <1>4 DEF Inv, MustBeQuiet

\* A module starts with an empty belt and no timers.
LEMMA InvStarts == ASSUME Init PROVE Inv
<1>1. Matches(tokens, timers)
  BY Places DEF Init, Matches, Status
<1>2. SwitchSound(tokens, open)
  <2>1. \A s \in {"IN_LB_SWITCH", "IN_SWITCH", "IN_SWITCH_KEEP", "SWITCH_CTRL"} : tokens[s] = 0
    BY Places DEF Init
  <2>2. tokens["IN_LB_SWITCH"] <= tokens["IN_SWITCH"] + tokens["IN_SWITCH_KEEP"]
    BY <2>1
  <2> QED BY <2>2 DEF Init, SwitchSound
<1> QED BY <1>1, <1>2 DEF Init, Inv, MustBeQuiet

\* Every step keeps the invariant.
LEMMA InvStays == ASSUME Inv, [Next]_vars PROVE Inv'
<1> USE DEF mode, bounds
<1>1. ASSUME NEW e \in HalEvent, Sense(e) PROVE Inv'
  BY <1>1, ProcessKeeps DEF Sense
<1>2. ASSUME UNCHANGED <<tokens, timers, open, clock>> PROVE Inv'
  BY <1>2 DEF Inv, clock, MustBeQuiet
<1>3. ASSUME NEW keep \in BOOLEAN, Decide(keep) PROVE Inv'
  BY <1>2, <1>3, ProcessKeeps DEF Decide
<1>4. CASE ExpectNew
  BY <1>4, ProcessKeeps DEF ExpectNew
<1>5. CASE Suspend
  BY <1>5, StopKeeps DEF Suspend
<1>6. CASE Resume
  BY <1>6 DEF Resume, Inv, MustBeQuiet
<1>7. CASE Leave
  BY <1>7, StopKeeps DEF Leave
<1>8. CASE Enter
  BY <1>2, <1>8 DEF Enter
<1>9. CASE DelayOver
  BY <1>9 DEF DelayOver, Inv, MustBeQuiet
<1>10. CASE ResumeAll
  BY <1>10, ResumeAllKeeps
<1>11. CASE Tick
  BY <1>2, <1>11, ProcessKeeps DEF Tick
<1>12. ASSUME NEW s \in Timed, Expire(s) PROVE Inv'
  BY <1>12, ExpireKeeps
<1>13. CASE UNCHANGED vars
  BY <1>2, <1>13 DEF vars
<1> QED
  BY <1>1, <1>3, <1>4, <1>5, <1>6, <1>7, <1>8, <1>9, <1>10, <1>11, <1>12, <1>13 DEF Next

\* The invariant holds in every state a module in run mode can reach.
THEOREM Invariance == Spec => []Inv
BY InvStarts, InvStays, PTL DEF Spec

\* deleteTimer never throws and no timer is left over: each token has one timer.
THEOREM OneTimerPerToken == Spec => []TimersMatchTokens
<1>1. Inv => TimersMatchTokens BY DEF Inv, Matches, TimersMatchTokens
<1> QED BY <1>1, Invariance, PTL

\* A suspended module's timers stand still, unless a resume was overtaken.
THEOREM PausedTimersAreQuiet == Spec => []QuietWhilePaused
<1>1. Inv => QuietWhilePaused BY DEF Inv, MustBeQuiet, Quiet, QuietWhilePaused
<1> QED BY <1>1, Invariance, PTL

\* Whoever leaves the barrier of the switch is sent somewhere.
THEOREM SwitchAlwaysKnowsItem == Spec => []SwitchKnowsItem
<1>1. Inv => SwitchKnowsItem
  BY DEF Inv, SwitchSound, SwitchKnowsItem
<1> QED BY <1>1, Invariance, PTL
-----------------------------------------------------------------------------
(***************************************************************************)
(* Reports and alarms.  What each transition says about an item is what it *)
(* does to the number of items the net follows.                            *)
(***************************************************************************)
Weight(t) == Delta(t, "IN_LB_START") + Delta(t, "BW_START_HS") + Delta(t, "BF_LB_HS")
           + Delta(t, "IN_LB_HS") + Delta(t, "BW_HS_SWITCH") + Delta(t, "BF_LB_SWITCH")
           + Delta(t, "IN_LB_SWITCH") + Delta(t, "BF_LB_RAMP") + Delta(t, "IN_LB_RAMP")
           + Delta(t, "BW_SWITCH_END") + Delta(t, "BF_END") + Delta(t, "IN_LB_END")

ReportOK(t) ==
    /\ t.nr = 1 => Weight(t) = Change(t.says)
    /\ t.nr = 2 => Weight(t) = 0 /\ t.says \subseteq {"ITEM_APPEARED"}

\* A packet of a timer is for the one transition that takes its token away.
AlarmOK(t) ==
    \A s \in Timed : t.on = Alarm[s] => t.nr = 1 /\ t.from = {s} /\ t.empty = {}

\* Every listener reports what its transition does to the number of items.
LEMMA RowsReport == ASSUME NEW t \in Net PROVE ReportOK(t)
<1> USE DEF ReportOK, Weight, Delta, Change
<1>1. CASE t \in ToHeightSensor
  BY <1>1 DEF ToHeightSensor, T, Lost, Step, Unexpected
<1>2. CASE t \in ToSwitch
  BY <1>2 DEF ToSwitch, T, Lost, Step, Unexpected
<1>3. CASE t \in SwitchAndRamp
  BY <1>3 DEF SwitchAndRamp, KeepNext, RampFull, T, Lost, Step, Unexpected
<1>4. CASE t \in ToEnd
  BY <1>4 DEF ToEnd, T, Lost, Step, Unexpected
<1> QED BY <1>1, <1>2, <1>3, <1>4 DEF Net

\* Each place has a TIMER packet of its own.
LEMMA AlarmsDiffer ==
    /\ \A s, r \in Timed : Alarm[s] = Alarm[r] => s = r
    /\ Alarm \in [Timed -> Timers]
BY DEF Alarm, Timed, Timers

\* A TIMER packet takes a token, and with it a timer, off its own place
\* only.
LEMMA RowsAlarm == ASSUME NEW t \in Net PROVE AlarmOK(t)
<1> USE Places DEF AlarmOK, Alarm
<1>1. CASE t \in ToHeightSensor
  BY <1>1 DEF ToHeightSensor, T, Lost, Step, Unexpected
<1>2. CASE t \in ToSwitch
  BY <1>2 DEF ToSwitch, T, Lost, Step, Unexpected
<1>3. CASE t \in SwitchAndRamp
  BY <1>3 DEF SwitchAndRamp, KeepNext, RampFull, T, Lost, Step, Unexpected
<1>4. CASE t \in ToEnd
  BY <1>4 DEF ToEnd, T, Lost, Step, Unexpected
<1> QED BY <1>1, <1>2, <1>3, <1>4 DEF Net

\* Every TIMER packet has a transition.
LEMMA EveryAlarmHasARow == ASSUME NEW s \in Timed PROVE \E t \in Net : t.on = Alarm[s]
<1>1. \A p, r : Lost(p, r).on = Alarm[p]
  BY DEF Lost, T
<1>2. \A x, a, b, y : Step(x, a, b, y).on = x
  BY DEF Step, T
<1>3. RampFull.on = "RAMP" /\ RampFull \in Net
  BY DEF RampFull, T, Net, SwitchAndRamp
<1>4. /\ Lost("BF_LB_START", "NOT_HANDED_OVER") \in Net /\ Lost("IN_LB_START", "ITEM_STUCK") \in Net
      /\ Step("ITEM_READY_HS", "BW_START_HS", "BF_LB_HS", {}) \in Net
      /\ Lost("BF_LB_HS", "ITEM_DISAPPEARED") \in Net
  BY DEF Net, ToHeightSensor
<1>5. /\ Lost("IN_LB_HS", "ITEM_STUCK") \in Net /\ Lost("BF_LB_SWITCH", "ITEM_DISAPPEARED") \in Net
      /\ Step("ITEM_READY_SWITCH", "BW_HS_SWITCH", "BF_LB_SWITCH", {}) \in Net
  BY DEF Net, ToSwitch
<1>6. Lost("IN_LB_SWITCH", "ITEM_STUCK") \in Net /\ Lost("BF_LB_RAMP", "ITEM_DISAPPEARED") \in Net
  BY DEF Net, SwitchAndRamp
<1>7. /\ Lost("BF_END", "ITEM_DISAPPEARED") \in Net /\ Lost("IN_LB_END", "ITEM_STUCK") \in Net
      /\ Step("ITEM_READY_END", "BW_SWITCH_END", "BF_END", {}) \in Net
      /\ T("CLOSE_SWITCH", 1, {"SWITCH_CTRL"}, {}, {"SWITCH_CTRL"}, {}, {"KEEP_NEXT"}) \in Net
  BY DEF Net, ToEnd
<1>8. T("CLOSE_SWITCH", 1, {"SWITCH_CTRL"}, {}, {"SWITCH_CTRL"}, {}, {"KEEP_NEXT"}).on = "CLOSE_SWITCH"
  BY DEF T
<1>9. /\ Alarm["BW_START_HS"] = "ITEM_READY_HS" /\ Alarm["BW_HS_SWITCH"] = "ITEM_READY_SWITCH"
      /\ Alarm["IN_LB_RAMP"] = "RAMP" /\ Alarm["BW_SWITCH_END"] = "ITEM_READY_END"
      /\ Alarm["SWITCH_CTRL"] = "CLOSE_SWITCH"
  BY DEF Alarm
<1>10. CASE s \in {"BF_LB_START", "IN_LB_START", "BF_LB_HS", "IN_LB_HS", "BF_LB_SWITCH",
                   "IN_LB_SWITCH", "BF_LB_RAMP", "BF_END", "IN_LB_END"}
  BY <1>1, <1>4, <1>5, <1>6, <1>7, <1>10
<1>11. CASE s \in {"BW_START_HS", "BW_HS_SWITCH", "BW_SWITCH_END"}
  BY <1>2, <1>4, <1>5, <1>7, <1>9, <1>11
<1>12. CASE s \in {"IN_LB_RAMP", "SWITCH_CTRL"}
  BY <1>3, <1>7, <1>8, <1>9, <1>12
<1> QED BY Places, <1>10, <1>11, <1>12
-----------------------------------------------------------------------------
(***************************************************************************)
(* Counting in a queue.                                                    *)
(***************************************************************************)
At(q, x) == {i \in DOMAIN q : q[i] = x}

\* Elements of a sequence can be counted,
LEMMA CountFinite ==
    ASSUME NEW S, NEW q \in Seq(S), NEW x
    PROVE  IsFiniteSet(At(q, x)) /\ Count(q, x) \in Nat /\ Count(q, x) = Cardinality(At(q, x))
<1>1. IsFiniteSet(1..Len(q)) /\ At(q, x) \in SUBSET (1..Len(q))
  BY FS_Interval DEF At
<1> QED BY <1>1, FS_Subset, FS_CardinalityType DEF Count, At

\* with one more at the end,
LEMMA CountAppend ==
    ASSUME NEW S, NEW q \in Seq(S), NEW y \in S, NEW x
    PROVE  Count(Append(q, y), x) = Count(q, x) + IF y = x THEN 1 ELSE 0
<1> DEFINE a == Append(q, y)
           n == Len(q) + 1
<1>1. /\ Len(q) \in Nat /\ DOMAIN q = 1..Len(q) /\ DOMAIN a = 1..n /\ a[n] = y
      /\ \A i \in 1..Len(q) : a[i] = q[i]
  OBVIOUS
<1> HIDE DEF a
<1>2. n \notin At(q, x)
  BY <1>1 DEF At
<1>3. At(a, x) = IF y = x THEN At(q, x) \cup {n} ELSE At(q, x)
  BY <1>1 DEF At
<1>4. Cardinality(At(q, x) \cup {n}) = Cardinality(At(q, x)) + 1
  BY <1>2, CountFinite, FS_AddElement
<1>5. Count(a, x) = Cardinality(At(a, x)) /\ Count(q, x) = Cardinality(At(q, x)) /\ Count(q, x) \in Nat
  BY CountFinite DEF Count, At
<1>6. CASE y = x
  BY <1>3, <1>4, <1>5, <1>6 DEF a
<1>7. CASE y # x
  <2>1. Count(a, x) = Count(q, x)
    BY <1>3, <1>5, <1>7
  <2> QED BY <2>1, <1>5, <1>7 DEF a
<1> QED BY <1>6, <1>7

\* and with one less at the front.
LEMMA CountTail ==
    ASSUME NEW S, NEW q \in Seq(S), q # <<>>, NEW x
    PROVE  Count(q, x) = Count(Tail(q), x) + IF q[1] = x THEN 1 ELSE 0
<1> DEFINE r == Tail(q)
           B == At(q, x) \ {1}
           g == [i \in B |-> i - 1]
<1>1. /\ r \in Seq(S) /\ Len(q) \in Nat /\ Len(q) >= 1 /\ DOMAIN q = 1..Len(q)
      /\ DOMAIN r = 1..Len(q)-1 /\ \A i \in 1..Len(q)-1 : r[i] = q[i + 1]
  OBVIOUS
<1> HIDE DEF r
<1>2. \A i \in B : i \in 2..Len(q) /\ q[i] = x
  BY <1>1 DEF At
<1>3. \A i \in B : i - 1 \in At(r, x)
  <2> TAKE i \in B
  <2>1. i - 1 \in 1..Len(q)-1 /\ (i - 1) + 1 = i
    BY <1>1, <1>2
  <2> QED BY <2>1, <1>1, <1>2 DEF At
<1>4. \A j \in At(r, x) : j \in Nat /\ j + 1 \in B
  <2> TAKE j \in At(r, x)
  <2>1. j \in 1..Len(q)-1 /\ q[j + 1] = x
    BY <1>1 DEF At
  <2>2. j \in Nat /\ j + 1 \in 1..Len(q) /\ j + 1 # 1
    BY <1>1, <2>1
  <2> QED BY <1>1, <2>1, <2>2 DEF At
<1>5. g \in Bijection(B, At(r, x))
  <2>1. g \in [B -> At(r, x)]
    BY <1>3
  <2>2. \A i, j \in B : i \in Nat /\ j \in Nat /\ (g[i] = g[j] => i = j)
    BY <1>1, <1>2
  <2>3. \A j \in At(r, x) : \E i \in B : g[i] = j
    <3> TAKE j \in At(r, x)
    <3>1. j + 1 \in B /\ (j + 1) - 1 = j
      BY <1>4
    <3> QED BY <3>1
  <2> HIDE DEF g, B
  <2> QED BY <2>1, <2>2, <2>3 DEF Bijection, Injection, Surjection, IsInjective
<1>6. IsFiniteSet(At(q, x)) /\ Cardinality(At(q, x)) \in Nat
  BY CountFinite
<1>7. IsFiniteSet(B)
  BY <1>6, FS_RemoveElement
<1>8. Cardinality(At(r, x)) = Cardinality(B)
  BY <1>5, <1>7, FS_Bijection DEF ExistsBijection
<1>9. Cardinality(B) = IF 1 \in At(q, x) THEN Cardinality(At(q, x)) - 1 ELSE Cardinality(At(q, x))
  BY <1>6, FS_RemoveElement
<1>10. 1 \in At(q, x) <=> q[1] = x
  BY <1>1 DEF At
<1>11. Count(r, x) = Cardinality(At(r, x)) /\ Count(q, x) = Cardinality(At(q, x))
  BY DEF Count, At
<1> HIDE DEF B
<1>12. CASE q[1] = x
  BY <1>6, <1>8, <1>9, <1>10, <1>11, <1>12 DEF r
<1>13. CASE q[1] # x
  <2>1. Count(q, x) = Count(r, x)
    BY <1>8, <1>9, <1>10, <1>11, <1>13
  <2> QED BY <2>1, <1>6, <1>11, <1>13 DEF r
<1> QED BY <1>12, <1>13
-----------------------------------------------------------------------------
(***************************************************************************)
(* Of the timers of a place the oldest expire first, so that a transition  *)
(* that takes a token deletes an expired timer if there is one.            *)
(***************************************************************************)
ExpiredFirst(q) == \A i, j \in 1..Len(q) : i < j /\ q[j] = "expired" => q[i] = "expired"
Expired(q) == Count(q, "expired")

\* The number of expired timers of a place.
LEMMA ExpiredTyped ==
    ASSUME NEW q \in Seq(Status)
    PROVE  Expired(q) \in Nat
  BY CountFinite DEF Expired

\* deleteTimer takes the oldest timer, which is an expired one if any is.
LEMMA DeleteOldest ==
    ASSUME NEW q \in Seq(Status), Len(q) > 0, ExpiredFirst(q)
    PROVE  /\ DeleteTimer(q) \in Seq(Status) /\ ExpiredFirst(DeleteTimer(q))
           /\ Expired(DeleteTimer(q)) = IF Expired(q) > 0 THEN Expired(q) - 1 ELSE 0
<1>1. q # <<>> /\ Len(q) \in Nat /\ Tail(q) \in Seq(Status) /\ Len(Tail(q)) = Len(q) - 1
  OBVIOUS
<1>2. \A i \in 1..Len(Tail(q)) : i + 1 \in 1..Len(q) /\ Tail(q)[i] = q[i + 1]
  BY <1>1
<1>3. DeleteTimer(q) = Tail(q)
  <2> DEFINE d == SubSeq(q, 2, Len(q))
             n == Len(q)
  <2>1. n \in Nat /\ n > 0 /\ \A i \in 2..n : q[i] \in Status
    OBVIOUS
  <2>2. /\ d \in Seq(Status) /\ Len(d) = IF 2 <= n THEN n - 2 + 1 ELSE 0
        /\ \A i \in 1..n - 2 + 1 : d[i] = q[2 + i - 1]
    BY <2>1, SubSeqProperties
  <2>3. DeleteTimer(q) = d
    BY DEF DeleteTimer
  <2> HIDE DEF d, n
  <2>4. Len(d) = n - 1 /\ \A i \in 1..n-1 : d[i] = q[i + 1]
    BY <2>1, <2>2
  <2>5. Len(d) = Len(Tail(q)) /\ \A i \in 1..Len(d) : d[i] = Tail(q)[i]
    BY <1>1, <1>2, <2>4 DEF n
  <2> QED BY <1>1, <2>2, <2>3, <2>5
<1>4. ExpiredFirst(Tail(q))
  BY <1>1, <1>2 DEF ExpiredFirst
<1>5. Expired(q) = Expired(Tail(q)) + (IF q[1] = "expired" THEN 1 ELSE 0)
  BY <1>1, CountTail DEF Expired
<1>6. Expired(Tail(q)) \in Nat /\ Expired(q) \in Nat
  BY <1>1, ExpiredTyped
<1>7. CASE q[1] = "expired"
  BY <1>1, <1>3, <1>4, <1>5, <1>6, <1>7
<1>8. CASE q[1] # "expired"
  <2>1. At(q, "expired") = {}
    BY <1>1, <1>8 DEF At, ExpiredFirst
  <2>2. Expired(q) = 0
    BY <2>1, FS_EmptySet DEF Expired, Count, At
  <2>3. Expired(Tail(q)) = 0
    BY <1>5, <1>6, <1>8, <2>2
  <2> QED BY <1>1, <1>3, <1>4, <2>2, <2>3
<1> QED BY <1>7, <1>8

\* A timer that is set comes behind those that have expired.
LEMMA SetYoungest ==
    ASSUME NEW q \in Seq(Status), ExpiredFirst(q)
    PROVE  ExpiredFirst(SetTimer(q)) /\ Expired(SetTimer(q)) = Expired(q)
<1>1. NewTimer \in Status /\ NewTimer # "expired"
  BY DEF NewTimer, Status
<1>2. SetTimer(q) = Append(q, NewTimer)
  BY DEF SetTimer
<1> HIDE DEF NewTimer
<1>3. /\ Len(q) \in Nat /\ Len(Append(q, NewTimer)) = Len(q) + 1
      /\ Append(q, NewTimer)[Len(q) + 1] = NewTimer
      /\ \A i \in 1..Len(q) : Append(q, NewTimer)[i] = q[i]
  BY <1>1
<1>4. ExpiredFirst(Append(q, NewTimer))
  BY <1>1, <1>3 DEF ExpiredFirst
<1>5. Expired(Append(q, NewTimer)) = Expired(q) + 0
  BY <1>1, CountAppend DEF Expired
<1> QED BY <1>2, <1>4, <1>5, ExpiredTyped

\* Pausing and going on leave expired timers alone.
LEMMA HaltedStay ==
    ASSUME NEW q \in Seq(Status), ExpiredFirst(q)
    PROVE  /\ ExpiredFirst(Halt(q)) /\ Expired(Halt(q)) = Expired(q)
           /\ ExpiredFirst(Continue(q)) /\ Expired(Continue(q)) = Expired(q)
<1>1. /\ Len(Halt(q)) = Len(q) /\ Len(Continue(q)) = Len(q)
      /\ DOMAIN Halt(q) = DOMAIN q /\ DOMAIN Continue(q) = DOMAIN q /\ DOMAIN q = 1..Len(q)
  BY SameLength DEF Halt, Continue
<1>2. \A i \in 1..Len(q) : /\ Halt(q)[i] = "expired" <=> q[i] = "expired"
                           /\ Continue(q)[i] = "expired" <=> q[i] = "expired"
  BY <1>1 DEF Halt, Continue
<1>3. ExpiredFirst(Halt(q)) /\ ExpiredFirst(Continue(q))
  BY <1>1, <1>2 DEF ExpiredFirst
<1>4. At(Halt(q), "expired") = At(q, "expired") /\ At(Continue(q), "expired") = At(q, "expired")
  BY <1>1, <1>2 DEF At
<1> QED BY <1>3, <1>4 DEF Expired, Count, At

\* The oldest of the others is the next one to expire.
LEMMA OldestExpires ==
    ASSUME NEW q \in Seq(Status), ExpiredFirst(q), NEW i \in Oldest(q)
    PROVE  LET r == [q EXCEPT ![i] = "expired"]
           IN  ExpiredFirst(r) /\ Expired(r) = Expired(q) + 1
<1> DEFINE r == [q EXCEPT ![i] = "expired"]
<1>1. i \in 1..Len(q) /\ q[i] = "running" /\ \A j \in 1..i-1 : q[j] = "expired"
  BY DEF Oldest
<1>2. /\ Len(r) = Len(q) /\ DOMAIN r = 1..Len(q) /\ DOMAIN q = 1..Len(q) /\ Len(q) \in Nat
      /\ r[i] = "expired" /\ \A j \in 1..Len(q) : j # i => r[j] = q[j]
  BY <1>1
<1> HIDE DEF r
<1>3. ExpiredFirst(r)
  <2> SUFFICES ASSUME NEW j \in 1..Len(q), NEW l \in 1..Len(q), j < l, r[l] = "expired"
               PROVE  r[j] = "expired"
    BY <1>2 DEF ExpiredFirst
  <2>1. CASE l = i
    BY <1>1, <1>2, <2>1
  <2>2. CASE l # i
    BY <1>1, <1>2, <2>2 DEF ExpiredFirst
  <2> QED BY <2>1, <2>2
<1>4. At(r, "expired") = At(q, "expired") \cup {i} /\ i \notin At(q, "expired")
  BY <1>1, <1>2 DEF At
<1>5. Cardinality(At(r, "expired")) = Cardinality(At(q, "expired")) + 1
  BY <1>4, CountFinite, FS_AddElement
<1> QED BY <1>3, <1>5 DEF Expired, Count, At, r
-----------------------------------------------------------------------------
(***************************************************************************)
(* What one event does to the reports and to the expired timers.           *)
(***************************************************************************)
LEMMA ItemPlaces ==
    {"IN_LB_START", "BW_START_HS", "BF_LB_HS", "IN_LB_HS", "BW_HS_SWITCH", "BF_LB_SWITCH",
     "IN_LB_SWITCH", "BF_LB_RAMP", "IN_LB_RAMP", "BW_SWITCH_END", "BF_END", "IN_LB_END"} \subseteq Place
BY Places

\* What a transition does to the number of items the net follows.
LEMMA FireFollowed ==
    ASSUME NEW t \in Net, NEW m \in [Place -> Nat]
    PROVE  Followed(TokensAfter(t, m)) = Followed(m) + Weight(t)
<1> DEFINE n == TokensAfter(t, m)
<1>1. \A s \in Place : n[s] = m[s] + Delta(t, s) /\ Delta(t, s) \in Int /\ m[s] \in Nat
  BY DEF TokensAfter, Delta
<1> HIDE DEF n
<1>3. n["IN_LB_START"] = m["IN_LB_START"] + Delta(t, "IN_LB_START") /\ m["IN_LB_START"] \in Nat /\ Delta(t, "IN_LB_START") \in Int
  BY <1>1, ItemPlaces
<1>4. n["BW_START_HS"] = m["BW_START_HS"] + Delta(t, "BW_START_HS") /\ m["BW_START_HS"] \in Nat /\ Delta(t, "BW_START_HS") \in Int
  BY <1>1, ItemPlaces
<1>5. n["BF_LB_HS"] = m["BF_LB_HS"] + Delta(t, "BF_LB_HS") /\ m["BF_LB_HS"] \in Nat /\ Delta(t, "BF_LB_HS") \in Int
  BY <1>1, ItemPlaces
<1>6. n["IN_LB_HS"] = m["IN_LB_HS"] + Delta(t, "IN_LB_HS") /\ m["IN_LB_HS"] \in Nat /\ Delta(t, "IN_LB_HS") \in Int
  BY <1>1, ItemPlaces
<1>7. n["BW_HS_SWITCH"] = m["BW_HS_SWITCH"] + Delta(t, "BW_HS_SWITCH") /\ m["BW_HS_SWITCH"] \in Nat /\ Delta(t, "BW_HS_SWITCH") \in Int
  BY <1>1, ItemPlaces
<1>8. n["BF_LB_SWITCH"] = m["BF_LB_SWITCH"] + Delta(t, "BF_LB_SWITCH") /\ m["BF_LB_SWITCH"] \in Nat /\ Delta(t, "BF_LB_SWITCH") \in Int
  BY <1>1, ItemPlaces
<1>9. n["IN_LB_SWITCH"] = m["IN_LB_SWITCH"] + Delta(t, "IN_LB_SWITCH") /\ m["IN_LB_SWITCH"] \in Nat /\ Delta(t, "IN_LB_SWITCH") \in Int
  BY <1>1, ItemPlaces
<1>10. n["BF_LB_RAMP"] = m["BF_LB_RAMP"] + Delta(t, "BF_LB_RAMP") /\ m["BF_LB_RAMP"] \in Nat /\ Delta(t, "BF_LB_RAMP") \in Int
  BY <1>1, ItemPlaces
<1>11. n["IN_LB_RAMP"] = m["IN_LB_RAMP"] + Delta(t, "IN_LB_RAMP") /\ m["IN_LB_RAMP"] \in Nat /\ Delta(t, "IN_LB_RAMP") \in Int
  BY <1>1, ItemPlaces
<1>12. n["BW_SWITCH_END"] = m["BW_SWITCH_END"] + Delta(t, "BW_SWITCH_END") /\ m["BW_SWITCH_END"] \in Nat /\ Delta(t, "BW_SWITCH_END") \in Int
  BY <1>1, ItemPlaces
<1>13. n["BF_END"] = m["BF_END"] + Delta(t, "BF_END") /\ m["BF_END"] \in Nat /\ Delta(t, "BF_END") \in Int
  BY <1>1, ItemPlaces
<1>14. n["IN_LB_END"] = m["IN_LB_END"] + Delta(t, "IN_LB_END") /\ m["IN_LB_END"] \in Nat /\ Delta(t, "IN_LB_END") \in Int
  BY <1>1, ItemPlaces
<1>15. Followed(n) = Followed(m) + Weight(t)
  BY <1>3, <1>4, <1>5, <1>6, <1>7, <1>8, <1>9, <1>10, <1>11, <1>12, <1>13, <1>14 DEF Followed, Weight
<1> QED BY <1>15 DEF n

\* That number is a natural one.
LEMMA FollowedTyped == ASSUME NEW m \in [Place -> Nat] PROVE Followed(m) \in Nat
<1>1. \A s \in Place : m[s] \in Nat
  OBVIOUS
<1> QED BY <1>1, ItemPlaces DEF Followed

\* Trying a transition fires one that is enabled, or does nothing.
LEMMA TryFires ==
    ASSUME NEW e, NEW nr, NEW r
    PROVE  \/ Try(e, nr, r) = r /\ Candidates(e, nr, r) = {}
           \/ \E t \in Candidates(e, nr, r) : Try(e, nr, r) = Fire(t, r)
<1>1. Candidates(e, nr, r) # {} => (CHOOSE t \in Candidates(e, nr, r) : TRUE) \in Candidates(e, nr, r)
  OBVIOUS
<1> QED BY <1>1 DEF Try

\* An event keeps the reports in balance with the items.
LEMMA ProcessReports ==
    ASSUME Inv, ReportsBalance, NEW e, Process(e)
    PROVE  ReportsBalance'
<1> DEFINE r == Try(e, 2, Before)
           a == Try(e, 1, r)
<1>1. tokens \in [Place -> Nat] /\ Good(Before, MustBeQuiet)
  BY DEF Inv, Good, Before, Matches
<1>2. Good(r, MustBeQuiet) /\ r.tokens \in [Place -> Nat]
  BY <1>1, TryKeeps DEF MustBeQuiet, Good, Matches
<1>3. Followed(r.tokens) = Followed(tokens) /\ r.says \subseteq {"ITEM_APPEARED"}
  <2>1. CASE r = Before
    BY <2>1 DEF Before
  <2>2. ASSUME NEW t \in Candidates(e, 2, Before), r = Fire(t, Before)
        PROVE  Followed(r.tokens) = Followed(tokens) /\ r.says \subseteq {"ITEM_APPEARED"}
    <3>1. t \in Net /\ t.nr = 2
      BY DEF Candidates
    <3>2. Weight(t) = 0 /\ t.says \subseteq {"ITEM_APPEARED"}
      BY <3>1, RowsReport DEF ReportOK
    <3>3. r.tokens = TokensAfter(t, tokens) /\ r.says = {} \cup t.says
      BY <2>2 DEF Fire, Before
    <3>4. Followed(r.tokens) = Followed(tokens) + 0
      BY <1>1, <3>1, <3>2, <3>3, FireFollowed
    <3> QED BY <1>1, <3>2, <3>3, <3>4, FollowedTyped
  <2> QED BY <2>1, <2>2, TryFires
<1> HIDE DEF r
<1>4. Followed(a.tokens) = Followed(tokens) + Change(a.says)
  <2>1. CASE a = r
    <3>1. Change(a.says) = 0
      BY <1>3, <2>1 DEF Change
    <3> QED BY <1>1, <1>3, <2>1, <3>1, FollowedTyped
  <2>2. ASSUME NEW t \in Candidates(e, 1, r), a = Fire(t, r)
        PROVE  Followed(a.tokens) = Followed(tokens) + Change(a.says)
    <3>1. t \in Net /\ t.nr = 1
      BY DEF Candidates
    <3>2. Weight(t) = Change(t.says)
      BY <3>1, RowsReport DEF ReportOK
    <3>3. a.tokens = TokensAfter(t, r.tokens) /\ a.says = r.says \cup t.says
      BY <2>2 DEF Fire
    <3>4. Change(a.says) = Change(t.says)
      BY <1>3, <3>3 DEF Change
    <3> QED BY <1>2, <1>3, <3>1, <3>2, <3>3, <3>4, FireFollowed
  <2> QED BY <2>1, <2>2, TryFires
<1>5. a = After(e)
  BY DEF After, r
<1>6. tokens' = a.tokens /\ present' = present + Change(a.says)
  BY <1>5 DEF Process
<1> QED BY <1>4, <1>6 DEF ReportsBalance

Sorted(w) == \A s \in Timed : ExpiredFirst(w[s])

\* One transition: a place that a token is taken from loses an expired timer, if
\* it has any, and the others keep theirs.
LEMMA FireExpired ==
    ASSUME NEW t \in Net, NEW m, NEW w, Matches(m, w), CanFire(t, m), NEW s \in Timed, ExpiredFirst(w[s])
    PROVE  LET x == TimersAfter(t, w)
           IN  /\ ExpiredFirst(x[s]) /\ Expired(x[s]) <= Expired(w[s])
               /\ s \in t.from /\ Expired(w[s]) > 0 => Expired(x[s]) = Expired(w[s]) - 1
               /\ s \notin t.from => Expired(x[s]) = Expired(w[s])
<1> DEFINE left == IF s \in t.deletes THEN DeleteTimer(w[s]) ELSE w[s]
           x    == TimersAfter(t, w)
<1>1. w[s] \in Seq(Status) /\ Len(w[s]) = m[s] /\ s \in Place /\ Expired(w[s]) \in Nat
  BY Places, ExpiredTyped DEF Matches
<1>2. (s \in t.deletes <=> s \in t.from) /\ (s \in t.from => m[s] > 0)
  BY RowsMatch DEF RowOK, CanFire
<1>3. /\ left \in Seq(Status) /\ ExpiredFirst(left) /\ Expired(left) <= Expired(w[s])
      /\ s \in t.from /\ Expired(w[s]) > 0 => Expired(left) = Expired(w[s]) - 1
      /\ s \notin t.from => Expired(left) = Expired(w[s])
  <2>1. CASE s \in t.deletes
    BY <1>1, <1>2, <2>1, DeleteOldest
  <2>2. CASE s \notin t.deletes
    BY <1>1, <1>2, <2>2
  <2> QED BY <2>1, <2>2
<1>4. x[s] = IF s \in t.sets THEN SetTimer(left) ELSE left
  BY DEF TimersAfter
<1> HIDE DEF left, x
<1>5. ExpiredFirst(x[s]) /\ Expired(x[s]) = Expired(left)
  BY <1>3, <1>4, SetYoungest
<1> QED BY <1>3, <1>5 DEF x

\* A transition that is tried leaves no more timers expired than before,
LEMMA TryExpired ==
    ASSUME NEW e, NEW nr, NEW r, Matches(r.tokens, r.timers), Sorted(r.timers), NEW s \in Timed
    PROVE  /\ ExpiredFirst(Try(e, nr, r).timers[s])
           /\ Expired(Try(e, nr, r).timers[s]) <= Expired(r.timers[s])
<1>1. Expired(r.timers[s]) \in Nat
  BY ExpiredTyped DEF Matches
<1>2. CASE Try(e, nr, r) = r
  BY <1>1, <1>2 DEF Sorted
<1>3. ASSUME NEW t \in Candidates(e, nr, r), Try(e, nr, r) = Fire(t, r)
      PROVE  /\ ExpiredFirst(Try(e, nr, r).timers[s])
             /\ Expired(Try(e, nr, r).timers[s]) <= Expired(r.timers[s])
  <2>1. t \in Net /\ CanFire(t, r.tokens)
    BY DEF Candidates
  <2>2. Try(e, nr, r).timers = TimersAfter(t, r.timers)
    BY <1>3 DEF Fire
  <2> QED BY <2>1, <2>2, FireExpired DEF Sorted
<1> QED BY <1>2, <1>3, TryFires

\* nor does an event.
LEMMA ProcessExpired ==
    ASSUME Inv, Sorted(timers), NEW e, Process(e), NEW s \in Timed
    PROVE  ExpiredFirst(timers'[s]) /\ Expired(timers'[s]) <= Expired(timers[s])
<1> DEFINE r == Try(e, 2, Before)
<1>1. Good(Before, MustBeQuiet) /\ Before.timers = timers
  BY DEF Inv, Good, Before
<1>2. Good(r, MustBeQuiet)
  BY <1>1, TryKeeps DEF MustBeQuiet
<1>3. Sorted(r.timers) /\ Expired(r.timers[s]) <= Expired(timers[s])
  BY <1>1, TryExpired DEF Good, Sorted
<1>4. timers' = Try(e, 1, r).timers
  BY DEF Process, After
<1>5. timers \in [Timed -> Seq(Status)] /\ r.timers \in [Timed -> Seq(Status)]
  BY <1>2 DEF Inv, Good, Matches
<1> HIDE DEF r
<1>6. ExpiredFirst(timers'[s]) /\ Expired(timers'[s]) <= Expired(r.timers[s])
  BY <1>2, <1>3, <1>4, TryExpired DEF Good
<1>7. Expired(timers[s]) \in Nat /\ Expired(r.timers[s]) \in Nat
  BY <1>5, ExpiredTyped
<1>8. timers' \in [Timed -> Seq(Status)]
  <2>1. Good(Try(e, 1, r), MustBeQuiet)
    BY <1>2, TryKeeps DEF MustBeQuiet
  <2> QED BY <1>4, <2>1 DEF Good, Matches
<1>9. Expired(timers'[s]) \in Nat
  BY <1>8, ExpiredTyped
<1> QED BY <1>3, <1>6, <1>7, <1>9

\* The packet of a place with an expired timer removes one of them; the one of
\* the switch closes it.
LEMMA PacketExpired ==
    ASSUME Inv, Sorted(timers), NEW s \in Timed, Process(Alarm[s]), Expired(timers[s]) > 0
    PROVE  /\ Expired(timers'[s]) = Expired(timers[s]) - 1
           /\ s = "SWITCH_CTRL" => open' = FALSE
<1> DEFINE e == Alarm[s]
<1>1. Matches(tokens, timers) /\ Before.tokens = tokens /\ Before.timers = timers
  BY DEF Inv, Before
<1>2. timers[s] \in Seq(Status) /\ Len(timers[s]) = tokens[s] /\ s \in Place /\ tokens[s] \in Nat
  BY <1>1, Places DEF Matches
<1>3. tokens[s] > 0
  <2>1. CASE tokens[s] = 0
    <3>1. At(timers[s], "expired") = {}
      BY <1>2, <2>1 DEF At
    <3>2. Expired(timers[s]) = 0
      BY <3>1, FS_EmptySet DEF Expired, Count, At
    <3> QED BY <3>2
  <2> QED BY <1>2, <2>1
<1>4. \A t \in Net : t.on = e => t.nr = 1 /\ t.from = {s} /\ t.empty = {}
  BY RowsAlarm DEF AlarmOK
<1>5. Try(e, 2, Before) = Before
  <2>1. Candidates(e, 2, Before) = {}
    BY <1>4 DEF Candidates
  <2> QED BY <2>1, TryFires
<1>6. \A t \in Net : t.on = e => t \in Candidates(e, 1, Before)
  BY <1>1, <1>3, <1>4 DEF Candidates, CanFire
<1>7. PICK t \in Candidates(e, 1, Before) : Try(e, 1, Before) = Fire(t, Before)
  BY <1>6, EveryAlarmHasARow, TryFires
<1>8. t \in Net /\ t.from = {s} /\ CanFire(t, tokens)
  BY <1>1, <1>4 DEF Candidates
<1>9. timers' = TimersAfter(t, timers) /\ open' = SwitchAfter(t, open)
  BY <1>1, <1>5, <1>7 DEF Process, After, Fire, Before
<1>10. s = "SWITCH_CTRL" => open' = FALSE
  <2>1. t.on = Alarm[s]
    BY DEF Candidates
  <2>2. Alarm["SWITCH_CTRL"] = "CLOSE_SWITCH"
    BY DEF Alarm
  <2> QED BY <1>9, <2>1, <2>2, Zenon DEF SwitchAfter
<1>11. Expired(timers'[s]) = Expired(timers[s]) - 1
  BY <1>1, <1>8, <1>9, FireExpired DEF Sorted
<1> QED BY <1>10, <1>11

-----------------------------------------------------------------------------
(***************************************************************************)
(* The second invariant: the types, the reports, and the packets to come.  *)
(***************************************************************************)
AlarmsCovered(w, tk) == \A s \in Timed : Expired(w[s]) <= Count(tk, Alarm[s])

Rest == /\ delay \in BOOLEAN /\ active \in BOOLEAN /\ belt \in BOOLEAN /\ dropped \in BOOLEAN
        /\ ticks \in Seq(Timers) /\ asked \in Nat /\ present \in Int
        /\ arrived \in Nat /\ expected \in Nat /\ stops \in Nat /\ leaves \in Nat

Complete == /\ Inv /\ Rest /\ Sorted(timers) /\ ReportsBalance
            /\ ~dropped => AlarmsCovered(timers, ticks)

\* TIMER packets that wait for a place can be counted.
LEMMA TickTyped ==
    ASSUME NEW tk \in Seq(Timers), NEW s \in Timed
    PROVE  Alarm[s] \in Timers /\ Count(tk, Alarm[s]) \in Nat
  BY AlarmsDiffer, CountFinite

\* An event that is not a packet from the queue.
LEMMA ProcessComplete ==
    ASSUME Complete, Inv', NEW e, Process(e), UNCHANGED <<ticks, dropped>>
    PROVE  Sorted(timers') /\ ReportsBalance' /\ present' \in Int /\ (~dropped => AlarmsCovered(timers', ticks))
<1>1. \A s \in Timed : ExpiredFirst(timers'[s]) /\ Expired(timers'[s]) <= Expired(timers[s])
  BY ProcessExpired DEF Complete
<1>2. \A s \in Timed : /\ Expired(timers'[s]) \in Nat /\ Expired(timers[s]) \in Nat
                       /\ Count(ticks, Alarm[s]) \in Nat
  BY ExpiredTyped, TickTyped DEF Complete, Inv, Matches, Rest
<1>3. ReportsBalance'
  BY ProcessReports DEF Complete
<1>4. present' \in Int
  BY DEF Process, Change, Complete, Rest
<1>5. ~dropped => AlarmsCovered(timers', ticks)
  BY <1>1, <1>2 DEF Complete, AlarmsCovered
<1> QED BY <1>1, <1>3, <1>4, <1>5 DEF Sorted

\* A TIMER packet that is handled has ended the timer it came from, or one
\* that expired before, unless a barrier did so first.
LEMMA TickComplete ==
    ASSUME Complete, Inv', Tick
    PROVE  Complete'
<1>1. /\ ticks # <<>> /\ ticks' = Tail(ticks) /\ dropped' = (dropped \/ ~active)
      /\ UNCHANGED <<delay, active, belt, asked, arrived, expected, stops, leaves>>
  BY DEF Tick, clock, mode, bounds
<1>2. /\ ticks \in Seq(Timers) /\ ticks' \in Seq(Timers) /\ Head(ticks) = ticks[1] /\ ticks[1] \in Timers
      /\ dropped' \in BOOLEAN
  BY <1>1 DEF Complete, Rest
<1>3. PICK p \in Timed : ticks[1] = Alarm[p]
  BY <1>2 DEF Timers
<1>4. ASSUME NEW s \in Timed
      PROVE  /\ Count(ticks, Alarm[s]) = Count(ticks', Alarm[s]) + IF s = p THEN 1 ELSE 0
             /\ Count(ticks, Alarm[s]) \in Nat /\ Count(ticks', Alarm[s]) \in Nat
             /\ Expired(timers[s]) \in Nat /\ Expired(timers'[s]) \in Nat
  <2>1. Count(ticks, Alarm[s]) = Count(ticks', Alarm[s]) + IF ticks[1] = Alarm[s] THEN 1 ELSE 0
    BY <1>1, <1>2, CountTail
  <2>2. ticks[1] = Alarm[s] <=> s = p
    BY <1>3, AlarmsDiffer
  <2>3. Expired(timers[s]) \in Nat /\ Expired(timers'[s]) \in Nat
    BY ExpiredTyped DEF Complete, Inv, Matches
  <2> QED BY <1>2, <2>1, <2>2, <2>3, TickTyped
<1>5. CASE ~active
  <2>1. UNCHANGED <<tokens, timers, open, present>>
    BY <1>5 DEF Tick
  <2> QED BY <1>1, <1>2, <1>5, <2>1 DEF Complete, Rest, ReportsBalance
<1>6. CASE active
  <2>1. Process(Alarm[p])
    BY <1>2, <1>3, <1>6 DEF Tick
  <2>2. \A s \in Timed : ExpiredFirst(timers'[s]) /\ Expired(timers'[s]) <= Expired(timers[s])
    BY <2>1, ProcessExpired DEF Complete
  <2>3. Expired(timers[p]) > 0 => Expired(timers'[p]) = Expired(timers[p]) - 1
    BY <2>1, PacketExpired DEF Complete
  <2>4. ~dropped' => AlarmsCovered(timers', ticks')
    <3> SUFFICES ASSUME ~dropped, NEW s \in Timed
                 PROVE  Expired(timers'[s]) <= Count(ticks', Alarm[s])
      BY <1>1, <1>6 DEF AlarmsCovered
    <3>1. Expired(timers[s]) <= Count(ticks, Alarm[s])
      BY DEF Complete, AlarmsCovered
    <3>2. CASE s = p
      BY <1>4, <2>2, <2>3, <3>1, <3>2
    <3>3. CASE s # p
      BY <1>4, <2>2, <3>1, <3>3
    <3> QED BY <3>2, <3>3
  <2>5. ReportsBalance' /\ present' \in Int
    BY <2>1, ProcessReports DEF Complete, Process, Change, Rest
  <2> QED BY <1>1, <1>2, <2>2, <2>4, <2>5 DEF Complete, Rest, Sorted
<1> QED BY <1>5, <1>6 DEF Complete, Rest

\* Pausing, resuming and the delay change no expired timer.
LEMMA StopComplete ==
    ASSUME Complete, StopClock
    PROVE  /\ Sorted(timers') /\ delay' \in BOOLEAN
           /\ \A s \in Timed : Expired(timers'[s]) = Expired(timers[s])
<1>1. ASSUME NEW s \in Timed
      PROVE  ExpiredFirst(timers'[s]) /\ Expired(timers'[s]) = Expired(timers[s])
  <2>1. timers[s] \in Seq(Status) /\ ExpiredFirst(timers[s])
    BY DEF Complete, Inv, Matches, Sorted
  <2>2. timers'[s] = Halt(timers[s])
    BY DEF StopClock
  <2> QED BY <2>1, <2>2, HaltedStay
<1> QED BY <1>1 DEF StopClock, Sorted

\* Going on after a pause lets no timer expire.
LEMMA ResumeAllComplete ==
    ASSUME Complete, ResumeAll
    PROVE  Sorted(timers') /\ \A s \in Timed : Expired(timers'[s]) = Expired(timers[s])
<1>1. PICK late : timers' = [s \in Timed |-> IF s \in late THEN Continue(timers[s]) ELSE timers[s]]
  BY DEF ResumeAll
<1>2. ASSUME NEW s \in Timed
      PROVE  ExpiredFirst(timers'[s]) /\ Expired(timers'[s]) = Expired(timers[s])
  <2>1. timers[s] \in Seq(Status) /\ ExpiredFirst(timers[s])
    BY DEF Complete, Inv, Matches, Sorted
  <2>2. timers'[s] = IF s \in late THEN Continue(timers[s]) ELSE timers[s]
    BY <1>1
  <2> QED BY <2>1, <2>2, HaltedStay
<1> QED BY <1>2 DEF Sorted

\* A timer that expires has its packet in the queue.
LEMMA ExpireComplete ==
    ASSUME Complete, NEW s \in Timed, Expire(s)
    PROVE  /\ Sorted(timers') /\ ticks' \in Seq(Timers)
           /\ ~dropped => AlarmsCovered(timers', ticks')
<1> PICK i \in Oldest(timers[s]) : timers' = [timers EXCEPT ![s][i] = "expired"]
  BY DEF Expire
<1> DEFINE q == [timers[s] EXCEPT ![i] = "expired"]
<1>1. timers \in [Timed -> Seq(Status)] /\ ticks \in Seq(Timers) /\ ticks' = Append(ticks, Alarm[s])
  BY DEF Complete, Inv, Matches, Rest, Expire
<1>2. ExpiredFirst(q) /\ Expired(q) = Expired(timers[s]) + 1
  BY <1>1, OldestExpires DEF Complete, Sorted
<1>3. timers' = [timers EXCEPT ![s] = q]
  BY <1>1
<1> HIDE DEF q
<1>4. timers'[s] = q /\ \A r \in Timed \ {s} : timers'[r] = timers[r]
  BY <1>1, <1>3
<1>5. Sorted(timers')
  BY <1>2, <1>4 DEF Complete, Sorted
<1>6. ASSUME NEW r \in Timed, Expired(timers[r]) <= Count(ticks, Alarm[r])
      PROVE  Expired(timers'[r]) <= Count(ticks', Alarm[r])
  <2>1. Count(ticks', Alarm[r]) = Count(ticks, Alarm[r]) + IF Alarm[s] = Alarm[r] THEN 1 ELSE 0
    BY <1>1, AlarmsDiffer, CountAppend
  <2>2. Alarm[s] = Alarm[r] <=> s = r
    BY AlarmsDiffer
  <2>3. Expired(timers[r]) \in Nat /\ Count(ticks, Alarm[r]) \in Nat
    BY <1>1, ExpiredTyped, TickTyped
  <2>4. CASE r = s
    BY <1>2, <1>4, <1>6, <2>1, <2>3, <2>4
  <2>5. CASE r # s
    BY <1>4, <1>6, <2>1, <2>2, <2>3, <2>5
  <2> QED BY <2>4, <2>5
<1>7. ticks' \in Seq(Timers)
  BY <1>1, AlarmsDiffer
<1> QED BY <1>5, <1>6, <1>7 DEF Complete, AlarmsCovered

\* In the beginning nothing is followed and nothing waits.
LEMMA CompleteStarts == ASSUME Init PROVE Complete
<1>1. Inv BY InvStarts
<1>2. Rest
  <2>1. <<>> \in Seq(Timers) /\ 0 \in Nat /\ 0 \in Int
    OBVIOUS
  <2> QED BY <2>1 DEF Init, Rest
<1>3. \A s \in Place : tokens[s] = 0
  BY DEF Init
<1>4. ReportsBalance
  BY <1>3, ItemPlaces DEF Init, ReportsBalance, Followed
<1>5. ASSUME NEW s \in Timed
      PROVE  ExpiredFirst(timers[s]) /\ Expired(timers[s]) = 0
  <2>1. timers[s] = <<>>
    BY DEF Init
  <2>2. At(<<>>, "expired") = {}
    BY DEF At
  <2> QED BY <2>1, <2>2, FS_EmptySet DEF ExpiredFirst, Expired, Count, At
<1>6. AlarmsCovered(timers, ticks)
  BY <1>2, <1>5, TickTyped DEF AlarmsCovered, Rest
<1> QED BY <1>1, <1>2, <1>4, <1>5, <1>6 DEF Complete, Sorted

\* Every step keeps the second invariant.
LEMMA CompleteStays == ASSUME Complete, [Next]_vars PROVE Complete'
<1> USE DEF mode, bounds, clock
<1>1. Inv'
  BY InvStays DEF Complete
<1>2. ASSUME UNCHANGED <<ticks, dropped, tokens, present>>, Rest', Sorted(timers'),
             \A s \in Timed : Expired(timers'[s]) = Expired(timers[s])
      PROVE  Complete'
  BY <1>1, <1>2 DEF Complete, ReportsBalance, AlarmsCovered
<1>3. ASSUME UNCHANGED <<ticks, dropped, tokens, present, timers>>, Rest'
      PROVE  Complete'
  BY <1>1, <1>3 DEF Complete, ReportsBalance
<1>4. ASSUME NEW e, Process(e), UNCHANGED <<ticks, dropped, delay, mode, stops, leaves>>,
             asked' \in Nat, arrived' \in Nat, expected' \in Nat
      PROVE  Complete'
  <2>1. Sorted(timers') /\ ReportsBalance' /\ present' \in Int /\ (~dropped => AlarmsCovered(timers', ticks))
    BY <1>1, <1>4, ProcessComplete
  <2> QED BY <1>1, <1>4, <2>1 DEF Complete, Rest
<1>5. ASSUME NEW e \in HalEvent, Sense(e) PROVE Complete'
  <2>1. asked' \in Nat /\ arrived' \in Nat /\ expected' \in Nat
    BY <1>5 DEF Sense, Complete, Rest
  <2> QED BY <1>4, <1>5, <2>1 DEF Sense
<1>6. ASSUME NEW keep \in BOOLEAN, Decide(keep) PROVE Complete'
  <2>1. asked' \in Nat /\ arrived' \in Nat /\ expected' \in Nat
    BY <1>6 DEF Decide, Complete, Rest
  <2>2. CASE active /\ keep
    BY <1>4, <1>6, <2>1, <2>2 DEF Decide
  <2>3. CASE ~(active /\ keep)
    <3>1. UNCHANGED <<ticks, dropped, tokens, present, timers, delay, active, belt, arrived, expected, stops, leaves>>
      BY <1>6, <2>3 DEF Decide
    <3>2. Rest'
      BY <2>1, <3>1 DEF Complete, Rest
    <3> QED BY <1>3, <3>1, <3>2
  <2> QED BY <2>2, <2>3
<1>7. CASE ExpectNew
  <2>1. asked' \in Nat /\ arrived' \in Nat /\ expected' \in Nat
    BY <1>7 DEF ExpectNew, Complete, Rest
  <2> QED BY <1>4, <1>7, <2>1 DEF ExpectNew
<1>8. CASE Suspend
  <2>1. delay' \in BOOLEAN
    BY <1>8, StopComplete DEF Suspend
  <2>2. UNCHANGED <<ticks, active, asked, present, dropped, arrived, expected, leaves>> /\ stops' = stops + 1
    BY <1>8 DEF Suspend
  <2>3. belt' \in BOOLEAN
    BY <1>8 DEF Suspend
  <2>4. Rest'
    BY <2>1, <2>2, <2>3 DEF Complete, Rest
  <2> QED BY <1>2, <1>8, <2>4, StopComplete DEF Suspend
<1>9. CASE Resume
  <2>1. Rest'
    BY <1>1, <1>9 DEF Resume, Complete, Rest, Inv
  <2> QED BY <1>3, <1>9, <2>1 DEF Resume
<1>10. CASE Leave
  <2>1. delay' \in BOOLEAN
    BY <1>10, StopComplete DEF Leave
  <2>2. UNCHANGED <<ticks, asked, present, dropped, arrived, expected, stops>> /\ leaves' = leaves + 1
    BY <1>10 DEF Leave
  <2>3. belt' \in BOOLEAN /\ active' \in BOOLEAN
    BY <1>10 DEF Leave
  <2>4. Rest'
    BY <2>1, <2>2, <2>3 DEF Complete, Rest
  <2> QED BY <1>2, <1>10, <2>4, StopComplete DEF Leave
<1>11. CASE Enter
  <2>1. Rest'
    BY <1>11 DEF Enter, Complete, Rest
  <2> QED BY <1>3, <1>11, <2>1 DEF Enter
<1>12. CASE DelayOver
  <2>1. Rest'
    BY <1>12 DEF DelayOver, Complete, Rest
  <2> QED BY <1>3, <1>12, <2>1 DEF DelayOver
<1>13. CASE ResumeAll
  <2>1. UNCHANGED <<tokens, delay, ticks, active, belt, asked, present, dropped, arrived, expected, stops, leaves>>
    BY <1>13 DEF ResumeAll
  <2>2. Rest'
    BY <2>1 DEF Complete, Rest
  <2> QED BY <1>2, <1>13, <2>1, <2>2, ResumeAllComplete
<1>14. CASE Tick
  BY <1>1, <1>14, TickComplete
<1>15. ASSUME NEW s \in Timed, Expire(s) PROVE Complete'
  <2>1. UNCHANGED <<tokens, delay, active, belt, asked, present, dropped, arrived, expected, stops, leaves>>
    BY <1>15 DEF Expire
  <2>2. Sorted(timers') /\ ticks' \in Seq(Timers) /\ (~dropped => AlarmsCovered(timers', ticks'))
    BY <1>15, ExpireComplete
  <2> QED BY <1>1, <2>1, <2>2 DEF Complete, Rest, ReportsBalance
<1>16. CASE UNCHANGED vars
  <2>1. Rest'
    BY <1>16 DEF vars, Complete, Rest
  <2> QED BY <1>3, <1>16, <2>1 DEF vars
<1> QED
  BY <1>5, <1>6, <1>7, <1>8, <1>9, <1>10, <1>11, <1>12, <1>13, <1>14, <1>15, <1>16 DEF Next

\* The second invariant holds in every state as well.
THEOREM Completeness == Spec => []Complete
BY CompleteStarts, CompleteStays, PTL DEF Spec

\* Every variable keeps to its type: no place ever holds fewer than no tokens.
THEOREM TypeCorrect == Spec => []TypeOK
<1>1. Complete => TypeOK
  BY DEF Complete, Inv, Matches, SwitchSound, Rest, TypeOK
<1> QED BY <1>1, Completeness, PTL

\* The reports balance with the items the net follows, and every timer that has
\* expired has a packet to come, whatever barrier was faster than the packet.
THEOREM NothingIsLost == Spec => []NothingLost
<1>1. Complete => NothingLost
  BY DEF Complete, AlarmsCovered, Expired, NothingLost, AlarmsPending
<1> QED BY <1>1, Completeness, PTL
-----------------------------------------------------------------------------
(***************************************************************************)
(* The switch.  Three things hold it open only for a while: an item that   *)
(* is to be kept, a timer of SWITCH_CTRL that is still to expire, and the  *)
(* packet of one that has; p says that there is such a packet.             *)
(***************************************************************************)
Unexpired(q) == \E i \in DOMAIN q : q[i] # "expired"

Held(m, w, o, p) ==
    o => \/ p
         \/ m["IN_SWITCH_KEEP"] > 0
         \/ Unexpired(w["SWITCH_CTRL"])
         \/ m["IN_SWITCH"] + m["IN_SWITCH_KEEP"] > m["IN_LB_SWITCH"]

\* A timer that is set has not expired.
LEMMA SetUnexpired ==
    ASSUME NEW q \in Seq(Status)
    PROVE  Unexpired(SetTimer(q))
<1>1. NewTimer \in Status /\ NewTimer # "expired" /\ SetTimer(q) = Append(q, NewTimer)
  BY DEF NewTimer, Status, SetTimer
<1> HIDE DEF NewTimer
<1>2. Len(q) + 1 \in DOMAIN Append(q, NewTimer) /\ Append(q, NewTimer)[Len(q) + 1] = NewTimer
  BY <1>1
<1> QED BY <1>1, <1>2 DEF Unexpired

\* Nor has one that had not before another one was set.
LEMMA StillUnexpired ==
    ASSUME NEW q \in Seq(Status), Unexpired(q)
    PROVE  Unexpired(SetTimer(q))
BY SetUnexpired

\* Any transition but the one that closes the switch leaves it held, and the
\* expired timers of SWITCH_CTRL alone.
LEMMA FireHeld ==
    ASSUME NEW t \in Net, t.on # "CLOSE_SWITCH", NEW m, NEW w, NEW o, NEW p,
           Matches(m, w), CanFire(t, m), Held(m, w, o, p)
    PROVE  Held(TokensAfter(t, m), TimersAfter(t, w), SwitchAfter(t, o), p)
<1> DEFINE n == TokensAfter(t, m)
           x == TimersAfter(t, w)
           c == "SWITCH_CTRL"
<1>1. RowOK(t) BY RowsMatch
<1>2. \A s \in Place : n[s] = m[s] + Delta(t, s) /\ Delta(t, s) \in Int /\ m[s] \in Nat
  BY DEF TokensAfter, Delta, Matches
<1>3. {"IN_LB_SWITCH", "IN_SWITCH", "IN_SWITCH_KEEP"} \subseteq Place /\ c \in Timed
  BY Places
<1>4. w[c] \in Seq(Status) /\ x[c] = IF c \in t.sets THEN SetTimer(w[c]) ELSE w[c]
  BY <1>1, <1>3 DEF TimersAfter, RowOK, Matches
<1>5. ("IN_SWITCH_KEEP" \in t.from \/ Unexpired(w[c])) => Unexpired(x[c])
  BY <1>1, <1>4, SetUnexpired DEF RowOK
<1>6. "IN_SWITCH_KEEP" \notin t.from => Delta(t, "IN_SWITCH_KEEP") >= 0
  BY DEF Delta
<1>7. t.on = "KEEP_NEXT" => n["IN_SWITCH_KEEP"] > 0
  BY <1>1, <1>2, <1>3 DEF RowOK
<1>8. SwitchAfter(t, o) => o \/ t.on = "KEEP_NEXT"
  BY DEF SwitchAfter, SwitchStays
<1>9. Delta(t, "IN_LB_SWITCH") <= Delta(t, "IN_SWITCH") + Delta(t, "IN_SWITCH_KEEP")
  BY <1>1 DEF RowOK
<1> HIDE DEF n, x
<1>10. m["IN_SWITCH_KEEP"] > 0 => n["IN_SWITCH_KEEP"] > 0 \/ Unexpired(x[c])
  BY <1>2, <1>3, <1>5, <1>6
<1>11. m["IN_SWITCH"] + m["IN_SWITCH_KEEP"] > m["IN_LB_SWITCH"]
         => n["IN_SWITCH"] + n["IN_SWITCH_KEEP"] > n["IN_LB_SWITCH"]
  BY <1>2, <1>3, <1>9
<1> QED BY <1>5, <1>7, <1>8, <1>10, <1>11 DEF Held, n, x

\* What Held and the timers of the switch look like after trying a transition,
HeldSame(r, a, p) ==
    /\ Held(r.tokens, r.timers, r.open, p) => Held(a.tokens, a.timers, a.open, p)
    /\ Expired(a.timers["SWITCH_CTRL"]) = Expired(r.timers["SWITCH_CTRL"])

LEMMA TryHeld ==
    ASSUME NEW e, e # "CLOSE_SWITCH", NEW nr, NEW r, NEW p, Matches(r.tokens, r.timers), Sorted(r.timers)
    PROVE  HeldSame(r, Try(e, nr, r), p)
<1> DEFINE c == "SWITCH_CTRL"
<1>1. c \in Timed
  BY Places
<1>2. CASE Try(e, nr, r) = r
  BY <1>2 DEF HeldSame
<1>3. ASSUME NEW t \in Candidates(e, nr, r), Try(e, nr, r) = Fire(t, r)
      PROVE  HeldSame(r, Try(e, nr, r), p)
  <2>1. t \in Net /\ CanFire(t, r.tokens) /\ t.on # "CLOSE_SWITCH"
    BY DEF Candidates
  <2>2. c \notin t.from
    BY <1>1, <2>1, RowsMatch DEF RowOK
  <2>3. Expired(TimersAfter(t, r.timers)[c]) = Expired(r.timers[c])
    BY <1>1, <2>1, <2>2, FireExpired DEF Sorted
  <2>4. Held(r.tokens, r.timers, r.open, p)
          => Held(TokensAfter(t, r.tokens), TimersAfter(t, r.timers), SwitchAfter(t, r.open), p)
    BY <2>1, FireHeld
  <2> QED BY <1>3, <2>3, <2>4 DEF HeldSame, Fire
<1> QED BY <1>2, <1>3, TryFires

\* and after an event.
LEMMA ProcessHeld ==
    ASSUME Inv, Sorted(timers), NEW e, e # "CLOSE_SWITCH", Process(e), NEW p
    PROVE  /\ Held(tokens, timers, open, p) => Held(tokens', timers', open', p)
           /\ Expired(timers'["SWITCH_CTRL"]) = Expired(timers["SWITCH_CTRL"])
<1> DEFINE r == Try(e, 2, Before)
           a == Try(e, 1, r)
<1>1. /\ Good(Before, MustBeQuiet) /\ Before.timers = timers /\ Before.tokens = tokens
      /\ Before.open = open
  BY DEF Inv, Good, Before
<1>2. Good(r, MustBeQuiet)
  BY <1>1, TryKeeps DEF MustBeQuiet
<1>3. Sorted(r.timers)
  BY <1>1, TryExpired DEF Good, Sorted
<1>4. HeldSame(Before, r, p)
  BY <1>1, TryHeld DEF Good
<1> HIDE DEF r
<1>5. HeldSame(r, a, p)
  BY <1>2, <1>3, TryHeld DEF Good
<1>6. tokens' = a.tokens /\ timers' = a.timers /\ open' = a.open
  BY DEF Process, After, r
<1> HIDE DEF a
<1> QED BY <1>1, <1>4, <1>5, <1>6 DEF HeldSame

\* The third invariant: the switch is held, only while this manager is there,
\* and every packet that is to close it finds its timer.
Packets(tk) == Count(tk, "CLOSE_SWITCH")

Closes == /\ open => active
          /\ Held(tokens, timers, open, Packets(ticks) > 0)
          /\ Packets(ticks) <= Expired(timers["SWITCH_CTRL"])

\* Packets and expired timers of the switch can be counted.
LEMMA SwitchTyped ==
    ASSUME Complete
    PROVE  /\ Packets(ticks) \in Nat /\ Expired(timers["SWITCH_CTRL"]) \in Nat
           /\ "SWITCH_CTRL" \in Timed /\ timers["SWITCH_CTRL"] \in Seq(Status)
           /\ Alarm["SWITCH_CTRL"] = "CLOSE_SWITCH"
<1>1. "SWITCH_CTRL" \in Timed /\ Alarm["SWITCH_CTRL"] = "CLOSE_SWITCH"
  BY Places DEF Alarm
<1>2. timers["SWITCH_CTRL"] \in Seq(Status)
  BY <1>1 DEF Complete, Inv, Matches
<1>3. ticks \in Seq(Timers)
  BY DEF Complete, Rest
<1> QED BY <1>1, <1>2, <1>3, ExpiredTyped, CountFinite DEF Packets

\* An event that is not a packet from the queue.
LEMMA ProcessCloses ==
    ASSUME Complete, Closes, active, NEW e, e # "CLOSE_SWITCH", Process(e), UNCHANGED <<ticks, active>>
    PROVE  Closes'
<1>1. /\ Held(tokens, timers, open, Packets(ticks) > 0) => Held(tokens', timers', open', Packets(ticks) > 0)
      /\ Expired(timers'["SWITCH_CTRL"]) = Expired(timers["SWITCH_CTRL"])
  BY ProcessHeld DEF Complete
<1> QED BY <1>1 DEF Closes

\* A packet from the queue, which may be the one that closes the switch.
LEMMA TickCloses ==
    ASSUME Complete, Closes, Tick
    PROVE  Closes'
<1> DEFINE c == "SWITCH_CTRL"
<1>1. ticks # <<>> /\ ticks' = Tail(ticks) /\ UNCHANGED active
  BY DEF Tick, mode
<1>2. ticks \in Seq(Timers) /\ Head(ticks) = ticks[1] /\ ticks' \in Seq(Timers)
  BY <1>1 DEF Complete, Rest
<1>3. Packets(ticks) = Packets(ticks') + (IF ticks[1] = "CLOSE_SWITCH" THEN 1 ELSE 0)
  BY <1>1, <1>2, CountTail DEF Packets
<1>4. Packets(ticks) \in Nat /\ Packets(ticks') \in Nat /\ Expired(timers[c]) \in Nat
  BY <1>2, SwitchTyped, CountFinite DEF Packets
<1>5. CASE ~active
  <2>1. UNCHANGED <<tokens, timers, open>> /\ open = FALSE
    BY <1>5 DEF Tick, Closes, Complete, Inv, SwitchSound
  <2>2. Packets(ticks') <= Expired(timers[c])
    BY <1>3, <1>4 DEF Closes
  <2> QED BY <2>1, <2>2 DEF Closes, Held
<1>6. CASE active /\ ticks[1] # "CLOSE_SWITCH"
  <2>1. Process(ticks[1])
    BY <1>2, <1>6 DEF Tick
  <2>2. Packets(ticks') = Packets(ticks)
    BY <1>3, <1>4, <1>6
  <2>3. /\ Held(tokens, timers, open, Packets(ticks) > 0) => Held(tokens', timers', open', Packets(ticks) > 0)
        /\ Expired(timers'[c]) = Expired(timers[c])
    BY <1>6, <2>1, ProcessHeld DEF Complete
  <2> QED BY <1>1, <1>6, <2>2, <2>3 DEF Closes
<1>7. CASE active /\ ticks[1] = "CLOSE_SWITCH"
  <2>1. Process(Alarm[c])
    BY <1>2, <1>7, SwitchTyped DEF Tick
  <2>2. Expired(timers[c]) > 0
    BY <1>3, <1>4, <1>7 DEF Closes
  <2>3. Expired(timers'[c]) = Expired(timers[c]) - 1 /\ open' = FALSE
    BY <2>1, <2>2, SwitchTyped, PacketExpired DEF Complete
  <2>4. Packets(ticks') <= Expired(timers'[c])
    BY <1>3, <1>4, <1>7, <2>3 DEF Closes
  <2> QED BY <2>3, <2>4 DEF Closes, Held
<1> QED BY <1>5, <1>6, <1>7

\* Pausing and going on let no timer expire and bring none back.
LEMMA ClockCloses ==
    ASSUME Complete, Closes, UNCHANGED <<tokens, ticks>>,
           (open' = open /\ active' = active) \/ open' = FALSE,
           \/ timers'["SWITCH_CTRL"] = timers["SWITCH_CTRL"]
           \/ timers'["SWITCH_CTRL"] = Halt(timers["SWITCH_CTRL"])
           \/ timers'["SWITCH_CTRL"] = Continue(timers["SWITCH_CTRL"])
    PROVE  Closes'
<1> DEFINE q == timers["SWITCH_CTRL"]
           x == timers'["SWITCH_CTRL"]
<1>1. q \in Seq(Status) /\ ExpiredFirst(q)
  BY SwitchTyped DEF Complete, Sorted
<1>2. Expired(x) = Expired(q)
  BY <1>1, HaltedStay
<1>3. Unexpired(q) => Unexpired(x)
  BY DEF Unexpired, Halt, Continue
<1> QED BY <1>2, <1>3 DEF Closes, Held

\* A timer of the switch that expires leaves its packet.
LEMMA ExpireCloses ==
    ASSUME Complete, Closes, NEW s \in Timed, Expire(s)
    PROVE  Closes'
<1> DEFINE c == "SWITCH_CTRL"
<1> PICK i \in Oldest(timers[s]) : timers' = [timers EXCEPT ![s][i] = "expired"]
  BY DEF Expire
<1>1. /\ timers \in [Timed -> Seq(Status)] /\ ticks \in Seq(Timers)
      /\ ticks' = Append(ticks, Alarm[s]) /\ UNCHANGED <<tokens, open, active>>
  BY DEF Complete, Inv, Matches, Rest, Expire, mode
<1>2. Packets(ticks') = Packets(ticks) + (IF Alarm[s] = "CLOSE_SWITCH" THEN 1 ELSE 0)
  BY <1>1, AlarmsDiffer, CountAppend DEF Packets
<1>3. Packets(ticks) \in Nat /\ Expired(timers[c]) \in Nat /\ c \in Timed /\ Alarm[c] = "CLOSE_SWITCH"
  BY SwitchTyped
<1>4. CASE s = c
  <2>1. Expired([timers[s] EXCEPT ![i] = "expired"]) = Expired(timers[s]) + 1
    BY <1>1, OldestExpires DEF Complete, Sorted
  <2>2. timers'[c] = [timers[s] EXCEPT ![i] = "expired"]
    BY <1>1, <1>4
  <2>3. Packets(ticks') = Packets(ticks) + 1
    BY <1>2, <1>3, <1>4
  <2>4. Packets(ticks') > 0 /\ Packets(ticks') <= Expired(timers'[c])
    BY <1>3, <1>4, <2>1, <2>2, <2>3 DEF Closes
  <2> QED BY <1>1, <2>4 DEF Closes, Held
<1>5. CASE s # c
  <2>1. timers'[c] = timers[c]
    BY <1>1, <1>5
  <2>2. Packets(ticks') = Packets(ticks)
    BY <1>2, <1>3, <1>5, AlarmsDiffer
  <2> QED BY <1>1, <2>1, <2>2 DEF Closes, Held
<1> QED BY <1>4, <1>5

\* In the beginning the switch is closed.
LEMMA ClosesStarts == ASSUME Init PROVE Closes
<1>1. Complete
  BY CompleteStarts
<1>2. ticks = <<>> /\ timers["SWITCH_CTRL"] = <<>> /\ open = FALSE
  BY <1>1, SwitchTyped DEF Init
<1>3. At(<<>>, "CLOSE_SWITCH") = {} /\ At(<<>>, "expired") = {}
  BY DEF At
<1>4. Packets(ticks) = 0 /\ Expired(timers["SWITCH_CTRL"]) = 0
  BY <1>2, <1>3, FS_EmptySet DEF Packets, Expired, Count, At
<1> QED BY <1>2, <1>4 DEF Closes, Held

\* Every step keeps the third invariant.
LEMMA ClosesStays == ASSUME Complete, Closes, [Next]_vars PROVE Closes'
<1> USE DEF mode, bounds, clock
<1>1. ASSUME UNCHANGED <<tokens, timers, ticks, open>>, active' = active \/ active'
      PROVE  Closes'
  BY <1>1 DEF Closes
<1>2. ASSUME NEW e \in HalEvent, Sense(e) PROVE Closes'
  <2>1. e # "CLOSE_SWITCH"
    BY DEF HalEvent
  <2> QED BY <1>2, <2>1, ProcessCloses DEF Sense
<1>3. ASSUME NEW keep \in BOOLEAN, Decide(keep) PROVE Closes'
  BY <1>1, <1>3, ProcessCloses DEF Decide
<1>4. CASE ExpectNew
  BY <1>4, ProcessCloses DEF ExpectNew
<1>5. CASE Suspend \/ Leave
  <2>1. timers'["SWITCH_CTRL"] = Halt(timers["SWITCH_CTRL"])
    BY <1>5, SwitchTyped DEF Suspend, Leave, StopClock
  <2> QED BY <1>5, <2>1, ClockCloses DEF Suspend, Leave
<1>6. CASE Resume \/ Enter \/ DelayOver \/ UNCHANGED vars
  BY <1>1, <1>6 DEF Resume, Enter, DelayOver, vars
<1>7. CASE ResumeAll
  <2>1. \/ timers'["SWITCH_CTRL"] = timers["SWITCH_CTRL"]
        \/ timers'["SWITCH_CTRL"] = Continue(timers["SWITCH_CTRL"])
    BY <1>7, SwitchTyped DEF ResumeAll
  <2> QED BY <1>7, <2>1, ClockCloses DEF ResumeAll
<1>8. CASE Tick
  BY <1>8, TickCloses
<1>9. ASSUME NEW s \in Timed, Expire(s) PROVE Closes'
  BY <1>9, ExpireCloses
<1> QED BY <1>2, <1>3, <1>4, <1>5, <1>6, <1>7, <1>8, <1>9 DEF Next

\* An open switch is closed again: by the timer of the item that it was opened
\* for, once that has left the barrier, unless an item was reported stuck there.
THEOREM SwitchAlwaysClosed == Spec => []SwitchIsClosedAgain
<1>1. Complete /\ Closes => SwitchIsClosedAgain
  <2> SUFFICES ASSUME Complete, Closes, open
               PROVE  /\ active
                      /\ \/ tokens["IN_SWITCH_KEEP"] > 0 /\ tokens["IN_LB_SWITCH"] > 0
                         \/ Closing
                         \/ StuckInSwitch
    BY Zenon DEF SwitchIsClosedAgain
  <2>1. active /\ (tokens["IN_SWITCH_KEEP"] > 0 \/ Closing \/ StuckInSwitch)
    BY DEF Closes, Held, Packets, Unexpired, Closing, StuckInSwitch
  <2>2. \A s \in {"IN_SWITCH", "IN_SWITCH_KEEP", "IN_LB_SWITCH"} : tokens[s] \in Nat
    BY Places DEF Complete, Inv, Matches
  <2>3. tokens["IN_SWITCH_KEEP"] > 0 /\ ~StuckInSwitch => tokens["IN_LB_SWITCH"] > 0
    BY <2>2 DEF StuckInSwitch
  <2> QED BY <2>1, <2>3
<1> QED BY <1>1, Completeness, CompleteStarts, ClosesStarts, ClosesStays, PTL DEF Spec
=============================================================================
