---------------------------- MODULE RunNetProofs ----------------------------
(***************************************************************************)
(* What every operation of the tracker keeps, for every marking and every  *)
(* Depth.  A transition changes the marking by a fixed vector, so a linear *)
(* relation on markings is kept by all firings as soon as it holds of the  *)
(* vectors: the lemmas check the vectors once, FireSound adds them to a    *)
(* marking, and the rest follows the calls of hsm::Run::handle.            *)
(***************************************************************************)
EXTENDS RunNet, TLAPS, WellFoundedInduction

\* A set of natural numbers that is not empty has a least element.
LEMMA Least ==
    ASSUME NEW S, S \subseteq Nat, S # {}
    PROVE  \E i \in S : \A j \in S : i <= j
<1> DEFINE R == OpToRel(<, Nat)
<1>1. IsWellFoundedOn(R, Nat)
  BY NatLessThanWellFounded
<1>2. \A i, j \in Nat : i < j => <<i, j>> \in R
  BY DEF OpToRel
<1> HIDE DEF R
<1>3. PICK i \in S : \A j \in S : <<j, i>> \notin R
  BY <1>1, WFMin
<1>4. ASSUME NEW j \in S PROVE i <= j
  <2>1. i \in Nat /\ j \in Nat /\ ~(j < i)
    BY <1>2, <1>3
  <2> QED BY <2>1
<1> QED BY <1>4

Delta(t) == [p \in Place |-> Count(p \in t.give) - Count(p \in t.take)]

KeepsLoad(d) == d["COUNT"] = d["M1_START"] + d["M1_HS"] + d["M1_SWITCH"] + d["M1_PREEND"]
                               + d["M1_END"] + d["PRESTART"]

SumM2(d) == d["M2RDY"] + d["PRESTART"]
              + (d["M2_START"] + d["M2_HS"] + d["M2_SWITCH"] + d["M2_PREEND"] + d["M2_END"])

SumModes(d) == d["RUN_RDY"] + d["RUNNING"] + d["RUN_PAUSED"]

(***************************************************************************)
(* The item buffer moves as the marking does, except that an item promised *)
(* to module 2 stays in the last segment of module 1.                      *)
(***************************************************************************)
MovesItems(t) ==
    /\ \A s \in (M1Segment \cup M2Segment) \ {"M1_END"} :
          (s \in t.dec <=> s \in t.take) /\ (s \in t.inc <=> s \in t.give)
    /\ Count("M1_END" \in t.inc) - Count("M1_END" \in t.dec)
         = Delta(t)["M1_END"] + Delta(t)["PRESTART"]
    /\ "M1_END" \in t.dec => "M1_END" \in t.take \/ "PRESTART" \in t.take
    /\ "DONE" \notin t.dec

Balanced(t) == /\ KeepsLoad(Delta(t))
               /\ SumM2(Delta(t)) = 0
               /\ SumModes(Delta(t)) = 0
               /\ MovesItems(t)

Differ(m, n, d) ==
    \A p \in Place : m[p] \in Int /\ n[p] \in Int /\ d[p] \in Int /\ m[p] = n[p] + d[p]

-----------------------------------------------------------------------------
\* The names of the places, so that no later step has to expand Place.
LEMMA PlaceNames ==
    /\ \A p \in {"COUNT", "PRESTART", "M2RDY", "RUN_RDY", "RUNNING", "RUN_PAUSED"} : p \in Place
    /\ \A s \in M1Segment \cup M2Segment : s \in Place
BY DEF Place, M1Segment, M2Segment

\* The names of the segments of the two modules.
LEMMA SegmentNames ==
    /\ "M1_START" \in M1Segment /\ "M1_HS" \in M1Segment /\ "M1_SWITCH" \in M1Segment
    /\ "M1_PREEND" \in M1Segment /\ "M1_END" \in M1Segment
    /\ "M2_START" \in M2Segment /\ "M2_HS" \in M2Segment /\ "M2_SWITCH" \in M2Segment
    /\ "M2_PREEND" \in M2Segment /\ "M2_END" \in M2Segment
BY DEF M1Segment, M2Segment

\* Passing a light barrier moves one item and keeps every sum.
LEMMA MovesBalanced == \A t \in Moves : Balanced(t)
BY DEF Moves, Move, Transition, Balanced, KeepsLoad,
       SumM2, SumModes, MovesItems, Delta, Count, Place, M1Segment, M2Segment

\* An item lost on module 1 leaves COUNT with its segment.
LEMMA LossesOnM1Balanced == \A t \in LossesOnM1 : Balanced(t)
BY DEF LossesOnM1, LossOnM1, Transition, Balanced, KeepsLoad,
       SumM2, SumModes, MovesItems, Delta, Count, Place, M1Segment, M2Segment

\* An item lost on module 2 makes module 2 ready again.
LEMMA LossesOnM2Balanced == \A t \in LossesOnM2 : Balanced(t)
BY DEF LossesOnM2, LossOnM2, Transition, Balanced, KeepsLoad,
       SumM2, SumModes, MovesItems, Delta, Count, Place, M1Segment, M2Segment

\* So do the hand-over, the ends of the line and the second transitions.
LEMMA OthersBalanced == \A t \in {NewOnM1, NewOnM2, LostInHandOver, LeaveM2} \cup Later : Balanced(t)
BY DEF NewOnM1, NewOnM2, LostInHandOver, LeaveM2, Later, UnexpectedOnM2,
       LossOnM1, LossOnM2, Transition, Balanced, KeepsLoad,
       SumM2, SumModes, MovesItems, Delta, Count, Place, M1Segment, M2Segment

\* And the NIL transitions, which move no item.
LEMMA AutomaticBalanced == \A t \in Automatic : Balanced(t)
BY DEF Automatic, StartHandOver, StartM1, StopEmptyM1, PauseM1, UnpauseM1, Transition, Balanced, KeepsLoad,
       SumM2, SumModes, MovesItems, Delta, Count, Place, M1Segment, M2Segment

\* Every transition of the net is balanced.
LEMMA AllBalanced == \A t \in Earlier \cup Later \cup Automatic : Balanced(t)
BY MovesBalanced, LossesOnM1Balanced, LossesOnM2Balanced, OthersBalanced, AutomaticBalanced
   DEF Earlier

-----------------------------------------------------------------------------
\* A marking that satisfies the load equation satisfies it after a change
\* that does.
LEMMA LoadStep ==
    ASSUME NEW m, NEW n, NEW d, Differ(m, n, d), KeepsLoad(n), KeepsLoad(d)
    PROVE  KeepsLoad(m)
<1>1. /\ "COUNT" \in Place /\ "PRESTART" \in Place /\ "M1_START" \in Place /\ "M1_HS" \in Place
      /\ "M1_SWITCH" \in Place /\ "M1_PREEND" \in Place /\ "M1_END" \in Place
  BY PlaceNames, SegmentNames
<1> QED BY <1>1 DEF Differ, KeepsLoad

\* The sum of the places of module 2 is linear.
LEMMA M2Step ==
    ASSUME NEW m, NEW n, NEW d, Differ(m, n, d)
    PROVE  SumM2(m) = SumM2(n) + SumM2(d)
<1>1. /\ "M2RDY" \in Place /\ "PRESTART" \in Place /\ "M2_START" \in Place /\ "M2_HS" \in Place
      /\ "M2_SWITCH" \in Place /\ "M2_PREEND" \in Place /\ "M2_END" \in Place
  BY PlaceNames, SegmentNames
<1> QED BY <1>1 DEF Differ, SumM2

\* So is the sum of the running modes.
LEMMA ModeStep ==
    ASSUME NEW m, NEW n, NEW d, Differ(m, n, d)
    PROVE  SumModes(m) = SumModes(n) + SumModes(d)
<1>1. "RUN_RDY" \in Place /\ "RUNNING" \in Place /\ "RUN_PAUSED" \in Place
  BY PlaceNames
<1> QED BY <1>1 DEF Differ, SumModes

-----------------------------------------------------------------------------
\* PetriNet::fire keeps all of Sound, one step for each of its parts.
LEMMA FireSound ==
    ASSUME NEW n, Sound(n), NEW t, Balanced(t), CanFire(n, t)
    PROVE  Sound(Fire(n, t))
<1> DEFINE m == Fire(n, t)
           d == Delta(t)
<1>1. m.tok = Marked(n, t) /\ m.size = Sizes(n, t) BY DEF Fire
<1>2. \A p \in Place : n.tok[p] \in Nat /\ (p \in t.take => n.tok[p] >= 1)
  BY DEF Sound, Typed, CanFire
<1>3. \A p \in Place : m.tok[p] = n.tok[p] - Count(p \in t.take) + Count(p \in t.give)
  BY <1>1 DEF Marked
<1>4. m.tok \in [Place -> Nat]
  BY <1>1, <1>2, <1>3 DEF Marked, Count
<1>5. Differ(m.tok, n.tok, d)
  <2> SUFFICES ASSUME NEW p \in Place
               PROVE  /\ m.tok[p] \in Int /\ n.tok[p] \in Int /\ d[p] \in Int
                      /\ m.tok[p] = n.tok[p] + d[p]
    BY DEF Differ
  <2>1. d[p] = Count(p \in t.give) - Count(p \in t.take) BY DEF Delta
  <2>2. Count(p \in t.give) \in Int /\ Count(p \in t.take) \in Int BY DEF Count
  <2>3. m.tok[p] \in Int BY <1>4
  <2>4. n.tok[p] \in Int BY <1>2
  <2>5. m.tok[p] = n.tok[p] - Count(p \in t.take) + Count(p \in t.give) BY <1>3
  <2> HIDE DEF m, d
  <2> QED BY <2>1, <2>2, <2>3, <2>4, <2>5
<1> HIDE DEF m, d
<1>6. LoadCounted(m)
  <2>1. KeepsLoad(n.tok) BY DEF Sound, LoadCounted, OnM1, KeepsLoad
  <2>2. KeepsLoad(d) BY DEF d, Balanced
  <2>3. KeepsLoad(m.tok) BY <1>5, <2>1, <2>2, LoadStep
  <2> QED BY <2>3 DEF LoadCounted, OnM1, KeepsLoad
<1>7. OneOnM2(m)
  <2>1. SumM2(n.tok) = 1 BY DEF Sound, OneOnM2, OnM2, SumM2
  <2>2. SumM2(d) = 0 BY DEF d, Balanced
  <2>3. SumM2(m.tok) = 1 BY <1>5, <2>1, <2>2, M2Step
  <2> QED BY <2>3 DEF OneOnM2, OnM2, SumM2
<1>8. OneMode(m)
  <2>1. SumModes(d) = 0 BY DEF d, Balanced
  <2>2. SumModes(n.tok) = 1 BY DEF Sound, OneMode, SumModes
  <2>3. SumModes(m.tok) = 1 BY <1>5, <2>1, <2>2, ModeStep
  <2> QED BY <2>3 DEF OneMode, SumModes
<1>9. \A s \in Segment : /\ n.size[s] \in Nat
                         /\ Count(s \in t.dec) \in {0, 1} /\ Count(s \in t.inc) \in {0, 1}
  BY DEF Sound, Typed, Count
<1>10. \A s \in Segment \ {"DONE"} :
          m.size[s] = n.size[s] - Count(s \in t.dec) + Count(s \in t.inc)
  BY <1>1, <1>9 DEF Sizes, Segment, M1Segment, M2Segment
<1>11. SizesMatch(m)
  <2>1. ASSUME NEW s \in (M1Segment \cup M2Segment) \ {"M1_END"}
        PROVE  m.size[s] = m.tok[s]
    <3>1. s \in Place /\ s \in Segment \ {"DONE"}
      BY DEF Place, Segment, M1Segment, M2Segment
    <3>2. Count(s \in t.dec) = Count(s \in t.take) /\ Count(s \in t.inc) = Count(s \in t.give)
      BY DEF Balanced, MovesItems, Count
    <3>3. n.size[s] = n.tok[s] BY DEF Sound, SizesMatch
    <3> QED BY <3>1, <3>2, <3>3, <1>3, <1>10
  <2>2. m.size["M1_END"] = m.tok["M1_END"] + m.tok["PRESTART"]
    <3>1. "M1_END" \in Place /\ "PRESTART" \in Place /\ "M1_END" \in Segment \ {"DONE"}
      BY PlaceNames, SegmentNames DEF Segment, M1Segment
    <3>2. m.size["M1_END"]
            = n.size["M1_END"] - Count("M1_END" \in t.dec) + Count("M1_END" \in t.inc)
      BY <3>1, <1>10
    <3>3. n.size["M1_END"] = n.tok["M1_END"] + n.tok["PRESTART"]
      BY DEF Sound, SizesMatch
    <3>4. Count("M1_END" \in t.inc) - Count("M1_END" \in t.dec) = d["M1_END"] + d["PRESTART"]
      BY DEF d, Balanced, MovesItems
    <3>5. /\ Count("M1_END" \in t.inc) \in Int /\ Count("M1_END" \in t.dec) \in Int
          /\ n.size["M1_END"] \in Int
      BY <1>9, <3>1 DEF Count
    <3>6. /\ m.tok["M1_END"] \in Int /\ n.tok["M1_END"] \in Int /\ d["M1_END"] \in Int
          /\ m.tok["M1_END"] = n.tok["M1_END"] + d["M1_END"]
          /\ m.tok["PRESTART"] \in Int /\ n.tok["PRESTART"] \in Int /\ d["PRESTART"] \in Int
          /\ m.tok["PRESTART"] = n.tok["PRESTART"] + d["PRESTART"]
      BY <3>1, <1>5 DEF Differ
    <3> QED BY <3>2, <3>3, <3>4, <3>5, <3>6
  <2> QED BY <2>1, <2>2 DEF SizesMatch
<1>12. m.size \in [Segment -> Nat] /\ m.size["DONE"] <= Depth
  <2>1. ASSUME NEW s \in Segment, s \in t.dec PROVE n.size[s] >= 1
    <3>1. CASE s = "M1_END"
      <4>1. n.size["M1_END"] = n.tok["M1_END"] + n.tok["PRESTART"] BY DEF Sound, SizesMatch
      <4>2. "M1_END" \in Place /\ "PRESTART" \in Place BY PlaceNames, SegmentNames
      <4>3. "M1_END" \in t.take \/ "PRESTART" \in t.take BY <3>1, <2>1 DEF Balanced, MovesItems
      <4> QED BY <3>1, <4>1, <4>2, <4>3, <1>2
    <3>2. CASE s # "M1_END"
      <4>1. s \in (M1Segment \cup M2Segment) \ {"M1_END"} /\ s \in Place
        BY <2>1, <3>2, PlaceNames DEF Segment, Balanced, MovesItems
      <4>2. s \in t.take BY <4>1, <2>1 DEF Balanced, MovesItems
      <4>3. n.size[s] = n.tok[s] BY <4>1 DEF Sound, SizesMatch
      <4> QED BY <4>1, <4>2, <4>3, <1>2
    <3> QED BY <3>1, <3>2
  <2>2. \A s \in Segment : n.size[s] - Count(s \in t.dec) + Count(s \in t.inc) \in Nat
    BY <2>1, <1>9 DEF Count
  <2> QED BY <1>1, <2>2, DepthAssumption DEF Sizes, Segment
<1>13. m.motor \in [{"M", "S"} -> {"RESUME", "SUSPEND"}] /\ m.expecting \in Nat
  BY DEF m, Fire, Sound, Typed, Count
<1>14. m.motor["M"] = "RESUME" <=> m.tok["RUNNING"] = 1
  <2>1. "RUNNING" \in Place /\ "RUN_RDY" \in Place /\ "RUN_PAUSED" \in Place BY PlaceNames
  <2>2. m.tok["RUNNING"] \in {0, 1}
    BY <2>1, <1>4, <1>8 DEF OneMode
  <2>3. CASE Changes(t, "RUNNING")
    <3>1. m.motor["M"] = IF m.tok["RUNNING"] > 0 THEN "RESUME" ELSE "SUSPEND"
      BY <2>3 DEF m, Fire
    <3> QED BY <3>1, <2>2
  <2>4. CASE ~Changes(t, "RUNNING")
    <3>1. m.motor["M"] = n.motor["M"] BY <2>4 DEF m, Fire
    <3>2. Count("RUNNING" \in t.take) = Count("RUNNING" \in t.give)
      BY <2>4 DEF Changes, Count
    <3>3. m.tok["RUNNING"] = n.tok["RUNNING"] BY <3>2, <2>1, <1>2, <1>3 DEF Count
    <3> QED BY <3>1, <3>3 DEF Sound, MotorsMatch
  <2> QED BY <2>3, <2>4
<1>15. m.motor["S"] = "RESUME" <=> M2Busy(m.tok)
  <2>1. CASE Changes(t, "M2_END") \/ Changes(t, "M2RDY")
    BY <2>1 DEF m, Fire
  <2>2. CASE ~Changes(t, "M2_END") /\ ~Changes(t, "M2RDY")
    <3>1. m.motor["S"] = n.motor["S"] BY <2>2 DEF m, Fire
    <3>2. "M2_END" \in Place /\ "M2RDY" \in Place BY PlaceNames, SegmentNames
    <3>3. /\ Count("M2_END" \in t.take) = Count("M2_END" \in t.give)
          /\ Count("M2RDY" \in t.take) = Count("M2RDY" \in t.give)
      BY <2>2 DEF Changes, Count
    <3>4. m.tok["M2_END"] = n.tok["M2_END"] /\ m.tok["M2RDY"] = n.tok["M2RDY"]
      BY <3>2, <3>3, <1>2, <1>3 DEF Count
    <3> QED BY <3>1, <3>4 DEF Sound, MotorsMatch, M2Busy
  <2> QED BY <2>1, <2>2
<1> QED BY <1>4, <1>6, <1>7, <1>8, <1>11, <1>12, <1>13, <1>14, <1>15
        DEF Sound, Typed, MotorsMatch, m

\* The other operations touch only the bookkeeping around the net.
LEMMA OnlyBookkeeping ==
    ASSUME NEW n, Sound(n), NEW m,
           m.tok = n.tok, m.size = n.size, m.motor = n.motor, m.expecting \in Nat
    PROVE  Sound(m)
BY DEF Sound, Typed, LoadCounted, OneOnM2, OneMode, SizesMatch, MotorsMatch, OnM1, OnM2

\* One pass of PetriNet::process over the transitions of a trigger.
LEMMA FireOneOfSound ==
    ASSUME NEW n, Sound(n), NEW T, \A t \in T : Balanced(t)
    PROVE  Sound(FireOneOf(n, T))
<1>1. CASE \E t \in T : CanFire(n, t)
  <2> DEFINE u == CHOOSE t \in T : CanFire(n, t)
  <2>1. u \in T /\ CanFire(n, u) BY <1>1
  <2>2. FireOneOf(n, T) = Fire(n, u) BY <1>1 DEF FireOneOf
  <2> HIDE DEF u
  <2> QED BY <2>1, <2>2, FireSound
<1>2. CASE ~ \E t \in T : CanFire(n, t)
  BY <1>2 DEF FireOneOf
<1> QED BY <1>1, <1>2

\* One pass over the NIL transitions.
LEMMA RoundSound == ASSUME NEW n, Sound(n) PROVE Sound(Round(n))
<1>1. /\ Balanced(StartHandOver) /\ Balanced(StartM1) /\ Balanced(StopEmptyM1)
      /\ Balanced(PauseM1) /\ Balanced(UnpauseM1)
  BY AutomaticBalanced DEF Automatic
<1> QED BY <1>1, FireSound DEF Round

\* PetriNet::process as a whole.
LEMMA ProcessSound == ASSUME NEW n, Sound(n), NEW e PROVE Sound(Process(n, e))
<1> DEFINE n1 == FireOneOf(n, Ready(n, Later, e))
           n2 == FireOneOf(n1, Ready(n, Earlier, e))
<1>1. /\ \A t \in Ready(n, Later, e) : Balanced(t)
      /\ \A t \in Ready(n, Earlier, e) : Balanced(t)
  BY AllBalanced DEF Ready
<1>2. Sound(n1) BY <1>1, FireOneOfSound
<1> HIDE DEF n1
<1>3. Sound(n2) BY <1>1, <1>2, FireOneOfSound
<1> HIDE DEF n2
<1>4. Sound(Settle(n2)) BY <1>3, RoundSound DEF Settle
<1> QED BY <1>4 DEF Process, Triggered, n2, n1

\* Run::handle keeps the tracker sound, whatever the packet and the verdict.
LEMMA HandleSound ==
    ASSUME NEW n, Sound(n), NEW e, NEW verdict
    PROVE  Sound(Handle(n, e, verdict))
<1> DEFINE k == [n EXCEPT !.out = <<>>]
           m == Process(k, e)
<1>1. Sound(k) 
  <2>1. k.tok = n.tok /\ k.size = n.size /\ k.motor = n.motor /\ k.expecting = n.expecting
    OBVIOUS
  <2>2. n.expecting \in Nat BY DEF Sound, Typed
  <2> HIDE DEF k
  <2> QED BY <2>1, <2>2, OnlyBookkeeping
<1> HIDE DEF k
<1>2. Sound(m) BY <1>1, ProcessSound
<1>3. m.expecting \in Nat BY <1>2 DEF Sound, Typed
<1> HIDE DEF m
<1>4. ASSUME NEW x, x.tok = m.tok, x.size = m.size, x.motor = m.motor, x.expecting = m.expecting
      PROVE  Sound(Flush(x))
  <2>1. /\ Flush(x).tok = x.tok /\ Flush(x).size = x.size /\ Flush(x).motor = x.motor
        /\ Flush(x).expecting = x.expecting
    BY DEF Flush
  <2> QED BY <2>1, <1>2, <1>3, <1>4, OnlyBookkeeping
<1>5. CASE e[2] = "ANALYSE" /\ m.size[SwitchOf(e[1])] = 0
  BY <1>5, <1>2 DEF Handle, k, m
<1>6. CASE e[2] = "ANALYSE" /\ m.size[SwitchOf(e[1])] # 0
  <2> DEFINE x == [m EXCEPT !.out = m.out \o verdict]
  <2>1. x.tok = m.tok /\ x.size = m.size /\ x.motor = m.motor /\ x.expecting = m.expecting
    OBVIOUS
  <2>2. Handle(n, e, verdict) = Flush(x) BY <1>6 DEF Handle, k, m
  <2> QED BY <2>1, <2>2, <1>4
<1>7. CASE e[2] = "ITEM_APPEARED"
  <2> DEFINE x == [m EXCEPT !.buf = Append(m.buf, Report(e[1], "ITEM_APPEARED", e[3]))]
  <2>1. x.tok = m.tok /\ x.size = m.size /\ x.motor = m.motor /\ x.expecting = m.expecting
    OBVIOUS
  <2>2. Handle(n, e, verdict) = Flush(x) BY <1>7 DEF Handle, k, m
  <2> QED BY <2>1, <2>2, <1>4
<1>8. CASE e[2] \notin {"ANALYSE", "ITEM_APPEARED"}
  <2>1. Handle(n, e, verdict) = Flush(m) BY <1>8 DEF Handle, k, m
  <2> QED BY <2>1, <1>4
<1> QED BY <1>5, <1>6, <1>7, <1>8

\* So does entering the run state again.
LEMMA ResendSound == ASSUME NEW n, Sound(n) PROVE Sound(Resend(n))
<1>1. /\ Resend(n).tok = n.tok /\ Resend(n).size = n.size
      /\ Resend(n).motor = n.motor /\ Resend(n).expecting = n.expecting
  BY DEF Resend
<1>2. n.expecting \in Nat BY DEF Sound, Typed
<1> QED BY <1>1, <1>2, OnlyBookkeeping

\* The tracker starts sound.
LEMMA FreshSound == Sound(Fresh)
BY DepthAssumption
   DEF Fresh, Sound, Typed, LoadCounted, OneOnM2, OneMode, SizesMatch, MotorsMatch, OnM1, OnM2,
       Count, Place, Segment, M1Segment, M2Segment, M2Busy

-----------------------------------------------------------------------------
\* What an ANALYSE triggers buffers no error, and no NIL transition does.
LEMMA QuietTransitions ==
    /\ \A t \in Automatic : t.report = <<>>
    /\ \A t \in Earlier \cup Later : t.on[2] = "ANALYSE" => t.report = <<>>
<1>1. \A t \in Automatic : t.report = <<>>
  BY DEF Automatic, StartHandOver, StartM1, StopEmptyM1, PauseM1, UnpauseM1, Transition
<1>2. \A t \in Moves \cup {NewOnM1, LeaveM2, NewOnM2} : t.report = <<>>
  BY DEF Moves, Move, NewOnM1, NewOnM2, LeaveM2, Transition
<1>3. \A t \in LossesOnM1 \cup LossesOnM2 \cup Later \cup {LostInHandOver} : t.on[2] # "ANALYSE"
  BY DEF LossesOnM1, LossOnM1, LossesOnM2, LossOnM2, Later, UnexpectedOnM2, LostInHandOver,
         Transition
<1> QED BY <1>1, <1>2, <1>3 DEF Earlier

\* Firing a transition without a report leaves an empty error buffer empty.
LEMMA FireQuiet ==
    ASSUME NEW n, n.buf = <<>>, NEW t, t.report = <<>>
    PROVE  Fire(n, t).buf = <<>>
<1>1. Fire(n, t).buf = n.buf \o t.report BY DEF Fire
<1> QED BY <1>1

\* Nor does a pass over transitions without a report.
LEMMA FireOneOfQuiet ==
    ASSUME NEW n, n.buf = <<>>, NEW T, \A t \in T : t.report = <<>>
    PROVE  FireOneOf(n, T).buf = <<>>
<1>1. CASE \E t \in T : CanFire(n, t)
  <2> DEFINE u == CHOOSE t \in T : CanFire(n, t)
  <2>1. u \in T BY <1>1
  <2>2. FireOneOf(n, T) = Fire(n, u) BY <1>1 DEF FireOneOf
  <2> HIDE DEF u
  <2> QED BY <2>1, <2>2, FireQuiet
<1>2. CASE ~ \E t \in T : CanFire(n, t)
  BY <1>2 DEF FireOneOf
<1> QED BY <1>1, <1>2

\* The error buffer is empty after every call of Run::handle: flush() empties
\* it, and the one early return, out of an ANALYSE, comes with nothing in it.
LEMMA HandleFlushes ==
    ASSUME NEW n, n.buf = <<>>, NEW e, NEW verdict
    PROVE  Handle(n, e, verdict).buf = <<>>
<1> DEFINE k == [n EXCEPT !.out = <<>>]
           m == Process(k, e)
<1>1. \A x : Flush(x).buf = <<>>
  BY DEF Flush
<1>2. CASE e[2] = "ANALYSE" /\ m.size[SwitchOf(e[1])] = 0
  <2> DEFINE n1 == FireOneOf(k, Ready(k, Later, e))
             n2 == FireOneOf(n1, Ready(k, Earlier, e))
  <2>1. k.buf = <<>> OBVIOUS
  <2>2. /\ \A t \in Ready(k, Later, e) : t.report = <<>>
        /\ \A t \in Ready(k, Earlier, e) : t.report = <<>>
    BY <1>2, QuietTransitions DEF Ready
  <2> HIDE DEF k
  <2>3. n1.buf = <<>> BY <2>1, <2>2, FireOneOfQuiet
  <2> HIDE DEF n1
  <2>4. n2.buf = <<>> BY <2>2, <2>3, FireOneOfQuiet
  <2> HIDE DEF n2
  <2>5. ASSUME NEW x, x.buf = <<>> PROVE Round(x).buf = <<>>
    <3>1. /\ StartHandOver.report = <<>> /\ StartM1.report = <<>> /\ StopEmptyM1.report = <<>>
          /\ PauseM1.report = <<>> /\ UnpauseM1.report = <<>>
      BY QuietTransitions DEF Automatic
    <3> QED BY <2>5, <3>1, FireQuiet DEF Round
  <2>6. Settle(n2).buf = <<>> BY <2>4, <2>5 DEF Settle
  <2>7. m = Settle(n2) BY DEF Process, Triggered, n1, n2
  <2>8. Handle(n, e, verdict) = m BY <1>2 DEF Handle, k
  <2> QED BY <2>6, <2>7, <2>8
<1>3. CASE ~(e[2] = "ANALYSE" /\ m.size[SwitchOf(e[1])] = 0)
  <2> HIDE DEF m
  <2> QED BY <1>1, <1>3 DEF Handle, k, m
<1> QED BY <1>2, <1>3

-----------------------------------------------------------------------------
(***************************************************************************)
(* PetriNet::process comes to an end.  Left counts the NIL transitions     *)
(* that a marking still has before it; it is three at most, and each round *)
(* takes one off, so that the four rounds of Settle leave none.            *)
(***************************************************************************)
Rests(n) == \A t \in Automatic : ~CanFire(n, t)

Left(n) ==
    LET some  == n.tok["COUNT"] > 0
        ready == n.tok["M2RDY"] > 0
        atEnd == n.tok["M1_END"] > 0
    IN  IF n.tok["RUN_PAUSED"] > 0 THEN IF ready THEN 3 ELSE 0
        ELSE IF n.tok["RUNNING"] > 0
          THEN IF ~some THEN 1 ELSE IF ~atEnd THEN 0 ELSE IF ready THEN 2 ELSE 1
        ELSE IF ~some THEN 0 ELSE IF ~ready THEN 2 ELSE IF atEnd THEN 3 ELSE 1

\* The marks that the NIL transitions look at.
Marks(k) == /\ k["COUNT"] \in Nat /\ k["M1_END"] \in Nat /\ k["PRESTART"] \in Nat
            /\ k["COUNT"] >= k["M1_END"] + k["PRESTART"]
            /\ k["M2RDY"] \in Nat /\ k["M2_END"] \in Nat
            /\ k["M2RDY"] + k["PRESTART"] + k["M2_END"] <= 1
            /\ k["RUN_RDY"] \in Nat /\ k["RUNNING"] \in Nat /\ k["RUN_PAUSED"] \in Nat
            /\ k["RUN_RDY"] + k["RUNNING"] + k["RUN_PAUSED"] = 1

\* A sound tracker has such marks.
LEMMA SoundMarks == ASSUME NEW n, Sound(n) PROVE Marks(n.tok)
<1>1. \A p \in Place : n.tok[p] \in Nat
  BY DEF Sound, Typed
<1>2. /\ n.tok["COUNT"] \in Nat /\ n.tok["PRESTART"] \in Nat /\ n.tok["M2RDY"] \in Nat
      /\ n.tok["RUN_RDY"] \in Nat /\ n.tok["RUNNING"] \in Nat /\ n.tok["RUN_PAUSED"] \in Nat
  BY <1>1, PlaceNames
<1>3. /\ n.tok["M1_START"] \in Nat /\ n.tok["M1_HS"] \in Nat /\ n.tok["M1_SWITCH"] \in Nat
      /\ n.tok["M1_PREEND"] \in Nat /\ n.tok["M1_END"] \in Nat
  BY <1>1, PlaceNames, SegmentNames
<1>4. /\ n.tok["M2_START"] \in Nat /\ n.tok["M2_HS"] \in Nat /\ n.tok["M2_SWITCH"] \in Nat
      /\ n.tok["M2_PREEND"] \in Nat /\ n.tok["M2_END"] \in Nat
  BY <1>1, PlaceNames, SegmentNames
<1>5. n.tok["COUNT"] >= n.tok["M1_END"] + n.tok["PRESTART"]
  BY <1>2, <1>3 DEF Sound, LoadCounted, OnM1
<1>6. n.tok["M2RDY"] + n.tok["PRESTART"] + n.tok["M2_END"] <= 1
  BY <1>2, <1>4 DEF Sound, OneOnM2, OnM2
<1>7. n.tok["RUN_RDY"] + n.tok["RUNNING"] + n.tok["RUN_PAUSED"] = 1
  BY DEF Sound, OneMode
<1> QED BY <1>2, <1>3, <1>4, <1>5, <1>6, <1>7 DEF Marks

\* What each NIL transition needs, and what it does to those marks.
LEMMA Enabling ==
    ASSUME NEW n, Marks(n.tok)
    PROVE  /\ CanFire(n, StartHandOver) <=> n.tok["M1_END"] > 0 /\ n.tok["M2RDY"] > 0
                                              /\ n.tok["RUN_PAUSED"] = 0
           /\ CanFire(n, StartM1)     <=> n.tok["COUNT"] > 0 /\ n.tok["RUN_RDY"] > 0
           /\ CanFire(n, StopEmptyM1) <=> n.tok["RUNNING"] > 0 /\ n.tok["COUNT"] = 0
           /\ CanFire(n, PauseM1)     <=> n.tok["RUNNING"] > 0 /\ n.tok["M1_END"] > 0
                                            /\ n.tok["M2RDY"] = 0
           /\ CanFire(n, UnpauseM1)   <=> n.tok["RUN_PAUSED"] > 0 /\ n.tok["M2RDY"] > 0
BY DEF Marks, CanFire, StartHandOver, StartM1, StopEmptyM1, PauseM1, UnpauseM1, Transition

\* What each of them does to these marks.
LEMMA Effects ==
    ASSUME NEW n, Marks(n.tok),
           NEW p \in {"COUNT", "M1_END", "M2RDY", "RUN_RDY", "RUNNING", "RUN_PAUSED"}
    PROVE  /\ Fire(n, StartHandOver).tok[p] =
                IF p \in {"M1_END", "M2RDY"} THEN n.tok[p] - 1 ELSE n.tok[p]
           /\ Fire(n, StartM1).tok[p] =
                IF p = "RUN_RDY" THEN n.tok[p] - 1 ELSE IF p = "RUNNING" THEN n.tok[p] + 1 ELSE n.tok[p]
           /\ Fire(n, StopEmptyM1).tok[p] =
                IF p = "RUNNING" THEN n.tok[p] - 1 ELSE IF p = "RUN_RDY" THEN n.tok[p] + 1 ELSE n.tok[p]
           /\ Fire(n, PauseM1).tok[p] =
                IF p = "RUNNING" THEN n.tok[p] - 1 ELSE IF p = "RUN_PAUSED" THEN n.tok[p] + 1 ELSE n.tok[p]
           /\ Fire(n, UnpauseM1).tok[p] =
                IF p = "RUN_PAUSED" THEN n.tok[p] - 1 ELSE IF p = "RUNNING" THEN n.tok[p] + 1 ELSE n.tok[p]
<1>1. p \in Place /\ n.tok[p] \in Int
  BY PlaceNames, SegmentNames DEF Marks
<1>2. \A t : Fire(n, t).tok = Marked(n, t)
  BY DEF Fire
<1>3. \A t : Fire(n, t).tok[p] = n.tok[p] - Count(p \in t.take) + Count(p \in t.give)
  BY <1>1, <1>2 DEF Marked
<1> QED BY <1>1, <1>3 DEF Count, StartHandOver, StartM1, StopEmptyM1, PauseM1, UnpauseM1, Transition

\* A round takes at least one off what is left, or the net rests.
LEMMA RoundLeft ==
    ASSUME NEW n, Sound(n)
    PROVE  /\ Left(n) \in 0..3 /\ Left(Round(n)) \in 0..3
           /\ Left(n) > 0 => Left(Round(n)) < Left(n)
           /\ Left(n) = 0 => Rests(n) /\ Round(n) = n
<1>1. Marks(n.tok)
  BY SoundMarks
<1>2. Left(n) \in 0..3 /\ Left(Round(n)) \in 0..3
  BY DEF Left
<1>3. Left(n) = 0 => Rests(n) /\ Round(n) = n
  BY <1>1, Enabling DEF Left, Rests, Automatic, Round, Marks
<1>4. ASSUME CanFire(n, StartHandOver)
      PROVE  Left(Round(n)) < Left(n)
  <2>1. Round(n).tok = Fire(n, StartHandOver).tok
    BY <1>4 DEF Round
  <2>2. /\ Round(n).tok["COUNT"] = n.tok["COUNT"]
        /\ Round(n).tok["M1_END"] = n.tok["M1_END"] - 1
        /\ Round(n).tok["M2RDY"] = n.tok["M2RDY"] - 1
        /\ Round(n).tok["RUNNING"] = n.tok["RUNNING"]
        /\ Round(n).tok["RUN_PAUSED"] = n.tok["RUN_PAUSED"]
    BY <1>1, <2>1, Effects
  <2> QED BY <1>1, <1>4, <2>2, Enabling DEF Left, Marks
<1>5. ASSUME CanFire(n, StartM1), ~CanFire(n, StartHandOver)
      PROVE  Left(Round(n)) < Left(n)
  <2>1. Round(n).tok = Fire(n, StartM1).tok
    BY <1>5 DEF Round
  <2>2. /\ Round(n).tok["COUNT"] = n.tok["COUNT"]
        /\ Round(n).tok["M1_END"] = n.tok["M1_END"]
        /\ Round(n).tok["M2RDY"] = n.tok["M2RDY"]
        /\ Round(n).tok["RUNNING"] = n.tok["RUNNING"] + 1
        /\ Round(n).tok["RUN_PAUSED"] = n.tok["RUN_PAUSED"]
    BY <1>1, <2>1, Effects
  <2> QED BY <1>1, <1>5, <2>2, Enabling DEF Left, Marks
<1>6. ASSUME CanFire(n, StopEmptyM1), ~CanFire(n, StartHandOver), ~CanFire(n, StartM1)
      PROVE  Left(Round(n)) < Left(n)
  <2>1. Round(n).tok = Fire(n, StopEmptyM1).tok
    BY <1>6 DEF Round
  <2>2. /\ Round(n).tok["COUNT"] = n.tok["COUNT"]
        /\ Round(n).tok["M1_END"] = n.tok["M1_END"]
        /\ Round(n).tok["M2RDY"] = n.tok["M2RDY"]
        /\ Round(n).tok["RUNNING"] = n.tok["RUNNING"] - 1
        /\ Round(n).tok["RUN_PAUSED"] = n.tok["RUN_PAUSED"]
    BY <1>1, <2>1, Effects
  <2>3. n.tok["COUNT"] = 0 /\ n.tok["RUNNING"] = 1 /\ n.tok["RUN_PAUSED"] = 0
    BY <1>1, <1>6, Enabling DEF Marks
  <2> QED BY <2>2, <2>3 DEF Left
<1>7. ASSUME CanFire(n, PauseM1), ~CanFire(n, StartHandOver), ~CanFire(n, StartM1),
             ~CanFire(n, StopEmptyM1)
      PROVE  Left(Round(n)) < Left(n)
  <2>1. Round(n).tok = Fire(n, PauseM1).tok
    BY <1>7 DEF Round
  <2>2. /\ Round(n).tok["COUNT"] = n.tok["COUNT"]
        /\ Round(n).tok["M1_END"] = n.tok["M1_END"]
        /\ Round(n).tok["M2RDY"] = n.tok["M2RDY"]
        /\ Round(n).tok["RUNNING"] = n.tok["RUNNING"] - 1
        /\ Round(n).tok["RUN_PAUSED"] = n.tok["RUN_PAUSED"] + 1
    BY <1>1, <2>1, Effects
  <2> QED BY <1>1, <1>7, <2>2, Enabling DEF Left, Marks
<1>8. ASSUME CanFire(n, UnpauseM1), ~CanFire(n, StartHandOver), ~CanFire(n, StartM1),
             ~CanFire(n, StopEmptyM1), ~CanFire(n, PauseM1)
      PROVE  Left(Round(n)) < Left(n)
  <2>1. Round(n).tok = Fire(n, UnpauseM1).tok
    BY <1>8 DEF Round
  <2>2. /\ Round(n).tok["COUNT"] = n.tok["COUNT"]
        /\ Round(n).tok["M1_END"] = n.tok["M1_END"]
        /\ Round(n).tok["M2RDY"] = n.tok["M2RDY"]
        /\ Round(n).tok["RUNNING"] = n.tok["RUNNING"] + 1
        /\ Round(n).tok["RUN_PAUSED"] = n.tok["RUN_PAUSED"] - 1
    BY <1>1, <2>1, Effects
  <2>3. n.tok["RUN_PAUSED"] = 1 /\ n.tok["RUNNING"] = 0 /\ n.tok["M2RDY"] > 0
    BY <1>1, <1>8, Enabling DEF Marks
  <2>4. Left(n) = 3 /\ Left(Round(n)) \in {0, 1, 2}
    BY <2>2, <2>3 DEF Left
  <2> QED BY <2>4
<1>9. Left(n) > 0 => \E t \in Automatic : CanFire(n, t)
  BY <1>1, Enabling DEF Left, Automatic, Marks
<1> QED BY <1>2, <1>3, <1>4, <1>5, <1>6, <1>7, <1>8, <1>9 DEF Automatic

\* The rounds of Settle are enough, wherever they start.
LEMMA SettleRests == ASSUME NEW n, Sound(n) PROVE Rests(Settle(n))
<1> DEFINE a == Round(n)
           b == Round(a)
           c == Round(b)
           d == Round(c)
<1>1. Sound(a) BY RoundSound
<1>2. Left(n) \in 0..3 /\ Left(a) \in 0..3 /\ (Left(n) > 0 => Left(a) < Left(n)) /\ (Left(n) = 0 => a = n)
  BY RoundLeft
<1> HIDE DEF a
<1>3. Sound(b) BY <1>1, RoundSound
<1>4. Left(b) \in 0..3 /\ (Left(a) > 0 => Left(b) < Left(a)) /\ (Left(a) = 0 => b = a)
  BY <1>1, RoundLeft
<1> HIDE DEF b
<1>5. Sound(c) BY <1>3, RoundSound
<1>6. Left(c) \in 0..3 /\ (Left(b) > 0 => Left(c) < Left(b)) /\ (Left(b) = 0 => c = b)
  BY <1>3, RoundLeft
<1> HIDE DEF c
<1>7. Left(c) = 0
  BY <1>2, <1>4, <1>6
<1>8. Rests(c) /\ d = c
  BY <1>5, <1>7, RoundLeft
<1> QED BY <1>8 DEF Settle, a, b, c

-----------------------------------------------------------------------------
(***************************************************************************)
(* Module 1 pauses for an item at its end, and only starting the hand-over *)
(* takes that item away, which a pause forbids.                            *)
(***************************************************************************)
Waits(n) == n.tok["RUN_PAUSED"] > 0 => n.tok["M1_END"] > 0

KeepsWaiting(t) ==
    /\ "M1_END" \in t.take /\ "M1_END" \notin t.give => "RUN_PAUSED" \in t.empty /\ "RUN_PAUSED" \notin t.give
    /\ "RUN_PAUSED" \in t.give => "M1_END" \in t.take /\ "M1_END" \in t.give

(***************************************************************************)
(* Module 2 is told to expect an item by the listeners of M2RDY and M2_END *)
(* when it is busy after the transition.  Only the start of the hand-over  *)
(* makes it busy, and it fires one of the two.                             *)
(***************************************************************************)
OrdersOnce(t) ==
    /\ "PRESTART" \in t.give => /\ "PRESTART" \notin t.take /\ "M2RDY" \in t.take /\ "M2RDY" \notin t.give
                                /\ "M2_END" \notin t.take /\ "M2_END" \notin t.give
    /\ "PRESTART" \notin t.give /\ (Changes(t, "M2_END") \/ Changes(t, "M2RDY"))
         => "M2_END" \in t.give \/ "M2RDY" \in t.give
    /\ "PRESTART" \in t.take => t.on \in {<<"S", "NEW_ITEM", "START">>, HandOverLost}

Orderly(t) == KeepsWaiting(t) /\ OrdersOnce(t)

\* Every transition of the table is orderly.
LEMMA AllOrderly == \A t \in Earlier \cup Later \cup Automatic : Orderly(t)
<1> USE DEF Orderly, KeepsWaiting, OrdersOnce, Changes, Transition
<1>1. \A t \in Moves : Orderly(t)
  BY DEF Moves, Move
<1>2. \A t \in LossesOnM1 : Orderly(t)
  BY DEF LossesOnM1, LossOnM1
<1>3. \A t \in LossesOnM2 : Orderly(t)
  BY DEF LossesOnM2, LossOnM2
<1>4. \A t \in {NewOnM1, NewOnM2, LostInHandOver, LeaveM2} \cup Later : Orderly(t)
  BY DEF NewOnM1, NewOnM2, LostInHandOver, LeaveM2, Later, UnexpectedOnM2, LossOnM1, LossOnM2, HandOverLost
<1>5. \A t \in Automatic : Orderly(t)
  BY DEF Automatic, StartHandOver, StartM1, StopEmptyM1, PauseM1, UnpauseM1
<1> QED BY <1>1, <1>2, <1>3, <1>4, <1>5 DEF Earlier

\* Firing one leaves a pause with its reason,
LEMMA FireWaits ==
    ASSUME NEW n, Sound(n), Waits(n), NEW t, Orderly(t), CanFire(n, t)
    PROVE  Waits(Fire(n, t))
<1>1. "M1_END" \in Place /\ "RUN_PAUSED" \in Place
  BY PlaceNames, SegmentNames
<1>2. \A p \in Place : /\ n.tok[p] \in Nat /\ (p \in t.take => n.tok[p] >= 1)
                       /\ Fire(n, t).tok[p] = n.tok[p] - Count(p \in t.take) + Count(p \in t.give)
  BY DEF Sound, Typed, CanFire, Fire, Marked
<1>3. "RUN_PAUSED" \in t.empty => n.tok["RUN_PAUSED"] = 0
  BY DEF CanFire
<1> SUFFICES ASSUME Fire(n, t).tok["RUN_PAUSED"] > 0
             PROVE  Fire(n, t).tok["M1_END"] > 0
  BY DEF Waits
<1> DEFINE a == Fire(n, t).tok["M1_END"]
<1>4. n.tok["RUN_PAUSED"] \in Nat /\ n.tok["M1_END"] \in Nat /\ ("M1_END" \in t.take => n.tok["M1_END"] >= 1)
  BY <1>1, <1>2
<1>5. a = n.tok["M1_END"] - Count("M1_END" \in t.take) + Count("M1_END" \in t.give)
  BY <1>1, <1>2
<1>6. "RUN_PAUSED" \in t.give \/ n.tok["RUN_PAUSED"] > 0
  <2>1. Fire(n, t).tok["RUN_PAUSED"]
          = n.tok["RUN_PAUSED"] - Count("RUN_PAUSED" \in t.take) + Count("RUN_PAUSED" \in t.give)
    BY <1>1, <1>2
  <2> QED BY <1>4, <2>1 DEF Count
<1> HIDE DEF a
<1>7. CASE "RUN_PAUSED" \in t.give
  <2>1. "M1_END" \in t.take /\ "M1_END" \in t.give
    BY <1>7 DEF Orderly, KeepsWaiting
  <2>2. a > 0
    BY <1>4, <1>5, <2>1 DEF Count
  <2> QED BY <2>2 DEF a
<1>8. CASE "RUN_PAUSED" \notin t.give
  <2>1. n.tok["RUN_PAUSED"] > 0 /\ n.tok["M1_END"] > 0
    BY <1>6, <1>8 DEF Waits
  <2>2. "M1_END" \notin t.take \/ "M1_END" \in t.give
    BY <1>3, <2>1 DEF Orderly, KeepsWaiting
  <2>3. a > 0
    BY <1>4, <1>5, <2>1, <2>2 DEF Count
  <2> QED BY <2>3 DEF a
<1> QED BY <1>7, <1>8

\* Items promised to module 2 that it has not been told to expect.
Untold(n) == n.tok["PRESTART"] - n.expecting

\* and changes what module 2 has not been told only by an answer of it.
LEMMA FireUntold ==
    ASSUME NEW n, Sound(n), NEW t, Orderly(t), CanFire(n, t)
    PROVE  Untold(Fire(n, t)) = Untold(n) - Count("PRESTART" \in t.take)
<1> DEFINE m == Fire(n, t)
<1>1. "PRESTART" \in Place /\ "M2RDY" \in Place /\ "M2_END" \in Place
  BY PlaceNames, SegmentNames
<1>2. \A p \in Place : /\ n.tok[p] \in Nat /\ (p \in t.take => n.tok[p] >= 1)
                       /\ m.tok[p] = n.tok[p] - Count(p \in t.take) + Count(p \in t.give)
  BY DEF Sound, Typed, CanFire, Fire, Marked
<1>3. n.expecting \in Nat
  BY DEF Sound, Typed
<1>4. m.expecting = n.expecting
        + (IF M2Busy(m.tok) THEN Count(Changes(t, "M2_END")) + Count(Changes(t, "M2RDY")) ELSE 0)
  BY DEF Fire
<1>5. n.tok["M2RDY"] + n.tok["M2_END"] <= 1
  BY <1>1, <1>2, SoundMarks DEF Marks
<1> HIDE DEF m
<1>6. m.expecting = n.expecting + Count("PRESTART" \in t.give)
  <2>1. CASE "PRESTART" \in t.give
    <3>1. M2Busy(m.tok)
      BY <1>1, <1>2, <1>5, <2>1 DEF Orderly, OrdersOnce, Count, M2Busy
    <3>2. Changes(t, "M2RDY") /\ ~Changes(t, "M2_END")
      BY <2>1 DEF Orderly, OrdersOnce, Changes
    <3> QED BY <1>3, <1>4, <2>1, <3>1, <3>2 DEF Count
  <2>2. CASE "PRESTART" \notin t.give
    <3>1. CASE Changes(t, "M2_END") \/ Changes(t, "M2RDY")
      <4>1. "M2_END" \in t.give \/ "M2RDY" \in t.give
        BY <2>2, <3>1 DEF Orderly, OrdersOnce
      <4>2. m.tok["M2RDY"] = n.tok["M2RDY"] - Count("M2RDY" \in t.take) + Count("M2RDY" \in t.give)
        BY <1>1, <1>2
      <4>3. m.tok["M2_END"] = n.tok["M2_END"] - Count("M2_END" \in t.take) + Count("M2_END" \in t.give)
        BY <1>1, <1>2
      <4>4. /\ n.tok["M2RDY"] \in Nat /\ ("M2RDY" \in t.take => n.tok["M2RDY"] >= 1)
            /\ n.tok["M2_END"] \in Nat /\ ("M2_END" \in t.take => n.tok["M2_END"] >= 1)
        BY <1>1, <1>2
      <4>5. m.tok["M2RDY"] > 0 \/ m.tok["M2_END"] > 0
        BY <4>1, <4>2, <4>3, <4>4 DEF Count
      <4>6. ~M2Busy(m.tok)
        BY <4>5 DEF M2Busy
      <4> QED BY <1>3, <1>4, <2>2, <4>6 DEF Count
    <3>2. CASE ~Changes(t, "M2_END") /\ ~Changes(t, "M2RDY")
      BY <1>3, <1>4, <2>2, <3>2 DEF Count
    <3> QED BY <3>1, <3>2
  <2> QED BY <2>1, <2>2
<1>7. n.tok["PRESTART"] \in Nat /\ m.tok["PRESTART"]
        = n.tok["PRESTART"] - Count("PRESTART" \in t.take) + Count("PRESTART" \in t.give)
  BY <1>1, <1>2
<1>8. Count("PRESTART" \in t.take) \in Int /\ Count("PRESTART" \in t.give) \in Int
  BY DEF Count
<1> QED BY <1>3, <1>6, <1>7, <1>8 DEF Untold, m

\* What an event does, as long as it is not the one module 2 was waiting for.
LEMMA FireOneOfOrderly ==
    ASSUME NEW n, Sound(n), Waits(n), NEW T, \A t \in T : Orderly(t),
           n.tok["PRESTART"] = 0 \/ \A t \in T : "PRESTART" \notin t.take
    PROVE  /\ Waits(FireOneOf(n, T)) /\ Untold(FireOneOf(n, T)) = Untold(n)
<1>1. n.expecting \in Nat /\ n.tok["PRESTART"] \in Nat
  BY SoundMarks DEF Sound, Typed, Marks
<1>2. CASE \E t \in T : CanFire(n, t)
  <2> DEFINE u == CHOOSE t \in T : CanFire(n, t)
  <2>1. u \in T /\ CanFire(n, u) BY <1>2
  <2>2. FireOneOf(n, T) = Fire(n, u) BY <1>2 DEF FireOneOf
  <2> HIDE DEF u
  <2>3. "PRESTART" \notin u.take
    BY <2>1 DEF CanFire
  <2>4. Untold(Fire(n, u)) = Untold(n) - 0
    BY <2>1, <2>3, FireUntold DEF Count
  <2> QED BY <1>1, <2>1, <2>2, <2>4, FireWaits DEF Untold
<1>3. CASE ~ \E t \in T : CanFire(n, t)
  BY <1>3 DEF FireOneOf
<1> QED BY <1>2, <1>3

\* NIL transitions keep both,
LEMMA RoundOrderly ==
    ASSUME NEW n, Sound(n), Waits(n)
    PROVE  Waits(Round(n)) /\ Untold(Round(n)) = Untold(n)
<1>1. n.expecting \in Nat /\ n.tok["PRESTART"] \in Nat
  BY SoundMarks DEF Sound, Typed, Marks
<1>2. ASSUME NEW t \in Automatic, CanFire(n, t)
      PROVE  Waits(Fire(n, t)) /\ Untold(Fire(n, t)) = Untold(n)
  <2>1. Orderly(t)
    BY AllOrderly
  <2>2. "PRESTART" \notin t.take
    BY DEF Automatic, StartHandOver, StartM1, StopEmptyM1, PauseM1, UnpauseM1, Transition
  <2>3. Untold(Fire(n, t)) = Untold(n) - 0
    BY <1>2, <2>1, <2>2, FireUntold DEF Count
  <2> QED BY <1>1, <1>2, <2>1, <2>3, FireWaits DEF Untold
<1> QED BY <1>2 DEF Round, Automatic

\* as often as they fire.
LEMMA SettleOrderly ==
    ASSUME NEW n, Sound(n), Waits(n)
    PROVE  Waits(Settle(n)) /\ Untold(Settle(n)) = Untold(n)
BY RoundSound, RoundOrderly DEF Settle

\* Both passes of process() over the transitions of an event.
LEMMA TriggeredSound == ASSUME NEW n, Sound(n), NEW e PROVE Sound(Triggered(n, e))
<1>1. /\ \A t \in Ready(n, Later, e) : Balanced(t)
      /\ \A t \in Ready(n, Earlier, e) : Balanced(t)
  BY AllBalanced DEF Ready
<1>2. Sound(FireOneOf(n, Ready(n, Later, e)))
  BY <1>1, FireOneOfSound
<1> QED BY <1>1, <1>2, FireOneOfSound DEF Triggered

\* An item that module 2 was told to expect, and that has come or is missing.
Answer == {<<"S", "NEW_ITEM", "START">>, HandOverLost}

\* An event takes one off what was promised if module 2 answers to it.
LEMMA TriggeredOrderly ==
    ASSUME NEW n, Sound(n), Waits(n), NEW e
    PROVE  /\ Waits(Triggered(n, e))
           /\ e \notin Answer \/ n.tok["PRESTART"] = 0 => Untold(Triggered(n, e)) = Untold(n)
           /\ e \in Answer /\ n.tok["PRESTART"] > 0 => Untold(Triggered(n, e)) = Untold(n) - 1
<1> DEFINE L == Ready(n, Later, e)
           E == Ready(n, Earlier, e)
           m == FireOneOf(n, L)
<1>1. (\A t \in L : Orderly(t) /\ t.on = e) /\ (\A t \in E : Orderly(t) /\ t.on = e)
  BY AllOrderly DEF Ready
<1>2. Sound(m)
  BY AllBalanced, FireOneOfSound DEF Ready
<1>3. \A t \in L : "PRESTART" \notin t.take
  BY DEF Ready, Later, UnexpectedOnM2, LossOnM1, LossOnM2, Transition
<1>4. Waits(m) /\ Untold(m) = Untold(n)
  BY <1>1, <1>3, FireOneOfOrderly
<1>5. Triggered(n, e) = FireOneOf(m, E)
  BY DEF Triggered
<1>6. CASE e \notin Answer \/ n.tok["PRESTART"] = 0
  <2>1. \A t \in E : "PRESTART" \notin t.take
    BY <1>1, <1>6 DEF Orderly, OrdersOnce, Answer, Ready, CanFire
  <2> HIDE DEF m, E
  <2>2. Waits(Triggered(n, e)) /\ Untold(Triggered(n, e)) = Untold(m)
    BY <1>1, <1>2, <1>4, <1>5, <2>1, FireOneOfOrderly
  <2>3. n.tok["PRESTART"] \in Nat
    BY SoundMarks DEF Marks
  <2> QED BY <1>4, <1>6, <2>2, <2>3
<1>7. CASE e \in Answer /\ n.tok["PRESTART"] > 0
  <2>1. Marks(n.tok)
    BY SoundMarks
  <2>2. L = {}
    BY <1>7 DEF Ready, Later, UnexpectedOnM2, LossOnM1, LossOnM2, Transition, CanFire, Answer, HandOverLost
  <2>3. m = n
    BY <2>2 DEF FireOneOf
  <2>4. \A t \in E : CanFire(n, t) /\ "PRESTART" \in t.take
    BY <1>7 DEF Ready, Earlier, Moves, Move, LossesOnM1, LossOnM1, LossesOnM2, LossOnM2, NewOnM1,
                NewOnM2, LostInHandOver, LeaveM2, Transition, Answer, HandOverLost
  <2>5. \E t \in E : CanFire(n, t)
    <3>1. CanFire(n, NewOnM2) /\ CanFire(n, LostInHandOver)
      BY <1>7, <2>1 DEF CanFire, NewOnM2, LostInHandOver, Transition, Marks
    <3>2. NewOnM2.on = <<"S", "NEW_ITEM", "START">> /\ LostInHandOver.on = HandOverLost
      BY DEF NewOnM2, LostInHandOver, Transition, HandOverLost
    <3> QED BY <1>7, <3>1, <3>2 DEF Ready, Earlier, Answer
  <2> DEFINE u == CHOOSE t \in E : CanFire(n, t)
  <2>6. u \in E /\ CanFire(n, u)
    BY <2>5
  <2>7. Triggered(n, e) = Fire(n, u)
    BY <1>5, <2>3, <2>5 DEF FireOneOf
  <2> HIDE DEF u, E
  <2>8. Untold(Fire(n, u)) = Untold(n) - 1
    BY <1>1, <2>4, <2>6, FireUntold DEF Count
  <2>9. Waits(Fire(n, u))
    BY <1>1, <2>6, FireWaits
  <2>10. ~(e \notin Answer \/ n.tok["PRESTART"] = 0)
    BY <1>7
  <2> QED BY <2>7, <2>8, <2>9, <2>10
<1>8. n.tok["PRESTART"] \in Nat
  BY SoundMarks DEF Marks
<1> QED BY <1>6, <1>7, <1>8

\* Run::handle after PetriNet::process only writes packets.
LEMMA HandleNet ==
    ASSUME NEW n, NEW e, NEW verdict
    PROVE  LET k == [n EXCEPT !.out = <<>>]
           IN  /\ Handle(n, e, verdict).tok = Process(k, e).tok
               /\ Handle(n, e, verdict).expecting = Process(k, e).expecting
<1> DEFINE k == [n EXCEPT !.out = <<>>]
           m == Process(k, e)
<1> HIDE DEF m
<1>1. /\ \A x : [m EXCEPT !.out = x].tok = m.tok /\ [m EXCEPT !.out = x].expecting = m.expecting
      /\ \A x : [m EXCEPT !.buf = x].tok = m.tok /\ [m EXCEPT !.buf = x].expecting = m.expecting
  BY DEF m, Process, Settle
<1>2. \A x : Flush(x).tok = x.tok /\ Flush(x).expecting = x.expecting
  BY DEF Flush
<1> QED BY <1>1, <1>2 DEF Handle, m

\* A call of Run::handle leaves the net at rest, with module 1 paused only for
\* an item at its end, and module 2 told what it was promised.
LEMMA HandleRests ==
    ASSUME NEW n, Sound(n), Waits(n), NEW e, NEW verdict,
           Untold(n) = IF e \in Answer /\ n.tok["PRESTART"] > 0 THEN 1 ELSE 0
    PROVE  LET m == Handle(n, e, verdict) IN Rests(m) /\ Waits(m) /\ Untold(m) = 0
<1> DEFINE k == [n EXCEPT !.out = <<>>]
           a == Triggered(k, e)
           b == Settle(a)
           m == Handle(n, e, verdict)
<1>1. k.tok = n.tok /\ k.size = n.size /\ k.motor = n.motor /\ k.expecting = n.expecting
  OBVIOUS
<1>2. m.tok = b.tok /\ m.expecting = b.expecting
  BY HandleNet DEF Process
<1> HIDE DEF k, m
<1>3. Sound(k) /\ Waits(k) /\ Untold(k) = Untold(n)
  <2>1. n.expecting \in Nat BY DEF Sound, Typed
  <2>2. Sound(k)
    BY <1>1, <2>1, OnlyBookkeeping
  <2> QED BY <1>1, <2>2 DEF Waits, Untold
<1>4. Sound(a)
  BY <1>3, TriggeredSound
<1>5. Waits(a) /\ Untold(a) = 0
  <2>1. CASE e \in Answer /\ n.tok["PRESTART"] > 0
    BY <1>1, <1>3, <2>1, TriggeredOrderly
  <2>2. CASE ~(e \in Answer /\ n.tok["PRESTART"] > 0)
    <3>1. n.tok["PRESTART"] \in Nat
      BY SoundMarks DEF Marks
    <3> QED BY <1>1, <1>3, <2>2, <3>1, TriggeredOrderly
  <2> QED BY <2>1, <2>2
<1> HIDE DEF a
<1>6. Rests(b) /\ Waits(b) /\ Untold(b) = 0
  BY <1>4, <1>5, SettleRests, SettleOrderly
<1> HIDE DEF b
<1>7. Rests(m) /\ Waits(m) /\ Untold(m) = 0
  BY <1>2, <1>6 DEF Rests, CanFire, Waits, Untold
<1> QED BY <1>7 DEF m
=============================================================================
