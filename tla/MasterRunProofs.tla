-------------------------- MODULE MasterRunProofs --------------------------
(***************************************************************************)
(* The invariants of the item tracker, for every number of items and every *)
(* Depth.  Sound is inductive only as a whole: that the item buffer agrees *)
(* with the marking is needed to keep its lengths natural numbers, and     *)
(* that module 1 has one running mode to know what the last motor command  *)
(* was.  RunNetProofs shows that each operation keeps it.  The second part *)
(* shows that no item is dropped without an error.                         *)
(***************************************************************************)
EXTENDS MasterRun, RunNetProofs, FiniteSetTheorems

TrackerInv == Sound(net) /\ net.buf = <<>>

\* That the net rests needs no more than that: four rounds bring any sound
\* marking to rest.  Why a pause has a reason and how often module 2 was told
\* to expect an item depend on what went before, and are invariants too.
RestInv == Rests(net) /\ Waits(net) /\ Untold(net) = 0

\* The tracker is sound after every packet, whatever the modules report and
\* however often the run state is entered.
THEOREM TrackerSound == Spec => []TrackerInv
<1>1. Init => TrackerInv
  BY FreshSound DEF Init, TrackerInv, Fresh
<1>2. TrackerInv /\ [Next]_vars => TrackerInv'
  <2> SUFFICES ASSUME TrackerInv, [Next]_vars
               PROVE  Sound(net') /\ net'.buf = <<>>
    BY DEF TrackerInv
  <2>1. ASSUME NEW e \in Event, Receive(e)
        PROVE  Sound(net') /\ net'.buf = <<>>
    <3> DEFINE n == Answered(net, e)
    <3>1. n.tok = net.tok /\ n.size = net.size /\ n.motor = net.motor
      BY DEF Answered
    <3>2. n.expecting \in Nat
      BY DEF TrackerInv, Sound, Typed, Answered
    <3>3. n.buf = <<>>
      BY DEF TrackerInv, Answered
    <3>4. net' = Handle(n, e, <<>>)
      BY <2>1 DEF Receive
    <3> HIDE DEF n
    <3>5. Sound(n) BY <3>1, <3>2, OnlyBookkeeping DEF TrackerInv
    <3> QED BY <3>3, <3>4, <3>5, HandleSound, HandleFlushes
  <2>2. CASE Enter
    <3>1. Resend(net).buf = net.buf BY DEF Resend
    <3> QED BY <2>2, <3>1, ResendSound DEF Enter, TrackerInv
  <2>3. CASE UNCHANGED vars
    BY <2>3 DEF vars, TrackerInv
  <2> QED BY <2>1, <2>2, <2>3 DEF Next
<1> QED BY <1>1, <1>2, PTL DEF Spec

\* The tracker keeps its types, and no error waits in its buffer between two
\* packets.
THEOREM TypeCorrect == Spec => []TypeOK
<1>1. TrackerInv => TypeOK BY DEF TrackerInv, Sound, TypeOK
<1> QED BY <1>1, TrackerSound, PTL

\* COUNT is the number of items tracked on module 1.
THEOREM CountIsAlwaysLoad == Spec => []CountIsLoad
<1>1. TrackerInv => CountIsLoad BY DEF TrackerInv, Sound, CountIsLoad
<1> QED BY <1>1, TrackerSound, PTL

\* Module 2 is ready, promised one item, or holds one item.
THEOREM AtMostOneItemOnM2 == Spec => []OneItemOnM2
<1>1. TrackerInv => OneItemOnM2 BY DEF TrackerInv, Sound, OneItemOnM2
<1> QED BY <1>1, TrackerSound, PTL

\* The item buffer always agrees with the marking: no packet makes
\* SegmentedBuffer remove an item from an empty segment.
THEOREM SegmentsAlwaysTrackTokens == Spec => []SegmentsTrackTokens
<1>1. TrackerInv => SegmentsTrackTokens BY DEF TrackerInv, Sound, SegmentsTrackTokens
<1> QED BY <1>1, TrackerSound, PTL

\* Module 1 has one running mode, and the last motor command sent to each
\* module is the one the marking calls for.
THEOREM MotorsAlwaysFollowNet == Spec => [](OneRunMode /\ MotorsFollowNet)
<1>1. TrackerInv => OneRunMode /\ MotorsFollowNet
  BY DEF TrackerInv, Sound, OneRunMode, MotorsFollowNet
<1> QED BY <1>1, TrackerSound, PTL

\* Between two packets the net rests, a pause has a reason and module 2 was told
\* to expect the item on its way: whatever packets came before, lost and
\* spurious items included.
THEOREM AlwaysSettled == Spec => []Settled
<1>1. Init => RestInv
  <2> SUFFICES ASSUME Init PROVE RestInv
    OBVIOUS
  <2>1. net = Fresh
    BY DEF Init
  <2>2. \A p \in Place : net.tok[p] = Count(p \in {"RUN_RDY", "M2RDY"})
    BY <2>1 DEF Fresh
  <2>3. /\ net.tok["COUNT"] = 0 /\ net.tok["M1_END"] = 0 /\ net.tok["RUNNING"] = 0
        /\ net.tok["RUN_PAUSED"] = 0 /\ net.tok["PRESTART"] = 0
    BY <2>2, PlaceNames, SegmentNames DEF Count
  <2>4. Marks(net.tok)
    BY <2>1, FreshSound, SoundMarks
  <2>5. net.expecting = 0
    BY <2>1 DEF Fresh
  <2> QED BY <2>3, <2>4, <2>5, Enabling DEF RestInv, Rests, Automatic, Waits, Untold
<1>2. TrackerInv /\ RestInv /\ [Next]_vars => RestInv'
  <2> SUFFICES ASSUME TrackerInv, RestInv, [Next]_vars
               PROVE  Rests(net') /\ Waits(net') /\ Untold(net') = 0
    BY DEF RestInv
  <2>1. ASSUME NEW e \in Event, Receive(e)
        PROVE  Rests(net') /\ Waits(net') /\ Untold(net') = 0
    <3> DEFINE n == Answered(net, e)
    <3>1. n.tok = net.tok /\ n.size = net.size /\ n.motor = net.motor
      BY DEF Answered
    <3>2. /\ net.expecting = net.tok["PRESTART"] /\ net.expecting \in Nat
      BY SoundMarks DEF TrackerInv, Sound, Typed, Marks, RestInv, Untold
    <3>3. n.expecting = IF e \in Answer /\ net.expecting > 0 THEN net.expecting - 1 ELSE net.expecting
      BY DEF Answered, Answer
    <3>4. net' = Handle(n, e, <<>>)
      BY <2>1 DEF Receive
    <3> HIDE DEF n
    <3>5. n.expecting \in Nat
      BY <3>2, <3>3
    <3>6. Sound(n) BY <3>1, <3>5, OnlyBookkeeping DEF TrackerInv
    <3>7. Waits(n) BY <3>1 DEF RestInv, Waits
    <3>8. Untold(n) = IF e \in Answer /\ n.tok["PRESTART"] > 0 THEN 1 ELSE 0
      BY <3>1, <3>2, <3>3 DEF Untold
    <3> QED BY <3>4, <3>6, <3>7, <3>8, HandleRests
  <2>2. CASE Enter
    <3>1. net'.tok = net.tok /\ net'.expecting = net.expecting
      BY <2>2 DEF Enter, Resend
    <3> QED BY <3>1 DEF RestInv, Rests, CanFire, Waits, Untold
  <2>3. CASE UNCHANGED vars
    BY <2>3 DEF vars, RestInv
  <2> QED BY <2>1, <2>2, <2>3 DEF Next
<1>3. TrackerInv /\ RestInv => Settled
  <2> SUFFICES ASSUME TrackerInv, RestInv PROVE Settled
    OBVIOUS
  <2>1. Marks(net.tok)
    BY SoundMarks DEF TrackerInv
  <2>2. PausedForM2
    BY <2>1, Enabling DEF RestInv, Rests, Automatic, Waits, Marks, PausedForM2
  <2>3. net.expecting \in Nat
    BY DEF TrackerInv, Sound, Typed
  <2>4. ExpectationsMatch
    <3>1. net.tok["PRESTART"] \in Nat
      BY <2>1 DEF Marks
    <3>2. net.tok["PRESTART"] - net.expecting = 0
      BY DEF RestInv, Untold
    <3> QED BY <2>3, <3>1, <3>2 DEF ExpectationsMatch
  <2> QED BY <2>2, <2>4 DEF Settled, NothingEnabled, RestInv, Rests
<1> QED BY <1>1, <1>2, <1>3, TrackerSound, PTL DEF Spec

-----------------------------------------------------------------------------
(***************************************************************************)
(* No item is dropped in silence.  A transition that drops an item buffers *)
(* one error for it, except where the item leaves the line; so the items   *)
(* and the buffered losses together stay what they are.                    *)
(***************************************************************************)
Named   == {"M", "S", "MASTER"}
Missing == {"ITEM_DISAPPEARED", "ITEM_STUCK"}
Located == {"START", "HS", "SWITCH", "RAMP", "END"}

Sent == [to : Named, src : Named, kind : {"Run", "Error"},
         msg : Missing \cup {"ITEM_APPEARED", "RESUME", "SUSPEND", "EXPECT_NEW"}, at : Located]

Reported(s) == Cardinality(LossesIn(s))

\* Losses in a sequence of packets can be counted.
LEMMA ReportedFinite ==
    ASSUME NEW v \in Seq(Sent)
    PROVE  /\ IsFiniteSet(LossesIn(v)) /\ Reported(v) \in Nat
           /\ LossesIn(v) \subseteq 1..Len(v) /\ Len(v) \in Nat
<1>1. IsFiniteSet(1..Len(v)) /\ LossesIn(v) \in SUBSET (1..Len(v)) /\ Len(v) \in Nat
  BY FS_Interval DEF LossesIn
<1> QED BY <1>1, FS_Subset, FS_CardinalityType DEF Reported

\* Those of two sequences are those of both together.
LEMMA ReportedJoined ==
    ASSUME NEW v \in Seq(Sent), NEW w \in Seq(Sent)
    PROVE  v \o w \in Seq(Sent) /\ Reported(v \o w) = Reported(v) + Reported(w)
<1> DEFINE B == {Len(v) + i : i \in LossesIn(w)}
           g == [i \in LossesIn(w) |-> Len(v) + i]
<1>1. /\ Len(v) \in Nat /\ Len(w) \in Nat /\ v \o w \in Seq(Sent)
      /\ Len(v \o w) = Len(v) + Len(w)
  OBVIOUS
<1>2. /\ LossesIn(v) \subseteq 1..Len(v) /\ LossesIn(w) \subseteq 1..Len(w)
      /\ LossesIn(v \o w) \subseteq 1..Len(v \o w)
  BY <1>1, ReportedFinite
<1>3. g \in Bijection(LossesIn(w), B)
  <2>1. g \in [LossesIn(w) -> B]
    OBVIOUS
  <2>2. \A i, j \in LossesIn(w) : i \in Nat /\ j \in Nat /\ (g[i] = g[j] => i = j)
    BY <1>1, <1>2
  <2>3. \A b \in B : \E i \in LossesIn(w) : g[i] = b
    OBVIOUS
  <2> HIDE DEF g, B
  <2> QED BY <2>1, <2>2, <2>3 DEF Bijection, Injection, Surjection, IsInjective
<1>4. IsFiniteSet(B) /\ Cardinality(B) = Reported(w)
  <2>1. ExistsBijection(LossesIn(w), B)
    BY <1>3 DEF ExistsBijection
  <2> HIDE DEF B
  <2> QED BY <2>1, ReportedFinite, FS_Bijection DEF Reported
<1>5. ASSUME NEW i \in 1..Len(v \o w)
      PROVE  i \in LossesIn(v \o w) <=> i \in LossesIn(v) \cup B
  <2>1. CASE i <= Len(v)
    <3>1. i \in 1..Len(v) /\ (v \o w)[i] = v[i]
      BY <1>1, <2>1
    <3>2. i \notin B
      BY <1>1, <1>2, <2>1
    <3> QED BY <1>1, <3>1, <3>2 DEF LossesIn
  <2>2. CASE i > Len(v)
    <3>1. i - Len(v) \in 1..Len(w) /\ (v \o w)[i] = w[i - Len(v)]
      BY <1>1, <2>2
    <3>2. i \notin LossesIn(v)
      BY <1>1, <1>2, <2>2
    <3>3. i \in B <=> i - Len(v) \in LossesIn(w)
      <4>1. ASSUME i \in B PROVE i - Len(v) \in LossesIn(w)
        <5>1. PICK j \in LossesIn(w) : i = Len(v) + j
          BY <4>1
        <5>2. i - Len(v) = j
          BY <1>1, <1>2, <5>1
        <5> QED BY <5>1, <5>2
      <4>2. i = Len(v) + (i - Len(v))
        BY <1>1
      <4> QED BY <4>1, <4>2
    <3> HIDE DEF B
    <3> QED BY <1>1, <3>1, <3>2, <3>3 DEF LossesIn
  <2> QED BY <1>1, <2>1, <2>2
<1>6. \A i \in LossesIn(v) \cup B : i \in 1..Len(v \o w)
  BY <1>1, <1>2
<1>7. LossesIn(v) \cap B = {}
  BY <1>1, <1>2
<1> HIDE DEF B
<1>8. LossesIn(v \o w) = LossesIn(v) \cup B
  BY <1>2, <1>5, <1>6
<1>9. /\ IsFiniteSet(LossesIn(v)) /\ Cardinality(LossesIn(v)) = Reported(v)
      /\ Reported(v) \in Nat /\ Reported(w) \in Nat
  BY ReportedFinite DEF Reported
<1>10. Cardinality(LossesIn(v) \cup B)
         = Cardinality(LossesIn(v)) + Cardinality(B) - Cardinality(LossesIn(v) \cap B)
  BY <1>4, <1>9, FS_Union
<1>11. Cardinality(LossesIn(v) \cap B) = 0
  BY <1>7, FS_EmptySet
<1>12. Reported(v \o w) = Reported(v) + Reported(w) - 0
  BY <1>4, <1>8, <1>9, <1>10, <1>11 DEF Reported
<1> QED BY <1>1, <1>9, <1>12

\* Commands to the modules are no losses, nor is an item that appeared.
LEMMA ReportedNone ==
    ASSUME NEW v \in Seq(Sent),
           \A i \in 1..Len(v) : v[i].to # "MASTER" \/ v[i].msg = "ITEM_APPEARED"
    PROVE  Reported(v) = 0
<1>1. LossesIn(v) = {}
  BY DEF LossesIn
<1> QED BY <1>1, FS_EmptySet DEF Reported

\* One report of another kind is one loss.
LEMMA ReportedOne ==
    ASSUME NEW p \in Sent, p.to = "MASTER", p.msg # "ITEM_APPEARED"
    PROVE  Reported(<<p>>) = 1
<1>1. DOMAIN <<p>> = {1} /\ <<p>>[1] = p
  OBVIOUS
<1>2. LossesIn(<<p>>) = {1}
  BY <1>1 DEF LossesIn
<1> QED BY <1>2, FS_Singleton DEF Reported

(***************************************************************************)
(* What a transition does to the number of items; the sums over module 2   *)
(* leave three places of it.                                               *)
(***************************************************************************)
Weight(t) == Delta(t)["COUNT"] - Delta(t)["M2RDY"] - Delta(t)["PRESTART"]

Exits == {"ITEM_REMOVED", "END_FREE"}

Announces(t) == t.report \in Seq(Sent) /\ Weight(t) + Reported(t.report) = 0

Accounted(t) == \/ Announces(t)
                \/ t = NewOnM1 /\ t.report = <<>> /\ Weight(t) = 1
                \/ t.on[2] \in Exits /\ t.report = <<>> /\ Weight(t) = -1

\* The packets that announce a lost item, and the one that does not.
LEMMA Announcements ==
    /\ <<>> \in Seq(Sent) /\ Reported(<<>>) = 0
    /\ \A src \in {"M", "S"}, at \in Located :
         /\ \A msg \in Missing :
              /\ Losses(src, msg, at) = <<Report(src, msg, at)>>
              /\ <<Report(src, msg, at)>> \in Seq(Sent) /\ Reported(<<Report(src, msg, at)>>) = 1
         /\ <<Report(src, "ITEM_APPEARED", at)>> \in Seq(Sent)
         /\ Reported(<<Report(src, "ITEM_APPEARED", at)>>) = 0
    /\ \A src, at : Losses(src, "ITEM_REMOVED", at) = <<>>
<1>1. <<>> \in Seq(Sent) /\ Reported(<<>>) = 0
  <2>1. <<>> \in Seq(Sent) /\ Len(<<>>) = 0
    OBVIOUS
  <2>2. 1..Len(<<>>) = {}
    BY <2>1
  <2> QED BY <2>1, <2>2, ReportedNone
<1>2. ASSUME NEW src \in {"M", "S"}, NEW at \in Located, NEW msg \in Missing
      PROVE  /\ Losses(src, msg, at) = <<Report(src, msg, at)>>
             /\ <<Report(src, msg, at)>> \in Seq(Sent) /\ Reported(<<Report(src, msg, at)>>) = 1
  <2>1. Losses(src, msg, at) = <<Report(src, msg, at)>>
    BY DEF Losses, Missing
  <2>2. Report(src, msg, at) \in Sent
    BY DEF Report, Packet, Sent, Named, Missing, Located
  <2>3. Report(src, msg, at).to = "MASTER" /\ Report(src, msg, at).msg = msg
    BY DEF Report, Packet
  <2>4. msg # "ITEM_APPEARED"
    BY DEF Missing
  <2>5. <<Report(src, msg, at)>> \in Seq(Sent)
    BY <2>2
  <2> HIDE DEF Missing
  <2> QED BY <2>1, <2>2, <2>3, <2>4, <2>5, ReportedOne
<1>3. ASSUME NEW src \in {"M", "S"}, NEW at \in Located
      PROVE  /\ <<Report(src, "ITEM_APPEARED", at)>> \in Seq(Sent)
             /\ Reported(<<Report(src, "ITEM_APPEARED", at)>>) = 0
  <2>1. Report(src, "ITEM_APPEARED", at) \in Sent
    BY DEF Report, Packet, Sent, Named, Missing, Located
  <2>2. Report(src, "ITEM_APPEARED", at).msg = "ITEM_APPEARED"
    BY DEF Report, Packet
  <2>3. <<Report(src, "ITEM_APPEARED", at)>> \in Seq(Sent)
    BY <2>1
  <2>4. \A i \in 1..Len(<<Report(src, "ITEM_APPEARED", at)>>) :
          <<Report(src, "ITEM_APPEARED", at)>>[i].msg = "ITEM_APPEARED"
    BY <2>2
  <2> QED BY <2>3, <2>4, ReportedNone
<1>4. \A src, at : Losses(src, "ITEM_REMOVED", at) = <<>>
  BY DEF Losses
<1> QED BY <1>1, <1>2, <1>3, <1>4

\* Every transition of the table accounts for the items it drops.
LEMMA AllAccounted ==
    /\ \A t \in Automatic : t.report = <<>> /\ Weight(t) = 0
    /\ \A t \in Earlier \cup Later : Accounted(t)
    /\ \A t \in Later : Announces(t) /\ t.on[2] \notin Exits /\ t.on # NewOnM1.on
<1>1. \A t \in Automatic : t.report = <<>> /\ Weight(t) = 0
  BY PlaceNames DEF Automatic, StartHandOver, StartM1, StopEmptyM1, PauseM1, UnpauseM1, Transition,
     Weight, Delta, Count
<1>2. \A t \in Moves : t.report = <<>> /\ Weight(t) = 0
  BY PlaceNames DEF Moves, Move, Transition, Weight, Delta, Count
<1>3. \A msg, at : \A seg \in M1Segment : Weight(LossOnM1(msg, at, seg)) = -1
  BY PlaceNames DEF LossOnM1, M1Segment, Transition, Weight, Delta, Count
<1>4. \A msg, at : \A seg \in M2Segment : Weight(LossOnM2(msg, at, seg)) = -1
  BY PlaceNames DEF LossOnM2, M2Segment, Transition, Weight, Delta, Count
<1>5. \A seg \in M1Segment, msg \in Missing, at \in Located :
        Announces(LossOnM1(msg, at, seg))
  <2>1. \A seg, msg, at : LossOnM1(msg, at, seg).report = Losses("M", msg, at)
    BY DEF LossOnM1, Transition
  <2>2. \A msg \in Missing, at \in Located :
          Losses("M", msg, at) \in Seq(Sent) /\ Reported(Losses("M", msg, at)) = 1
    BY Announcements
  <2>3. \A x \in Int, y \in Int : x = -1 /\ y = 1 => x + y = 0
    OBVIOUS
  <2> QED BY <1>3, <2>1, <2>2, <2>3 DEF Announces
<1>6. \A seg \in M2Segment, msg \in Missing, at \in Located :
        Announces(LossOnM2(msg, at, seg))
  <2>1. \A seg, msg, at : LossOnM2(msg, at, seg).report = Losses("S", msg, at)
    BY DEF LossOnM2, Transition
  <2>2. \A msg \in Missing, at \in Located :
          Losses("S", msg, at) \in Seq(Sent) /\ Reported(Losses("S", msg, at)) = 1
    BY Announcements
  <2>3. \A x \in Int, y \in Int : x = -1 /\ y = 1 => x + y = 0
    OBVIOUS
  <2> QED BY <1>4, <2>1, <2>2, <2>3 DEF Announces
<1>7. \A seg \in M1Segment : Accounted(LossOnM1("ITEM_REMOVED", "START", seg))
  <2>1. \A seg : /\ LossOnM1("ITEM_REMOVED", "START", seg).report = Losses("M", "ITEM_REMOVED", "START")
                 /\ LossOnM1("ITEM_REMOVED", "START", seg).on[2] = "ITEM_REMOVED"
    BY DEF LossOnM1, Transition
  <2> QED BY <1>3, <2>1, Announcements DEF Accounted, Exits
<1>8. \A seg \in M2Segment : Accounted(LossOnM2("ITEM_REMOVED", "START", seg))
  <2>1. \A seg : /\ LossOnM2("ITEM_REMOVED", "START", seg).report = Losses("S", "ITEM_REMOVED", "START")
                 /\ LossOnM2("ITEM_REMOVED", "START", seg).on[2] = "ITEM_REMOVED"
    BY DEF LossOnM2, Transition
  <2> QED BY <1>4, <2>1, Announcements DEF Accounted, Exits
<1>9. \A t \in LossesOnM1 : Accounted(t)
  BY <1>5, <1>7, SegmentNames DEF LossesOnM1, Accounted, Missing, Located
<1>10. \A t \in LossesOnM2 : Accounted(t)
  BY <1>6, <1>8, SegmentNames DEF LossesOnM2, Accounted, Missing, Located
<1>11. /\ NewOnM1.report = <<>> /\ Weight(NewOnM1) = 1
       /\ NewOnM2.report = <<>> /\ Weight(NewOnM2) = 0
       /\ LeaveM2.report = <<>> /\ Weight(LeaveM2) = -1 /\ LeaveM2.on[2] = "END_FREE"
       /\ LostInHandOver.report = <<Report("S", "ITEM_DISAPPEARED", "START")>> /\ Weight(LostInHandOver) = -1
       /\ UnexpectedOnM2.report = <<Report("S", "ITEM_APPEARED", "START")>> /\ Weight(UnexpectedOnM2) = 0
  BY PlaceNames DEF NewOnM1, NewOnM2, LeaveM2, LostInHandOver, UnexpectedOnM2, Transition, Weight, Delta, Count
<1>12. Announces(LostInHandOver) /\ Announces(UnexpectedOnM2) /\ Announces(NewOnM2)
  <2>1. /\ LostInHandOver.report \in Seq(Sent) /\ Reported(LostInHandOver.report) = 1
        /\ UnexpectedOnM2.report \in Seq(Sent) /\ Reported(UnexpectedOnM2.report) = 0
        /\ NewOnM2.report \in Seq(Sent) /\ Reported(NewOnM2.report) = 0
    BY <1>11, Announcements DEF Missing, Located
  <2> QED BY <1>11, <2>1 DEF Announces
<1>13. \A t \in Moves : Announces(t)
  <2> SUFFICES ASSUME NEW t \in Moves PROVE Announces(t)
    OBVIOUS
  <2>1. t.report = <<>> /\ Weight(t) = 0
    BY <1>2
  <2>2. t.report \in Seq(Sent) /\ Reported(t.report) = 0
    BY <2>1, Announcements
  <2>3. Weight(t) + Reported(t.report) = 0
    BY <2>1, <2>2
  <2> QED BY <2>2, <2>3 DEF Announces
<1>14. \A t \in {NewOnM1, NewOnM2, LostInHandOver, LeaveM2} : Accounted(t)
  BY <1>11, <1>12 DEF Accounted, Exits
<1>15. \A t \in Later : Announces(t)
  BY <1>5, <1>6, <1>12, SegmentNames DEF Later, Missing, Located
<1>16. \A t \in Later : t.on[2] \notin Exits /\ t.on # NewOnM1.on
  BY DEF Later, UnexpectedOnM2, LossOnM1, LossOnM2, NewOnM1, Transition, Exits
<1> QED BY <1>1, <1>9, <1>10, <1>13, <1>14, <1>15, <1>16 DEF Earlier, Accounted

-----------------------------------------------------------------------------
\* No loss has been sent yet, and what is in the buffers are packets.
Listed(n) == n.out \in Seq(Sent) /\ n.buf \in Seq(Sent) /\ Reported(n.out) = 0

\* The number of items, as the sums over module 1 and module 2 give it.
LEMMA ItemsAre ==
    ASSUME NEW n, Sound(n)
    PROVE  /\ Items(n) = n.tok["COUNT"] + 1 - n.tok["M2RDY"] - n.tok["PRESTART"]
           /\ Items(n) \in Int
<1>1. \A p \in Place : n.tok[p] \in Nat
  BY DEF Sound, Typed
<1>2. /\ n.tok["COUNT"] \in Nat /\ n.tok["M2RDY"] \in Nat /\ n.tok["PRESTART"] \in Nat
      /\ OnM1(n) \in Nat /\ OnM2(n) \in Nat
  BY <1>1, PlaceNames, SegmentNames DEF OnM1, OnM2
<1> QED BY <1>2 DEF Sound, LoadCounted, OneOnM2, Items

\* What the listeners send are commands.
LEMMA OrdersSent ==
    \A tok : /\ M2Orders(tok) \in Seq(Sent) /\ Reported(M2Orders(tok)) = 0
             /\ M1Orders(tok) \in Seq(Sent) /\ Reported(M1Orders(tok)) = 0
<1> SUFFICES ASSUME NEW tok
             PROVE  /\ M2Orders(tok) \in Seq(Sent) /\ Reported(M2Orders(tok)) = 0
                    /\ M1Orders(tok) \in Seq(Sent) /\ Reported(M1Orders(tok)) = 0
  OBVIOUS
<1>1. \A to \in {"M", "S"}, msg \in {"RESUME", "SUSPEND", "EXPECT_NEW"} :
        Command(to, msg) \in Sent /\ Command(to, msg).to # "MASTER"
  BY DEF Command, Packet, Sent, Named, Located
<1>2. M2Orders(tok) \in Seq(Sent) /\ M1Orders(tok) \in Seq(Sent)
  BY <1>1 DEF M2Orders, M1Orders
<1>3. /\ \A i \in 1..Len(M2Orders(tok)) : M2Orders(tok)[i].to # "MASTER"
      /\ \A i \in 1..Len(M1Orders(tok)) : M1Orders(tok)[i].to # "MASTER"
  BY <1>1 DEF M2Orders, M1Orders
<1> QED BY <1>2, <1>3, ReportedNone

\* Adding up.
LEMMA Sums == \A a, b, c, d \in Int : a + c + (b + d) = a + b + (c + d)
OBVIOUS

\* A firing changes the items by the weight of its transition, and buffers its
\* errors.
LEMMA FireAccounts ==
    ASSUME NEW n, Sound(n), Listed(n), NEW t, Balanced(t), t.report \in Seq(Sent), CanFire(n, t)
    PROVE  LET m == Fire(n, t)
           IN  /\ Sound(m) /\ Listed(m)
               /\ Items(m) = Items(n) + Weight(t) /\ Weight(t) \in Int
               /\ Reported(m.buf) = Reported(n.buf) + Reported(t.report)
<1> DEFINE m   == Fire(n, t)
           end == IF Changes(t, "M2_END") THEN M2Orders(m.tok) ELSE <<>>
           rdy == IF Changes(t, "M2RDY") THEN M2Orders(m.tok) ELSE <<>>
           run == IF Changes(t, "RUNNING") THEN M1Orders(m.tok) ELSE <<>>
<1>1. Sound(m)
  BY FireSound
<1>2. \A p \in Place : m.tok[p] = n.tok[p] - Count(p \in t.take) + Count(p \in t.give)
  BY DEF Fire, Marked
<1>3. m.out = n.out \o end \o rdy \o run /\ m.buf = n.buf \o t.report
  BY DEF Fire
<1>4. /\ end \in Seq(Sent) /\ rdy \in Seq(Sent) /\ run \in Seq(Sent)
      /\ Reported(end) = 0 /\ Reported(rdy) = 0 /\ Reported(run) = 0
  BY OrdersSent, Announcements
<1> HIDE DEF m, end, rdy, run
<1>5. \A v, w \in Seq(Sent) : Reported(v) = 0 /\ Reported(w) = 0
                               => v \o w \in Seq(Sent) /\ Reported(v \o w) = 0
  <2> SUFFICES ASSUME NEW v \in Seq(Sent), NEW w \in Seq(Sent), Reported(v) = 0, Reported(w) = 0
               PROVE  v \o w \in Seq(Sent) /\ Reported(v \o w) = 0
    OBVIOUS
  <2> QED BY ReportedJoined
<1>6. n.out \o end \in Seq(Sent) /\ Reported(n.out \o end) = 0
  BY <1>4, <1>5 DEF Listed
<1>7. m.out \in Seq(Sent) /\ Reported(m.out) = 0
  <2> DEFINE v == n.out \o end
             w == v \o rdy
  <2> HIDE DEF v
  <2>1. w \in Seq(Sent) /\ Reported(w) = 0
    BY <1>4, <1>5, <1>6 DEF v
  <2> HIDE DEF w
  <2>2. w \o run \in Seq(Sent) /\ Reported(w \o run) = 0
    BY <1>4, <1>5, <2>1
  <2> QED BY <1>3, <2>2 DEF w, v
<1>8. m.buf \in Seq(Sent) /\ Reported(m.buf) = Reported(n.buf) + Reported(t.report)
  BY <1>3, ReportedJoined DEF Listed
<1>9. Items(m) = Items(n) + Weight(t) /\ Weight(t) \in Int
  <2>1. \A p \in {"COUNT", "M2RDY", "PRESTART"} :
          /\ m.tok[p] = n.tok[p] + Delta(t)[p] /\ Delta(t)[p] \in Int /\ n.tok[p] \in Int
    <3> SUFFICES ASSUME NEW p \in {"COUNT", "M2RDY", "PRESTART"}
                 PROVE  /\ m.tok[p] = n.tok[p] + Delta(t)[p]
                        /\ Delta(t)[p] \in Int /\ n.tok[p] \in Int
      OBVIOUS
    <3>1. p \in Place
      BY PlaceNames
    <3>2. Delta(t)[p] = Count(p \in t.give) - Count(p \in t.take)
      BY <3>1 DEF Delta
    <3>3. n.tok[p] \in Int
      BY <3>1 DEF Sound, Typed
    <3>4. Count(p \in t.give) \in Int /\ Count(p \in t.take) \in Int
      BY DEF Count
    <3>5. m.tok[p] = n.tok[p] - Count(p \in t.take) + Count(p \in t.give)
      BY <1>2, <3>1
    <3> QED BY <3>2, <3>3, <3>4, <3>5
  <2>2. /\ Items(m) = m.tok["COUNT"] + 1 - m.tok["M2RDY"] - m.tok["PRESTART"]
        /\ Items(n) = n.tok["COUNT"] + 1 - n.tok["M2RDY"] - n.tok["PRESTART"]
    BY <1>1, ItemsAre
  <2>3. Weight(t) = Delta(t)["COUNT"] - Delta(t)["M2RDY"] - Delta(t)["PRESTART"]
    BY DEF Weight
  <2> DEFINE a == n.tok["COUNT"]    d == Delta(t)["COUNT"]
             b == n.tok["M2RDY"]    f == Delta(t)["M2RDY"]
             c == n.tok["PRESTART"] g == Delta(t)["PRESTART"]
  <2>4. /\ m.tok["COUNT"] = a + d /\ m.tok["M2RDY"] = b + f /\ m.tok["PRESTART"] = c + g
        /\ a \in Int /\ b \in Int /\ c \in Int /\ d \in Int /\ f \in Int /\ g \in Int
    BY <2>1
  <2>5. Items(n) = a + 1 - b - c /\ Weight(t) = d - f - g
    BY <2>2, <2>3
  <2>6. Items(m) = (a + d) + 1 - (b + f) - (c + g)
    BY <2>2, <2>4
  <2> HIDE DEF a, b, c, d, f, g
  <2> QED BY <2>4, <2>5, <2>6
<1> QED BY <1>1, <1>7, <1>8, <1>9 DEF Listed, m

\* NIL transitions leave both alone.
LEMMA SettleAccounts ==
    ASSUME NEW n, Sound(n), Listed(n)
    PROVE  LET m == Settle(n)
           IN  Sound(m) /\ Listed(m) /\ Items(m) = Items(n) /\ Reported(m.buf) = Reported(n.buf)
<1>1. ASSUME NEW x, Sound(x), Listed(x)
      PROVE  /\ Sound(Round(x)) /\ Listed(Round(x))
             /\ Items(Round(x)) = Items(x) /\ Reported(Round(x).buf) = Reported(x.buf)
  <2>1. ASSUME NEW t \in Automatic, CanFire(x, t)
        PROVE  /\ Sound(Fire(x, t)) /\ Listed(Fire(x, t))
               /\ Items(Fire(x, t)) = Items(x) /\ Reported(Fire(x, t).buf) = Reported(x.buf)
    <3>1. Balanced(t) /\ t.report = <<>> /\ Weight(t) = 0
      BY AllBalanced, AllAccounted
    <3>2. t.report \in Seq(Sent) /\ Reported(t.report) = 0
      BY <3>1, Announcements
    <3>3. Items(x) \in Int /\ Reported(x.buf) \in Int
      BY <1>1, ItemsAre, ReportedFinite DEF Listed
    <3> DEFINE y == Fire(x, t)
    <3>4. /\ Sound(y) /\ Listed(y) /\ Items(y) = Items(x) + Weight(t)
          /\ Reported(y.buf) = Reported(x.buf) + Reported(t.report)
      BY <1>1, <2>1, <3>1, <3>2, FireAccounts
    <3> HIDE DEF y
    <3>5. Items(y) = Items(x) /\ Reported(y.buf) = Reported(x.buf)
      BY <3>1, <3>2, <3>3, <3>4
    <3> QED BY <3>4, <3>5 DEF y
  <2> QED BY <1>1, <2>1 DEF Round, Automatic
<1> QED BY <1>1 DEF Settle

\* What a call may do to k items: drop those it has errors for, or let one
\* leave without any.
Fair(k, items, losses) == \/ items + losses = k
                          \/ items >= k - 1 /\ losses = 0

\* The transitions of an event do so.
LEMMA TriggeredAccounts ==
    ASSUME NEW n, Sound(n), Listed(n), n.buf = <<>>, NEW e
    PROVE  LET m == Triggered(n, e)
           IN  Sound(m) /\ Listed(m) /\ Fair(Items(n), Items(m), Reported(m.buf))
<1> DEFINE L == Ready(n, Later, e)
           E == Ready(n, Earlier, e)
           x == FireOneOf(n, L)
           y == FireOneOf(x, E)
<1>1. /\ \A t \in L : Balanced(t) /\ Announces(t) /\ t.on = e
      /\ \A t \in E : Balanced(t) /\ Accounted(t) /\ t.on = e
      /\ e[2] \in Exits \/ e = NewOnM1.on => L = {}
  BY AllBalanced, AllAccounted DEF Ready
<1>2. Items(n) \in Int /\ Reported(n.buf) = 0
  BY ItemsAre, Announcements
<1>0. Triggered(n, e) = y
  BY DEF Triggered
<1>3. /\ Sound(x) /\ Listed(x) /\ Items(x) + Reported(x.buf) = Items(n)
      /\ L = {} => x = n
  <2>1. CASE \E t \in L : CanFire(n, t)
    <3> DEFINE u == CHOOSE t \in L : CanFire(n, t)
    <3>1. u \in L /\ CanFire(n, u)
      BY <2>1
    <3>2. x = Fire(n, u)
      BY <2>1 DEF FireOneOf
    <3> HIDE DEF u, x, L
    <3>3. u.report \in Seq(Sent) /\ Weight(u) + Reported(u.report) = 0 /\ Balanced(u)
      BY <1>1, <3>1 DEF Announces
    <3>4. Reported(u.report) \in Int
      BY <3>3, ReportedFinite
    <3>5. /\ Sound(x) /\ Listed(x) /\ Weight(u) \in Int
          /\ Items(x) = Items(n) + Weight(u)
          /\ Reported(x.buf) = Reported(n.buf) + Reported(u.report)
      BY <3>1, <3>2, <3>3, FireAccounts
    <3>6. Items(x) + Reported(x.buf) = Items(n) + Reported(n.buf) + (Weight(u) + Reported(u.report))
      BY <1>2, <3>4, <3>5, Sums
    <3>7. Items(x) + Reported(x.buf) = Items(n)
      BY <1>2, <3>3, <3>6
    <3> QED BY <3>1, <3>5, <3>7
  <2>2. CASE ~ \E t \in L : CanFire(n, t)
    <3>1. x = n
      BY <2>2 DEF FireOneOf
    <3> HIDE DEF x
    <3> QED BY <1>2, <3>1
  <2> QED BY <2>1, <2>2
<1> HIDE DEF L, x
<1>4. Items(x) \in Int /\ Reported(x.buf) \in Int
  BY <1>3, ItemsAre, ReportedFinite DEF Listed
<1>5. ASSUME \E t \in E : CanFire(x, t)
      PROVE  Sound(y) /\ Listed(y) /\ Fair(Items(n), Items(y), Reported(y.buf))
  <2> DEFINE u == CHOOSE t \in E : CanFire(x, t)
  <2>1. u \in E /\ CanFire(x, u)
    BY <1>5
  <2>2. y = Fire(x, u)
    BY <1>5 DEF FireOneOf
  <2> HIDE DEF u, y, E
  <2>3. Balanced(u) /\ Accounted(u) /\ u.on = e
    BY <1>1, <2>1
  <2>4. u.report \in Seq(Sent) /\ Reported(u.report) \in Int
    <3>1. u.report = <<>> \/ u.report \in Seq(Sent)
      BY <2>3 DEF Accounted, Announces
    <3>2. u.report \in Seq(Sent)
      BY <3>1, Announcements
    <3> QED BY <3>2, ReportedFinite
  <2>5. /\ Sound(y) /\ Listed(y) /\ Weight(u) \in Int
        /\ Items(y) = Items(x) + Weight(u)
        /\ Reported(y.buf) = Reported(x.buf) + Reported(u.report)
    BY <1>3, <2>1, <2>2, <2>3, <2>4, FireAccounts
  <2>6. CASE Announces(u)
    <3>1. Weight(u) + Reported(u.report) = 0
      BY <2>6 DEF Announces
    <3>2. Items(y) + Reported(y.buf) = Items(n)
      <4>1. Items(y) + Reported(y.buf) = Items(x) + Reported(x.buf) + (Weight(u) + Reported(u.report))
        BY <1>4, <2>4, <2>5, Sums
      <4> QED BY <1>2, <1>3, <3>1, <4>1
    <3> QED BY <2>5, <3>2 DEF Fair
  <2>7. CASE u.report = <<>> /\ Weight(u) >= -1 /\ (u = NewOnM1 \/ u.on[2] \in Exits)
    <3>1. x = n
      BY <1>1, <1>3, <2>3, <2>7
    <3>2. Reported(u.report) = 0
      BY <2>7, Announcements
    <3>3. Items(y) >= Items(n) - 1 /\ Reported(y.buf) = 0
      BY <1>2, <2>5, <2>7, <3>1, <3>2
    <3> QED BY <2>5, <3>3 DEF Fair
  <2> QED BY <2>3, <2>6, <2>7 DEF Accounted
<1>6. ASSUME ~ \E t \in E : CanFire(x, t)
      PROVE  Sound(y) /\ Listed(y) /\ Fair(Items(n), Items(y), Reported(y.buf))
  <2>1. y = x
    BY <1>6 DEF FireOneOf
  <2> QED BY <1>3, <2>1 DEF Fair
<1> QED BY <1>0, <1>5, <1>6

\* So does Run::handle, in what it has sent when it returns.
LEMMA HandleAccounts ==
    ASSUME NEW n, Sound(n), n.buf = <<>>, NEW e \in Event
    PROVE  LET m == Handle(n, e, <<>>)
           IN  /\ Items(n) \in Int /\ Items(m) \in Int /\ LossReports(m) \in Int
               /\ Fair(Items(n), Items(m), LossReports(m))
<1> DEFINE k == [n EXCEPT !.out = <<>>]
           a == Triggered(k, e)
           m == Process(k, e)
           h == Handle(n, e, <<>>)
<1>0. <<>> \in Seq(Sent) /\ Reported(<<>>) = 0
  BY Announcements
<1>1. /\ k.tok = n.tok /\ k.size = n.size /\ k.motor = n.motor /\ k.expecting = n.expecting
      /\ k.out = <<>> /\ k.buf = <<>>
  OBVIOUS
<1>2. m = Settle(a)
  BY DEF Process
<1>3. h.tok = m.tok
  BY HandleNet
<1>4. \A x : Flush(x).out = x.out \o x.buf
  <2> SUFFICES ASSUME NEW x PROVE Flush(x).out = x.out \o x.buf
    OBVIOUS
  <2> DEFINE y == x.out \o x.buf
  <2>1. Flush(x) = [x EXCEPT !.out = y, !.buf = <<>>]
    BY DEF Flush
  <2> HIDE DEF y
  <2>2. Flush(x).out = y
    BY <2>1
  <2> QED BY <2>2 DEF y
<1>5. h.buf = <<>>
  BY HandleFlushes
<1>6. /\ e[2] = "ANALYSE" /\ m.size[SwitchOf(e[1])] = 0 => h = m
      /\ e[2] = "ANALYSE" /\ m.size[SwitchOf(e[1])] # 0 => h.out = (m.out \o <<>>) \o m.buf
      /\ e[2] = "ITEM_APPEARED" => h.out = m.out \o Append(m.buf, Report(e[1], "ITEM_APPEARED", e[3]))
      /\ e[2] \notin {"ANALYSE", "ITEM_APPEARED"} => h.out = m.out \o m.buf
  <2> DEFINE v == m.out \o <<>>
             w == Append(m.buf, Report(e[1], "ITEM_APPEARED", e[3]))
  <2>1. h = IF e[2] = "ANALYSE"
              THEN IF m.size[SwitchOf(e[1])] = 0 THEN m ELSE Flush([m EXCEPT !.out = v])
            ELSE IF e[2] = "ITEM_APPEARED" THEN Flush([m EXCEPT !.buf = w])
            ELSE Flush(m)
    BY DEF Handle
  <2> HIDE DEF m, h, v, w
  <2>2. [m EXCEPT !.out = v].out = v /\ [m EXCEPT !.out = v].buf = m.buf
    OBVIOUS
  <2>3. [m EXCEPT !.buf = w].out = m.out /\ [m EXCEPT !.buf = w].buf = w
    OBVIOUS
  <2>4. /\ Flush([m EXCEPT !.out = v]).out = v \o m.buf
        /\ Flush([m EXCEPT !.buf = w]).out = m.out \o w
        /\ Flush(m).out = m.out \o m.buf
    BY <1>4, <2>2, <2>3
  <2>5. CASE e[2] = "ANALYSE"
    BY <2>1, <2>4, <2>5 DEF v
  <2>6. CASE e[2] = "ITEM_APPEARED"
    BY <2>1, <2>4, <2>6 DEF w
  <2>7. CASE e[2] \notin {"ANALYSE", "ITEM_APPEARED"}
    BY <2>1, <2>4, <2>7
  <2> QED BY <2>5, <2>6, <2>7
<1> HIDE DEF k, h
<1>7. Sound(k) /\ Listed(k) /\ Items(k) = Items(n)
  <2>1. n.expecting \in Nat
    BY DEF Sound, Typed
  <2>2. Sound(k)
    BY <1>1, <2>1, OnlyBookkeeping
  <2> QED BY <1>0, <1>1, <2>2 DEF Listed, Items, OnM1, OnM2
<1>8. Sound(a) /\ Listed(a) /\ Fair(Items(k), Items(a), Reported(a.buf))
  BY <1>1, <1>7, TriggeredAccounts
<1> HIDE DEF a, m
<1>9. Sound(m) /\ Listed(m) /\ Fair(Items(n), Items(m), Reported(m.buf))
  BY <1>2, <1>7, <1>8, SettleAccounts
<1>10. Items(h) = Items(m) /\ Items(m) \in Int /\ Items(n) \in Int
  BY <1>3, <1>9, ItemsAre DEF Items, OnM1, OnM2
<1>11. LossReports(h) = Reported(h.out)
  BY DEF LossReports, Reported
<1>12. /\ m.out \in Seq(Sent) /\ m.buf \in Seq(Sent) /\ Reported(m.out) = 0
       /\ Reported(m.buf) \in Nat
  BY <1>9, ReportedFinite DEF Listed
<1>13. Reported(m.out \o m.buf) = Reported(m.buf)
  BY <1>12, ReportedJoined
<1>14. Reported(h.out) = Reported(m.buf)
  <2>1. CASE e[2] = "ANALYSE" /\ m.size[SwitchOf(e[1])] = 0
    BY <1>0, <1>5, <1>6, <1>12, <2>1
  <2>2. CASE e[2] = "ANALYSE" /\ m.size[SwitchOf(e[1])] # 0
    <3>1. m.out \o <<>> = m.out
      BY <1>12
    <3> QED BY <1>6, <1>13, <2>2, <3>1
  <2>3. CASE e[2] = "ITEM_APPEARED"
    <3> DEFINE p == Report(e[1], "ITEM_APPEARED", e[3])
    <3>1. e[1] \in {"M", "S"} /\ e[3] \in Located
      BY DEF Event, Faults, Located
    <3>2. <<p>> \in Seq(Sent) /\ Reported(<<p>>) = 0 /\ p \in Sent
      <4>1. <<p>> \in Seq(Sent) /\ Reported(<<p>>) = 0
        BY <3>1, Announcements
      <4>2. p \in Sent
        BY <3>1 DEF Report, Packet, Sent, Named, Missing, Located
      <4> QED BY <4>1, <4>2
    <3> HIDE DEF p
    <3>3. Append(m.buf, p) = m.buf \o <<p>>
      BY <1>12, <3>2
    <3> DEFINE w == m.buf \o <<p>>
    <3>4. w \in Seq(Sent) /\ Reported(w) = Reported(m.buf)
      <4>1. w \in Seq(Sent) /\ Reported(w) = Reported(m.buf) + Reported(<<p>>)
        BY <1>12, <3>2, ReportedJoined
      <4> HIDE DEF w
      <4> QED BY <1>12, <3>2, <4>1
    <3> HIDE DEF w
    <3>5. Reported(m.out \o w) = Reported(m.buf)
      <4>1. Reported(m.out \o w) = Reported(m.out) + Reported(w)
        BY <1>12, <3>4, ReportedJoined
      <4> QED BY <1>12, <3>4, <4>1
    <3>6. h.out = m.out \o Append(m.buf, p)
      BY <1>6, <2>3 DEF p
    <3> QED BY <3>3, <3>5, <3>6 DEF w
  <2>4. CASE e[2] \notin {"ANALYSE", "ITEM_APPEARED"}
    BY <1>6, <1>13, <2>4
  <2> QED BY <2>1, <2>2, <2>3, <2>4
<1> QED BY <1>9, <1>10, <1>11, <1>12, <1>14 DEF h

\* An item never disappears from the tracker in silence, whatever order the
\* modules report in: each one it drops is announced in an error of its own, or
\* is the one item that left the line with this packet.
THEOREM NeverSilent == Spec => NoSilentLoss
<1>1. TrackerInv /\ [Next]_vars
        => [Items(net') < Items(net)
             => \/ LossReports(net') = Items(net) - Items(net')
                \/ LossReports(net') = 0 /\ Items(net') = Items(net) - 1]_vars
  <2> SUFFICES ASSUME TrackerInv, Next
               PROVE  Items(net') < Items(net)
                        => \/ LossReports(net') = Items(net) - Items(net')
                           \/ LossReports(net') = 0 /\ Items(net') = Items(net) - 1
    OBVIOUS
  <2>1. ASSUME NEW e \in Event, Receive(e), Items(net') < Items(net)
        PROVE  \/ LossReports(net') = Items(net) - Items(net')
               \/ LossReports(net') = 0 /\ Items(net') = Items(net) - 1
    <3> DEFINE n == Answered(net, e)
    <3>1. /\ n.tok = net.tok /\ n.size = net.size /\ n.motor = net.motor /\ n.buf = net.buf
          /\ n.expecting \in Nat
      BY DEF Answered, TrackerInv, Sound, Typed
    <3>2. net' = Handle(n, e, <<>>)
      BY <2>1 DEF Receive
    <3> HIDE DEF n
    <3>3. Sound(n) /\ n.buf = <<>> /\ Items(n) = Items(net)
      BY <3>1, OnlyBookkeeping DEF TrackerInv, Items, OnM1, OnM2
    <3>4. /\ Items(net) \in Int /\ Items(net') \in Int /\ LossReports(net') \in Int
          /\ Fair(Items(net), Items(net'), LossReports(net'))
      BY <3>2, <3>3, HandleAccounts
    <3> QED BY <2>1, <3>4 DEF Fair
  <2>2. CASE Enter
    <3>1. net'.tok = net.tok
      BY <2>2 DEF Enter, Resend
    <3>2. Items(net') = Items(net) /\ Items(net) \in Int
      BY <3>1, ItemsAre DEF TrackerInv, Items, OnM1, OnM2
    <3> QED BY <3>2
  <2> QED BY <2>1, <2>2 DEF Next
<1> QED BY <1>1, TrackerSound, PTL DEF Spec, NoSilentLoss
=============================================================================
