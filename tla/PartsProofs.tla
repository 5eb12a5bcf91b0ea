----------------------------- MODULE PartsProofs -----------------------------
(***************************************************************************)
(* Proofs about the components of Parts, one section each.  A section has  *)
(* the inductive invariant of its component, the lemmas that it holds in   *)
(* the beginning and is kept by every step, and the theorem about the      *)
(* component's own specification.  The last section puts them together.    *)
(***************************************************************************)
EXTENDS Parts, MasterRunProofs, SequenceTheorems

-----------------------------------------------------------------------------
(***************************************************************************)
(* Sensors, for every set of pins and every number of events that wait.    *)
(***************************************************************************)
SensePhases == phase \in {"start", "checked", "subscribed"} /\ halAt \in {"wait", "read", "notify"}

SenseQueue == events \in Seq(Pin)

\* One interrupt at a time: there is a pulse exactly while the interrupt is
\* masked, and no flag is set without a pulse to deal with it.
OnePulse == /\ masked \in BOOLEAN
            /\ pulses = IF masked THEN 1 ELSE 0
            /\ ~masked => flagged = {}

\* Without a pulse to come, what has been read is what the pins are.
ReadAgain == ~masked /\ halAt # "read" => field = pins

\* Nothing waits before anybody has subscribed, nor outside update().
NothingEarly == /\ halAt # "notify" => left = {}
                /\ phase # "subscribed" => left = {} /\ events = <<>>

Coming(p) == \E i \in DOMAIN events : events[i] = p

\* What the handler does not know is on its way to it, or was missed.
SenseAccounted == phase # "start" =>
                 \A p : ~(p \in known <=> p \in field) => p \in missed \/ p \in left \/ Coming(p)

SenseInv == SensePhases /\ SenseQueue /\ OnePulse /\ ReadAgain /\ NothingEarly /\ SenseAccounted

-----------------------------------------------------------------------------
(***************************************************************************)
(* What an event that is taken or sent leaves in the channel.              *)
(***************************************************************************)
LEMMA TailKeeps ==
    ASSUME NEW S, NEW s \in Seq(S), s # <<>>, NEW i \in DOMAIN s, s[i] # Head(s)
    PROVE  \E j \in DOMAIN Tail(s) : Tail(s)[j] = s[i]
<1>1. i \in 1..Len(s) /\ i # 1 /\ Len(s) \in Nat
  OBVIOUS
<1>2. i - 1 \in DOMAIN Tail(s) /\ Tail(s)[i - 1] = s[i]
  BY <1>1
<1> QED BY <1>2

\* What was in a queue is in it after something has joined.
LEMMA AppendKeeps ==
    ASSUME NEW S, NEW s \in Seq(S), NEW x \in S, NEW y,
           y = x \/ \E i \in DOMAIN s : s[i] = y
    PROVE  \E j \in DOMAIN Append(s, x) : Append(s, x)[j] = y
<1>1. DOMAIN Append(s, x) = 1..(Len(s) + 1) /\ DOMAIN s = 1..Len(s) /\ Len(s) \in Nat
  OBVIOUS
<1>2. CASE y = x
  <2>1. Append(s, x)[Len(s) + 1] = y BY <1>2
  <2> QED BY <1>1, <2>1
<1>3. CASE \E i \in DOMAIN s : s[i] = y
  <2>1. PICK i \in DOMAIN s : s[i] = y BY <1>3
  <2>2. Append(s, x)[i] = y BY <1>1, <2>1
  <2> QED BY <1>1, <2>1, <2>2
<1> QED BY <1>2, <1>3

\* A run of the sensor path begins with all that accounted for.
LEMMA SensorsStart == Sense!Init => SenseInv
<1> SUFFICES ASSUME Sense!Init PROVE SenseInv OBVIOUS
<1>1. SensePhases /\ SenseQueue
  BY DEF Sense!Init, SensePhases, SenseQueue
<1>3. OnePulse
  BY DEF Sense!Init, OnePulse
<1>2. ReadAgain /\ NothingEarly /\ SenseAccounted
  BY DEF Sense!Init, ReadAgain, NothingEarly, SenseAccounted
<1> QED BY <1>1, <1>2, <1>3 DEF SenseInv

(***************************************************************************)
(* No edge is lost between reading the pins and clearing the flags: an     *)
(* edge that comes in between leaves a pulse.                              *)
(***************************************************************************)
LEMMA SensorsGoOn == SenseInv /\ [Sense!Next]_(Sense!vars) => SenseInv'
<1> SUFFICES ASSUME SenseInv, [Sense!Next]_(Sense!vars) PROVE SenseInv'
  OBVIOUS
<1> USE DEF SenseInv, SensePhases
<1>1. ASSUME NEW p \in Pin, Sense!Change(p) PROVE SenseInv'
  BY <1>1 DEF Sense!Change, SenseQueue, OnePulse, ReadAgain, NothingEarly, SenseAccounted, Coming
<1>2. CASE Sense!Receive
  <2>1. OnePulse'
    <3>1. masked /\ pulses = 1
      BY <1>2 DEF Sense!Receive, OnePulse
    <3>2. /\ flagged' = flagged
          /\ masked' = (flagged # {})
          /\ pulses' = IF flagged # {} THEN (pulses - 1) + 1 ELSE pulses - 1
      BY <1>2, Zenon DEF Sense!Receive, Sense!Unmask, Sense!Unmasks
    <3>3. CASE flagged = {}
      <4>1. ~masked' /\ masked' \in BOOLEAN
        BY <3>2, <3>3, Zenon
      <4>2. pulses' = 0 /\ flagged' = {}
        BY <3>1, <3>2, <3>3
      <4> QED BY <4>1, <4>2 DEF OnePulse
    <3>4. CASE flagged # {}
      <4>1. masked' /\ masked' \in BOOLEAN
        BY <3>2, <3>4, Zenon
      <4>2. pulses' = 1
        BY <3>1, <3>2, <3>4
      <4> QED BY <4>1, <4>2 DEF OnePulse
    <3> QED BY <3>3, <3>4
  <2> QED BY <1>2, <2>1 DEF Sense!Receive, SenseQueue, ReadAgain, NothingEarly, SenseAccounted, Coming
<1>3. CASE Sense!Read
  <2>1. /\ halAt = "read" /\ halAt' = "notify" /\ field' = pins
        /\ UNCHANGED <<Sense!hw, phase, connected, events, known>>
    BY <1>3 DEF Sense!Read
  <2>2. left = {} BY <2>1 DEF NothingEarly
  <2>3. NothingEarly'
    BY <1>3, <2>1 DEF Sense!Read, NothingEarly, Sense!Subscribed
  <2>4. SenseAccounted'
    <3> SUFFICES ASSUME phase # "start", NEW p, ~(p \in known <=> p \in pins)
                 PROVE  p \in missed' \/ p \in left' \/ Coming(p)
      BY <2>1 DEF SenseAccounted, Coming
    <3>1. missed \subseteq missed'
      BY <1>3 DEF Sense!Read
    <3>2. CASE p \in known <=> p \in field
      <4>1. p \in Sense!Differ(field, pins) BY <3>2 DEF Sense!Differ
      <4> QED BY <1>3, <4>1 DEF Sense!Read, Sense!Subscribed
    <3>3. CASE ~(p \in known <=> p \in field)
      BY <2>2, <3>1, <3>3 DEF SenseAccounted
    <3> QED BY <3>2, <3>3
  <2> QED BY <2>1, <2>3, <2>4 DEF Sense!hw, SenseQueue, OnePulse, ReadAgain
<1>4. CASE Sense!Clear
  <2>1. OnePulse'
    BY <1>4 DEF Sense!Clear, Sense!Unmask, Sense!Unmasks, OnePulse
  <2>2. UNCHANGED masked
    BY <1>4 DEF Sense!Clear, Sense!Unmask, Sense!Unmasks
  <2> QED BY <1>4, <2>1, <2>2 DEF Sense!Clear, SenseQueue, ReadAgain, NothingEarly, SenseAccounted, Coming
<1>5. ASSUME NEW p \in Pin, Sense!Notify(p) PROVE SenseInv'
  <2>1. /\ halAt = "notify" /\ p \in left
        /\ UNCHANGED <<Sense!hw, field, phase, connected, known>>
    BY <1>5 DEF Sense!Notify, Sense!IsNext
  <2>2. phase = "subscribed"
    BY <2>1 DEF NothingEarly
  <2>3. CASE connected
    <3>1. /\ events' = Append(events, p) /\ left' = left \ {p}
          /\ UNCHANGED <<halAt, missed>>
      BY <1>5, <2>3 DEF Sense!Notify
    <3>2. SenseQueue' BY <3>1 DEF SenseQueue
    <3>3. SenseAccounted'
      <4> SUFFICES ASSUME NEW q, ~(q \in known <=> q \in field)
                   PROVE  q \in missed \/ q \in left' \/ Coming(q)'
        BY <2>1, <3>1 DEF SenseAccounted
      <4>1. q \in missed \/ q \in left \/ Coming(q)
        BY <2>2 DEF SenseAccounted
      <4>2. q = p \/ Coming(q) => Coming(q)'
        BY <3>1, AppendKeeps DEF SenseQueue, Coming
      <4> QED BY <3>1, <4>1, <4>2
    <3> QED BY <2>1, <2>2, <3>1, <3>2, <3>3 DEF Sense!hw, OnePulse, ReadAgain, NothingEarly
  <2>4. CASE ~connected
    <3>1. /\ missed' = missed \cup left /\ left' = {} /\ halAt' = "wait" /\ UNCHANGED events
      BY <1>5, <2>4 DEF Sense!Notify
    <3> QED BY <2>1, <2>2, <3>1 DEF Sense!hw, SenseQueue, OnePulse, ReadAgain, NothingEarly, SenseAccounted, Coming
  <2> QED BY <2>3, <2>4
<1>6. CASE Sense!Check
  BY <1>6 DEF Sense!Check, Sense!hw, SenseQueue, OnePulse, ReadAgain, NothingEarly, SenseAccounted, Coming
<1>7. CASE Sense!Subscribe
  BY <1>7 DEF Sense!Subscribe, Sense!hw, SenseQueue, OnePulse, ReadAgain, NothingEarly, SenseAccounted, Coming
<1>8. CASE Sense!Connect
  BY <1>8 DEF Sense!Connect, Sense!hw, SenseQueue, OnePulse, ReadAgain, NothingEarly, SenseAccounted, Coming
<1>9. CASE Sense!Handle
  <2> DEFINE h == Head(events)
  <2>1. /\ events # <<>> /\ events' = Tail(events) /\ missed' = missed \ {h}
        /\ known' = Sense!Update(known, h, field)
        /\ UNCHANGED <<Sense!hw, halAt, field, left, phase, connected>>
    BY <1>9 DEF Sense!Handle
  <2>2. phase = "subscribed"
    BY <2>1 DEF NothingEarly
  <2>3. SenseQueue' BY <2>1 DEF SenseQueue
  <2>4. SenseAccounted'
    <3> SUFFICES ASSUME NEW q, ~(q \in known' <=> q \in field)
                 PROVE  q \in missed' \/ q \in left \/ Coming(q)'
      BY <2>1 DEF SenseAccounted
    <3>1. q # h /\ (q \in known' <=> q \in known)
      BY <2>1 DEF Sense!Update
    <3>2. q \in missed \/ q \in left \/ Coming(q)
      BY <2>2, <3>1 DEF SenseAccounted
    <3>3. Coming(q) => Coming(q)'
      BY <2>1, <3>1, TailKeeps DEF SenseQueue, Coming
    <3> QED BY <2>1, <3>1, <3>2, <3>3
  <2> QED BY <2>1, <2>2, <2>3, <2>4 DEF Sense!hw, OnePulse, ReadAgain, NothingEarly
<1>10. CASE UNCHANGED Sense!vars
  BY <1>10 DEF Sense!vars, Sense!hw, SenseQueue, OnePulse, ReadAgain, NothingEarly, SenseAccounted, Coming
<1> QED BY <1>1, <1>2, <1>3, <1>4, <1>5, <1>6, <1>7, <1>8, <1>9, <1>10 DEF Sense!Next, Sense!HALThread

\* What the invariant says of a sensor path that is quiet.
LEMMA SensorsEnd == SenseInv => Sense!NoEdgeLost
  BY DEF SenseInv, OnePulse, ReadAgain, NothingEarly, SenseAccounted, Coming, Sense!NoEdgeLost,
         Sense!Subscribed, Sense!Quiet, Sense!Differ

\* The types of the sensor path, in the beginning ...
LEMMA SensorsBegin == Sense!Init => Sense!TypeOK
<1>1. <<>> \in Seq(Pin) /\ 0 \in Nat /\ {} \subseteq Pin
  OBVIOUS
<1> QED BY <1>1 DEF Sense!Init, Sense!TypeOK

\* ... and after every step.
LEMMA SensorsTyped == Sense!TypeOK /\ [Sense!Next]_(Sense!vars) => Sense!TypeOK'
<1> SUFFICES ASSUME Sense!TypeOK, [Sense!Next]_(Sense!vars) PROVE Sense!TypeOK'
  OBVIOUS
<1> USE DEF Sense!TypeOK
<1>1. ASSUME NEW p \in Pin, Sense!Change(p) PROVE Sense!TypeOK'
  BY <1>1 DEF Sense!Change, Sense!Flip
<1>2. CASE Sense!Receive
  BY <1>2 DEF Sense!Receive, Sense!Unmask, Sense!Unmasks
<1>3. CASE Sense!Read
  BY <1>3 DEF Sense!Read, Sense!Differ, Sense!hw
<1>4. CASE Sense!Clear
  BY <1>4 DEF Sense!Clear, Sense!Unmask, Sense!Unmasks
<1>5. ASSUME NEW p \in Pin, Sense!Notify(p) PROVE Sense!TypeOK'
  BY <1>5 DEF Sense!Notify, Sense!hw
<1>6. CASE Sense!Check \/ Sense!Subscribe \/ Sense!Connect
  BY <1>6 DEF Sense!Check, Sense!Subscribe, Sense!Connect, Sense!hw
<1>7. CASE Sense!Handle
  <2>1. Head(events) \in Pin /\ Tail(events) \in Seq(Pin)
    BY <1>7 DEF Sense!Handle
  <2> QED BY <1>7, <2>1 DEF Sense!Handle, Sense!Update, Sense!hw
<1>8. CASE UNCHANGED Sense!vars
  BY <1>8 DEF Sense!vars, Sense!hw
<1> QED BY <1>1, <1>2, <1>3, <1>4, <1>5, <1>6, <1>7, <1>8 DEF Sense!Next, Sense!HALThread

(***************************************************************************)
(* The sensor path by itself: it accounts for every pin, and once all is   *)
(* quiet the handler knows of every pin what it is, but of those that      *)
(* changed before it could be told.                                        *)
(***************************************************************************)
THEOREM EdgesReachTheHandler == Sense!Spec => [](Sense!TypeOK /\ Sense!NoEdgeLost)
BY SensorsBegin, SensorsStart, SensorsGoOn, SensorsTyped, SensorsEnd, PTL DEF Sense!Spec

-----------------------------------------------------------------------------
(***************************************************************************)
(* Actuators, for every set of calls and every capacity of the channel.    *)
(*                                                                         *)
(* The HAL thread takes the pulses of the timer's thread before those of   *)
(* the handler's, so what a bit will be once all are through is what the   *)
(* last pulse about it in that order makes of it.                          *)
(***************************************************************************)
Bit == {"LIGHT", "LEFT", "RIGHT", "SLOW", "DISABLE", "SWITCH"}
Pulse == [do : {"set", "reset"}, bits : SUBSET Bit]

Touched(q, b) == \E i \in DOMAIN q : b \in q[i].bits
SetLast(q, b) == \E i \in DOMAIN q : /\ q[i].do = "set" /\ b \in q[i].bits
                                     /\ \A j \in DOMAIN q : j > i => b \notin q[j].bits

\* Whether bit b is set when o was out and the pulses q are through.
Ends(o, q, b) == IF Touched(q, b) THEN SetLast(q, b) ELSE b \in o

Executed(o, p) == IF p.do = "set" THEN o \cup p.bits ELSE o \ p.bits

InOrder == channel["timer"] \o channel["handler"]
Will(b) == Ends(out, InOrder, b)

BitOf(right) == IF right THEN "RIGHT" ELSE "LEFT"

ActTyped == /\ out \subseteq Bit /\ channel \in [{"handler", "timer"} -> Seq(Pulse)]
            /\ \A t \in {"handler", "timer"} : Len(channel[t]) <= MaxPulses
            /\ mState \in {"ON", "OFF", "FLASHING_ON", "FLASHING_OFF"} /\ armed \in BOOLEAN
            /\ callback \in {"idle", "ON", "OFF", "FLASHING_ON", "FLASHING_OFF"}
            /\ motor \in [{"running", "fast", "enabled", "right"} -> BOOLEAN]

\* The light is not flashing: its timer is removed, and no callback runs.
Still == ~armed /\ callback = "idle"

StillWhenSteady == mState \in {"ON", "OFF"} => Still

\* What the calls make of the outputs, as the object sees them.
LightRight == (mState = "ON" => Will("LIGHT")) /\ (mState = "OFF" => ~Will("LIGHT"))
SpeedRight  == motor["fast"] <=> ~Will("SLOW")
EnableRight == motor["enabled"] <=> ~Will("DISABLE")

\* Where the handler is in a call, and what is already so.
InLight ==
    \/ todo = Tail(Act!TurnOn) /\ Still
    \/ todo = <<Act!Set("LIGHT")>> /\ mState = "ON"
    \/ todo = Tail(Act!TurnOff) /\ Still
    \/ todo = <<Act!Reset({"LIGHT"})>> /\ mState = "OFF"
    \/ todo = Tail(Act!Flash) /\ Still
    \/ todo = <<Act!Become("FLASHING_ON"), Act!Register>> /\ Still
    \/ todo = <<Act!Register>> /\ mState \notin {"ON", "OFF"}

BeltStep ==
    { Act!Set("LEFT"), Act!Set("RIGHT"), Act!Reset({"LEFT"}), Act!Reset({"RIGHT"}),
      Act!Reset({"LEFT", "RIGHT"}), Act!Note("running", TRUE), Act!Note("running", FALSE),
      Act!Note("right", TRUE), Act!Note("right", FALSE), Act!SetDirection }

InBelt == todo # <<>> /\ todo \in Seq(BeltStep) /\ Len(todo) <= 3

InSpeed == \E f \in BOOLEAN : todo = <<Act!Note("fast", f)>> /\ (f <=> ~Will("SLOW"))

InEnable == \E e \in BOOLEAN : todo = <<Act!Note("enabled", e)>> /\ (e <=> ~Will("DISABLE"))

AtCall == todo = <<>> \/ \E call \in Calls \ Act!BeltCalls : todo = Act!Steps(call)

AllRight == LightRight /\ SpeedRight /\ EnableRight

OffBelt == \/ AtCall /\ AllRight
           \/ InLight /\ SpeedRight /\ EnableRight
           \/ InSpeed /\ LightRight /\ EnableRight
           \/ InEnable /\ LightRight /\ SpeedRight

Where == OffBelt \/ (InBelt /\ AllRight)

\* The steps q that are left of a call for the belt that nothing overlaps, and
\* what is already so of the bits LEFT and RIGHT, of mRight and mRunning; when
\* nothing is left the bits are what the object says.
OnTheWay(q, l, r, right, runs) ==
    LET To(d)    == IF d THEN r ELSE l
        From(d)  == IF d THEN l ELSE r
        BeltIsSo == ~From(right) /\ (runs => To(right))
    IN  \/ q = <<>> /\ BeltIsSo
        \/ q = << Act!Reset({"LEFT", "RIGHT"}), Act!Note("running", FALSE) >>
        \/ q = << Act!Note("running", FALSE) >> /\ ~l /\ ~r
        \/ q = << Act!SetDirection, Act!Note("running", TRUE) >> /\ BeltIsSo
        \/ q = << Act!Set(BitOf(right)), Act!Note("running", TRUE) >> /\ BeltIsSo
        \/ q = << Act!Note("running", TRUE) >> /\ BeltIsSo /\ To(right)
        \/ \E d \in BOOLEAN :
              \/ q \in { << Act!Reset({BitOf(~d)}), Act!Set(BitOf(d)), Act!Note("right", d) >>,
                         << Act!Reset({BitOf(~d)}), Act!Set(BitOf(d)), Act!Note("right", d),
                            Act!SetDirection, Act!Note("running", TRUE) >> }
              \/ /\ q \in { << Act!Set(BitOf(d)), Act!Note("right", d) >>,
                            << Act!Set(BitOf(d)), Act!Note("right", d),
                               Act!SetDirection, Act!Note("running", TRUE) >> }
                 /\ ~From(d)
              \/ /\ q \in { << Act!Note("right", d) >>,
                            << Act!Note("right", d), Act!SetDirection, Act!Note("running", TRUE) >> }
                 /\ ~From(d) /\ To(d)

BeltOnTheWay(q) == OnTheWay(q, Will("LEFT"), Will("RIGHT"), motor["right"], motor["running"])

\* The belt is driven on one thread at a time, or torn says so.
BeltWhere == /\ delayed \in Seq(BeltStep) /\ Len(delayed) <= 5 /\ torn \in BOOLEAN
             /\ torn \/ (IF Act!InBeltCall THEN delayed = <<>> /\ BeltOnTheWay(todo)
                                           ELSE BeltOnTheWay(delayed))

ActInv == ActTyped /\ StillWhenSteady /\ Where /\ BeltWhere

\* A step that leaves the belt alone.
BeltAside == /\ UNCHANGED << delayed, torn >>
             /\ Will("LEFT")' <=> Will("LEFT")
             /\ Will("RIGHT")' <=> Will("RIGHT")
             /\ motor'["right"] = motor["right"] /\ motor'["running"] = motor["running"]

-----------------------------------------------------------------------------
\* Taking the first pulse changes nothing of what will be.
LEMMA TakeEnds ==
    ASSUME NEW o, NEW q \in Seq(Pulse), q # <<>>, NEW b
    PROVE  Ends(Executed(o, Head(q)), Tail(q), b) <=> Ends(o, q, b)
<1> DEFINE r == Tail(q)
<1>1. /\ Len(q) \in Nat /\ Len(q) > 0 /\ DOMAIN q = 1..Len(q) /\ DOMAIN r = 1..Len(q)-1
      /\ Head(q) = q[1] /\ 1 \in DOMAIN q /\ q[1] \in Pulse
      /\ \A i \in DOMAIN r : i + 1 \in DOMAIN q /\ r[i] = q[i + 1]
      /\ \A i \in DOMAIN q : i # 1 => i - 1 \in DOMAIN r /\ r[i - 1] = q[i]
  OBVIOUS
<1> HIDE DEF r
<1>2. Touched(q, b) <=> Touched(r, b) \/ b \in q[1].bits
  <2>1. ASSUME Touched(q, b) PROVE Touched(r, b) \/ b \in q[1].bits
    BY <1>1, <2>1 DEF Touched
  <2>2. ASSUME Touched(r, b) \/ b \in q[1].bits PROVE Touched(q, b)
    BY <1>1, <2>2 DEF Touched
  <2> QED BY <2>1, <2>2
<1>3. CASE Touched(r, b)
  <2>1. ASSUME SetLast(q, b) PROVE SetLast(r, b)
    <3>1. PICK i \in DOMAIN q : /\ q[i].do = "set" /\ b \in q[i].bits
                                /\ \A j \in DOMAIN q : j > i => b \notin q[j].bits
      BY <2>1 DEF SetLast
    <3>2. PICK k \in DOMAIN r : b \in r[k].bits
      BY <1>3 DEF Touched
    <3>3. i # 1
      BY <1>1, <3>1, <3>2
    <3>4. \A j \in DOMAIN r : j > i - 1 => b \notin r[j].bits
      BY <1>1, <3>1
    <3> QED BY <1>1, <3>1, <3>3, <3>4 DEF SetLast
  <2>2. ASSUME SetLast(r, b) PROVE SetLast(q, b)
    <3>1. PICK i \in DOMAIN r : /\ r[i].do = "set" /\ b \in r[i].bits
                                /\ \A j \in DOMAIN r : j > i => b \notin r[j].bits
      BY <2>2 DEF SetLast
    <3>2. \A j \in DOMAIN q : j > i + 1 => b \notin q[j].bits
      BY <1>1, <3>1
    <3> QED BY <1>1, <3>1, <3>2 DEF SetLast
  <2> QED BY <1>2, <1>3, <2>1, <2>2 DEF Ends, r
<1>4. CASE ~Touched(r, b)
  <2>1. \A j \in DOMAIN q : j > 1 => b \notin q[j].bits
    BY <1>1, <1>4 DEF Touched
  <2>2. SetLast(q, b) <=> q[1].do = "set" /\ b \in q[1].bits
    BY <1>1, <2>1 DEF SetLast
  <2>3. b \in Executed(o, q[1]) <=> IF b \in q[1].bits THEN q[1].do = "set" ELSE b \in o
    BY <1>1 DEF Executed, Pulse
  <2> QED BY <1>1, <1>2, <1>4, <2>2, <2>3 DEF Ends, r
<1> QED BY <1>3, <1>4

\* A pulse that joins decides of its bits and leaves the others.
LEMMA JoinEnds ==
    ASSUME NEW o, NEW q \in Seq(Pulse), NEW p \in Pulse, NEW b
    PROVE  Ends(o, Append(q, p), b) <=> IF b \in p.bits THEN p.do = "set" ELSE Ends(o, q, b)
<1> DEFINE r == Append(q, p)
<1>1. /\ Len(q) \in Nat /\ DOMAIN q = 1..Len(q) /\ DOMAIN r = 1..Len(q)+1
      /\ r[Len(q) + 1] = p /\ \A i \in DOMAIN q : r[i] = q[i]
  OBVIOUS
<1> HIDE DEF r
<1>2. \A i \in DOMAIN r : i \in DOMAIN q \/ i = Len(q) + 1
  BY <1>1
<1>3. CASE b \in p.bits
  <2>1. Touched(r, b)
    BY <1>1, <1>3 DEF Touched
  <2>2. ASSUME p.do = "set" PROVE SetLast(r, b)
    BY <1>1, <1>3, <2>2 DEF SetLast
  <2>3. ASSUME SetLast(r, b) PROVE p.do = "set"
    BY <1>1, <1>2, <1>3, <2>3 DEF SetLast
  <2> QED BY <1>3, <2>1, <2>2, <2>3 DEF Ends, r
<1>4. CASE b \notin p.bits
  <2>1. Touched(r, b) <=> Touched(q, b)
    BY <1>1, <1>2, <1>4 DEF Touched
  <2>2. ASSUME SetLast(q, b) PROVE SetLast(r, b)
    <3>1. PICK i \in DOMAIN q : /\ q[i].do = "set" /\ b \in q[i].bits
                                /\ \A j \in DOMAIN q : j > i => b \notin q[j].bits
      BY <2>2 DEF SetLast
    <3>2. i \in DOMAIN r /\ \A j \in DOMAIN r : j > i => b \notin r[j].bits
      BY <1>1, <1>2, <1>4, <3>1
    <3> QED BY <1>1, <3>1, <3>2 DEF SetLast
  <2>3. ASSUME SetLast(r, b) PROVE SetLast(q, b)
    <3>1. PICK i \in DOMAIN r : /\ r[i].do = "set" /\ b \in r[i].bits
                                /\ \A j \in DOMAIN r : j > i => b \notin r[j].bits
      BY <2>3 DEF SetLast
    <3>2. i \in DOMAIN q
      BY <1>1, <1>2, <1>4, <3>1
    <3>3. \A j \in DOMAIN q : j \in DOMAIN r
      BY <1>1
    <3> QED BY <1>1, <3>1, <3>2, <3>3 DEF SetLast
  <2> QED BY <1>4, <2>1, <2>2, <2>3 DEF Ends, r
<1> QED BY <1>3, <1>4

\* A pulse that overtakes others leaves the bits that are not its own.
LEMMA OvertakeEnds ==
    ASSUME NEW o, NEW s \in Seq(Pulse), NEW t \in Seq(Pulse), NEW p \in Pulse,
           NEW b, b \notin p.bits
    PROVE  Ends(o, Append(s, p) \o t, b) <=> Ends(o, s \o t, b)
<1> DEFINE q == s \o t
           r == Append(s, p) \o t
           k == Len(s)
<1>1. /\ k \in Nat /\ Len(t) \in Nat
      /\ DOMAIN q = 1..k+Len(t) /\ DOMAIN r = 1..k+1+Len(t)
      /\ \A i \in 1..k : r[i] = q[i]
      /\ r[k + 1] = p
      /\ \A i \in k+1..k+Len(t) : r[i + 1] = q[i]
  <2>1. Append(s, p) \in Seq(Pulse) /\ Len(Append(s, p)) = k + 1
    OBVIOUS
  <2>2. \A i \in 1..k : Append(s, p)[i] = s[i]
    OBVIOUS
  <2>3. Append(s, p)[k + 1] = p
    OBVIOUS
  <2> QED BY <2>1, <2>2, <2>3
<1> HIDE DEF q, r, k
<1> DEFINE f(i) == IF i <= k THEN i ELSE i + 1
<1>2. \A i \in DOMAIN q : f(i) \in DOMAIN r /\ r[f(i)] = q[i]
  BY <1>1
<1>3. ASSUME NEW j \in DOMAIN r, b \in r[j].bits
      PROVE  \E i \in DOMAIN q : j = f(i)
  <2>1. j # k + 1 BY <1>1, <1>3
  <2>2. CASE j <= k BY <1>1, <2>2
  <2>3. CASE j > k + 1
    <3>1. j - 1 \in DOMAIN q /\ j = f(j - 1) BY <1>1, <2>3
    <3> QED BY <3>1
  <2> QED BY <1>1, <2>1, <2>2, <2>3
<1>4. \A i, j \in DOMAIN q : f(j) > f(i) <=> j > i
  BY <1>1
<1> HIDE DEF f
<1>5. Touched(r, b) <=> Touched(q, b)
  BY <1>2, <1>3 DEF Touched
<1>6. ASSUME SetLast(q, b) PROVE SetLast(r, b)
  <2>1. PICK i \in DOMAIN q : /\ q[i].do = "set" /\ b \in q[i].bits
                              /\ \A j \in DOMAIN q : j > i => b \notin q[j].bits
    BY <1>6 DEF SetLast
  <2>2. \A j \in DOMAIN r : j > f(i) => b \notin r[j].bits
    BY <1>2, <1>3, <1>4, <2>1
  <2> QED BY <1>2, <2>1, <2>2 DEF SetLast
<1>7. ASSUME SetLast(r, b) PROVE SetLast(q, b)
  <2>1. PICK j \in DOMAIN r : /\ r[j].do = "set" /\ b \in r[j].bits
                              /\ \A n \in DOMAIN r : n > j => b \notin r[n].bits
    BY <1>7 DEF SetLast
  <2>2. PICK i \in DOMAIN q : j = f(i)
    BY <1>3, <2>1
  <2>3. \A n \in DOMAIN q : n > i => b \notin q[n].bits
    BY <1>2, <1>4, <2>1, <2>2
  <2> QED BY <1>2, <2>1, <2>2, <2>3 DEF SetLast
<1> QED BY <1>5, <1>6, <1>7 DEF Ends, q, r

-----------------------------------------------------------------------------
\* The first of a sequence that is not empty is the first of any that continues it.
LEMMA TailFirst ==
    ASSUME NEW S, NEW s \in Seq(S), NEW t \in Seq(S), s # << >>
    PROVE  s \o t # << >> /\ Head(s \o t) = Head(s) /\ Tail(s \o t) = Tail(s) \o t
<1> DEFINE q == s \o t
<1>1. /\ Len(s) \in Nat /\ Len(s) > 0 /\ Len(t) \in Nat /\ q \in Seq(S)
      /\ Len(q) = Len(s) + Len(t)
  OBVIOUS
<1>2. q # << >> /\ Head(q) = Head(s)
  BY <1>1
<1>3. Len(Tail(q)) = Len(Tail(s) \o t) /\ Len(Tail(q)) = Len(q) - 1
  BY <1>1, <1>2
<1>4. ASSUME NEW i \in 1..Len(Tail(q)) PROVE Tail(q)[i] = (Tail(s) \o t)[i]
  <2>1. Tail(q)[i] = q[i + 1]
    BY <1>1, <1>2, <1>3
  <2>2. CASE i + 1 <= Len(s)
    BY <1>1, <2>1, <2>2
  <2>3. CASE i + 1 > Len(s)
    BY <1>1, <1>3, <2>1, <2>3
  <2> QED BY <1>1, <1>3, <2>2, <2>3
<1>5. Tail(q) \in Seq(S) /\ Tail(s) \o t \in Seq(S)
  BY <1>1, <1>2
<1> QED BY <1>2, <1>3, <1>4, <1>5

\* What joins the second of two sequences joins the two.
LEMMA AppendLast ==
    ASSUME NEW S, NEW s \in Seq(S), NEW t \in Seq(S), NEW x \in S
    PROVE  s \o Append(t, x) = Append(s \o t, x)
<1> DEFINE q == s \o Append(t, x)
           r == Append(s \o t, x)
<1>1. /\ Len(s) \in Nat /\ Len(t) \in Nat /\ Append(t, x) \in Seq(S) /\ s \o t \in Seq(S)
      /\ Len(Append(t, x)) = Len(t) + 1 /\ Len(s \o t) = Len(s) + Len(t)
  OBVIOUS
<1>2. q \in Seq(S) /\ r \in Seq(S) /\ Len(q) = Len(s) + Len(t) + 1 /\ Len(r) = Len(q)
  BY <1>1
<1>3. ASSUME NEW i \in 1..Len(q) PROVE q[i] = r[i]
  <2>1. CASE i <= Len(s)
    BY <1>1, <1>2, <2>1
  <2>2. CASE i > Len(s) /\ i <= Len(s) + Len(t)
    <3>1. q[i] = Append(t, x)[i - Len(s)] /\ r[i] = (s \o t)[i]
      BY <1>1, <1>2, <2>2
    <3> QED BY <1>1, <1>2, <2>2, <3>1
  <2>3. CASE i = Len(s) + Len(t) + 1
    <3>1. q[i] = Append(t, x)[Len(t) + 1] /\ r[i] = x
      BY <1>1, <1>2, <2>3
    <3> QED BY <1>1, <3>1
  <2> QED BY <1>1, <1>2, <2>1, <2>2, <2>3
<1> QED BY <1>2, <1>3

\* A pulse of the handler's priority is the last of all.
LEMMA PulseJoins ==
    ASSUME ActTyped, NEW p \in Pulse, Act!Output(p), UNCHANGED << out, mState, armed, callback >>
    PROVE  /\ ActTyped' /\ UNCHANGED motor
           /\ \A b : Will(b)' <=> IF b \in p.bits THEN p.do = "set" ELSE Will(b)
<1>1. /\ channel' = [channel EXCEPT !["handler"] = Append(@, p)]
      /\ Len(channel["handler"]) < MaxPulses
      /\ UNCHANGED << out, mState, armed, callback, motor >>
  BY DEF Act!Output, Act!Send, Pulse
<1>2. /\ channel["handler"] \in Seq(Pulse) /\ channel["timer"] \in Seq(Pulse)
      /\ channel'["handler"] = Append(channel["handler"], p)
      /\ channel'["timer"] = channel["timer"]
  BY <1>1 DEF ActTyped
<1>3. ActTyped'
  <2>1. channel' \in [{"handler", "timer"} -> Seq(Pulse)]
    BY <1>1, <1>2 DEF ActTyped
  <2>2. Len(channel'["handler"]) = Len(channel["handler"]) + 1
    BY <1>2
  <2>3. Len(channel'["handler"]) <= MaxPulses /\ Len(channel'["timer"]) <= MaxPulses
    BY <1>1, <1>2, <2>2, PartsAssumption DEF ActTyped, Act!ActuatorsAssumption
  <2> QED BY <1>1, <2>1, <2>3 DEF ActTyped
<1>4. InOrder' = Append(InOrder, p)
  <2>1. /\ channel["timer"] \in Seq(Pulse) /\ channel["handler"] \in Seq(Pulse)
        /\ channel'["timer"] \o channel'["handler"] = channel["timer"] \o Append(channel["handler"], p)
    BY <1>2
  <2>2. channel["timer"] \o Append(channel["handler"], p) = Append(channel["timer"] \o channel["handler"], p)
    <3> DEFINE hs == channel["handler"]
               ts == channel["timer"]
    <3>1. hs \in Seq(Pulse) /\ ts \in Seq(Pulse) /\ p \in Pulse
      BY <2>1
    <3> HIDE DEF hs, ts
    <3>2. ts \o Append(hs, p) = Append(ts \o hs, p)
      BY <3>1, AppendLast
    <3> QED BY <3>2 DEF hs, ts
  <2> QED BY <2>1, <2>2 DEF InOrder
<1>5. InOrder \in Seq(Pulse)
  BY <1>2 DEF InOrder
<1> QED BY <1>1, <1>3, <1>4, <1>5, JoinEnds DEF Will

\* The handler sends one.
LEMMA StepSends ==
    ASSUME ActTyped, Act!Step, NEW p \in Pulse, Head(todo) = p
    PROVE  /\ ActTyped' /\ todo' = Tail(todo) /\ UNCHANGED << mState, armed, callback, motor >>
           /\ UNCHANGED << delayed, torn >>
           /\ \A b : Will(b)' <=> IF b \in p.bits THEN p.do = "set" ELSE Will(b)
<1>1. /\ todo' = Tail(todo) /\ UNCHANGED << out, mState, armed, callback, delayed, torn >>
      /\ Act!Output(p)
  BY DEF Act!Step, Act!Rest, Act!OfLight, Act!light, Pulse
<1> QED BY <1>1, PulseJoins

\* The other steps of a call send nothing.
LEMMA StepBecomes ==
    ASSUME ActTyped, Act!Step, NEW s \in {"ON", "OFF", "FLASHING_ON"}, Head(todo) = Act!Become(s)
    PROVE  /\ ActTyped' /\ todo' = Tail(todo) /\ UNCHANGED << armed, callback, motor, delayed, torn >>
           /\ mState' = s /\ \A b : Will(b)' <=> Will(b)
<1>1. /\ todo' = Tail(todo) /\ UNCHANGED << out, channel, armed, callback, motor, delayed, torn >>
      /\ mState' = s
  BY DEF Act!Step, Act!Rest, Act!Output, Act!OfLight, Act!Become, Act!light
<1> QED BY <1>1 DEF ActTyped, Will, InOrder

\* The timer whose callback is over is removed; what will be written stays.
LEMMA StepRemoves ==
    ASSUME ActTyped, Act!Step, Head(todo) = Act!RemoveTimer
    PROVE  /\ ActTyped' /\ todo' = Tail(todo) /\ UNCHANGED << mState, motor, delayed, torn >>
           /\ Still' /\ \A b : Will(b)' <=> Will(b)
<1>1. /\ todo' = Tail(todo) /\ UNCHANGED << out, channel, mState, callback, motor, delayed, torn >>
      /\ armed' = FALSE /\ callback = "idle"
  BY DEF Act!Step, Act!Rest, Act!Output, Act!OfLight, Act!RemoveTimer, Act!light
<1> QED BY <1>1 DEF ActTyped, Will, InOrder, Still

\* A timer is registered; what will be written stays.
LEMMA StepRegisters ==
    ASSUME ActTyped, Act!Step, Head(todo) = Act!Register
    PROVE  /\ ActTyped' /\ todo' = Tail(todo) /\ UNCHANGED << mState, motor, delayed, torn >>
           /\ \A b : Will(b)' <=> Will(b)
<1>1. /\ todo' = Tail(todo) /\ UNCHANGED << out, channel, mState, callback, motor, delayed, torn >>
      /\ armed' = TRUE
  BY DEF Act!Step, Act!Rest, Act!Output, Act!OfLight, Act!Register, Act!light
<1> QED BY <1>1 DEF ActTyped, Will, InOrder

\* A member of the motor is set; what will be written stays.
LEMMA NoteJoins ==
    ASSUME ActTyped, NEW f \in {"running", "fast", "enabled", "right"}, NEW v \in BOOLEAN,
           Act!Output(Act!Note(f, v)), UNCHANGED << out, mState, armed, callback >>
    PROVE  ActTyped' /\ motor' = [motor EXCEPT ![f] = v] /\ \A b : Will(b)' <=> Will(b)
<1>1. UNCHANGED << out, channel, mState, armed, callback >> /\ motor' = [motor EXCEPT ![f] = v]
  BY DEF Act!Output, Act!Note
<1> QED BY <1>1 DEF ActTyped, Will, InOrder

\* The handler sets one.
LEMMA StepNotes ==
    ASSUME ActTyped, Act!Step, NEW f \in {"running", "fast", "enabled", "right"}, NEW v \in BOOLEAN,
           Head(todo) = Act!Note(f, v)
    PROVE  /\ ActTyped' /\ todo' = Tail(todo) /\ UNCHANGED << mState, armed, callback, delayed, torn >>
           /\ motor' = [motor EXCEPT ![f] = v] /\ \A b : Will(b)' <=> Will(b)
<1>1. /\ todo' = Tail(todo) /\ UNCHANGED << out, mState, armed, callback, delayed, torn >>
      /\ Act!Output(Act!Note(f, v))
  BY DEF Act!Step, Act!Rest, Act!OfLight, Act!Note, Act!light
<1> QED BY <1>1, NoteJoins

\* The HAL thread takes them in that order.
LEMMA HALTakes ==
    ASSUME ActTyped, Act!HALThread
    PROVE  /\ ActTyped' /\ UNCHANGED << todo, delayed, torn, mState, armed, callback, motor >>
           /\ \A b : Will(b)' <=> Will(b)
<1> DEFINE t == Act!First
           p == Head(channel[t])
<1>1. /\ t \in {"handler", "timer"} /\ channel[t] # << >> /\ channel[t] \in Seq(Pulse)
      /\ t = "handler" => channel["timer"] = << >>
  BY DEF Act!First, Act!HALThread, ActTyped
<1>2. /\ out' = Executed(out, p) /\ channel' = [channel EXCEPT ![t] = Tail(@)]
      /\ UNCHANGED << todo, delayed, torn, mState, armed, callback, motor >>
  BY DEF Act!HALThread, Act!light, Executed
<1>3. /\ p \in Pulse /\ Tail(channel[t]) \in Seq(Pulse)
      /\ Len(Tail(channel[t])) <= MaxPulses
  <2>1. Len(channel[t]) <= MaxPulses /\ Len(channel[t]) \in Nat
    BY <1>1 DEF ActTyped
  <2> QED BY <1>1, <2>1, PartsAssumption DEF Act!ActuatorsAssumption
<1>4. ActTyped'
  <2>1. channel' \in [{"handler", "timer"} -> Seq(Pulse)]
    BY <1>1, <1>2, <1>3 DEF ActTyped
  <2>2. \A u \in {"handler", "timer"} : Len(channel'[u]) <= MaxPulses
    BY <1>1, <1>2, <1>3 DEF ActTyped
  <2>3. out' \subseteq Bit
    BY <1>2, <1>3 DEF Executed, Pulse, ActTyped
  <2> QED BY <1>2, <2>1, <2>2, <2>3 DEF ActTyped
<1>5. channel["handler"] \in Seq(Pulse) /\ channel["timer"] \in Seq(Pulse)
  BY DEF ActTyped
<1>6. InOrder \in Seq(Pulse) /\ InOrder # << >> /\ p = Head(InOrder) /\ InOrder' = Tail(InOrder)
  <2>1. CASE t = "timer"
    <3>1. channel'["timer"] = Tail(channel["timer"]) /\ channel'["handler"] = channel["handler"]
      BY <1>2, <2>1 DEF ActTyped
    <3> HIDE DEF t
    <3>2. channel["timer"] # << >> /\ p = Head(channel["timer"])
      BY <1>1, <2>1
    <3>3. channel["timer"] \o channel["handler"] # << >>
      BY <1>5, <3>2, TailFirst
    <3>4. /\ Head(channel["timer"] \o channel["handler"]) = Head(channel["timer"])
          /\ Tail(channel["timer"] \o channel["handler"]) = Tail(channel["timer"]) \o channel["handler"]
      BY <1>5, <3>2, TailFirst
    <3>5. InOrder' = Tail(channel["timer"]) \o channel["handler"]
      BY <3>1 DEF InOrder
    <3>6. channel["timer"] \o channel["handler"] \in Seq(Pulse)
      BY <1>5
    <3> QED BY <3>2, <3>3, <3>4, <3>5, <3>6, Zenon DEF InOrder
  <2>2. CASE t = "handler"
    <3>1. channel'["handler"] = Tail(channel["handler"]) /\ channel'["timer"] = << >>
      BY <1>1, <1>2, <2>2 DEF ActTyped
    <3> HIDE DEF t
    <3>2. /\ channel["timer"] = << >> /\ channel["handler"] # << >>
          /\ p = Head(channel["handler"])
      BY <1>1, <2>2
    <3> QED BY <1>5, <3>1, <3>2 DEF InOrder
  <2> QED BY <1>1, <2>1, <2>2
<1> HIDE DEF p, t
<1> QED BY <1>2, <1>4, <1>6, TakeEnds DEF Will

\* What is right stays so while nothing it is about changes.
LEMMA RightsStay ==
    ASSUME \A b : Will(b)' <=> Will(b), UNCHANGED motor
    PROVE  /\ SpeedRight' <=> SpeedRight
           /\ EnableRight' <=> EnableRight
           /\ UNCHANGED mState => (LightRight' <=> LightRight)
<1> HIDE DEF Will
<1> QED BY Zenon DEF SpeedRight, EnableRight, LightRight, BitOf

\* A call about the light begins: its timer is removed before anything else.
LEMMA LightCallBegins ==
    ASSUME ActTyped, StillWhenSteady, Act!Step, AllRight, todo \in {Act!TurnOn, Act!TurnOff, Act!Flash}
    PROVE  ActTyped' /\ StillWhenSteady' /\ OffBelt'
<1>1. Head(todo) = Act!RemoveTimer
  BY DEF Act!TurnOn, Act!TurnOff, Act!Flash
<1>2. /\ ActTyped' /\ todo' = Tail(todo) /\ UNCHANGED << mState, motor >>
      /\ Still' /\ \A b : Will(b)' <=> Will(b)
  BY <1>1, StepRemoves DEF ActInv
<1>3. InLight'
  BY <1>2 DEF InLight
<1>4. SpeedRight' /\ EnableRight'
  BY <1>2, RightsStay DEF AllRight
<1> QED BY <1>2, <1>3, <1>4 DEF StillWhenSteady, OffBelt

\* It goes on: the state of the light follows, then its pulse, or the other
\* way round if it is to flash.
LEMMA LightCallGoesOn ==
    ASSUME ActTyped, StillWhenSteady, Act!Step, InLight, SpeedRight, EnableRight
    PROVE  ActTyped' /\ StillWhenSteady' /\ OffBelt'
<1> USE DEF ActInv
<1>1. ASSUME NEW s \in {"ON", "OFF", "FLASHING_ON"}, Head(todo) = Act!Become(s),
             s \in {"ON", "OFF"} => Still, todo' = Tail(todo) => InLight'
      PROVE  ActTyped' /\ StillWhenSteady' /\ OffBelt'
  <2>1. /\ ActTyped' /\ todo' = Tail(todo) /\ UNCHANGED << armed, callback, motor >>
        /\ mState' = s /\ \A b : Will(b)' <=> Will(b)
    BY <1>1, StepBecomes
  <2>2. InLight'
    BY <1>1, <2>1
  <2>3. SpeedRight' /\ EnableRight'
    BY <2>1, RightsStay
  <2>4. StillWhenSteady'
    BY <1>1, <2>1 DEF StillWhenSteady, Still
  <2> QED BY <2>1, <2>2, <2>3, <2>4 DEF OffBelt
<1>2. ASSUME NEW p \in {Act!Set("LIGHT"), Act!Reset({"LIGHT"})}, Head(todo) = p
      PROVE  /\ ActTyped' /\ todo' = Tail(todo) /\ UNCHANGED << mState, armed, callback, motor >>
             /\ Will("LIGHT")' <=> p.do = "set"
             /\ SpeedRight' /\ EnableRight' /\ StillWhenSteady'
  <2>1. p \in Pulse /\ p.bits = {"LIGHT"}
    BY <1>2 DEF Act!Set, Act!Reset, Pulse, Bit
  <2>2. /\ ActTyped' /\ todo' = Tail(todo) /\ UNCHANGED << mState, armed, callback, motor >>
        /\ \A b : Will(b)' <=> IF b \in p.bits THEN p.do = "set" ELSE Will(b)
    BY <1>2, <2>1, StepSends
  <2>3. /\ Will("LIGHT")' <=> p.do = "set"
        /\ \A b : b # "LIGHT" => (Will(b)' <=> Will(b))
    BY <2>1, <2>2
  <2>4. SpeedRight' /\ EnableRight'
    <3> HIDE DEF Will
    <3> QED BY <2>2, <2>3 DEF SpeedRight, EnableRight, BitOf
  <2> QED BY <2>2, <2>3, <2>4 DEF StillWhenSteady, Still
<1>3. CASE todo = Tail(Act!TurnOn) /\ Still
  <2>1. Head(todo) = Act!Become("ON") /\ Tail(todo) = << Act!Set("LIGHT") >>
    BY <1>3 DEF Act!TurnOn
  <2>2. mState' = "ON"
    BY <2>1, StepBecomes
  <2> QED BY <1>1, <1>3, <2>1, <2>2 DEF InLight
<1>4. CASE todo = Tail(Act!TurnOff) /\ Still
  <2>1. Head(todo) = Act!Become("OFF") /\ Tail(todo) = << Act!Reset({"LIGHT"}) >>
    BY <1>4 DEF Act!TurnOff
  <2>2. mState' = "OFF"
    BY <2>1, StepBecomes
  <2> QED BY <1>1, <1>4, <2>1, <2>2 DEF InLight
<1>5. CASE todo = << Act!Become("FLASHING_ON"), Act!Register >> /\ Still
  <2>1. Head(todo) = Act!Become("FLASHING_ON") /\ Tail(todo) = << Act!Register >>
    BY <1>5
  <2>2. mState' = "FLASHING_ON"
    BY <2>1, StepBecomes
  <2> QED BY <1>1, <2>1, <2>2 DEF InLight
<1>6. CASE todo = << Act!Set("LIGHT") >> /\ mState = "ON"
  <2>1. Head(todo) = Act!Set("LIGHT") /\ Tail(todo) = << >> /\ Act!Set("LIGHT").do = "set"
    BY <1>6 DEF Act!Set
  <2>2. todo' = << >> /\ mState' = "ON" /\ Will("LIGHT")'
    BY <1>2, <1>6, <2>1
  <2> QED BY <1>2, <2>1, <2>2 DEF OffBelt, AtCall, AllRight, LightRight
<1>7. CASE todo = << Act!Reset({"LIGHT"}) >> /\ mState = "OFF"
  <2>1. /\ Head(todo) = Act!Reset({"LIGHT"}) /\ Tail(todo) = << >>
        /\ Act!Reset({"LIGHT"}).do # "set"
    BY <1>7 DEF Act!Reset
  <2>2. todo' = << >> /\ mState' = "OFF" /\ ~Will("LIGHT")'
    BY <1>2, <1>7, <2>1
  <2> QED BY <1>2, <2>1, <2>2 DEF OffBelt, AtCall, AllRight, LightRight
<1>8. CASE todo = Tail(Act!Flash) /\ Still
  <2>1. /\ Head(todo) = Act!Set("LIGHT")
        /\ Tail(todo) = << Act!Become("FLASHING_ON"), Act!Register >>
    BY <1>8 DEF Act!Flash
  <2>2. InLight'
    BY <1>2, <1>8, <2>1 DEF InLight, Still
  <2> QED BY <1>2, <2>1, <2>2 DEF OffBelt
<1>9. CASE todo = << Act!Register >> /\ mState \notin {"ON", "OFF"}
  <2>1. Head(todo) = Act!Register /\ Tail(todo) = << >>
    BY <1>9
  <2>2. /\ ActTyped' /\ todo' = << >> /\ UNCHANGED << mState, motor >>
        /\ \A b : Will(b)' <=> Will(b)
    BY <2>1, StepRegisters
  <2>3. SpeedRight' /\ EnableRight'
    BY <2>2, RightsStay
  <2>4. LightRight' /\ StillWhenSteady'
    BY <1>9, <2>2 DEF LightRight, StillWhenSteady
  <2> QED BY <2>2, <2>3, <2>4 DEF OffBelt, AtCall, AllRight
<1> QED BY <1>3, <1>4, <1>5, <1>6, <1>7, <1>8, <1>9 DEF InLight

\* A call about a bit that is not the light's sends a pulse about it.
LEMMA OtherCallSends ==
    ASSUME ActTyped, StillWhenSteady, Act!Step, NEW p \in Pulse, Head(todo) = p, "LIGHT" \notin p.bits
    PROVE  /\ ActTyped' /\ StillWhenSteady' /\ todo' = Tail(todo) /\ UNCHANGED motor
           /\ LightRight' <=> LightRight
           /\ \A b : Will(b)' <=> IF b \in p.bits THEN p.do = "set" ELSE Will(b)
<1>1. /\ ActTyped' /\ todo' = Tail(todo) /\ UNCHANGED << mState, armed, callback, motor >>
      /\ \A b : Will(b)' <=> IF b \in p.bits THEN p.do = "set" ELSE Will(b)
  BY StepSends DEF ActInv
<1>2. Will("LIGHT")' <=> Will("LIGHT")
  BY <1>1
<1>3. LightRight' <=> LightRight
  <2> HIDE DEF Will
  <2> QED BY <1>1, <1>2 DEF LightRight
<1>4. StillWhenSteady'
  BY <1>1 DEF ActInv, StillWhenSteady, Still
<1> QED BY <1>1, <1>3, <1>4

\* And then the object notes what it did.
LEMMA OtherCallNotes ==
    ASSUME ActTyped, StillWhenSteady, Act!Step, NEW f \in {"running", "fast", "enabled", "right"}, NEW v \in BOOLEAN,
           todo = << Act!Note(f, v) >>
    PROVE  /\ ActTyped' /\ StillWhenSteady' /\ todo' = << >>
           /\ motor' = [motor EXCEPT ![f] = v] /\ motor \in [{"running", "fast", "enabled", "right"} -> BOOLEAN]
           /\ LightRight' <=> LightRight
           /\ \A b : Will(b)' <=> Will(b)
<1>1. Head(todo) = Act!Note(f, v) /\ Tail(todo) = << >>
  OBVIOUS
<1>2. /\ ActTyped' /\ todo' = << >> /\ UNCHANGED << mState, armed, callback >>
      /\ motor' = [motor EXCEPT ![f] = v] /\ \A b : Will(b)' <=> Will(b)
  BY <1>1, StepNotes DEF ActInv
<1>3. LightRight' <=> LightRight
  <2> HIDE DEF Will
  <2> QED BY <1>2 DEF LightRight
<1>4. StillWhenSteady'
  BY <1>2 DEF ActInv, StillWhenSteady, Still
<1> QED BY <1>2, <1>3, <1>4 DEF ActInv, ActTyped

\* The pulses of the calls, and the bits they are about.
LEMMA PulsesOfCalls ==
    /\ \A b \in Bit : /\ Act!Set(b) \in Pulse /\ Act!Set(b).bits = {b} /\ Act!Set(b).do = "set"
                      /\ Act!Reset({b}) \in Pulse /\ Act!Reset({b}).bits = {b}
                      /\ Act!Reset({b}).do # "set"
    /\ Act!Reset({"LEFT", "RIGHT"}) \in Pulse /\ Act!Reset({"LEFT", "RIGHT"}).bits = {"LEFT", "RIGHT"}
    /\ Act!Reset({"LEFT", "RIGHT"}).do # "set"
    /\ \A r \in BOOLEAN : BitOf(r) \in Bit /\ BitOf(r) # "LIGHT" /\ BitOf(r) # "SLOW" /\ BitOf(r) # "DISABLE"
BY DEF Act!Set, Act!Reset, Pulse, Bit, BitOf

\* What the calls of the motor consist of.
LEMMA StepsOfCalls ==
    /\ Act!Steps("start") = << Act!SetDirection, Act!Note("running", TRUE) >>
    /\ Act!Steps("stop") = << Act!Reset({"LEFT", "RIGHT"}), Act!Note("running", FALSE) >>
    /\ Act!Steps("right") = << Act!Reset({"LEFT"}), Act!Set("RIGHT"), Act!Note("right", TRUE) >>
    /\ Act!Steps("left") = << Act!Reset({"RIGHT"}), Act!Set("LEFT"), Act!Note("right", FALSE) >>
    /\ Act!Steps("slow") = << Act!Set("SLOW"), Act!Note("fast", FALSE) >>
    /\ Act!Steps("fast") = << Act!Reset({"SLOW"}), Act!Note("fast", TRUE) >>
    /\ Act!Steps("enable") = << Act!Reset({"DISABLE"}), Act!Note("enabled", TRUE) >>
    /\ Act!Steps("disable") = << Act!Set("DISABLE"), Act!Note("enabled", FALSE) >>
    /\ Act!Steps("open") = << Act!Set("SWITCH") >>
    /\ Act!Steps("close") = << Act!Reset({"SWITCH"}) >>
    /\ Act!Steps("turnOn") = Act!TurnOn
    /\ Act!Steps("turnOff") = Act!TurnOff
    /\ Act!Steps("flash") = Act!Flash
BY DEF Act!Steps, Act!Starting, Act!Right

\* The head and the tail of a pair.
LEMMA OfTwo == \A a, b : Head(<< a, b >>) = a /\ Tail(<< a, b >>) = << b >>
OBVIOUS

\* The same of the other short sequences.
LEMMA OfOne == \A a : Head(<< a >>) = a /\ Tail(<< a >>) = << >>
OBVIOUS

LEMMA OfThree == \A a, b, c : Head(<< a, b, c >>) = a /\ Tail(<< a, b, c >>) = << b, c >>
OBVIOUS

LEMMA OfFour == \A a, b, c, d : Head(<< a, b, c, d >>) = a /\ Tail(<< a, b, c, d >>) = << b, c, d >>
OBVIOUS

LEMMA OfFive ==
    ASSUME NEW q, NEW a, NEW b, NEW c, NEW d, NEW e, q = << a, b, c, d, e >>
    PROVE  Head(q) = a /\ Tail(q) = << b, c, d, e >>
OBVIOUS

\* What the steps for the belt do.
LEMMA StepKinds ==
    /\ \A b : Act!Set(b).do = "set" /\ Act!Set(b).bits = {b}
    /\ \A bits : Act!Reset(bits).do = "reset" /\ Act!Reset(bits).bits = bits
    /\ \A f, v : Act!Note(f, v).do = "motor" /\ Act!Note(f, v).field = f /\ Act!Note(f, v).value = v
    /\ Act!SetDirection.do = "direction"
BY DEF Act!Set, Act!Reset, Act!Note, Act!SetDirection

\* A bit will be set or not.
LEMMA WillOrNot == \A b : Will(b) \in BOOLEAN /\ Will(b)' \in BOOLEAN
<1>1. \A o, q, b : Ends(o, q, b) \in BOOLEAN
  <2>1. \A o, q, b : Touched(q, b) \in BOOLEAN /\ SetLast(q, b) \in BOOLEAN /\ (b \in o) \in BOOLEAN
    BY DEF Touched, SetLast
  <2> HIDE DEF Touched, SetLast
  <2> QED BY <2>1 DEF Ends
<1> QED BY <1>1 DEF Will

\* The calls that are not for the belt.
LEMMA OtherCalls ==
    \A call \in Calls \ Act!BeltCalls :
        \/ Act!Steps(call) \in {Act!TurnOn, Act!TurnOff, Act!Flash}
        \/ call \in {"slow", "fast", "enable", "disable", "open", "close"}
<1> SUFFICES ASSUME NEW call \in Calls \ Act!BeltCalls
             PROVE  \/ Act!Steps(call) \in {Act!TurnOn, Act!TurnOff, Act!Flash}
                    \/ call \in {"slow", "fast", "enable", "disable", "open", "close"}
  OBVIOUS
<1>1. call \in { "turnOn", "turnOff", "flash", "slow", "fast", "enable", "disable", "open", "close" }
  BY PartsAssumption DEF Act!ActuatorsAssumption, Act!BeltCalls
<1> QED BY <1>1, StepsOfCalls

\* Their steps that the delayed start has nothing to do with.
OtherStep ==
    { Act!Set("LIGHT"), Act!Reset({"LIGHT"}), Act!RemoveTimer, Act!Register,
      Act!Become("ON"), Act!Become("OFF"), Act!Become("FLASHING_ON"),
      Act!Set("SLOW"), Act!Reset({"SLOW"}), Act!Set("DISABLE"), Act!Reset({"DISABLE"}),
      Act!Set("SWITCH"), Act!Reset({"SWITCH"}), Act!Note("fast", TRUE), Act!Note("fast", FALSE),
      Act!Note("enabled", TRUE), Act!Note("enabled", FALSE) }

\* Which steps are for the belt.
LEMMA OfTheBelt == /\ \A s \in OtherStep : ~Act!OfBelt(s)
                   /\ \A s \in BeltStep : Act!OfBelt(s)
<1>1. /\ \A b \in {"LIGHT", "SLOW", "DISABLE", "SWITCH"} :
            {b} \cap {"LEFT", "RIGHT"} = {}
      /\ {"LEFT"} \cap {"LEFT", "RIGHT"} # {} /\ {"RIGHT"} \cap {"LEFT", "RIGHT"} # {}
      /\ {"LEFT", "RIGHT"} \cap {"LEFT", "RIGHT"} # {}
  OBVIOUS
<1> QED BY <1>1 DEF OtherStep, BeltStep, Act!OfBelt, Act!Set, Act!Reset, Act!RemoveTimer, Act!Register,
                    Act!Become, Act!Note, Act!SetDirection

\* The calls for anything but the belt consist of others.
LEMMA OthersFirst ==
    ASSUME OffBelt, todo # << >>
    PROVE  Head(todo) \in OtherStep
<1>1. CASE AtCall
  <2>1. PICK call \in Calls \ Act!BeltCalls : todo = Act!Steps(call)
    BY <1>1 DEF AtCall
  <2>2. CASE todo \in {Act!TurnOn, Act!TurnOff, Act!Flash}
    <3>1. Head(todo) = Act!RemoveTimer
      BY <2>2 DEF Act!TurnOn, Act!TurnOff, Act!Flash
    <3> QED BY <3>1 DEF OtherStep
  <2>3. CASE call \in {"slow", "fast", "enable", "disable", "open", "close"}
    <3>1. /\ Act!Set("SLOW") \in OtherStep /\ Act!Reset({"SLOW"}) \in OtherStep
          /\ Act!Set("DISABLE") \in OtherStep /\ Act!Reset({"DISABLE"}) \in OtherStep
          /\ Act!Set("SWITCH") \in OtherStep /\ Act!Reset({"SWITCH"}) \in OtherStep
      BY DEF OtherStep
    <3> HIDE DEF OtherStep
    <3>2. \E a \in OtherStep : todo = << a >> \/ \E b : todo = << a, b >>
      <4>1. CASE call \in {"slow", "fast"}
        BY <2>1, <3>1, <4>1, StepsOfCalls, Zenon
      <4>2. CASE call \in {"enable", "disable"}
        BY <2>1, <3>1, <4>2, StepsOfCalls, Zenon
      <4>3. CASE call \in {"open", "close"}
        BY <2>1, <3>1, <4>3, StepsOfCalls, Zenon
      <4> QED BY <2>3, <4>1, <4>2, <4>3
    <3>3. PICK a \in OtherStep : todo = << a >> \/ \E b : todo = << a, b >>
      BY <3>2
    <3>4. Head(todo) = a
      BY <3>3, OfOne, OfTwo, Zenon
    <3> QED BY <3>4
  <2> QED BY <2>1, <2>2, <2>3, OtherCalls
<1>2. CASE InLight
  <2>1. Head(Tail(Act!TurnOn)) = Act!Become("ON")
    <3>1. Tail(Act!TurnOn) = << Act!Become("ON"), Act!Set("LIGHT") >>
      BY OfThree, Zenon DEF Act!TurnOn
    <3> QED BY <3>1, OfTwo, Zenon
  <2>2. Head(Tail(Act!TurnOff)) = Act!Become("OFF")
    <3>1. Tail(Act!TurnOff) = << Act!Become("OFF"), Act!Reset({"LIGHT"}) >>
      BY OfThree, Zenon DEF Act!TurnOff
    <3> QED BY <3>1, OfTwo, Zenon
  <2>3. Head(Tail(Act!Flash)) = Act!Set("LIGHT")
    <3>1. Tail(Act!Flash) = << Act!Set("LIGHT"), Act!Become("FLASHING_ON"), Act!Register >>
      BY OfFour, Zenon DEF Act!Flash
    <3> QED BY <3>1, OfThree, Zenon
  <2>4. /\ Head(<< Act!Set("LIGHT") >>) = Act!Set("LIGHT")
        /\ Head(<< Act!Reset({"LIGHT"}) >>) = Act!Reset({"LIGHT"})
        /\ Head(<< Act!Register >>) = Act!Register
        /\ Head(<< Act!Become("FLASHING_ON"), Act!Register >>) = Act!Become("FLASHING_ON")
    BY OfOne, OfTwo, Zenon
  <2>5. Head(todo) \in { Act!Become("ON"), Act!Become("OFF"), Act!Become("FLASHING_ON"),
                         Act!Set("LIGHT"), Act!Reset({"LIGHT"}), Act!Register }
    <3> HIDE DEF Act!TurnOn, Act!TurnOff, Act!Flash
    <3>1. \/ todo \in {Tail(Act!TurnOn), Tail(Act!TurnOff), Tail(Act!Flash)}
          \/ todo \in { << Act!Set("LIGHT") >>, << Act!Reset({"LIGHT"}) >>, << Act!Register >>,
                        << Act!Become("FLASHING_ON"), Act!Register >> }
      BY <1>2, Zenon DEF InLight
    <3>2. CASE todo \in {Tail(Act!TurnOn), Tail(Act!TurnOff), Tail(Act!Flash)}
      BY <2>1, <2>2, <2>3, <3>2, Zenon
    <3>3. CASE todo \in { << Act!Set("LIGHT") >>, << Act!Reset({"LIGHT"}) >>, << Act!Register >>,
                          << Act!Become("FLASHING_ON"), Act!Register >> }
      BY <2>4, <3>3, Zenon
    <3> QED BY <3>1, <3>2, <3>3
  <2> QED BY <2>5, Zenon DEF OtherStep
<1>3. CASE InSpeed \/ InEnable
  <2>1. PICK f \in {"fast", "enabled"}, v \in BOOLEAN : todo = << Act!Note(f, v) >>
    BY <1>3, Zenon DEF InSpeed, InEnable
  <2>2. Head(todo) = Act!Note(f, v)
    BY <2>1, OfOne, Zenon
  <2>3. Act!Note(f, v) \in OtherStep
    BY Zenon DEF OtherStep
  <2> QED BY <2>2, <2>3
<1> QED BY <1>1, <1>2, <1>3 DEF OffBelt

\* A step of another call leaves the belt alone.
LEMMA OtherStepAside ==
    ASSUME ActTyped, Act!Step, Head(todo) \in OtherStep
    PROVE  BeltAside
<1>1. ASSUME NEW c \in {"LIGHT", "SLOW", "DISABLE", "SWITCH"}, Head(todo) \in {Act!Set(c), Act!Reset({c})}
      PROVE  BeltAside
  <2>0. c \in Bit
    BY DEF Bit
  <2>1. /\ Head(todo) \in Pulse /\ Head(todo).bits = {c}
    <3>1. /\ Act!Set(c) \in Pulse /\ Act!Set(c).bits = {c}
          /\ Act!Reset({c}) \in Pulse /\ Act!Reset({c}).bits = {c}
      BY <2>0, PulsesOfCalls
    <3> QED BY <1>1, <3>1
  <2> DEFINE p == Head(todo)
  <2>2. /\ UNCHANGED << motor, delayed, torn >>
        /\ \A b : Will(b)' <=> IF b \in p.bits THEN p.do = "set" ELSE Will(b)
    <3>1. p \in Pulse /\ Head(todo) = p
      BY <2>1
    <3> HIDE DEF p
    <3> QED BY <3>1, StepSends
  <2> HIDE DEF Will
  <2> QED BY <2>1, <2>2 DEF BeltAside
<1>2. ASSUME NEW f \in {"fast", "enabled"}, NEW v \in BOOLEAN, Head(todo) = Act!Note(f, v)
      PROVE  BeltAside
  <2>1. /\ UNCHANGED << delayed, torn >> /\ motor' = [motor EXCEPT ![f] = v]
        /\ \A b : Will(b)' <=> Will(b)
    BY <1>2, StepNotes
  <2> HIDE DEF Will
  <2> QED BY <2>1 DEF BeltAside, ActTyped
<1>3. ASSUME Head(todo) \in {Act!RemoveTimer, Act!Register, Act!Become("ON"), Act!Become("OFF"),
                             Act!Become("FLASHING_ON")}
      PROVE  BeltAside
  <2>1. UNCHANGED << motor, delayed, torn >> /\ \A b : Will(b)' <=> Will(b)
    BY <1>3, StepRemoves, StepRegisters, StepBecomes
  <2> HIDE DEF Will
  <2> QED BY <2>1 DEF BeltAside
<1> QED BY <1>1, <1>2, <1>3 DEF OtherStep

\* What is on its way for the belt stays so while nothing touches it.
LEMMA BeltStays ==
    ASSUME BeltWhere, BeltAside, (~Act!InBeltCall /\ ~Act!InBeltCall') \/ todo' = todo
    PROVE  BeltWhere'
<1> HIDE DEF Will, OnTheWay
<1>1. Act!InBeltCall' <=> Act!InBeltCall
  BY DEF Act!InBeltCall, Act!OfBelt
<1>2. delayed' = delayed /\ torn' = torn
  BY DEF BeltAside
<1>5. /\ Will("LEFT")' = Will("LEFT") /\ Will("RIGHT")' = Will("RIGHT")
      /\ motor'["right"] = motor["right"] /\ motor'["running"] = motor["running"]
  BY WillOrNot DEF BeltAside
<1>3. BeltOnTheWay(delayed)' <=> BeltOnTheWay(delayed)
  BY <1>2, <1>5 DEF BeltOnTheWay
<1>4. todo' = todo => (BeltOnTheWay(todo)' <=> BeltOnTheWay(todo))
  BY <1>5 DEF BeltOnTheWay
<1> HIDE DEF BeltOnTheWay
<1> QED BY <1>1, <1>2, <1>3, <1>4 DEF BeltWhere

-----------------------------------------------------------------------------
\* The bit b once step s is through that was to be w, and the field f that was v.
BitAfter(s, b, w) == IF s.do \in {"set", "reset"} /\ b \in s.bits THEN s.do = "set" ELSE w
FieldAfter(s, f, v) == IF s.do = "motor" /\ s.field = f THEN s.value ELSE v

RestAfter(q, right) == IF Head(q).do = "direction" THEN << Act!Set(BitOf(right)) >> \o Tail(q) ELSE Tail(q)

\* A step for the belt, on either thread, touches nothing else.
LEMMA BeltOutput ==
    ASSUME ActTyped, StillWhenSteady, NEW s \in BeltStep, Act!Output(s),
           UNCHANGED << out, mState, armed, callback >>
    PROVE  /\ ActTyped' /\ StillWhenSteady' /\ (Still' <=> Still)
           /\ LightRight' <=> LightRight
           /\ SpeedRight' <=> SpeedRight
           /\ EnableRight' <=> EnableRight
           /\ Will("SLOW")' <=> Will("SLOW")
           /\ Will("DISABLE")' <=> Will("DISABLE")
           /\ \A b \in {"LEFT", "RIGHT"} : Will(b)' <=> BitAfter(s, b, Will(b))
           /\ \A f \in {"right", "running"} : motor'[f] = FieldAfter(s, f, motor[f])
<1>1. (Still' <=> Still) /\ StillWhenSteady'
  BY DEF StillWhenSteady, Still
<1>2. CASE s.do \in {"set", "reset"}
  <2>1. s \in Pulse /\ s.bits \subseteq {"LEFT", "RIGHT"}
    BY <1>2, PulsesOfCalls DEF BeltStep, Act!Note, Act!SetDirection, Bit
  <2>2. /\ ActTyped' /\ UNCHANGED motor
        /\ \A b : Will(b)' <=> IF b \in s.bits THEN s.do = "set" ELSE Will(b)
    BY <2>1, PulseJoins
  <2> HIDE DEF Will
  <2>3. /\ Will("LIGHT")' <=> Will("LIGHT")
        /\ Will("SLOW")' <=> Will("SLOW")
        /\ Will("DISABLE")' <=> Will("DISABLE")
    BY <2>1, <2>2
  <2>4. /\ LightRight' <=> LightRight
        /\ SpeedRight' <=> SpeedRight
        /\ EnableRight' <=> EnableRight
    BY <2>2, <2>3 DEF LightRight, SpeedRight, EnableRight
  <2>5. s.do # "motor"
    BY <1>2
  <2> QED BY <1>1, <1>2, <2>2, <2>3, <2>4, <2>5 DEF BitAfter, FieldAfter
<1>3. ASSUME NEW f \in {"running", "right"}, NEW v \in BOOLEAN, s = Act!Note(f, v)
      PROVE  /\ ActTyped'
             /\ LightRight' <=> LightRight
             /\ SpeedRight' <=> SpeedRight
             /\ EnableRight' <=> EnableRight
             /\ Will("SLOW")' <=> Will("SLOW")
             /\ Will("DISABLE")' <=> Will("DISABLE")
             /\ \A b \in {"LEFT", "RIGHT"} : Will(b)' <=> BitAfter(s, b, Will(b))
             /\ \A g \in {"right", "running"} : motor'[g] = FieldAfter(s, g, motor[g])
  <2>1. ActTyped' /\ motor' = [motor EXCEPT ![f] = v] /\ \A b : Will(b)' <=> Will(b)
    BY <1>3, NoteJoins
  <2>2. s.do = "motor" /\ s.field = f /\ s.value = v
    BY <1>3 DEF Act!Note
  <2>3. motor \in [{"running", "fast", "enabled", "right"} -> BOOLEAN]
    BY DEF ActTyped
  <2> HIDE DEF Will
  <2>4. /\ LightRight' <=> LightRight
        /\ SpeedRight' <=> SpeedRight
        /\ EnableRight' <=> EnableRight
    BY <2>1, <2>3 DEF LightRight, SpeedRight, EnableRight
  <2>5. \A g \in {"right", "running"} : motor'[g] = FieldAfter(s, g, motor[g])
    BY <2>1, <2>2, <2>3 DEF FieldAfter
  <2>6. \A b \in {"LEFT", "RIGHT"} : Will(b)' <=> BitAfter(s, b, Will(b))
    BY <2>1, <2>2 DEF BitAfter
  <2> QED BY <2>1, <2>4, <2>5, <2>6
<1>4. CASE s = Act!SetDirection
  <2>1. s.do = "direction"
    BY <1>4 DEF Act!SetDirection
  <2>2. UNCHANGED << out, channel, motor, mState, armed, callback >>
    BY <2>1 DEF Act!Output
  <2>3. ActTyped' /\ \A b : Will(b)' <=> Will(b)
    BY <2>2 DEF ActTyped, Will, InOrder
  <2> HIDE DEF Will
  <2>4. /\ LightRight' <=> LightRight
        /\ SpeedRight' <=> SpeedRight
        /\ EnableRight' <=> EnableRight
    BY <2>2, <2>3, RightsStay
  <2> QED BY <1>1, <2>1, <2>2, <2>3, <2>4 DEF BitAfter, FieldAfter
<1>5. \/ s.do \in {"set", "reset"}
      \/ \E f \in {"running", "right"}, v \in BOOLEAN : s = Act!Note(f, v)
      \/ s = Act!SetDirection
  <2>1. \/ s \in { Act!Set("LEFT"), Act!Set("RIGHT"), Act!Reset({"LEFT"}), Act!Reset({"RIGHT"}),
                   Act!Reset({"LEFT", "RIGHT"}) }
        \/ s \in { Act!Note("running", TRUE), Act!Note("running", FALSE),
                   Act!Note("right", TRUE), Act!Note("right", FALSE) }
        \/ s = Act!SetDirection
    BY DEF BeltStep
  <2>2. CASE s \in { Act!Set("LEFT"), Act!Set("RIGHT"), Act!Reset({"LEFT"}), Act!Reset({"RIGHT"}),
                     Act!Reset({"LEFT", "RIGHT"}) }
    BY <2>2, StepKinds
  <2> QED BY <2>1, <2>2
<1> QED BY <1>1, <1>2, <1>3, <1>4, <1>5

\* What is left of a short sequence of steps for the belt is one.
LEMMA RestTyped ==
    ASSUME NEW q \in Seq(BeltStep), q # << >>, NEW right \in BOOLEAN
    PROVE  /\ Head(q) \in BeltStep /\ RestAfter(q, right) \in Seq(BeltStep)
           /\ Len(RestAfter(q, right)) <= Len(q)
<1>1. /\ Head(q) \in BeltStep /\ Tail(q) \in Seq(BeltStep) /\ Len(Tail(q)) = Len(q) - 1
      /\ Len(q) \in Nat
  OBVIOUS
<1>2. Act!Set(BitOf(right)) \in BeltStep
  BY DEF BeltStep, BitOf
<1> DEFINE a == Act!Set(BitOf(right))
           t == Tail(q)
<1>3. a \in BeltStep /\ t \in Seq(BeltStep)
  BY <1>1, <1>2
<1> HIDE DEF a, t
<1>4. << a >> \o t \in Seq(BeltStep) /\ Len(<< a >> \o t) = Len(t) + 1
  BY <1>3
<1> QED BY <1>1, <1>4 DEF RestAfter, a, t

\* Two sequences of a few steps joined.
LEMMA OneAndOne == ASSUME NEW a, NEW b PROVE << a >> \o << b >> = << a, b >>
<1> DEFINE S == {a, b}
           s == << a >>
           t == << b >>
           q == << a, b >>
<1>1. s \in Seq(S) /\ Len(s) = 1 /\ s[1] = a
  OBVIOUS
<1>2. t \in Seq(S) /\ Len(t) = 1 /\ t[1] = b
  OBVIOUS
<1>3. q \in Seq(S) /\ Len(q) = 2 /\ q[1] = a /\ q[2] = b
  OBVIOUS
<1> HIDE DEF S, s, t, q
<1>9. /\ s \o t \in Seq(S) /\ Len(s \o t) = Len(s) + Len(t)
      /\ \A i \in 1..Len(s) + Len(t) : (s \o t)[i] = IF i <= Len(s) THEN s[i] ELSE t[i - Len(s)]
  BY <1>1, <1>2, ConcatProperties, Zenon
<1> DEFINE r == s \o t
<1> HIDE DEF r
<1>4. r \in Seq(S) /\ Len(r) = 2
  BY <1>1, <1>2, <1>9 DEF r
<1>5. \A i \in 1..2 : r[i] = IF i <= 1 THEN s[i] ELSE t[i - 1]
  BY <1>1, <1>2, <1>9 DEF r
<1>6. r[1] = a /\ r[2] = b
  BY <1>1, <1>2, <1>5
<1>7. \A i \in 1..2 : r[i] = q[i]
  <2>1. \A i \in 1..2 : i = 1 \/ i = 2
    OBVIOUS
  <2> QED BY <1>3, <1>6, <2>1
<1>8. r = q
  BY <1>3, <1>4, <1>7, SeqEqual
<1> QED BY <1>8 DEF r, s, t, q

LEMMA ThreeAndTwo ==
    ASSUME NEW a, NEW b, NEW c, NEW d, NEW e
    PROVE  << a, b, c >> \o << d, e >> = << a, b, c, d, e >>
<1> DEFINE S == {a, b, c, d, e}
           s == << a, b, c >>
           t == << d, e >>
           q == << a, b, c, d, e >>
<1>1. s \in Seq(S) /\ Len(s) = 3 /\ s[1] = a /\ s[2] = b /\ s[3] = c
  OBVIOUS
<1>2. t \in Seq(S) /\ Len(t) = 2 /\ t[1] = d /\ t[2] = e
  OBVIOUS
<1>3. q \in Seq(S) /\ Len(q) = 5 /\ q[1] = a /\ q[2] = b /\ q[3] = c /\ q[4] = d /\ q[5] = e
  OBVIOUS
<1> HIDE DEF S, s, t, q
<1>9. /\ s \o t \in Seq(S) /\ Len(s \o t) = Len(s) + Len(t)
      /\ \A i \in 1..Len(s) + Len(t) : (s \o t)[i] = IF i <= Len(s) THEN s[i] ELSE t[i - Len(s)]
  BY <1>1, <1>2, ConcatProperties, Zenon
<1> DEFINE r == s \o t
<1> HIDE DEF r
<1>4. r \in Seq(S) /\ Len(r) = 5
  BY <1>1, <1>2, <1>9 DEF r
<1>5. \A i \in 1..5 : r[i] = IF i <= 3 THEN s[i] ELSE t[i - 3]
  BY <1>1, <1>2, <1>9 DEF r
<1>6. /\ r[1] = a /\ r[2] = b /\ r[3] = c
      /\ r[4] = d /\ r[5] = e
  BY <1>1, <1>2, <1>5
<1>7. \A i \in 1..5 : r[i] = q[i]
  <2>1. \A i \in 1..5 : i = 1 \/ i = 2 \/ i = 3 \/ i = 4 \/ i = 5
    OBVIOUS
  <2> QED BY <1>3, <1>6, <2>1
<1>8. r = q
  BY <1>3, <1>4, <1>7, SeqEqual
<1> QED BY <1>8 DEF r, s, t, q

\* When nothing is left of a call the bits are what the object says.
LEMMA NothingLeft ==
    ASSUME NEW l, NEW r, NEW right, NEW runs,
           ~(IF right THEN l ELSE r), runs => (IF right THEN r ELSE l)
    PROVE  OnTheWay(<< >>, l, r, right, runs)
BY Zenon DEF OnTheWay

\* A start is on its way.
LEMMA StartsSo ==
    ASSUME NEW l, NEW r, NEW right, NEW runs,
           ~(IF right THEN l ELSE r), runs => (IF right THEN r ELSE l)
    PROVE  /\ OnTheWay(<< Act!SetDirection, Act!Note("running", TRUE) >>, l, r, right, runs)
           /\ OnTheWay(<< Act!Set(BitOf(right)), Act!Note("running", TRUE) >>, l, r, right, runs)
           /\ (IF right THEN r ELSE l) => OnTheWay(<< Act!Note("running", TRUE) >>, l, r, right, runs)
BY Zenon DEF OnTheWay

\* A call for the belt that nothing overlaps goes on.
LEMMA WayGoesOn ==
    ASSUME NEW q, NEW l \in BOOLEAN, NEW r \in BOOLEAN, NEW right \in BOOLEAN, NEW runs \in BOOLEAN,
           OnTheWay(q, l, r, right, runs), q # << >>,
           NEW l2 \in BOOLEAN, NEW r2 \in BOOLEAN, NEW right2 \in BOOLEAN, NEW runs2 \in BOOLEAN,
           l2 = BitAfter(Head(q), "LEFT", l), r2 = BitAfter(Head(q), "RIGHT", r),
           right2 = FieldAfter(Head(q), "right", right),
           runs2 = FieldAfter(Head(q), "running", runs)
    PROVE  OnTheWay(RestAfter(q, right), l2, r2, right2, runs2)
<1> DEFINE w == RestAfter(q, right)
           n == Act!Note("running", TRUE)
<1>0. ASSUME NEW a, NEW t, Head(q) = a, Tail(q) = t, a.do # "direction"
      PROVE  w = t
  BY <1>0 DEF RestAfter
<1>1. CASE q = << Act!Reset({"LEFT", "RIGHT"}), Act!Note("running", FALSE) >>
  <2>1. Head(q) = Act!Reset({"LEFT", "RIGHT"}) /\ w = << Act!Note("running", FALSE) >>
    <3>1. Head(q) = Act!Reset({"LEFT", "RIGHT"}) /\ Tail(q) = << Act!Note("running", FALSE) >>
      <4>1. q = << Act!Reset({"LEFT", "RIGHT"}), Act!Note("running", FALSE) >>
        BY <1>1
      <4> QED BY <4>1, OfTwo, Zenon
    <3>2. Head(q).do # "direction"
      BY <3>1, StepKinds
    <3> QED BY <1>0, <3>1, <3>2, Zenon
  <2>2. ~l2 /\ ~r2
    BY <2>1 DEF BitAfter, Act!Reset
  <2> QED BY <2>1, <2>2 DEF OnTheWay
<1>2. CASE q = << Act!Note("running", FALSE) >> /\ ~l /\ ~r
  <2>1. Head(q) = Act!Note("running", FALSE) /\ w = << >>
    <3>1. Head(q) = Act!Note("running", FALSE) /\ Tail(q) = << >>
      <4>1. q = << Act!Note("running", FALSE) >>
        BY <1>2
      <4> QED BY <4>1, OfOne, Zenon
    <3>0. Act!Note("running", FALSE).do = "motor"
      BY DEF Act!Note
    <3>2. Head(q).do # "direction"
      BY <3>0, <3>1, Zenon
    <3> QED BY <1>0, <3>1, <3>2, Zenon
  <2>2. ~l2 /\ ~r2 /\ ~runs2
    BY <1>2, <2>1 DEF BitAfter, FieldAfter, Act!Note
  <2> QED BY <2>1, <2>2 DEF OnTheWay
<1> DEFINE So == ~(IF right THEN l ELSE r) /\ (runs => (IF right THEN r ELSE l))
<1>3. CASE q = << Act!SetDirection, n >> /\ So
  <2>1. Head(q) = Act!SetDirection /\ w = << Act!Set(BitOf(right)), n >>
    <3>1. Head(q) = Act!SetDirection /\ Tail(q) = << n >>
      <4>1. q = << Act!SetDirection, n >>
        BY <1>3
      <4> QED BY <4>1, OfTwo, Zenon
    <3>2. Head(q).do = "direction"
      BY <3>1, StepKinds
    <3>3. w = << Act!Set(BitOf(right)) >> \o << n >>
      BY <3>1, <3>2, Zenon DEF RestAfter
    <3> QED BY <3>1, <3>3, OneAndOne, Zenon
  <2>2. l2 = l /\ r2 = r /\ right2 = right /\ runs2 = runs
    <3>1. Head(q).do \notin {"set", "reset"} /\ Head(q).do # "motor"
      BY <2>1, StepKinds
    <3> QED BY <3>1, Zenon DEF BitAfter, FieldAfter
  <2>3. ~(IF right2 THEN l2 ELSE r2) /\ (runs2 => (IF right2 THEN r2 ELSE l2))
    BY <1>3, <2>2
  <2>4. OnTheWay(<< Act!Set(BitOf(right2)), n >>, l2, r2, right2, runs2)
    BY <2>3, StartsSo
  <2>5. w = << Act!Set(BitOf(right2)), n >>
    BY <2>1, <2>2
  <2> HIDE DEF OnTheWay
  <2> QED BY <2>4, <2>5
<1>4. CASE q = << Act!Set(BitOf(right)), n >> /\ So
  <2>1. Head(q) = Act!Set(BitOf(right)) /\ w = << n >>
    <3>1. Head(q) = Act!Set(BitOf(right)) /\ Tail(q) = << n >>
      <4>1. q = << Act!Set(BitOf(right)), n >>
        BY <1>4
      <4> QED BY <4>1, OfTwo, Zenon
    <3>2. Head(q).do # "direction"
      BY <3>1, StepKinds
    <3> QED BY <1>0, <3>1, <3>2, Zenon
  <2>2. /\ right2 = right /\ runs2 = runs
        /\ IF right THEN r2 /\ l2 = l ELSE l2 /\ r2 = r
    <3>1. /\ Head(q).do = "set" /\ Head(q).do \in {"set", "reset"} /\ Head(q).do # "motor"
          /\ IF right THEN "LEFT" \notin Head(q).bits /\ "RIGHT" \in Head(q).bits
                      ELSE "LEFT" \in Head(q).bits /\ "RIGHT" \notin Head(q).bits
      BY <2>1, StepKinds DEF BitOf
    <3> QED BY <3>1, Zenon DEF BitAfter, FieldAfter
  <2>3. ~(IF right2 THEN l2 ELSE r2) /\ (IF right2 THEN r2 ELSE l2)
    BY <1>4, <2>2
  <2>4. OnTheWay(<< n >>, l2, r2, right2, runs2)
    BY <2>3, StartsSo
  <2> HIDE DEF OnTheWay
  <2> QED BY <2>1, <2>4
<1>5. CASE q = << n >> /\ So /\ (IF right THEN r ELSE l)
  <2>1. Head(q) = n /\ w = << >>
    <3>1. Head(q) = n /\ Tail(q) = << >>
      <4>1. q = << n >>
        BY <1>5
      <4> QED BY <4>1, OfOne, Zenon
    <3>0. n.do = "motor"
      BY StepKinds
    <3>2. Head(q).do # "direction"
      BY <3>0, <3>1, Zenon
    <3> QED BY <1>0, <3>1, <3>2, Zenon
  <2>2. l2 = l /\ r2 = r /\ right2 = right
    <3>0. n.do = "motor" /\ n.field = "running"
      BY StepKinds
    <3>1. Head(q).do \notin {"set", "reset"} /\ Head(q).field # "right"
      BY <2>1, <3>0, Zenon
    <3> QED BY <3>1, Zenon DEF BitAfter, FieldAfter
  <2>3. ~(IF right2 THEN l2 ELSE r2) /\ (IF right2 THEN r2 ELSE l2)
    <3>1. (IF right THEN ~l /\ r ELSE ~r /\ l)
      BY <1>5, Zenon
    <3>2. (l2 <=> l) /\ (r2 <=> r) /\ (right2 <=> right)
      BY <2>2
    <3> QED BY <3>1, <3>2, Zenon
  <2>4. OnTheWay(<< >>, l2, r2, right2, runs2)
    BY <2>3, NothingLeft
  <2> HIDE DEF OnTheWay
  <2> QED BY <2>1, <2>4
<1>6. ASSUME NEW d \in BOOLEAN,
             q \in { << Act!Reset({BitOf(~d)}), Act!Set(BitOf(d)), Act!Note("right", d) >>,
                     << Act!Reset({BitOf(~d)}), Act!Set(BitOf(d)), Act!Note("right", d),
                        Act!SetDirection, n >> }
      PROVE  OnTheWay(w, l2, r2, right2, runs2)
  <2>1. /\ Head(q) = Act!Reset({BitOf(~d)})
        /\ w \in { << Act!Set(BitOf(d)), Act!Note("right", d) >>,
                   << Act!Set(BitOf(d)), Act!Note("right", d), Act!SetDirection, n >> }
    <3>1. /\ Head(q) = Act!Reset({BitOf(~d)})
          /\ Tail(q) \in { << Act!Set(BitOf(d)), Act!Note("right", d) >>,
                         << Act!Set(BitOf(d)), Act!Note("right", d), Act!SetDirection, n >> }
      <4>1. CASE q = << Act!Reset({BitOf(~d)}), Act!Set(BitOf(d)), Act!Note("right", d) >>
        BY <4>1, OfThree, Zenon
      <4>2. CASE q = << Act!Reset({BitOf(~d)}), Act!Set(BitOf(d)), Act!Note("right", d), Act!SetDirection, n >>
        <5> DEFINE v1 == Act!Reset({BitOf(~d)})
                   v2 == Act!Set(BitOf(d))
                   v3 == Act!Note("right", d)
                   v4 == Act!SetDirection
        <5> HIDE DEF v1, v2, v3, v4, n
        <5>0. q = << v1, v2, v3, v4, n >>
          BY <4>2 DEF v1, v2, v3, v4, n
        <5>2. Head(q) = v1 /\ Tail(q) = << v2, v3, v4, n >>
          BY <5>0, OfFive
        <5>1. /\ Head(q) = Act!Reset({BitOf(~d)})
              /\ Tail(q) = << Act!Set(BitOf(d)), Act!Note("right", d), Act!SetDirection, n >>
          BY <5>2 DEF v1, v2, v3, v4
        <5> QED BY <5>1, Zenon
      <4> QED BY <1>6, <4>1, <4>2, Zenon
    <3>2. Head(q).do # "direction"
      BY <3>1, StepKinds
    <3> QED BY <1>0, <3>1, <3>2, Zenon
  <2>2. IF d THEN ~l2 ELSE ~r2
    BY <2>1, StepKinds DEF BitAfter, BitOf
  <2> QED BY <2>1, <2>2 DEF OnTheWay
<1>7. ASSUME NEW d \in BOOLEAN, IF d THEN ~l ELSE ~r,
             q \in { << Act!Set(BitOf(d)), Act!Note("right", d) >>,
                     << Act!Set(BitOf(d)), Act!Note("right", d), Act!SetDirection, n >> }
      PROVE  OnTheWay(w, l2, r2, right2, runs2)
  <2>1. /\ Head(q) = Act!Set(BitOf(d))
        /\ w \in { << Act!Note("right", d) >>, << Act!Note("right", d), Act!SetDirection, n >> }
    <3>1. /\ Head(q) = Act!Set(BitOf(d))
          /\ Tail(q) \in { << Act!Note("right", d) >>,
                         << Act!Note("right", d), Act!SetDirection, n >> }
      <4>1. CASE q = << Act!Set(BitOf(d)), Act!Note("right", d) >>
        BY <4>1, OfTwo, Zenon
      <4>2. CASE q = << Act!Set(BitOf(d)), Act!Note("right", d), Act!SetDirection, n >>
        BY <4>2, OfFour, Zenon
      <4> QED BY <1>7, <4>1, <4>2, Zenon
    <3>2. Head(q).do # "direction"
      BY <3>1, StepKinds
    <3> QED BY <1>0, <3>1, <3>2, Zenon
  <2>2. IF d THEN ~l2 /\ r2 ELSE ~r2 /\ l2
    BY <1>7, <2>1, StepKinds DEF BitAfter, BitOf
  <2> QED BY <2>1, <2>2 DEF OnTheWay
<1>8. ASSUME NEW d \in BOOLEAN, IF d THEN ~l /\ r ELSE ~r /\ l,
             q \in { << Act!Note("right", d) >>, << Act!Note("right", d), Act!SetDirection, n >> }
      PROVE  OnTheWay(w, l2, r2, right2, runs2)
  <2>1. Head(q) = Act!Note("right", d) /\ w \in { << >>, << Act!SetDirection, n >> }
    <3>1. /\ Head(q) = Act!Note("right", d)
          /\ Tail(q) \in { << >>, << Act!SetDirection, n >> }
      <4>1. CASE q = << Act!Note("right", d) >>
        BY <4>1, OfOne, Zenon
      <4>2. CASE q = << Act!Note("right", d), Act!SetDirection, n >>
        BY <4>2, OfThree, Zenon
      <4> QED BY <1>8, <4>1, <4>2, Zenon
    <3>2. Head(q).do # "direction"
      BY <3>1, StepKinds
    <3> QED BY <1>0, <3>1, <3>2, Zenon
  <2>2. l2 = l /\ r2 = r /\ right2 = d
    <3>1. /\ Head(q).do \notin {"set", "reset"} /\ Head(q).do = "motor"
          /\ Head(q).field = "right" /\ Head(q).value = d
      BY <2>1, StepKinds
    <3> QED BY <3>1, Zenon DEF BitAfter, FieldAfter
  <2>3. ~(IF right2 THEN l2 ELSE r2) /\ (IF right2 THEN r2 ELSE l2)
    BY <1>8, <2>2
  <2>4. /\ OnTheWay(<< >>, l2, r2, right2, runs2)
        /\ OnTheWay(<< Act!SetDirection, n >>, l2, r2, right2, runs2)
    BY <2>3, NothingLeft, StartsSo
  <2> HIDE DEF OnTheWay
  <2> QED BY <2>1, <2>4
<1>9. \/ q = << Act!Reset({"LEFT", "RIGHT"}), Act!Note("running", FALSE) >>
      \/ q = << Act!Note("running", FALSE) >> /\ ~l /\ ~r
      \/ q = << Act!SetDirection, n >> /\ So
      \/ q = << Act!Set(BitOf(right)), n >> /\ So
      \/ q = << n >> /\ So /\ (IF right THEN r ELSE l)
      \/ \E d \in BOOLEAN :
            \/ q \in { << Act!Reset({BitOf(~d)}), Act!Set(BitOf(d)), Act!Note("right", d) >>,
                       << Act!Reset({BitOf(~d)}), Act!Set(BitOf(d)), Act!Note("right", d),
                          Act!SetDirection, n >> }
            \/ /\ IF d THEN ~l ELSE ~r
               /\ q \in { << Act!Set(BitOf(d)), Act!Note("right", d) >>,
                          << Act!Set(BitOf(d)), Act!Note("right", d), Act!SetDirection, n >> }
            \/ /\ IF d THEN ~l /\ r ELSE ~r /\ l
               /\ q \in { << Act!Note("right", d) >>, << Act!Note("right", d), Act!SetDirection, n >> }
  BY DEF OnTheWay
<1> QED BY <1>1, <1>2, <1>3, <1>4, <1>5, <1>6, <1>7, <1>8, <1>9

\* A step for the belt on a thread that has q left.
LEMMA BeltMoves ==
    ASSUME ActTyped, StillWhenSteady, NEW q, q # << >>, BeltOnTheWay(q), Head(q) \in BeltStep,
           Act!Output(Head(q)), UNCHANGED << out, mState, armed, callback >>
    PROVE  OnTheWay(Act!Rest(q), Will("LEFT")', Will("RIGHT")', motor'["right"], motor'["running"])
<1>1. /\ motor["right"] \in BOOLEAN /\ motor["running"] \in BOOLEAN
      /\ motor'["right"] \in BOOLEAN /\ motor'["running"] \in BOOLEAN
      /\ \A b : Will(b) \in BOOLEAN /\ Will(b)' \in BOOLEAN
  <2>1. ActTyped'
    BY BeltOutput
  <2> QED BY <2>1, WillOrNot DEF ActTyped
<1>2. /\ \A b \in {"LEFT", "RIGHT"} : Will(b)' <=> BitAfter(Head(q), b, Will(b))
      /\ \A f \in {"right", "running"} : motor'[f] = FieldAfter(Head(q), f, motor[f])
  BY BeltOutput
<1>3. Act!Rest(q) = RestAfter(q, motor["right"])
  BY DEF Act!Rest, RestAfter, BitOf
<1>4. /\ Will("LEFT")' = BitAfter(Head(q), "LEFT", Will("LEFT"))
      /\ Will("RIGHT")' = BitAfter(Head(q), "RIGHT", Will("RIGHT"))
  <2> HIDE DEF Will
  <2> QED BY <1>1, <1>2 DEF BitAfter
<1> HIDE DEF Will, OnTheWay, RestAfter, BitAfter, FieldAfter
<1> QED BY <1>1, <1>2, <1>3, <1>4, WayGoesOn DEF BeltOnTheWay


-----------------------------------------------------------------------------
\* The calls that set the speed, enable the motor or move the switch begin.
LEMMA OtherCallBegins ==
    ASSUME ActTyped, StillWhenSteady, Act!Step, AllRight,
           NEW call \in {"slow", "fast", "enable", "disable", "open", "close"},
           todo = Act!Steps(call)
    PROVE  ActTyped' /\ StillWhenSteady' /\ OffBelt'
<1>0. LightRight /\ SpeedRight /\ EnableRight
  BY DEF AllRight
<1>1. ASSUME NEW p \in Pulse, NEW c \in {"SLOW", "DISABLE", "SWITCH"}, Head(todo) = p, p.bits = {c}
      PROVE  /\ ActTyped' /\ StillWhenSteady' /\ todo' = Tail(todo) /\ UNCHANGED motor
             /\ LightRight'
             /\ c # "SLOW" => SpeedRight'
             /\ c # "DISABLE" => EnableRight'
             /\ Will(c)' <=> p.do = "set"
  <2>1. /\ ActTyped' /\ StillWhenSteady' /\ todo' = Tail(todo) /\ UNCHANGED motor
        /\ LightRight' <=> LightRight
        /\ \A b : Will(b)' <=> IF b \in {c} THEN p.do = "set" ELSE Will(b)
    BY <1>1, OtherCallSends
  <2> HIDE DEF Will
  <2>2. (c # "SLOW" => SpeedRight') /\ (c # "DISABLE" => EnableRight')
    BY <1>0, <2>1 DEF SpeedRight, EnableRight, BitOf
  <2> QED BY <1>0, <2>1, <2>2
<1> HIDE DEF Will
<1>2. ASSUME NEW f \in BOOLEAN, call = (IF f THEN "fast" ELSE "slow") PROVE ActTyped' /\ StillWhenSteady' /\ OffBelt'
  <2> DEFINE p == IF f THEN Act!Reset({"SLOW"}) ELSE Act!Set("SLOW")
  <2>1. p \in Pulse /\ p.bits = {"SLOW"} /\ (p.do = "set" <=> ~f)
    BY PulsesOfCalls DEF Bit
  <2>2. todo = << p, Act!Note("fast", f) >>
    <3>1. CASE f
      BY <1>2, <3>1, StepsOfCalls
    <3>2. CASE ~f
      BY <1>2, <3>2, StepsOfCalls
    <3> QED BY <3>1, <3>2
  <2> HIDE DEF p
  <2>3. Head(todo) = p /\ Tail(todo) = << Act!Note("fast", f) >>
    BY <2>2, OfTwo, Zenon
  <2>4. /\ ActTyped' /\ StillWhenSteady' /\ todo' = << Act!Note("fast", f) >>
        /\ LightRight' /\ EnableRight' /\ (f <=> ~Will("SLOW")')
    BY <1>1, <2>1, <2>3
  <2> QED BY <2>4 DEF OffBelt, InSpeed
<1>3. ASSUME NEW e \in BOOLEAN, call = (IF e THEN "enable" ELSE "disable") PROVE ActTyped' /\ StillWhenSteady' /\ OffBelt'
  <2> DEFINE p == IF e THEN Act!Reset({"DISABLE"}) ELSE Act!Set("DISABLE")
  <2>1. p \in Pulse /\ p.bits = {"DISABLE"} /\ (p.do = "set" <=> ~e)
    BY PulsesOfCalls DEF Bit
  <2>2. todo = << p, Act!Note("enabled", e) >>
    <3>1. CASE e
      BY <1>3, <3>1, StepsOfCalls
    <3>2. CASE ~e
      BY <1>3, <3>2, StepsOfCalls
    <3> QED BY <3>1, <3>2
  <2> HIDE DEF p
  <2>3. Head(todo) = p /\ Tail(todo) = << Act!Note("enabled", e) >>
    BY <2>2, OfTwo, Zenon
  <2>4. /\ ActTyped' /\ StillWhenSteady' /\ todo' = << Act!Note("enabled", e) >>
        /\ LightRight' /\ SpeedRight' /\ (e <=> ~Will("DISABLE")')
    BY <1>1, <2>1, <2>3
  <2> QED BY <2>4 DEF OffBelt, InEnable
<1>4. CASE call \in {"open", "close"}
  <2>1. PICK p \in {Act!Set("SWITCH"), Act!Reset({"SWITCH"})} : todo = << p >>
    BY <1>4, StepsOfCalls
  <2>2. p \in Pulse /\ p.bits = {"SWITCH"}
    BY PulsesOfCalls DEF Bit
  <2>3. Head(todo) = p /\ Tail(todo) = << >>
    BY <2>1
  <2>4. /\ ActTyped' /\ StillWhenSteady' /\ todo' = << >>
        /\ LightRight' /\ SpeedRight' /\ EnableRight'
    BY <1>1, <2>2, <2>3
  <2> QED BY <2>4 DEF OffBelt, AtCall, AllRight
<1> QED BY <1>2, <1>3, <1>4

\* They go on.
LEMMA OtherCallGoesOn ==
    ASSUME ActTyped, StillWhenSteady, Act!Step,
           \/ InSpeed /\ LightRight /\ EnableRight
           \/ InEnable /\ LightRight /\ SpeedRight
    PROVE  ActTyped' /\ StillWhenSteady' /\ OffBelt'
<1> HIDE DEF Will
<1>1. CASE InSpeed /\ LightRight /\ EnableRight
  <2>1. PICK f \in BOOLEAN : todo = << Act!Note("fast", f) >> /\ (f <=> ~Will("SLOW"))
    BY <1>1 DEF InSpeed
  <2>2. /\ ActTyped' /\ StillWhenSteady' /\ todo' = << >>
        /\ motor' = [motor EXCEPT !["fast"] = f]
        /\ motor \in [{"running", "fast", "enabled", "right"} -> BOOLEAN]
        /\ LightRight' <=> LightRight
        /\ \A b : Will(b)' <=> Will(b)
    BY <2>1, OtherCallNotes
  <2>3. SpeedRight' /\ EnableRight'
    BY <1>1, <2>1, <2>2 DEF SpeedRight, EnableRight, BitOf
  <2> QED BY <1>1, <2>2, <2>3 DEF OffBelt, AtCall, AllRight
<1>2. CASE InEnable /\ LightRight /\ SpeedRight
  <2>1. PICK e \in BOOLEAN : todo = << Act!Note("enabled", e) >> /\ (e <=> ~Will("DISABLE"))
    BY <1>2 DEF InEnable
  <2>2. /\ ActTyped' /\ StillWhenSteady' /\ todo' = << >>
        /\ motor' = [motor EXCEPT !["enabled"] = e]
        /\ motor \in [{"running", "fast", "enabled", "right"} -> BOOLEAN]
        /\ LightRight' <=> LightRight
        /\ \A b : Will(b)' <=> Will(b)
    BY <2>1, OtherCallNotes
  <2>3. SpeedRight' /\ EnableRight'
    BY <1>2, <2>1, <2>2 DEF SpeedRight, EnableRight, BitOf
  <2> QED BY <1>2, <2>2, <2>3 DEF OffBelt, AtCall, AllRight
<1> QED BY <1>1, <1>2

\* A call for anything but the belt is none for the belt.
LEMMA OffBeltMeans == OffBelt => ~Act!InBeltCall
BY OthersFirst, OfTheBelt DEF Act!InBeltCall

\* A call for the belt is one.
LEMMA InBeltMeans == InBelt => Act!InBeltCall
<1> SUFFICES ASSUME InBelt PROVE Act!InBeltCall
  OBVIOUS
<1>1. todo # << >> /\ Head(todo) \in BeltStep
  BY DEF InBelt
<1> QED BY <1>1, OfTheBelt DEF Act!InBeltCall

\* Every step of a call keeps the invariant.
LEMMA CallsGoOn == ActInv /\ Act!Step => ActInv'
<1> SUFFICES ASSUME ActInv, Act!Step PROVE ActInv'
  OBVIOUS
<1> USE DEF ActInv
<1>0. todo # << >> /\ todo' = Act!Rest(todo) /\ UNCHANGED << out, delayed, torn >>
  BY DEF Act!Step
<1>1. CASE OffBelt
  <2>1. ASSUME AtCall, AllRight PROVE ActTyped' /\ StillWhenSteady' /\ OffBelt'
    <3>1. PICK call \in Calls \ Act!BeltCalls : todo = Act!Steps(call)
      BY <1>0, <2>1 DEF AtCall
    <3>2. CASE todo \in {Act!TurnOn, Act!TurnOff, Act!Flash}
      BY <2>1, <3>2, LightCallBegins
    <3>3. CASE call \in {"slow", "fast", "enable", "disable", "open", "close"}
      BY <2>1, <3>1, <3>3, OtherCallBegins
    <3> QED BY <3>1, <3>2, <3>3, OtherCalls
  <2>2. ActTyped' /\ StillWhenSteady' /\ OffBelt'
    BY <1>1, <2>1, LightCallGoesOn, OtherCallGoesOn DEF OffBelt
  <2>3. BeltAside
    BY <1>0, <1>1, OthersFirst, OtherStepAside
  <2>4. ~Act!InBeltCall /\ ~Act!InBeltCall'
    BY <1>1, <2>2, OffBeltMeans, PTL
  <2> QED BY <2>2, <2>3, <2>4, BeltStays DEF Where
<1>2. CASE InBelt /\ AllRight
  <2>1. todo \in Seq(BeltStep) /\ Len(todo) <= 3 /\ Len(todo) \in Nat /\ motor["right"] \in BOOLEAN
    BY <1>2 DEF InBelt, ActTyped
  <2>2. /\ Head(todo) \in BeltStep /\ todo' \in Seq(BeltStep) /\ Len(todo') <= Len(todo)
        /\ Len(todo') \in Nat
    <3>1. todo' = RestAfter(todo, motor["right"])
      BY <1>0 DEF Act!Rest, RestAfter, BitOf
    <3>2. todo' \in Seq(BeltStep) /\ Len(todo') <= Len(todo) /\ Head(todo) \in BeltStep
      BY <1>0, <2>1, <3>1, RestTyped
    <3> QED BY <3>2
  <2>3. Act!Output(Head(todo)) /\ UNCHANGED << mState, armed, callback >>
    <3>1. Head(todo).do \notin {"mState", "removeTimer", "register"}
      BY <2>2 DEF BeltStep, Act!Set, Act!Reset, Act!Note, Act!SetDirection
    <3> QED BY <3>1 DEF Act!Step, Act!OfLight, Act!light
  <2>4. ActTyped' /\ StillWhenSteady' /\ AllRight'
    BY <1>0, <1>2, <2>2, <2>3, BeltOutput DEF AllRight
  <2>5. Where'
    <3>1. CASE todo' = << >>
      BY <2>4, <3>1 DEF Where, OffBelt, AtCall
    <3>2. CASE todo' # << >>
      BY <2>1, <2>2, <2>4, <3>2 DEF Where, InBelt
    <3> QED BY <3>1, <3>2
  <2>6. Act!InBeltCall /\ (Act!InBeltCall' <=> todo' # << >>)
    <3>1. todo' # << >> => Head(todo') \in BeltStep
      BY <2>2
    <3> QED BY <1>0, <2>2, <3>1, OfTheBelt DEF Act!InBeltCall
  <2>7. ASSUME ~torn PROVE delayed = << >> /\ BeltOnTheWay(todo)'
    <3>1. delayed = << >> /\ BeltOnTheWay(todo)
      BY <2>6, <2>7 DEF BeltWhere
    <3>2. OnTheWay(Act!Rest(todo), Will("LEFT")', Will("RIGHT")', motor'["right"], motor'["running"])
      BY <1>0, <2>2, <2>3, <3>1, BeltMoves
    <3> HIDE DEF Will, OnTheWay
    <3> QED BY <1>0, <3>1, <3>2 DEF BeltOnTheWay
  <2>8. BeltWhere'
    <3> HIDE DEF BeltOnTheWay
    <3>1. CASE torn
      BY <1>0, <3>1 DEF BeltWhere
    <3>2. CASE ~torn /\ todo' # << >>
      BY <1>0, <2>6, <2>7, <3>2 DEF BeltWhere
    <3>3. CASE ~torn /\ todo' = << >>
      <4>1. delayed' = todo' /\ BeltOnTheWay(todo)' /\ ~Act!InBeltCall'
        BY <1>0, <2>6, <2>7, <3>3
      <4>2. BeltOnTheWay(delayed)'
        <5> HIDE DEF Will, OnTheWay
        <5> QED BY <4>1 DEF BeltOnTheWay
      <4> QED BY <1>0, <4>1, <4>2 DEF BeltWhere
    <3> QED BY <3>1, <3>2, <3>3
  <2> QED BY <2>4, <2>5, <2>8
<1> QED BY <1>1, <1>2 DEF Where

\* What the handler is about stays so while nothing it is about changes.
LEMMA WhereStays ==
    ASSUME Where, todo' = todo, InLight => InLight', LightRight => LightRight',
           SpeedRight' <=> SpeedRight, EnableRight' <=> EnableRight,
           Will("SLOW")' <=> Will("SLOW"), Will("DISABLE")' <=> Will("DISABLE")
    PROVE  Where'
<1> HIDE DEF Will
<1>1. (AtCall => AtCall') /\ (InBelt => InBelt')
  BY DEF AtCall, InBelt, Act!Steps, Act!Starting
<1>2. (InSpeed => InSpeed') /\ (InEnable => InEnable')
  BY DEF InSpeed, InEnable
<1> QED BY <1>1, <1>2 DEF Where, OffBelt, AllRight

\* So does every step of the delayed start.
LEMMA DelayedGoesOn == ActInv /\ Act!StepOfDelayed => ActInv'
<1> SUFFICES ASSUME ActInv, Act!StepOfDelayed PROVE ActInv'
  OBVIOUS
<1> USE DEF ActInv
<1>1. /\ delayed # << >> /\ delayed' = Act!Rest(delayed) /\ Act!Output(Head(delayed))
      /\ UNCHANGED << out, todo, torn, mState, armed, callback >>
  BY DEF Act!StepOfDelayed, Act!light
<1>2. /\ Head(delayed) \in BeltStep /\ delayed' \in Seq(BeltStep) /\ Len(delayed') <= 5
  <2>1. delayed' = RestAfter(delayed, motor["right"]) /\ motor["right"] \in BOOLEAN
    BY <1>1 DEF Act!Rest, RestAfter, BitOf, ActTyped
  <2>2. delayed \in Seq(BeltStep) /\ Len(delayed) <= 5 /\ Len(delayed) \in Nat
    BY DEF BeltWhere
  <2>3. Head(delayed) \in BeltStep /\ delayed' \in Seq(BeltStep) /\ Len(delayed') <= Len(delayed)
    BY <1>1, <2>1, <2>2, RestTyped
  <2>4. Len(delayed') \in Nat
    BY <2>3
  <2> QED BY <2>2, <2>3, <2>4
<1>3. /\ ActTyped' /\ StillWhenSteady' /\ (Still' <=> Still)
      /\ LightRight' <=> LightRight
      /\ SpeedRight' <=> SpeedRight
      /\ EnableRight' <=> EnableRight
      /\ Will("SLOW")' <=> Will("SLOW")
      /\ Will("DISABLE")' <=> Will("DISABLE")
  BY <1>1, <1>2, BeltOutput
<1>4. Where'
  <2>1. InLight => InLight'
    BY <1>1, <1>3 DEF InLight
  <2> QED BY <1>1, <1>3, <2>1, WhereStays
<1>5. Act!InBeltCall' <=> Act!InBeltCall
  BY <1>1 DEF Act!InBeltCall, Act!OfBelt
<1>6. ASSUME ~torn PROVE ~Act!InBeltCall /\ BeltOnTheWay(delayed)'
  <2>1. ~Act!InBeltCall /\ BeltOnTheWay(delayed)
    BY <1>1, <1>6 DEF BeltWhere
  <2>2. OnTheWay(Act!Rest(delayed), Will("LEFT")', Will("RIGHT")', motor'["right"], motor'["running"])
    BY <1>1, <1>2, <2>1, BeltMoves
  <2> HIDE DEF Will, OnTheWay
  <2> QED BY <1>1, <2>1, <2>2 DEF BeltOnTheWay
<1>7. BeltWhere'
  <2> HIDE DEF BeltOnTheWay
  <2> QED BY <1>1, <1>2, <1>5, <1>6 DEF BeltWhere
<1> QED BY <1>3, <1>4, <1>7

\* A flash that was under way when the light is turned on or off has ended
\* before the call goes on; one that is not touches nothing but the light.
LEMMA FlashGoesOn == ActInv /\ (Act!Expire \/ Act!Toggle) => ActInv'
<1> SUFFICES ASSUME ActInv, Act!Expire \/ Act!Toggle PROVE ActInv'
  OBVIOUS
<1> USE DEF ActInv
<1>1. /\ mState \notin {"ON", "OFF"} /\ ~Still
      /\ UNCHANGED << out, todo, delayed, torn, armed, motor >>
  BY DEF Act!Expire, Act!Toggle, StillWhenSteady, Still
<1>2. /\ ActTyped' /\ mState' \notin {"ON", "OFF"}
      /\ \A b : b # "LIGHT" => (Will(b)' <=> Will(b))
  <2>1. CASE channel' = channel
    <3>1. ActTyped' /\ mState' \notin {"ON", "OFF"}
      BY <1>1, <2>1 DEF Act!Expire, Act!Toggle, ActTyped
    <3> QED BY <1>1, <2>1, <3>1 DEF Will, InOrder
  <2>2. ASSUME NEW p \in {Act!Set("LIGHT"), Act!Reset({"LIGHT"})}, Act!Send("timer", p)
        PROVE  /\ channel' \in [{"handler", "timer"} -> Seq(Pulse)]
               /\ \A t \in {"handler", "timer"} : Len(channel'[t]) <= MaxPulses
               /\ \A b : b # "LIGHT" => (Will(b)' <=> Will(b))
    <3>1. p \in Pulse /\ p.bits = {"LIGHT"}
      BY <2>2, PulsesOfCalls DEF Bit
    <3> DEFINE ts == channel["timer"]
               hs == channel["handler"]
    <3>2. /\ ts \in Seq(Pulse) /\ hs \in Seq(Pulse) /\ Len(ts) < MaxPulses /\ Len(hs) <= MaxPulses
          /\ channel' = [channel EXCEPT !["timer"] = Append(@, p)]
          /\ channel'["timer"] = Append(ts, p) /\ channel'["handler"] = hs
      BY <2>2 DEF Act!Send, ActTyped
    <3>3. Append(ts, p) \in Seq(Pulse) /\ Len(Append(ts, p)) = Len(ts) + 1
      BY <3>1, <3>2
    <3>4. /\ channel' \in [{"handler", "timer"} -> Seq(Pulse)]
          /\ \A t \in {"handler", "timer"} : Len(channel'[t]) <= MaxPulses
      BY <3>2, <3>3, PartsAssumption DEF ActTyped, Act!ActuatorsAssumption
    <3>5. InOrder = ts \o hs /\ InOrder' = Append(ts, p) \o hs
      BY <3>2 DEF InOrder
    <3> HIDE DEF ts, hs
    <3>6. ASSUME NEW b, b # "LIGHT" PROVE Will(b)' <=> Will(b)
      BY <1>1, <3>1, <3>2, <3>5, <3>6, OvertakeEnds DEF Will
    <3> QED BY <3>4, <3>6
  <2>3. CASE channel' # channel
    <3>1. /\ callback' = "idle" /\ mState' \in {"FLASHING_ON", "FLASHING_OFF"}
          /\ \E p \in {Act!Set("LIGHT"), Act!Reset({"LIGHT"})} : Act!Send("timer", p)
      BY <2>3 DEF Act!Expire, Act!Toggle
    <3> QED BY <1>1, <2>2, <3>1 DEF ActTyped
  <2> QED BY <2>1, <2>3
<1> HIDE DEF Will
<1>3. LightRight' /\ StillWhenSteady'
  BY <1>2 DEF LightRight, StillWhenSteady
<1>4. /\ SpeedRight' <=> SpeedRight
      /\ EnableRight' <=> EnableRight
      /\ BeltAside
  BY <1>1, <1>2 DEF SpeedRight, EnableRight, BeltAside
<1>5. InLight => InLight'
  BY <1>1, <1>2 DEF InLight
<1>6. Where' /\ BeltWhere'
  BY <1>1, <1>2, <1>3, <1>4, <1>5, WhereStays, BeltStays
<1> QED BY <1>2, <1>3, <1>6

\* So does a step of the HAL thread.
LEMMA HALGoesOn == ActInv /\ Act!HALThread => ActInv'
<1> SUFFICES ASSUME ActInv, Act!HALThread PROVE ActInv'
  OBVIOUS
<1> USE DEF ActInv
<1>1. /\ ActTyped' /\ UNCHANGED << todo, delayed, torn, mState, armed, callback, motor >>
      /\ \A b : Will(b)' <=> Will(b)
  BY HALTakes
<1> HIDE DEF Will
<1>2. /\ SpeedRight' <=> SpeedRight
      /\ EnableRight' <=> EnableRight
      /\ LightRight' <=> LightRight
  BY <1>1, RightsStay
<1>3. (InLight => InLight') /\ StillWhenSteady' /\ BeltAside
  BY <1>1 DEF InLight, Still, StillWhenSteady, BeltAside
<1> QED BY <1>1, <1>2, <1>3, WhereStays, BeltStays

\* A record maps the names of its fields.
LEMMA RecordsMap ==
    /\ \A S : \A a, b \in S : [handler |-> a, timer |-> b] \in [{"handler", "timer"} -> S]
    /\ \A a, b, c, d \in BOOLEAN :
          [running |-> a, fast |-> b, enabled |-> c, right |-> d]
            \in [{"running", "fast", "enabled", "right"} -> BOOLEAN]
OBVIOUS

\* In the beginning nothing is on and nothing is under way.
LEMMA ActuatorsStart == Act!Init => ActInv
<1> SUFFICES ASSUME Act!Init PROVE ActInv
  OBVIOUS
<1> USE DEF Act!Init
<1>1. /\ out = {} /\ channel["handler"] = << >> /\ channel["timer"] = << >>
      /\ motor["right"] = TRUE /\ motor["running"] = FALSE /\ motor["fast"] = TRUE
      /\ motor["enabled"] = TRUE /\ mState = "OFF"
  OBVIOUS
<1>2. InOrder = << >>
  BY <1>1 DEF InOrder
<1>3. \A b : ~Will(b)
  BY <1>1, <1>2 DEF Will, Ends, Touched
<1>4. AllRight
  <2> HIDE DEF Will
  <2> QED BY <1>1, <1>3 DEF AllRight, LightRight, SpeedRight, EnableRight
<1>5. ActTyped
  <2>1. << >> \in Seq(Pulse) /\ Len(<< >>) <= MaxPulses
    BY PartsAssumption DEF Act!ActuatorsAssumption
  <2>2. channel \in [{"handler", "timer"} -> Seq(Pulse)]
    <3>1. channel = [handler |-> << >>, timer |-> << >>]
      OBVIOUS
    <3>2. [handler |-> << >>, timer |-> << >>] \in [{"handler", "timer"} -> Seq(Pulse)]
      <4> DEFINE q == << >>
                 S == Seq(Pulse)
      <4>1. q \in S
        OBVIOUS
      <4> HIDE DEF q, S
      <4>2. [handler |-> q, timer |-> q] \in [{"handler", "timer"} -> S]
        BY <4>1, RecordsMap
      <4> QED BY <4>2 DEF q, S
    <3> QED BY <3>1, <3>2, Zenon
  <2>3. motor \in [{"running", "fast", "enabled", "right"} -> BOOLEAN]
    <3>1. motor = [running |-> FALSE, fast |-> TRUE, enabled |-> TRUE, right |-> TRUE]
      OBVIOUS
    <3> QED BY <3>1, RecordsMap, Zenon
  <2> QED BY <1>1, <2>1, <2>2, <2>3 DEF ActTyped
<1>6. BeltWhere
  <2>1. delayed = << >> /\ todo = << >> /\ torn = FALSE
    OBVIOUS
  <2>2. BeltOnTheWay(delayed)
    <3> HIDE DEF Will
    <3>1. /\ ~(IF motor["right"] THEN Will("LEFT") ELSE Will("RIGHT"))
          /\ ~motor["running"]
      BY <1>1, <1>3
    <3>2. OnTheWay(<< >>, Will("LEFT"), Will("RIGHT"), motor["right"], motor["running"])
      BY <3>1, NothingLeft
    <3> QED BY <2>1, <3>2 DEF BeltOnTheWay
  <2>3. << >> \in Seq(BeltStep) /\ Len(<< >>) <= 5
    OBVIOUS
  <2> HIDE DEF BeltOnTheWay
  <2>4. ~Act!InBeltCall
    BY <2>1 DEF Act!InBeltCall
  <2>5. torn \in BOOLEAN
    BY <2>1
  <2> HIDE DEF Act!Init
  <2> QED BY <2>1, <2>2, <2>3, <2>4, <2>5 DEF BeltWhere
<1> QED BY <1>4, <1>5, <1>6 DEF ActInv, StillWhenSteady, Still, Where, OffBelt, AtCall

\* The steps of a call for the belt, before its first.
LEMMA BeltCallBegins ==
    ASSUME NEW call \in Act!BeltCalls, ActTyped
    PROVE  /\ Act!Steps(call) # << >> /\ Act!Steps(call) \in Seq(BeltStep) /\ Len(Act!Steps(call)) <= 3
           /\ call # "start" => BeltOnTheWay(Act!Steps(call))
           /\ BeltOnTheWay(<< >>) => BeltOnTheWay(Act!Steps(call))
<1>0. motor["right"] \in BOOLEAN /\ motor["running"] \in BOOLEAN
  BY DEF ActTyped
<1>1. ASSUME NEW a \in BeltStep, NEW b \in BeltStep, NEW c \in BeltStep
      PROVE  /\ << a, b >> # << >> /\ << a, b >> \in Seq(BeltStep) /\ Len(<< a, b >>) <= 3
             /\ << a, b, c >> # << >> /\ << a, b, c >> \in Seq(BeltStep) /\ Len(<< a, b, c >>) <= 3
  <2> HIDE DEF BeltStep
  <2> QED OBVIOUS
<1>2. CASE call = "start"
  <2>1. Act!Steps(call) = << Act!SetDirection, Act!Note("running", TRUE) >>
    BY <1>2, StepsOfCalls
  <2>2. Act!SetDirection \in BeltStep /\ Act!Note("running", TRUE) \in BeltStep
    BY DEF BeltStep
  <2>3. BeltOnTheWay(<< >>) => BeltOnTheWay(<< Act!SetDirection, Act!Note("running", TRUE) >>)
    <3> HIDE DEF Will
    <3> QED BY <1>0 DEF BeltOnTheWay, OnTheWay
  <2> HIDE DEF BeltOnTheWay
  <2> QED BY <1>1, <1>2, <2>1, <2>2, <2>3
<1>3. CASE call = "stop"
  <2>1. Act!Steps(call) = << Act!Reset({"LEFT", "RIGHT"}), Act!Note("running", FALSE) >>
    BY <1>3, StepsOfCalls
  <2>2. Act!Reset({"LEFT", "RIGHT"}) \in BeltStep /\ Act!Note("running", FALSE) \in BeltStep
    BY DEF BeltStep
  <2>3. BeltOnTheWay(<< Act!Reset({"LEFT", "RIGHT"}), Act!Note("running", FALSE) >>)
    BY DEF BeltOnTheWay, OnTheWay
  <2> HIDE DEF BeltOnTheWay
  <2> QED BY <1>1, <2>1, <2>2, <2>3
<1>4. ASSUME NEW d \in BOOLEAN, call = (IF d THEN "right" ELSE "left")
      PROVE  /\ Act!Steps(call) = << Act!Reset({BitOf(~d)}), Act!Set(BitOf(d)), Act!Note("right", d) >>
             /\ BeltOnTheWay(<< Act!Reset({BitOf(~d)}), Act!Set(BitOf(d)), Act!Note("right", d) >>)
             /\ Act!Reset({BitOf(~d)}) \in BeltStep /\ Act!Set(BitOf(d)) \in BeltStep
             /\ Act!Note("right", d) \in BeltStep
  <2>1. Act!Steps(call) = << Act!Reset({BitOf(~d)}), Act!Set(BitOf(d)), Act!Note("right", d) >>
    BY <1>4, StepsOfCalls DEF BitOf
  <2>2. BeltOnTheWay(<< Act!Reset({BitOf(~d)}), Act!Set(BitOf(d)), Act!Note("right", d) >>)
    BY DEF BeltOnTheWay, OnTheWay
  <2>3. /\ Act!Reset({BitOf(~d)}) \in BeltStep /\ Act!Set(BitOf(d)) \in BeltStep
        /\ Act!Note("right", d) \in BeltStep
    BY DEF BeltStep, BitOf
  <2> QED BY <2>1, <2>2, <2>3
<1>5. ASSUME NEW d \in BOOLEAN, call = (IF d THEN "right" ELSE "left")
      PROVE  /\ Act!Steps(call) # << >> /\ Act!Steps(call) \in Seq(BeltStep)
             /\ Len(Act!Steps(call)) <= 3 /\ BeltOnTheWay(Act!Steps(call))
  <2> HIDE DEF BeltOnTheWay
  <2> QED BY <1>1, <1>4, <1>5
<1>6. call = (IF TRUE THEN "right" ELSE "left") \/ call = (IF FALSE THEN "right" ELSE "left")
      \/ call = "start" \/ call = "stop"
  BY DEF Act!BeltCalls
<1> HIDE DEF BeltOnTheWay
<1> QED BY <1>2, <1>3, <1>5, <1>6

\* Those of the delayed start.
LEMMA DelayedBegins ==
    /\ Act!Right \o Act!Starting \in Seq(BeltStep) /\ Len(Act!Right \o Act!Starting) <= 5
    /\ BeltOnTheWay(Act!Right \o Act!Starting)
<1>1. Act!Right \o Act!Starting = << Act!Reset({"LEFT"}), Act!Set("RIGHT"), Act!Note("right", TRUE),
                                     Act!SetDirection, Act!Note("running", TRUE) >>
  BY ThreeAndTwo DEF Act!Right, Act!Starting
<1>2. /\ Act!Reset({"LEFT"}) \in BeltStep /\ Act!Set("RIGHT") \in BeltStep
      /\ Act!Note("right", TRUE) \in BeltStep /\ Act!SetDirection \in BeltStep
      /\ Act!Note("running", TRUE) \in BeltStep
  BY DEF BeltStep
<1>3. ASSUME NEW a \in BeltStep, NEW b \in BeltStep, NEW c \in BeltStep, NEW d \in BeltStep, NEW e \in BeltStep
      PROVE  << a, b, c, d, e >> \in Seq(BeltStep) /\ Len(<< a, b, c, d, e >>) <= 5
  <2> HIDE DEF BeltStep
  <2> QED OBVIOUS
<1>4. BeltOnTheWay(<< Act!Reset({"LEFT"}), Act!Set("RIGHT"), Act!Note("right", TRUE),
                      Act!SetDirection, Act!Note("running", TRUE) >>)
  <2>1. BitOf(TRUE) = "RIGHT" /\ BitOf(~TRUE) = "LEFT"
    BY DEF BitOf
  <2>2. << Act!Reset({"LEFT"}), Act!Set("RIGHT"), Act!Note("right", TRUE),
           Act!SetDirection, Act!Note("running", TRUE) >>
          = << Act!Reset({BitOf(~TRUE)}), Act!Set(BitOf(TRUE)), Act!Note("right", TRUE),
               Act!SetDirection, Act!Note("running", TRUE) >>
    BY <2>1
  <2> QED BY <2>2, Zenon DEF BeltOnTheWay, OnTheWay
<1> HIDE DEF BeltOnTheWay
<1> QED BY <1>1, <1>2, <1>3, <1>4

\* A call or the delayed start begins, or nothing happens.
LEMMA ActuatorsGoOn == ActInv /\ [Act!Next]_(Act!vars) => ActInv'
<1> SUFFICES ASSUME ActInv, [Act!Next]_(Act!vars) PROVE ActInv'
  OBVIOUS
<1> USE DEF ActInv
<1>1. ASSUME UNCHANGED << out, channel, mState, armed, callback, motor >>
      PROVE  /\ ActTyped' /\ StillWhenSteady' /\ (Still' <=> Still)
             /\ \A b : Will(b)' <=> Will(b)
             /\ SpeedRight' <=> SpeedRight
             /\ EnableRight' <=> EnableRight
             /\ LightRight' <=> LightRight
             /\ \A q : BeltOnTheWay(q)' <=> BeltOnTheWay(q)
  <2>1. \A b : Will(b)' <=> Will(b)
    BY <1>1 DEF Will, InOrder
  <2>2. ActTyped' /\ StillWhenSteady' /\ (Still' <=> Still)
    BY <1>1 DEF ActTyped, StillWhenSteady, Still
  <2> HIDE DEF Will
  <2>3. /\ SpeedRight' <=> SpeedRight
        /\ EnableRight' <=> EnableRight
        /\ LightRight' <=> LightRight
    BY <1>1, <2>1, RightsStay
  <2>4. \A q : BeltOnTheWay(q)' <=> BeltOnTheWay(q)
    <3> HIDE DEF OnTheWay
    <3> QED BY <1>1, <2>1 DEF BeltOnTheWay
  <2> QED BY <2>1, <2>2, <2>3, <2>4
<1>2. ASSUME Act!Call PROVE ActInv'
  <2>1. /\ UNCHANGED << out, channel, delayed, mState, armed, callback, motor >> /\ todo = << >>
    BY <1>2 DEF Act!Call, Act!light
  <2>2. PICK call \in Calls :
            /\ todo' = Act!Steps(call)
            /\ torn' = IF call \in Act!BeltCalls
                         THEN delayed # << >> \/ (torn /\ call = "start") ELSE torn
    BY <1>2 DEF Act!Call
  <2>3. /\ ActTyped' /\ StillWhenSteady'
        /\ SpeedRight' <=> SpeedRight
        /\ EnableRight' <=> EnableRight
        /\ LightRight' <=> LightRight
        /\ \A q : BeltOnTheWay(q)' <=> BeltOnTheWay(q)
    BY <1>1, <2>1
  <2>4. AllRight
    BY <2>1 DEF Where, OffBelt, InLight, InBelt, InSpeed, InEnable, Act!TurnOn, Act!TurnOff, Act!Flash
  <2>5. AllRight'
    BY <2>3, <2>4 DEF AllRight
  <2> HIDE DEF BeltOnTheWay
  <2>6. torn \/ BeltOnTheWay(delayed)
    BY <2>1 DEF BeltWhere, Act!InBeltCall
  <2>7. CASE call \notin Act!BeltCalls
    <3>1. OffBelt'
      BY <2>1, <2>2, <2>5, <2>7 DEF OffBelt, AtCall, Act!Steps, Act!Starting
    <3>2. ~Act!InBeltCall'
      BY <3>1, OffBeltMeans, PTL
    <3>3. BeltWhere'
      BY <2>1, <2>2, <2>3, <2>6, <2>7, <3>2 DEF BeltWhere
    <3> QED BY <2>3, <3>1, <3>3 DEF Where
  <2>8. CASE call \in Act!BeltCalls
    <3>1. /\ todo' # << >> /\ todo' \in Seq(BeltStep) /\ Len(todo') <= 3
          /\ call # "start" => BeltOnTheWay(todo')
          /\ BeltOnTheWay(<< >>) => BeltOnTheWay(todo')
      BY <2>2, <2>8, BeltCallBegins
    <3>2. InBelt'
      BY <3>1 DEF InBelt
    <3>3. Act!InBeltCall'
      BY <3>2, InBeltMeans, PTL
    <3>4. ASSUME ~torn' PROVE delayed' = << >> /\ BeltOnTheWay(todo')
      <4>1. delayed = << >> /\ (call = "start" => ~torn)
        BY <2>2, <2>8, <3>4
      <4> QED BY <2>1, <2>6, <3>1, <4>1
    <3>5. ~torn' => delayed' = << >> /\ BeltOnTheWay(todo)'
      BY <2>3, <3>4 DEF BeltOnTheWay
    <3>6. torn' \in BOOLEAN
      BY <2>2, <2>8
    <3>7. BeltWhere'
      BY <2>1, <3>3, <3>5, <3>6 DEF BeltWhere
    <3> QED BY <2>3, <2>5, <3>2, <3>7 DEF Where
  <2> QED BY <2>7, <2>8
<1>3. ASSUME Act!DelayedStart PROVE ActInv'
  <2>1. /\ UNCHANGED << out, channel, todo, mState, armed, callback, motor >> /\ delayed = << >>
        /\ delayed' = Act!Right \o Act!Starting /\ torn' = Act!InBeltCall
    BY <1>3 DEF Act!DelayedStart, Act!light
  <2>2. /\ ActTyped' /\ StillWhenSteady' /\ (Still' <=> Still)
        /\ SpeedRight' <=> SpeedRight
        /\ EnableRight' <=> EnableRight
        /\ LightRight' <=> LightRight
        /\ \A b : Will(b)' <=> Will(b)
        /\ \A q : BeltOnTheWay(q)' <=> BeltOnTheWay(q)
    BY <1>1, <2>1
  <2>3. InLight => InLight'
    BY <2>1, <2>2 DEF InLight
  <2>4. Where'
    BY <2>1, <2>2, <2>3, WhereStays
  <2>5. Act!InBeltCall' <=> Act!InBeltCall
    BY <2>1 DEF Act!InBeltCall, Act!OfBelt
  <2>6. delayed' \in Seq(BeltStep) /\ Len(delayed') <= 5 /\ torn' \in BOOLEAN
    BY <2>1, DelayedBegins DEF Act!InBeltCall
  <2>7. BeltOnTheWay(delayed)'
    <3>1. BeltOnTheWay(delayed')
      BY <2>1, DelayedBegins
    <3> HIDE DEF Will, OnTheWay
    <3> QED BY <2>2, <3>1 DEF BeltOnTheWay
  <2>8. BeltWhere'
    <3> HIDE DEF BeltOnTheWay
    <3> QED BY <2>1, <2>5, <2>6, <2>7 DEF BeltWhere
  <2> QED BY <2>2, <2>4, <2>8
<1>4. ASSUME UNCHANGED Act!vars PROVE ActInv'
  <2>1. UNCHANGED << out, channel, todo, delayed, torn, mState, armed, callback, motor >>
    BY <1>4 DEF Act!vars, Act!light
  <2>2. /\ ActTyped' /\ StillWhenSteady' /\ (Still' <=> Still)
        /\ SpeedRight' <=> SpeedRight
        /\ EnableRight' <=> EnableRight
        /\ LightRight' <=> LightRight
        /\ \A b : Will(b)' <=> Will(b)
    BY <1>1, <2>1
  <2> HIDE DEF Will
  <2>3. (InLight => InLight') /\ BeltAside
    BY <2>1, <2>2 DEF InLight, BeltAside
  <2> QED BY <2>1, <2>2, <2>3, WhereStays, BeltStays
<1> QED BY <1>2, <1>3, <1>4, CallsGoOn, DelayedGoesOn, FlashGoesOn, HALGoesOn DEF Act!Next

\* A call has four steps at most.
LEMMA FewSteps ==
    \A a, b, c, d :
        /\ Len(<< a >>) <= 4 /\ Len(<< a, b >>) <= 4
        /\ Len(<< a, b, c >>) <= 4 /\ Len(<< a, b, c, d >>) <= 4
        /\ Len(Tail(<< a, b, c >>)) <= 4 /\ Len(Tail(<< a, b, c, d >>)) <= 4
OBVIOUS

\* What the invariant says of the outputs when all is through.
LEMMA ActuatorsEnd == ActInv => Act!TypeOK /\ Act!OutputsFollowCalls
<1> SUFFICES ASSUME ActInv PROVE Act!TypeOK /\ Act!OutputsFollowCalls
  OBVIOUS
<1>1. Act!TypeOK
  <2>1. Len(todo) <= 4
    <3>1. \A call \in Calls : Len(Act!Steps(call)) <= 4
      <4>1. ASSUME NEW call \in { "turnOn", "turnOff", "flash", "start", "stop", "right", "left",
                                  "slow", "fast", "enable", "disable", "open", "close" }
            PROVE  Len(Act!Steps(call)) <= 4
        <5>1. \/ \E a : Act!Steps(call) = << a >>
              \/ \E a, b : Act!Steps(call) = << a, b >>
              \/ \E a, b, c : Act!Steps(call) = << a, b, c >>
              \/ \E a, b, c, d : Act!Steps(call) = << a, b, c, d >>
          BY StepsOfCalls, Zenon DEF Act!TurnOn, Act!TurnOff, Act!Flash
        <5> DEFINE s == Act!Steps(call)
        <5> HIDE DEF s
        <5>2. \/ \E a : s = << a >>
              \/ \E a, b : s = << a, b >>
              \/ \E a, b, c : s = << a, b, c >>
              \/ \E a, b, c, d : s = << a, b, c, d >>
          BY <5>1 DEF s
        <5>3. Len(s) <= 4
          BY <5>2, FewSteps, Zenon
        <5> QED BY <5>3 DEF s
      <4> QED BY <4>1, PartsAssumption DEF Act!ActuatorsAssumption
    <3>2. InLight => Len(todo) <= 4
      BY FewSteps DEF InLight, Act!TurnOn, Act!TurnOff, Act!Flash
    <3>3. InSpeed \/ InEnable => Len(todo) <= 4
      BY FewSteps, Zenon DEF InSpeed, InEnable
    <3>5. InBelt => Len(todo) <= 4
      <4>1. ASSUME InBelt PROVE Len(todo) <= 4
        <5>1. Len(todo) <= 3 /\ Len(todo) \in Nat
          BY <4>1 DEF InBelt
        <5> QED BY <5>1
      <4> QED BY <4>1
    <3>4. AtCall => Len(todo) <= 4
      BY <3>1 DEF AtCall
    <3> QED BY <3>2, <3>3, <3>4, <3>5 DEF ActInv, Where, OffBelt
  <2>2. Len(delayed) <= 5 /\ torn \in BOOLEAN
    BY DEF ActInv, BeltWhere
  <2> QED BY <2>1, <2>2 DEF ActInv, ActTyped, Act!TypeOK, Bit
<1>2. ASSUME Act!Drained PROVE Act!OutputsFollowCalls
  <2>1. todo = << >> /\ delayed = << >> /\ channel["handler"] = << >> /\ channel["timer"] = << >>
    BY <1>2 DEF Act!Drained, ActInv, ActTyped
  <2>2. InOrder = << >>
    BY <2>1 DEF InOrder
  <2>3. \A b : Will(b) <=> b \in out
    BY <2>2 DEF Will, Ends, Touched
  <2> HIDE DEF Will
  <2>4. AllRight
    BY <2>1 DEF ActInv, Where, OffBelt, InLight, InBelt, InSpeed, InEnable, Act!TurnOn, Act!TurnOff, Act!Flash
  <2>5. motor \in [{"running", "fast", "enabled", "right"} -> BOOLEAN]
    BY DEF ActInv, ActTyped
  <2>6. ASSUME ~torn
        PROVE  /\ ~({"LEFT", "RIGHT"} \subseteq out)
               /\ motor["running"] => BitOf(motor["right"]) \in out
    <3>1. BeltOnTheWay(<< >>)
      BY <2>1, <2>6 DEF ActInv, BeltWhere, Act!InBeltCall
    <3>2. /\ motor["right"] \in BOOLEAN
          /\ IF motor["right"] THEN ~Will("LEFT") ELSE ~Will("RIGHT")
          /\ motor["running"] => (IF motor["right"] THEN Will("RIGHT") ELSE Will("LEFT"))
      BY <2>5, <3>1 DEF BeltOnTheWay, OnTheWay
    <3> QED BY <2>3, <3>2 DEF BitOf
  <2>7. /\ mState = "ON" => "LIGHT" \in out
        /\ mState = "OFF" => "LIGHT" \notin out
        /\ motor["fast"] = ("SLOW" \notin out)
        /\ motor["enabled"] = ("DISABLE" \notin out)
    BY <2>3, <2>4, <2>5 DEF AllRight, LightRight, SpeedRight, EnableRight
  <2> QED BY <2>6, <2>7 DEF Act!OutputsFollowCalls, BitOf
<1> QED BY <1>1, <1>2 DEF Act!OutputsFollowCalls

(***************************************************************************)
(* The actuators by themselves: once all pulses are through, the outputs   *)
(* are what was last asked for, the bits of the direction only unless the  *)
(* delayed start overlapped a call for the belt.                           *)
(***************************************************************************)
THEOREM OutputsAreWhatWasAsked == Act!Spec => [](Act!TypeOK /\ Act!OutputsFollowCalls)
BY ActuatorsStart, ActuatorsGoOn, ActuatorsEnd, PTL DEF Act!Spec

-----------------------------------------------------------------------------
(***************************************************************************)
(* Calibration, for every number of passes and whatever may be found 0.    *)
(***************************************************************************)
\* A pass has been begun, and what its states have measured is of this pass.
OfThisPass ==
    manager = "Config" =>
        /\ pass > 0
        /\ calState <= 10 =>
               \A v \in Cal!Values :
                   (\E k \in 0..(calState - 1) : v \in Cal!Measures(k)) => measured[v] \in Cal!Found[v]

\* What is saved or about to be, and what the object holds if no pass failed.
Together == /\ program = "saving" => Cal!OnePass(config)
            /\ file.is = "full" => Cal!OnePass(file.values)
            /\ ~failed => Cal!OnePass(config) \/ (config = Cal!Zero /\ ~mValid)

CalInv == Cal!TypeOK /\ OfThisPass /\ Together /\ Cal!LeftMeansStopped

\* The six values, and the states that measure them.
LEMMA AllAreMeasured == \A v \in Cal!Values : \E k \in 0..10 : v \in Cal!Measures(k)
<1>1. /\ "heightSensorMin" \in Cal!Measures(1) /\ "startToHs" \in Cal!Measures(6)
      /\ "heightSensorMax" \in Cal!Measures(6) /\ "hsToSwitch" \in Cal!Measures(8)
      /\ "itemInLB" \in Cal!Measures(9) /\ "switchToEnd" \in Cal!Measures(10)
  BY DEF Cal!Measures
<1> QED BY <1>1 DEF Cal!Values

\* What a state measures is of the pass, and so is what was before.
LEMMA MeasuredInPass ==
    ASSUME OfThisPass, manager = "Config", Cal!TypeOK, calState <= 10, NEW m \in Cal!Results,
           Cal!Measured(calState, m)
    PROVE  \A v \in Cal!Values : (\E k \in 0..calState : v \in Cal!Measures(k)) => m[v] \in Cal!Found[v]
<1> SUFFICES ASSUME NEW v \in Cal!Values, NEW k \in 0..calState, v \in Cal!Measures(k)
             PROVE  m[v] \in Cal!Found[v]
  OBVIOUS
<1>1. calState \in 0..11
  BY DEF Cal!TypeOK
<1>2. CASE v \in Cal!Measures(calState)
  BY <1>2 DEF Cal!Measured
<1>3. CASE v \notin Cal!Measures(calState)
  <2>1. k \in 0..(calState - 1) /\ m[v] = measured[v]
    BY <1>1, <1>3 DEF Cal!Measured
  <2> QED BY <2>1 DEF OfThisPass
<1> QED BY <1>2, <1>3

\* When none of the setters throws, the object holds what this pass measured.
LEMMA TakenTogether ==
    ASSUME CalInv, manager = "Config", calState = 10, NEW m \in Cal!Results,
           Cal!Measured(10, m), ~Cal!Throws(m)
    PROVE  Cal!OnePass(Cal!TakenOver(m))
<1>1. \A v \in Cal!Values : m[v] \in Cal!Found[v]
  BY MeasuredInPass, AllAreMeasured DEF CalInv
<1>2. pass \in 1..MaxPasses
  BY PartsAssumption DEF CalInv, OfThisPass, Cal!TypeOK, Cal!CalibrationAssumption
<1>3. ASSUME NEW v \in Cal!Values PROVE m[v] = pass
  <2>1. m[v] # 0
    BY DEF Cal!Throws
  <2> QED BY <1>1, <2>1 DEF Cal!Found
<1>4. \A j \in 1..6 : Cal!Order[j] \in Cal!Values
  BY DEF Cal!Order, Cal!Values
<1>5. ASSUME NEW v \in Cal!Values PROVE Cal!TakenOver(m)[v] = pass
  <2> DEFINE i == CHOOSE j \in DOMAIN Cal!Order : Cal!Order[j] = v
  <2>1. DOMAIN Cal!Order = 1..6
    BY DEF Cal!Order
  <2>2. \E j \in 1..6 : Cal!Order[j] = v
    BY DEF Cal!Order, Cal!Values
  <2>3. i \in 1..6
    BY <2>1, <2>2
  <2>4. Cal!TakenOver(m)[v] = IF \A j \in 1..i : m[Cal!Order[j]] > 0 THEN m[v] ELSE config[v]
    BY DEF Cal!TakenOver
  <2> HIDE DEF i
  <2>5. \A j \in 1..i : m[Cal!Order[j]] > 0
    BY <1>2, <1>3, <1>4, <2>3
  <2> QED BY <1>3, <2>4, <2>5
<1> QED BY <1>2, <1>5 DEF Cal!OnePass

\* What TakenOver leaves in the configuration are six numbers again.
LEMMA TakenTyped ==
    ASSUME config \in Cal!Results, NEW m \in Cal!Results
    PROVE  Cal!TakenOver(m) \in Cal!Results
BY DEF Cal!TakenOver, Cal!Results

\* What the six numbers 0 are.
LEMMA ZeroIsNothing == Cal!Zero \in Cal!Results /\ ~Cal!Complete(Cal!Zero)
BY PartsAssumption DEF Cal!Zero, Cal!Results, Cal!Complete, Cal!Values, Cal!CalibrationAssumption

\* The calibration starts with nothing measured.
LEMMA CalibrationStarts == Cal!Init => CalInv
<1> SUFFICES ASSUME Cal!Init PROVE CalInv
  OBVIOUS
<1>1. /\ program = "down" /\ file.is = "missing" /\ file.values = Cal!Zero
      /\ config = Cal!Zero /\ mValid = FALSE /\ manager = "Idle" /\ calState = 0
      /\ measured = Cal!Zero /\ pass = 0 /\ starter = "off" /\ direction = {} /\ mRight = TRUE
  BY DEF Cal!Init
<1>2. Cal!TypeOK
  <2>1. config \in Cal!Results /\ measured \in Cal!Results /\ file.values \in Cal!Results
    BY <1>1, ZeroIsNothing, Zenon
  <2>2. pass \in 0..MaxPasses /\ calState \in 0..11
    BY <1>1, PartsAssumption DEF Cal!CalibrationAssumption
  <2>3. mValid \in BOOLEAN
    BY <1>1
  <2> QED BY <1>1, <2>1, <2>2, <2>3 DEF Cal!TypeOK
<1> QED BY <1>1, <1>2 DEF CalInv, OfThisPass, Together, Cal!LeftMeansStopped

\* Every step of the calibration keeps what its numbers say of the pass.
LEMMA CalibrationGoesOn == CalInv /\ [Cal!Next]_(Cal!vars) => CalInv'
<1> SUFFICES ASSUME CalInv, [Cal!Next]_(Cal!vars) PROVE CalInv'
  OBVIOUS
<1> USE DEF CalInv
<1>1. CASE Cal!Start
  <2>1. /\ config' = IF file.is = "full" THEN file.values ELSE Cal!Zero
        /\ mValid' = Cal!Complete(config') /\ program' \in {"up", "refused"}
        /\ manager' = "Idle" /\ calState' = 0 /\ measured' = Cal!Zero
        /\ starter' = "off" /\ direction' = {} /\ mRight' = TRUE /\ failed' = FALSE /\ late' = FALSE
        /\ UNCHANGED << file, pass >>
    BY <1>1 DEF Cal!Start, Cal!StartUp
  <2>2. Cal!TypeOK'
    BY <2>1, ZeroIsNothing DEF Cal!TypeOK, Cal!Complete
  <2>3. OfThisPass' /\ Cal!LeftMeansStopped'
    BY <2>1 DEF OfThisPass, Cal!LeftMeansStopped
  <2>4. Together'
    BY <2>1, ZeroIsNothing DEF Together, Cal!OnePass
  <2> QED BY <2>2, <2>3, <2>4
<1>2. CASE Cal!Stop
  BY <1>2 DEF Cal!Stop, Cal!object, Cal!TypeOK, OfThisPass, Together, Cal!LeftMeansStopped,
              Cal!OnePass, Cal!Found
<1>3. ASSUME NEW m \in Cal!Manager, Cal!Switch(m) PROVE CalInv'
  <2>1. /\ program = "up" /\ m # manager /\ manager' = m /\ (m = "Config" => pass < MaxPasses)
        /\ direction' = (IF manager = "Config" THEN {} ELSE direction)
        /\ mRight' \in {mRight, TRUE}
        /\ IF m = "Config" THEN calState' = 0 /\ pass' = pass + 1 ELSE UNCHANGED << calState, pass >>
        /\ mValid' = (mValid \/ (m = "Idle" /\ Cal!IsValid(config, mValid)))
        /\ UNCHANGED << program, file, config, measured, failed, starter, late >>
    BY <1>3 DEF Cal!Switch, Cal!Left, Cal!Restarted, Cal!IsValid, Cal!TypeOK
  <2>2. Cal!TypeOK'
    <3>1. mValid' \in BOOLEAN
      BY <2>1, Zenon
    <3>2. calState' \in 0..11 /\ pass' \in 0..MaxPasses
      BY <2>1, PartsAssumption DEF Cal!TypeOK, Cal!CalibrationAssumption
    <3> QED BY <2>1, <3>1, <3>2 DEF Cal!TypeOK
  <2>3. OfThisPass'
    BY <2>1 DEF OfThisPass, Cal!TypeOK
  <2>4. Together'
    BY <2>1, ZeroIsNothing DEF Together, Cal!OnePass, Cal!IsValid
  <2>5. Cal!LeftMeansStopped'
    BY <2>1 DEF Cal!LeftMeansStopped
  <2> QED BY <2>2, <2>3, <2>4, <2>5
<1>4. CASE Cal!Elapse \/ Cal!Press \/ Cal!Release
  BY <1>4 DEF Cal!Elapse, Cal!Press, Cal!Release, Cal!object, Cal!belt, Cal!TypeOK, OfThisPass, Together,
              Cal!LeftMeansStopped, Cal!OnePass, Cal!Found
<1>5. CASE Cal!Advance
  <2>1. PICK m \in Cal!Results : Cal!Measured(calState, m) /\ measured' = m
    BY <1>5 DEF Cal!Advance
  <2>2. /\ program = "up" /\ manager = "Config" /\ calState < 10 /\ calState' = calState + 1
        /\ direction' = Cal!Drives(calState, direction) /\ mRight' \in {mRight, TRUE, FALSE}
        /\ starter' \in {starter, "armed"}
        /\ UNCHANGED << program, file, config, mValid, manager, pass, failed, late >>
    BY <1>5 DEF Cal!Advance, Cal!object, Cal!Turned
  <2>3. Cal!TypeOK'
    <3>1. direction' \subseteq {"LEFT", "RIGHT"} /\ mRight' \in BOOLEAN
      BY <2>2 DEF Cal!TypeOK, Cal!Drives
    <3>2. calState' \in 0..11 /\ starter' \in {"off", "armed", "right"}
      BY <2>2 DEF Cal!TypeOK
    <3> QED BY <2>1, <2>2, <3>1, <3>2 DEF Cal!TypeOK
  <2>4. OfThisPass'
    <3>1. \A v \in Cal!Values : (\E k \in 0..calState : v \in Cal!Measures(k)) => m[v] \in Cal!Found[v]
      BY <2>1, <2>2, MeasuredInPass DEF Cal!TypeOK
    <3>2. 0..(calState' - 1) = 0..calState
      BY <2>2 DEF Cal!TypeOK
    <3> QED BY <2>1, <2>2, <3>1, <3>2 DEF OfThisPass, Cal!Found, Cal!Measures
  <2>5. Together' /\ Cal!LeftMeansStopped'
    BY <2>2 DEF Together, Cal!LeftMeansStopped, Cal!OnePass
  <2> QED BY <2>3, <2>4, <2>5
<1>6. CASE Cal!Finish
  <2>1. PICK m \in Cal!Results :
           /\ Cal!Measured(10, m) /\ measured' = m /\ config' = Cal!TakenOver(m)
           /\ \/ /\ Cal!Throws(m)
                 /\ calState' = 11 /\ told' = "FAILED" /\ failed' = TRUE
                 /\ UNCHANGED << program, file, mValid >>
              \/ /\ ~Cal!Throws(m)
                 /\ program' = "saving" /\ file' = [is |-> "empty", values |-> Cal!Zero]
                 /\ mValid' = TRUE /\ failed' = FALSE
                 /\ UNCHANGED << calState, told >>
              \/ /\ ~Cal!Throws(m)
                 /\ mValid' = TRUE /\ failed' = FALSE
                 /\ UNCHANGED << program, file, calState, told >>
    BY <1>6 DEF Cal!Finish
  <2>2. /\ program = "up" /\ manager = "Config" /\ calState = 10 /\ direction' = {}
        /\ UNCHANGED << manager, pass, starter, mRight, late >>
    BY <1>6 DEF Cal!Finish
  <2>3. Cal!TypeOK'
    <3>1. Cal!TakenOver(m) \in Cal!Results
      BY TakenTyped DEF Cal!TypeOK
    <3>2. /\ config' \in Cal!Results /\ measured' \in Cal!Results
          /\ mValid' \in BOOLEAN /\ program' \in {"up", "saving"} /\ calState' \in {10, 11}
      BY <2>1, <2>2, <3>1 DEF Cal!TypeOK
    <3>3. file'.is \in {"missing", "empty", "full"} /\ file'.values \in Cal!Results
      BY <2>1, ZeroIsNothing DEF Cal!TypeOK
    <3> QED BY <2>2, <3>2, <3>3 DEF Cal!TypeOK
  <2>4. OfThisPass'
    <3>1. \A v \in Cal!Values : (\E k \in 0..10 : v \in Cal!Measures(k)) => m[v] \in Cal!Found[v]
      BY <2>1, <2>2, MeasuredInPass DEF Cal!TypeOK
    <3>2. CASE calState' = 10
      BY <2>1, <2>2, <3>1, <3>2 DEF OfThisPass, Cal!Found, Cal!Measures
    <3>3. CASE calState' = 11
      BY <2>2, <3>3 DEF OfThisPass
    <3> QED BY <2>1, <2>2, <3>2, <3>3
  <2>5. Together'
    BY <2>1, <2>2, TakenTogether DEF Together, Cal!OnePass
  <2> QED BY <2>2, <2>3, <2>4, <2>5 DEF Cal!LeftMeansStopped
<1>7. CASE Cal!Saved
  BY <1>7 DEF Cal!Saved, Cal!object, Cal!belt, Cal!TypeOK, OfThisPass, Together, Cal!LeftMeansStopped,
              Cal!OnePass
<1>8. CASE Cal!Accept
  BY <1>8 DEF Cal!Accept, Cal!object, Cal!TypeOK, OfThisPass, Together, Cal!LeftMeansStopped,
              Cal!OnePass, Cal!Found
<1>9. CASE Cal!DelayedStart
  BY <1>9 DEF Cal!DelayedStart, Cal!object, Cal!TypeOK, OfThisPass, Together, Cal!LeftMeansStopped,
              Cal!OnePass, Cal!Found
<1>10. CASE UNCHANGED Cal!vars
  BY <1>10 DEF Cal!vars, Cal!object, Cal!belt, Cal!TypeOK, OfThisPass, Together, Cal!LeftMeansStopped,
               Cal!OnePass, Cal!Found
<1> QED BY <1>1, <1>2, <1>3, <1>4, <1>5, <1>6, <1>7, <1>8, <1>9, <1>10 DEF Cal!Next

\* What the invariant says of what was saved.
LEMMA CalibrationEnds == CalInv => Cal!TypeOK /\ Cal!SavedTogether /\ Cal!LeftMeansStopped
BY ZeroIsNothing DEF CalInv, Together, Cal!SavedTogether, Cal!IsValid

(***************************************************************************)
(* Calibration by itself: what is saved was measured in one pass, whatever *)
(* was left, begun again, failed or lost, and a module that has left it    *)
(* has its belt standing.                                                  *)
(***************************************************************************)
THEOREM CalibrationHolds ==
    Cal!Spec => [](Cal!TypeOK /\ Cal!SavedTogether /\ Cal!LeftMeansStopped)
BY CalibrationStarts, CalibrationGoesOn, CalibrationEnds, PTL DEF Cal!Spec

-----------------------------------------------------------------------------
(***************************************************************************)
(* Converter, for every buffer, every FIFO that holds two samples or more, *)
(* and every number of pulses that wait.                                   *)
(***************************************************************************)
EOS == "END_OF_SEQUENCE"

\* The service routine is about to read a sample.
Reading == isr # "idle" /\ EOS \in seen

\* There is a sample for every one that is about to be read, and one more
\* for a flag that the routine has not seen.
Sampled == /\ Reading => fifo >= 1
           /\ EOS \in status => fifo >= 1
           /\ isr = "read" /\ EOS \in seen /\ EOS \in status => fifo >= 2

\* Reads that will come without another sample.
ToRead == (IF Reading THEN 1 ELSE 0)
          + (IF EOS \in status /\ ~(isr = "clear" /\ EOS \in seen) THEN 1 ELSE 0)

MeansBounded == means + ToRead <= MaxMeans + 1

\* What the calls up to now have set up.
SetUp == /\ pc >= 4 => regs["WRITEPROTECT_N"] = 1
         /\ \A i \in 5..11 :
               i <= pc => \A f \in DOMAIN Conv!Setup[i].to : f \in Conv!StepField => regs[f] = Conv!Wanted[f]
         /\ attached => pc >= 21
         /\ isr # "idle" => attached

ConvInv == Conv!TypeOK /\ Sampled /\ MeansBounded /\ SetUp

\* A call writes to step 1 what it should hold, and never protects it again.
CallIsSound(c) ==
    /\ c.op = "write" =>
           \A f \in DOMAIN c.to : /\ c.to[f] \in Nat
                                  /\ f \in Conv!StepField => c.to[f] = Conv!Wanted[f]
                                  /\ f = "WRITEPROTECT_N" => c.to[f] = 1
    /\ c.op = "enable" => c.flag \in Conv!Flag

\* The call with numbers that are too large for a prover to count to.
ClockCall == Conv!configureAFEClock(24000000, 10000 * 100)

\* q is s, of length m, followed by t, and of length n.
IsJoin(q, s, m, t, n) ==
    /\ Len(q) = n
    /\ \A i \in 1..m : q[i] = s[i]
    /\ \A i \in (m + 1)..n : q[i] = t[i - m]

\* The elements of two sequences that are joined.
LEMMA JoinedAt ==
    ASSUME NEW S, NEW s \in Seq(S), NEW t \in Seq(S), NEW m \in Nat, NEW n \in Nat,
           Len(s) = m, m + Len(t) = n
    PROVE  s \o t \in Seq(S) /\ IsJoin(s \o t, s, m, t, n)
BY DEF IsJoin

\* q is these five, which end at the places n1, ..., n5.
AreJoined(S, q, s1, n1, s2, n2, s3, n3, s4, n4, s5, n5) ==
    /\ q \in Seq(S) /\ Len(q) = n5
    /\ \A i \in 1..n1 : q[i] = s1[i]
    /\ \A i \in (n1 + 1)..n2 : q[i] = s2[i - n1]
    /\ \A i \in (n2 + 1)..n3 : q[i] = s3[i - n2]
    /\ \A i \in (n3 + 1)..n4 : q[i] = s4[i - n3]
    /\ \A i \in (n4 + 1)..n5 : q[i] = s5[i - n4]

\* Those of five, by the places at which each of them ends.
LEMMA FiveJoined ==
    ASSUME NEW S, NEW s1 \in Seq(S), NEW s2 \in Seq(S), NEW s3 \in Seq(S), NEW s4 \in Seq(S), NEW s5 \in Seq(S),
           NEW n1 \in Nat, NEW n2 \in Nat, NEW n3 \in Nat, NEW n4 \in Nat, NEW n5 \in Nat,
           Len(s1) = n1, n1 + Len(s2) = n2, n2 + Len(s3) = n3, n3 + Len(s4) = n4, n4 + Len(s5) = n5
    PROVE  AreJoined(S, s1 \o s2 \o s3 \o s4 \o s5, s1, n1, s2, n2, s3, n3, s4, n4, s5, n5)
<1> DEFINE a == s1 \o s2
           b == a \o s3
           c == b \o s4
           d == c \o s5
<1>0. n1 <= n2 /\ n2 <= n3 /\ n3 <= n4 /\ n4 <= n5
  <2>1. Len(s2) \in Nat /\ Len(s3) \in Nat /\ Len(s4) \in Nat /\ Len(s5) \in Nat
    OBVIOUS
  <2> QED BY <2>1
<1>1. a \in Seq(S) /\ IsJoin(a, s1, n1, s2, n2)
  BY JoinedAt, Zenon
<1> HIDE DEF a
<1>2. b \in Seq(S) /\ IsJoin(b, a, n2, s3, n3)
  <2>1. Len(a) = n2 BY <1>1, Zenon DEF IsJoin
  <2> QED BY <1>1, <2>1, JoinedAt, Zenon
<1> HIDE DEF b
<1>3. c \in Seq(S) /\ IsJoin(c, b, n3, s4, n4)
  <2>1. Len(b) = n3 BY <1>2, Zenon DEF IsJoin
  <2> QED BY <1>2, <2>1, JoinedAt, Zenon
<1> HIDE DEF c
<1>4. d \in Seq(S) /\ IsJoin(d, c, n4, s5, n5)
  <2>1. Len(c) = n4 BY <1>3, Zenon DEF IsJoin
  <2> QED BY <1>3, <2>1, JoinedAt, Zenon
<1> HIDE DEF d
<1>5. /\ \A i \in 1..n1 : d[i] = s1[i]
      /\ \A i \in (n1 + 1)..n2 : d[i] = s2[i - n1]
      /\ \A i \in (n2 + 1)..n3 : d[i] = s3[i - n2]
      /\ \A i \in (n3 + 1)..n4 : d[i] = s4[i - n3]
      /\ \A i \in (n4 + 1)..n5 : d[i] = s5[i - n4]
  <2>0. /\ \A i \in 1..n3 : i \in 1..n4
        /\ \A i \in 1..n2 : i \in 1..n3
        /\ \A i \in 1..n1 : i \in 1..n2
        /\ \A i \in (n1 + 1)..n2 : i \in 1..n2
        /\ \A i \in (n2 + 1)..n3 : i \in 1..n3
        /\ \A i \in (n3 + 1)..n4 : i \in 1..n4
    BY <1>0
  <2>1. \A i \in 1..n4 : d[i] = c[i]
    BY <1>4, Zenon DEF IsJoin
  <2>2. \A i \in 1..n3 : d[i] = b[i]
    BY <1>3, <2>0, <2>1, Zenon DEF IsJoin
  <2>3. \A i \in 1..n2 : d[i] = a[i]
    BY <1>2, <2>0, <2>2, Zenon DEF IsJoin
  <2>4. \A i \in 1..n1 : d[i] = s1[i]
    BY <1>1, <2>0, <2>3, Zenon DEF IsJoin
  <2>5. \A i \in (n1 + 1)..n2 : d[i] = s2[i - n1]
    BY <1>1, <2>0, <2>3, Zenon DEF IsJoin
  <2>6. \A i \in (n2 + 1)..n3 : d[i] = s3[i - n2]
    BY <1>2, <2>0, <2>2, Zenon DEF IsJoin
  <2>7. \A i \in (n3 + 1)..n4 : d[i] = s4[i - n3]
    BY <1>3, <2>0, <2>1, Zenon DEF IsJoin
  <2>8. \A i \in (n4 + 1)..n5 : d[i] = s5[i - n4]
    BY <1>4, Zenon DEF IsJoin
  <2> QED BY <2>4, <2>5, <2>6, <2>7, <2>8
<1>6. d \in Seq(S) /\ Len(d) = n5
  BY <1>4 DEF IsJoin
<1> QED BY <1>5, <1>6, Zenon DEF a, b, c, d, AreJoined

\* Every call of the set-up is sound.
LEMMA SoundCalls ==
    /\ CallIsSound(ClockCall) /\ CallIsSound(Conv!tsTransistorConfig(FALSE))
    /\ CallIsSound(Conv!stepIDTagConfig(TRUE)) /\ CallIsSound(Conv!stepConfigProtectionDisable)
    /\ CallIsSound(Conv!tsStepOperationModeControl(0)) /\ CallIsSound(Conv!tsStepConfig(0, 0, 0, 0))
    /\ CallIsSound(Conv!tsStepAnalogSupplyConfig(TRUE, FALSE, FALSE))
    /\ CallIsSound(Conv!tsStepAnalogGroundConfig(TRUE, FALSE, FALSE, FALSE))
    /\ CallIsSound(Conv!tsStepFIFOSelConfig(0)) /\ CallIsSound(Conv!tsStepModeConfig(1))
    /\ CallIsSound(Conv!tsStepAverageConfig(0)) /\ CallIsSound(Conv!tsModeConfig(0))
    /\ CallIsSound(Conv!fifoIRQThresholdLevelConfig(1)) /\ CallIsSound(Conv!intStatusClear)
    /\ CallIsSound(Conv!eventInterruptEnable(EOS)) /\ CallIsSound(Conv!InterruptAttach)
    /\ CallIsSound(Conv!moduleStateSet(FALSE)) /\ CallIsSound(Conv!moduleStateSet(TRUE))
    /\ CallIsSound(Conv!configureStepEnable(TRUE))
<1> USE DEF CallIsSound, Conv!Write, Conv!OnOff, Conv!StepField, Conv!Wanted, Conv!Flag, EOS
<1>1. CallIsSound(ClockCall)
  BY SMT DEF ClockCall, Conv!configureAFEClock
<1>2. CallIsSound(Conv!tsTransistorConfig(FALSE)) /\ CallIsSound(Conv!stepIDTagConfig(TRUE))
  BY DEF Conv!tsTransistorConfig, Conv!stepIDTagConfig
<1>3. CallIsSound(Conv!stepConfigProtectionDisable)
  BY DEF Conv!stepConfigProtectionDisable
<1>4. CallIsSound(Conv!tsStepOperationModeControl(0))
  BY DEF Conv!tsStepOperationModeControl
<1>5. CallIsSound(Conv!tsStepConfig(0, 0, 0, 0))
  BY DEF Conv!tsStepConfig
<1>6. CallIsSound(Conv!tsStepAnalogSupplyConfig(TRUE, FALSE, FALSE))
  BY DEF Conv!tsStepAnalogSupplyConfig
<1>7. CallIsSound(Conv!tsStepAnalogGroundConfig(TRUE, FALSE, FALSE, FALSE))
  BY DEF Conv!tsStepAnalogGroundConfig
<1>8. CallIsSound(Conv!tsStepFIFOSelConfig(0)) /\ CallIsSound(Conv!tsStepModeConfig(1))
  BY DEF Conv!tsStepFIFOSelConfig, Conv!tsStepModeConfig
<1>9. CallIsSound(Conv!tsStepAverageConfig(0)) /\ CallIsSound(Conv!tsModeConfig(0))
  BY DEF Conv!tsStepAverageConfig, Conv!tsModeConfig
<1>10. CallIsSound(Conv!fifoIRQThresholdLevelConfig(1)) /\ CallIsSound(Conv!intStatusClear)
  BY DEF Conv!fifoIRQThresholdLevelConfig, Conv!intStatusClear
<1>11. CallIsSound(Conv!eventInterruptEnable(EOS)) /\ CallIsSound(Conv!InterruptAttach)
  BY DEF Conv!eventInterruptEnable, Conv!InterruptAttach
<1>12. CallIsSound(Conv!moduleStateSet(FALSE)) /\ CallIsSound(Conv!moduleStateSet(TRUE))
  BY DEF Conv!moduleStateSet
<1>13. CallIsSound(Conv!configureStepEnable(TRUE))
  BY DEF Conv!configureStepEnable
<1> HIDE DEF CallIsSound, EOS
<1> QED BY <1>1, <1>2, <1>3, <1>4, <1>5, <1>6, <1>7, <1>8, <1>9, <1>10, <1>11, <1>12, <1>13

\* Short sequences.
LEMMA ShortSequences ==
    ASSUME NEW S
    PROVE  /\ \A a \in S : << a >> \in Seq(S) /\ Len(<< a >>) = 1
           /\ \A a, b \in S : << a, b >> \in Seq(S) /\ Len(<< a, b >>) = 2
           /\ \A a, b, c \in S : << a, b, c >> \in Seq(S) /\ Len(<< a, b, c >>) = 3
           /\ \A a, b, c, d \in S : << a, b, c, d >> \in Seq(S) /\ Len(<< a, b, c, d >>) = 4
           /\ \A a, b, c, d, e, f, g \in S :
                 << a, b, c, d, e, f, g >> \in Seq(S) /\ Len(<< a, b, c, d, e, f, g >>) = 7
OBVIOUS

\* The calls of the set-up, by their places.
LEMMA CallsOfSetup ==
    /\ Len(Conv!Setup) = 28
    /\ Conv!Setup[1] = ClockCall /\ Conv!Setup[2] = Conv!tsTransistorConfig(FALSE)
    /\ Conv!Setup[3] = Conv!stepIDTagConfig(TRUE) /\ Conv!Setup[4] = Conv!stepConfigProtectionDisable
    /\ Conv!Setup[5] = Conv!tsStepOperationModeControl(0)
    /\ Conv!Setup[6] = Conv!tsStepConfig(0, 0, 0, 0)
    /\ Conv!Setup[7] = Conv!tsStepAnalogSupplyConfig(TRUE, FALSE, FALSE)
    /\ Conv!Setup[8] = Conv!tsStepAnalogGroundConfig(TRUE, FALSE, FALSE, FALSE)
    /\ Conv!Setup[9] = Conv!tsStepFIFOSelConfig(0) /\ Conv!Setup[10] = Conv!tsStepModeConfig(1)
    /\ Conv!Setup[11] = Conv!tsStepAverageConfig(0)
    /\ Conv!Setup[12] = Conv!tsModeConfig(0) /\ Conv!Setup[13] = Conv!fifoIRQThresholdLevelConfig(1)
    /\ \A i \in 14..16 \cup 18..20 \cup 22..24 : Conv!Setup[i] = Conv!intStatusClear
    /\ Conv!Setup[17] = Conv!eventInterruptEnable(EOS) /\ Conv!Setup[21] = Conv!InterruptAttach
    /\ Conv!Setup[25] = Conv!eventInterruptEnable(EOS)
    /\ Conv!Setup[26] = Conv!moduleStateSet(FALSE) /\ Conv!Setup[27] = Conv!configureStepEnable(TRUE)
    /\ Conv!Setup[28] = Conv!moduleStateSet(TRUE)
<1> DEFINE ts == Conv!tsTransistorConfig(FALSE)
           id == Conv!stepIDTagConfig(TRUE)
           pd == Conv!stepConfigProtectionDisable
           om == Conv!tsStepOperationModeControl(0)
           sc == Conv!tsStepConfig(0, 0, 0, 0)
           as == Conv!tsStepAnalogSupplyConfig(TRUE, FALSE, FALSE)
           ag == Conv!tsStepAnalogGroundConfig(TRUE, FALSE, FALSE, FALSE)
           fs == Conv!tsStepFIFOSelConfig(0)
           mc == Conv!tsStepModeConfig(1)
           ac == Conv!tsStepAverageConfig(0)
           tm == Conv!tsModeConfig(0)
           th == Conv!fifoIRQThresholdLevelConfig(1)
           cl == Conv!intStatusClear
           en == Conv!eventInterruptEnable(EOS)
           at == Conv!InterruptAttach
           off == Conv!moduleStateSet(FALSE)
           st == Conv!configureStepEnable(TRUE)
           on == Conv!moduleStateSet(TRUE)
           S == {ClockCall, ts, id, pd, om, sc, as, ag, fs, mc, ac, tm, th, cl, en, at, off, st, on}
           s4 == << ClockCall, ts, id, pd >>
           s7 == << om, sc, as, ag, fs, mc, ac >>
           s2 == << tm, th >>
           k == << cl, cl, cl >>
           e == << en >>
           r == << at >>
           n == << off, st, on >>
           in == s4 \o s7 \o s2 \o k \o e
           re == k \o r \o k \o e \o n
<1>1. Conv!Setup = in \o re
  BY SMT DEF Conv!Setup, Conv!init, Conv!registerAdcISR, Conv!stepConfigure, Conv!cleanUpInterrupts,
             Conv!adcEnable, ClockCall, EOS
<1> HIDE DEF ts, id, pd, om, sc, as, ag, fs, mc, ac, tm, th, cl, en, at, off, st, on
<1>2. /\ ClockCall \in S /\ ts \in S /\ id \in S /\ pd \in S /\ om \in S /\ sc \in S /\ as \in S
      /\ ag \in S /\ fs \in S /\ mc \in S /\ ac \in S /\ tm \in S /\ th \in S /\ cl \in S
      /\ en \in S /\ at \in S /\ off \in S /\ st \in S /\ on \in S
  OBVIOUS
<1> HIDE DEF S
<1>3. /\ s4 \in Seq(S) /\ Len(s4) = 4 /\ s2 \in Seq(S) /\ Len(s2) = 2
      /\ k \in Seq(S) /\ Len(k) = 3 /\ e \in Seq(S) /\ Len(e) = 1 /\ r \in Seq(S) /\ Len(r) = 1
      /\ n \in Seq(S) /\ Len(n) = 3
  BY <1>2
<1>4. s7 \in Seq(S) /\ Len(s7) = 7
  BY <1>2, ShortSequences, Zenon
<1>5. /\ s4[1] = ClockCall /\ s4[2] = ts /\ s4[3] = id /\ s4[4] = pd /\ s2[1] = tm /\ s2[2] = th
      /\ \A i \in 1..3 : k[i] = cl
      /\ e[1] = en /\ r[1] = at /\ n[1] = off /\ n[2] = st /\ n[3] = on
  OBVIOUS
<1>6. /\ s7[1] = om /\ s7[2] = sc /\ s7[3] = as /\ s7[4] = ag /\ s7[5] = fs /\ s7[6] = mc /\ s7[7] = ac
  OBVIOUS
<1> HIDE DEF s4, s7, s2, k, e, r, n
<1>7. AreJoined(S, in, s4, 4, s7, 11, s2, 13, k, 16, e, 17)
  <2>1. 4 \in Nat /\ 11 \in Nat /\ 13 \in Nat /\ 16 \in Nat /\ 17 \in Nat
    OBVIOUS
  <2>2. Len(s4) = 4 /\ 4 + Len(s7) = 11 /\ 11 + Len(s2) = 13 /\ 13 + Len(k) = 16 /\ 16 + Len(e) = 17
    BY <1>3, <1>4
  <2> QED BY <1>3, <1>4, <2>1, <2>2, FiveJoined, Zenon
<1>8. AreJoined(S, re, k, 3, r, 4, k, 7, e, 8, n, 11)
  <2>1. 3 \in Nat /\ 4 \in Nat /\ 7 \in Nat /\ 8 \in Nat /\ 11 \in Nat
    OBVIOUS
  <2>2. Len(k) = 3 /\ 3 + Len(r) = 4 /\ 4 + Len(k) = 7 /\ 7 + Len(e) = 8 /\ 8 + Len(n) = 11
    BY <1>3
  <2> QED BY <1>3, <2>1, <2>2, FiveJoined, Zenon
<1> HIDE DEF in, re
<1>9. Len(Conv!Setup) = 28 /\ IsJoin(Conv!Setup, in, 17, re, 28)
  <2>1. 17 \in Nat /\ 28 \in Nat /\ Len(in) = 17 /\ 17 + Len(re) = 28
    BY <1>7, <1>8 DEF AreJoined
  <2>2. in \in Seq(S) /\ re \in Seq(S)
    BY <1>7, <1>8 DEF AreJoined
  <2>3. IsJoin(in \o re, in, 17, re, 28)
    BY <2>1, <2>2, JoinedAt, Zenon
  <2> QED BY <1>1, <2>3, Zenon DEF IsJoin
<1>10. /\ in[1] = ClockCall /\ in[2] = ts /\ in[3] = id /\ in[4] = pd
  BY <1>5, <1>7 DEF AreJoined
<1>11. /\ in[5] = om /\ in[6] = sc /\ in[7] = as /\ in[8] = ag /\ in[9] = fs /\ in[10] = mc
       /\ in[11] = ac
  <2>1. \A i \in 5..11 : in[i] = s7[i - 4]
    BY <1>7 DEF AreJoined
  <2>2. in[5] = s7[1] /\ in[6] = s7[2] /\ in[7] = s7[3] /\ in[8] = s7[4]
    BY <2>1
  <2>3. in[9] = s7[5] /\ in[10] = s7[6] /\ in[11] = s7[7]
    BY <2>1
  <2> QED BY <1>6, <2>2, <2>3, Zenon
<1>12. /\ in[12] = tm /\ in[13] = th /\ in[17] = en
       /\ \A i \in 14..16 : in[i] = cl
  BY <1>5, <1>7 DEF AreJoined
<1>13. /\ re[4] = at /\ re[8] = en /\ re[9] = off /\ re[10] = st /\ re[11] = on
       /\ \A i \in 1..3 : re[i] = cl
       /\ \A i \in 5..7 : re[i] = cl
  BY <1>5, <1>8 DEF AreJoined
<1>14. /\ \A i \in 1..17 : Conv!Setup[i] = in[i]
       /\ \A i \in 18..28 : Conv!Setup[i] = re[i - 17]
  BY <1>9 DEF IsJoin
<1>15. \A i \in 14..16 \cup 18..20 \cup 22..24 : Conv!Setup[i] = cl
  <2>1. ASSUME NEW i \in 14..16 PROVE Conv!Setup[i] = cl
    BY <1>12, <1>14
  <2>2. ASSUME NEW i \in 18..20 PROVE Conv!Setup[i] = cl
    BY <1>13, <1>14
  <2>3. ASSUME NEW i \in 22..24 PROVE Conv!Setup[i] = cl
    BY <1>13, <1>14
  <2> QED BY <2>1, <2>2, <2>3
<1>16. /\ Conv!Setup[21] = at /\ Conv!Setup[25] = en /\ Conv!Setup[26] = off
       /\ Conv!Setup[27] = st /\ Conv!Setup[28] = on
  BY <1>13, <1>14
<1>17. /\ Conv!Setup[12] = tm /\ Conv!Setup[13] = th /\ Conv!Setup[17] = en
  BY <1>12, <1>14
<1>18. /\ Conv!Setup[1] = ClockCall /\ Conv!Setup[2] = ts /\ Conv!Setup[3] = id /\ Conv!Setup[4] = pd
       /\ Conv!Setup[5] = om /\ Conv!Setup[6] = sc /\ Conv!Setup[7] = as /\ Conv!Setup[8] = ag
       /\ Conv!Setup[9] = fs /\ Conv!Setup[10] = mc /\ Conv!Setup[11] = ac
  <2>1. \A i \in 1..11 : Conv!Setup[i] = in[i]
    BY <1>14
  <2>2. /\ Conv!Setup[1] = in[1] /\ Conv!Setup[2] = in[2] /\ Conv!Setup[3] = in[3]
        /\ Conv!Setup[4] = in[4] /\ Conv!Setup[5] = in[5] /\ Conv!Setup[6] = in[6]
    BY <2>1
  <2>3. /\ Conv!Setup[7] = in[7] /\ Conv!Setup[8] = in[8] /\ Conv!Setup[9] = in[9]
        /\ Conv!Setup[10] = in[10] /\ Conv!Setup[11] = in[11]
    BY <2>1
  <2> QED BY <1>10, <1>11, <2>2, <2>3, Zenon
<1> QED BY <1>9, <1>15, <1>16, <1>17, <1>18
        DEF ts, id, pd, om, sc, as, ag, fs, mc, ac, tm, th, cl, en, at, off, st, on

\* What the calls of the set-up do, by their places.
LEMMA EffectsOfSetup ==
    /\ Len(Conv!Setup) = 28
    /\ \A i \in 1..28 : CallIsSound(Conv!Setup[i])
    /\ Conv!Setup[4].op = "write" /\ "WRITEPROTECT_N" \in DOMAIN Conv!Setup[4].to
    /\ \A i \in 1..28 : Conv!Setup[i].op = "attach" => i = 21
    /\ \A i \in 5..11 : Conv!Setup[i].op = "write"
    /\ \A f \in Conv!StepField : \E i \in 5..11 : f \in DOMAIN Conv!Setup[i].to
<1>1. \A i \in 1..28 : \/ i \in 1..13 \/ i \in 14..16 \cup 18..20 \cup 22..24
                       \/ i \in {17, 21, 25, 26, 27, 28}
  OBVIOUS
<1>2. \A i \in 1..28 : CallIsSound(Conv!Setup[i])
  <2>1. \A i \in 14..16 \cup 18..20 \cup 22..24 : CallIsSound(Conv!Setup[i])
    BY CallsOfSetup, SoundCalls, Zenon
  <2>2. \A i \in {17, 21, 25, 26, 27, 28} : CallIsSound(Conv!Setup[i])
    BY CallsOfSetup, SoundCalls, Zenon
  <2>3. \A i \in {1, 2, 3, 4, 5, 6, 7, 8, 9, 10, 11, 12, 13} : CallIsSound(Conv!Setup[i])
    BY CallsOfSetup, SoundCalls, Zenon
  <2>4. 1..13 = {1, 2, 3, 4, 5, 6, 7, 8, 9, 10, 11, 12, 13}
    OBVIOUS
  <2> QED BY <1>1, <2>1, <2>2, <2>3, <2>4, Zenon
<1> USE DEF Conv!Write
<1>3. Conv!Setup[4].op = "write" /\ "WRITEPROTECT_N" \in DOMAIN Conv!Setup[4].to
  <2>1. Conv!Setup[4] = [op |-> "write", to |-> [WRITEPROTECT_N |-> 1]]
    BY CallsOfSetup, Zenon DEF Conv!stepConfigProtectionDisable
  <2> QED BY <2>1
<1>4. /\ Conv!Setup[5].op = "write" /\ DOMAIN Conv!Setup[5].to = {"DIFF_CNTRL"}
      /\ Conv!Setup[6].op = "write" /\ DOMAIN Conv!Setup[6].to = {"SEL_RFM", "SEL_INP", "SEL_INM", "SEL_RFP"}
      /\ Conv!Setup[7].op = "write" /\ DOMAIN Conv!Setup[7].to = {"XPPSW", "XNPSW", "YPPSW"}
      /\ Conv!Setup[8].op = "write" /\ DOMAIN Conv!Setup[8].to = {"XNNSW", "YPNSW", "YNNSW", "WPNSW"}
      /\ Conv!Setup[9].op = "write" /\ DOMAIN Conv!Setup[9].to = {"FIFO_SELECT"}
      /\ Conv!Setup[10].op = "write" /\ DOMAIN Conv!Setup[10].to = {"MODE"}
      /\ Conv!Setup[11].op = "write" /\ DOMAIN Conv!Setup[11].to = {"AVERAGING"}
  <2> DEFINE Writes(c, d) == c.op = "write" /\ DOMAIN c.to = d
  <2>1. Writes(Conv!tsStepOperationModeControl(0), {"DIFF_CNTRL"})
    BY DEF Conv!tsStepOperationModeControl
  <2>2. Writes(Conv!tsStepConfig(0, 0, 0, 0), {"SEL_RFM", "SEL_INP", "SEL_INM", "SEL_RFP"})
    BY DEF Conv!tsStepConfig
  <2>3. Writes(Conv!tsStepAnalogSupplyConfig(TRUE, FALSE, FALSE), {"XPPSW", "XNPSW", "YPPSW"})
    BY DEF Conv!tsStepAnalogSupplyConfig
  <2>4. Writes(Conv!tsStepAnalogGroundConfig(TRUE, FALSE, FALSE, FALSE), {"XNNSW", "YPNSW", "YNNSW", "WPNSW"})
    BY DEF Conv!tsStepAnalogGroundConfig
  <2>5. Writes(Conv!tsStepFIFOSelConfig(0), {"FIFO_SELECT"}) /\ Writes(Conv!tsStepModeConfig(1), {"MODE"})
    BY DEF Conv!tsStepFIFOSelConfig, Conv!tsStepModeConfig
  <2>6. Writes(Conv!tsStepAverageConfig(0), {"AVERAGING"})
    BY DEF Conv!tsStepAverageConfig
  <2> QED BY <2>1, <2>2, <2>3, <2>4, <2>5, <2>6, CallsOfSetup, Zenon
<1>5. \A i \in 1..28 : Conv!Setup[i].op = "attach" => i = 21
  <2> DEFINE NoAttach(c) == c.op # "attach"
  <2>1. /\ NoAttach(Conv!tsTransistorConfig(FALSE)) /\ NoAttach(Conv!stepIDTagConfig(TRUE))
        /\ NoAttach(Conv!tsModeConfig(0)) /\ NoAttach(Conv!fifoIRQThresholdLevelConfig(1))
        /\ NoAttach(Conv!intStatusClear) /\ NoAttach(Conv!eventInterruptEnable(EOS))
        /\ NoAttach(Conv!moduleStateSet(FALSE)) /\ NoAttach(Conv!moduleStateSet(TRUE))
        /\ NoAttach(Conv!configureStepEnable(TRUE))
    BY DEF Conv!tsTransistorConfig, Conv!stepIDTagConfig, Conv!tsModeConfig, Conv!fifoIRQThresholdLevelConfig,
           Conv!intStatusClear, Conv!eventInterruptEnable, Conv!moduleStateSet, Conv!configureStepEnable
  <2>2. NoAttach(ClockCall)
    BY SMT DEF ClockCall, Conv!configureAFEClock
  <2> HIDE DEF NoAttach
  <2>3. \A i \in 14..16 \cup 18..20 \cup 22..24 : NoAttach(Conv!Setup[i])
    BY <2>1, CallsOfSetup, Zenon
  <2>4. \A i \in {1, 2, 3, 12, 13, 17, 25, 26, 27, 28} : NoAttach(Conv!Setup[i])
    BY <2>1, <2>2, CallsOfSetup, Zenon
  <2>5. \A i \in {4, 5, 6, 7, 8, 9, 10, 11} : NoAttach(Conv!Setup[i])
    BY <1>3, <1>4 DEF NoAttach
  <2>6. \A i \in 1..28 : \/ i \in 14..16 \cup 18..20 \cup 22..24
                         \/ i \in {1, 2, 3, 12, 13, 17, 25, 26, 27, 28}
                         \/ i \in {4, 5, 6, 7, 8, 9, 10, 11} \/ i = 21
    OBVIOUS
  <2> QED BY <2>3, <2>4, <2>5, <2>6, Zenon DEF NoAttach
<1>6. 5..11 = {5, 6, 7, 8, 9, 10, 11}
  OBVIOUS
<1>7. \A i \in 5..11 : Conv!Setup[i].op = "write"
  BY <1>4, <1>6
<1>8. \A f \in Conv!StepField : \E i \in 5..11 : f \in DOMAIN Conv!Setup[i].to
  <2> SUFFICES ASSUME NEW f \in Conv!StepField
               PROVE  \E i \in {5, 6, 7, 8, 9, 10, 11} : f \in DOMAIN Conv!Setup[i].to
    BY <1>6
  <2>1. \/ f \in {"DIFF_CNTRL"} \/ f \in {"SEL_RFM", "SEL_INP", "SEL_INM", "SEL_RFP"}
        \/ f \in {"XPPSW", "XNPSW", "YPPSW"} \/ f \in {"XNNSW", "YPNSW", "YNNSW", "WPNSW"}
        \/ f \in {"FIFO_SELECT"} \/ f \in {"MODE"} \/ f \in {"AVERAGING"}
    BY DEF Conv!StepField
  <2> QED BY <1>4, <2>1
<1>9. Len(Conv!Setup) = 28
  BY CallsOfSetup, Zenon
<1> QED BY <1>2, <1>3, <1>5, <1>7, <1>8, <1>9

\* The converter starts before the set-up, with any flags from before.
LEMMA ConverterStarts == Conv!Init => ConvInv
<1> SUFFICES ASSUME Conv!Init PROVE ConvInv
  OBVIOUS
<1>1. /\ pc = 0 /\ attached = FALSE /\ isr = "idle" /\ seen = {} /\ idx = 0 /\ means = 0
      /\ enabled \subseteq Conv!Flag /\ status \subseteq Conv!Flag /\ fifo \in 0..FifoDepth
      /\ EOS \in status => fifo > 0
  <2>1. 0 \in 0..FifoDepth
    BY PartsAssumption DEF Conv!ConverterAssumption
  <2> QED BY <2>1 DEF Conv!Init, Conv!Flag, EOS
<1>2. regs \in [Conv!Field -> Nat]
  <2>1. CASE regs = [f \in Conv!Field |-> 0]
    BY <2>1
  <2>2. CASE regs = [f \in Conv!Field |->
                       CASE f = "CLKDIV" -> 23
                         [] f \in {"STEP_ID_TAG", "WRITEPROTECT_N", "STEP1", "ENABLE"} -> 1
                         [] f \in Conv!StepField -> Conv!Wanted[f]
                         [] OTHER -> 0]
    <3>1. \A f \in Conv!StepField : Conv!Wanted[f] \in Nat
      BY DEF Conv!Wanted
    <3> QED BY <2>2, <3>1
  <2> QED BY <2>1, <2>2 DEF Conv!Init
<1>3. Conv!TypeOK
  <2>1. 0 \in 0..Len(Conv!Setup) /\ 0 \in 0..(BufSize - 1) /\ 0 \in 0..(MaxMeans + 1)
    BY EffectsOfSetup, PartsAssumption DEF Conv!ConverterAssumption
  <2> QED BY <1>1, <1>2, <2>1 DEF Conv!TypeOK
<1>4. Sampled /\ MeansBounded
  BY <1>1, PartsAssumption DEF Sampled, MeansBounded, ToRead, Reading, Conv!ConverterAssumption
<1>5. SetUp
  BY <1>1 DEF SetUp
<1> QED BY <1>3, <1>4, <1>5 DEF ConvInv

\* The calls that set the converter up go on.
LEMMA SetupGoesOn == ConvInv /\ Conv!SetupCall => ConvInv'
<1> SUFFICES ASSUME ConvInv, Conv!SetupCall PROVE ConvInv'
  OBVIOUS
<1> DEFINE call == Conv!Setup[pc + 1]
<1>1. /\ isr = "idle" /\ pc \in 0..27 /\ pc' = pc + 1
      /\ UNCHANGED << fifo, isr, seen, idx, means >>
  BY EffectsOfSetup DEF Conv!SetupCall, Conv!Ready, ConvInv, Conv!TypeOK
<1>2. /\ regs' = IF call.op = "write"
                 THEN [f \in Conv!Field |-> IF f \in DOMAIN call.to /\ ~Conv!Protected(f) THEN call.to[f] ELSE regs[f]]
                 ELSE regs
      /\ enabled' = IF call.op = "enable" THEN enabled \cup {call.flag} ELSE enabled
      /\ status' = IF call.op = "clear" THEN {} ELSE status
      /\ attached' = (attached \/ call.op = "attach")
  BY DEF Conv!SetupCall
<1>3. CallIsSound(call) /\ (call.op = "attach" => pc + 1 = 21)
  BY <1>1, EffectsOfSetup
<1>4. regs \in [Conv!Field -> Nat] /\ enabled \subseteq Conv!Flag /\ status \subseteq Conv!Flag
  BY DEF ConvInv, Conv!TypeOK
<1>5. Conv!TypeOK'
  <2>1. regs' \in [Conv!Field -> Nat]
    BY <1>2, <1>3, <1>4 DEF CallIsSound
  <2>2. enabled' \subseteq Conv!Flag /\ status' \subseteq Conv!Flag
    BY <1>2, <1>3, <1>4 DEF CallIsSound
  <2>3. attached' \in BOOLEAN
    BY <1>2, Zenon
  <2>4. pc' \in 0..Len(Conv!Setup)
    BY <1>1, EffectsOfSetup
  <2> QED BY <1>1, <2>1, <2>2, <2>3, <2>4 DEF ConvInv, Conv!TypeOK
<1>6. Sampled' /\ MeansBounded'
  BY <1>1, <1>2 DEF ConvInv, Sampled, MeansBounded, ToRead, Reading, Conv!TypeOK
<1>7. SetUp'
  <2>1. pc' >= 4 => regs'["WRITEPROTECT_N"] = 1
    <3>1. "WRITEPROTECT_N" \in Conv!Field /\ ~Conv!Protected("WRITEPROTECT_N")
      BY DEF Conv!Field, Conv!CtrlField, Conv!Protected, Conv!StepField
    <3>2. regs'["WRITEPROTECT_N"] \in {1, regs["WRITEPROTECT_N"]}
      BY <1>2, <1>3, <3>1 DEF CallIsSound
    <3>3. CASE pc = 3
      BY <1>2, <1>3, <3>1, <3>3, EffectsOfSetup DEF CallIsSound
    <3>4. CASE pc # 3
      BY <1>1, <3>2, <3>4 DEF ConvInv, SetUp
    <3> QED BY <3>3, <3>4
  <2>2. ASSUME NEW i \in 5..11, i <= pc', NEW f \in DOMAIN Conv!Setup[i].to, f \in Conv!StepField
        PROVE  regs'[f] = Conv!Wanted[f]
    <3>1. f \in Conv!Field /\ ~Conv!Protected(f)
      BY <1>1, <2>2 DEF ConvInv, SetUp, Conv!Field, Conv!Protected
    <3>2. regs'[f] = IF call.op = "write" /\ f \in DOMAIN call.to THEN call.to[f] ELSE regs[f]
      BY <1>2, <3>1
    <3>3. CASE call.op = "write" /\ f \in DOMAIN call.to
      BY <1>3, <2>2, <3>2, <3>3 DEF CallIsSound
    <3>4. CASE ~(call.op = "write" /\ f \in DOMAIN call.to)
      <4>1. i # pc + 1
        BY <2>2, <3>4, EffectsOfSetup
      <4>2. i <= pc
        BY <1>1, <2>2, <4>1
      <4> QED BY <2>2, <3>2, <3>4, <4>2 DEF ConvInv, SetUp
    <3> QED BY <3>3, <3>4
  <2>3. attached' => pc' >= 21
    <3>1. attached' => attached \/ call.op = "attach"
      BY <1>2, Zenon
    <3>2. attached => pc >= 21
      BY DEF ConvInv, SetUp
    <3> HIDE DEF call
    <3> QED BY <1>1, <1>3, <3>1, <3>2
  <2>4. isr' = "idle"
    BY <1>1
  <2> QED BY <2>1, <2>2, <2>3, <2>4 DEF SetUp, Conv!Setup, Conv!StepField, Conv!Wanted
<1> QED BY <1>5, <1>6, <1>7 DEF ConvInv

\* The hardware, the service routine and the HAL thread go on.
LEMMA ConverterGoesOn == ConvInv /\ [Conv!Next]_(Conv!vars) => ConvInv'
<1> SUFFICES ASSUME ConvInv, [Conv!Next]_(Conv!vars) PROVE ConvInv'
  OBVIOUS
<1>0. /\ BufSize \in Nat \ {0} /\ FifoDepth \in Nat \ {0, 1} /\ MaxMeans \in Nat
      /\ Len(Conv!Setup) = 28
  BY EffectsOfSetup, PartsAssumption DEF Conv!ConverterAssumption
<1> HIDE DEF Conv!Setup
<1>1. ASSUME UNCHANGED << regs, pc, attached >>, isr' # "idle" => attached PROVE SetUp'
  BY <1>1 DEF ConvInv, SetUp
<1> USE DEF ConvInv, Conv!TypeOK, Sampled, MeansBounded, ToRead, Reading, EOS
<1>2. CASE Conv!Convert
  <2>1. /\ UNCHANGED << regs, enabled, pc, attached, isr, seen, idx, means >>
        /\ means < MaxMeans
        /\ fifo' = IF fifo = FifoDepth THEN fifo ELSE fifo + 1
        /\ EOS \in status' /\ status' \subseteq Conv!Flag
    BY <1>2 DEF Conv!Convert, Conv!Flag
  <2>2. Conv!TypeOK' /\ Sampled'
    BY <1>0, <2>1
  <2>3. MeansBounded'
    BY <1>0, <2>1
  <2>4. SetUp'
    BY <1>1, <2>1 DEF SetUp
  <2> QED BY <2>2, <2>3, <2>4
<1>3. CASE Conv!EnterISR
  <2>1. /\ UNCHANGED << regs, enabled, status, fifo, pc, attached, idx, means >>
        /\ isr = "idle" /\ attached /\ seen' = status /\ isr' = "clear"
    BY <1>3 DEF Conv!EnterISR, Conv!Interrupt
  <2> QED BY <1>0, <1>1, <2>1
<1>4. CASE Conv!ClearISR
  <2>1. /\ UNCHANGED << regs, enabled, fifo, pc, attached, seen, idx, means >>
        /\ isr = "clear" /\ isr' = "read" /\ status' = status \ seen
    BY <1>4 DEF Conv!ClearISR, Conv!Remaining
  <2>2. SetUp'
    BY <1>1, <2>1 DEF SetUp
  <2>3. Conv!TypeOK' /\ Sampled'
    BY <1>0, <2>1
  <2>4. MeansBounded'
    BY <1>0, <2>1
  <2> QED BY <2>2, <2>3, <2>4
<1>5. CASE Conv!ReadISR
  <2>1. /\ UNCHANGED << regs, enabled, status, pc, attached >>
        /\ isr = "read" /\ isr' = "idle" /\ seen' = {}
        /\ IF EOS \in seen
           THEN /\ fifo' = (IF fifo = 0 THEN 0 ELSE fifo - 1)
                /\ idx' = (idx + 1) % BufSize
                /\ means' = (IF idx' = 0 THEN means + 1 ELSE means)
           ELSE UNCHANGED << fifo, idx, means >>
    BY <1>5 DEF Conv!ReadISR
  <2>2. SetUp'
    BY <1>1, <2>1
  <2>3. idx' \in 0..(BufSize - 1)
    <3>1. \A x \in Nat, n \in Nat \ {0} : x % n \in 0..(n - 1)
      OBVIOUS
    <3>2. idx + 1 \in Nat
      OBVIOUS
    <3> QED BY <1>0, <2>1, <3>1, <3>2
  <2>4. fifo' \in 0..FifoDepth /\ Sampled'
    BY <1>0, <2>1
  <2>5. means' \in 0..(MaxMeans + 1) /\ MeansBounded'
    BY <1>0, <2>1
  <2> QED BY <2>1, <2>2, <2>3, <2>4, <2>5
<1>6. CASE Conv!Receive
  <2>1. /\ UNCHANGED << regs, enabled, status, fifo, pc, attached, isr, seen, idx >>
        /\ means > 0 /\ means' = means - 1
    BY <1>6 DEF Conv!Receive
  <2>2. SetUp'
    BY <1>1, <2>1 DEF SetUp
  <2> QED BY <1>0, <2>1, <2>2
<1>7. CASE UNCHANGED Conv!vars
  <2>1. UNCHANGED << regs, enabled, status, fifo, pc, attached, isr, seen, idx, means >>
    BY <1>7 DEF Conv!vars
  <2>2. SetUp'
    BY <1>1, <2>1 DEF SetUp
  <2> QED BY <2>1, <2>2
<1> QED BY <1>2, <1>3, <1>4, <1>5, <1>6, <1>7, SetupGoesOn DEF Conv!Next, Conv!ISR

\* What the invariant says of a service routine that reads.
LEMMA ConverterEnds == ConvInv => Conv!TypeOK /\ Conv!ReadsOnlySamples
<1> SUFFICES ASSUME ConvInv, isr = "read", EOS \in seen PROVE fifo > 0 /\ Conv!Configured
  BY DEF Conv!ReadsOnlySamples, ConvInv, EOS
<1>1. fifo > 0
  BY DEF ConvInv, Sampled, Reading, Conv!TypeOK
<1>2. pc >= 21 /\ pc \in Nat
  BY EffectsOfSetup DEF ConvInv, SetUp, Conv!TypeOK
<1>3. ASSUME NEW f \in Conv!StepField PROVE regs[f] = Conv!Wanted[f]
  <2>1. PICK i \in 5..11 : f \in DOMAIN Conv!Setup[i].to
    BY EffectsOfSetup
  <2>2. i <= pc
    BY <1>2
  <2> QED BY <2>1, <2>2 DEF ConvInv, SetUp
<1> QED BY <1>1, <1>3 DEF Conv!Configured

(***************************************************************************)
(* The converter by itself: its service routine never reads an empty FIFO, *)
(* nor before step 1 is what it should be, whatever an earlier run left.   *)
(***************************************************************************)
THEOREM ConverterReadsSamples == Conv!Spec => [](Conv!TypeOK /\ Conv!ReadsOnlySamples)
BY ConverterStarts, ConverterGoesOn, ConverterEnds, PTL DEF Conv!Spec
-----------------------------------------------------------------------------
(***************************************************************************)
(* Scanner: only that its state is what it should be, whatever the items   *)
(* are like and whenever a pulse is handled.                               *)
(***************************************************************************)
Value == [time : 0 .. MaxClock, place : 0 .. MaxClock]

ScanNumbers ==
    /\ { clock, travel, first, mapping } \subseteq 0 .. MaxClock
    /\ first <= clock /\ mapping <= clock /\ travel <= clock
    /\ timer \in -1 .. Delay /\ stops \in 0 .. MaxStops

ScanFlags == /\ running \in BOOLEAN /\ done \in BOOLEAN /\ suspended \in BOOLEAN
             /\ tooLong \in BOOLEAN /\ crashed \in BOOLEAN
             /\ dropped \in BOOLEAN /\ onHole \in BOOLEAN

\* The pulse that is being handled still counts as one that waits.
ScanPulses == /\ waiting \in Seq(0 .. MaxClock)
              /\ adding # {} => waiting # <<>>

ScanMaps ==
    /\ current = {} \/ \E m \in current : current = {m} /\ m \in Scan!HeightMap
    /\ adding = {} \/ \E v \in adding : adding = {v} /\ v \in Value
    /\ finished \in Seq(Scan!HeightMap)
    /\ passed \in Seq(SUBSET Scan!HeightMap) /\ Len(passed) <= Len(Places)

ScanInv == ScanNumbers /\ ScanFlags /\ ScanPulses /\ ScanMaps

\* The scanner's constants have their types.
LEMMA ScannerNumbers == /\ Delay \in Nat /\ MaxStops \in Nat /\ MaxClock \in Nat
                        /\ Len(Places) \in Nat
BY PartsAssumption DEF Scan!ScannerAssumption

\* A map with one more value is a map.
LEMMA LongerMap ==
    ASSUME NEW m \in Scan!HeightMap, NEW v \in Value
    PROVE  [m EXCEPT !.values = Append(@, v)] \in Scan!HeightMap
<1>1. m.values \in Seq(Value) /\ m.twice \in BOOLEAN
  BY DEF Scan!HeightMap, Value
<1>2. Append(m.values, v) \in Seq(Value)
  BY <1>1
<1>3. m = [values |-> m.values, twice |-> m.twice]
  BY DEF Scan!HeightMap
<1>4. [m EXCEPT !.values = Append(@, v)] = [values |-> Append(m.values, v), twice |-> m.twice]
  BY <1>3
<1>5. [values |-> Append(m.values, v), twice |-> m.twice] \in Scan!HeightMap
  BY <1>1, <1>2 DEF Scan!HeightMap, Value
<1> QED BY <1>4, <1>5

\* So is a map that is marked.
LEMMA FlaggedMap ==
    ASSUME NEW m \in Scan!HeightMap, NEW b \in BOOLEAN
    PROVE  [m EXCEPT !.twice = @ \/ b] \in Scan!HeightMap
<1>1. m.values \in Seq(Value) /\ m.twice \in BOOLEAN
  BY DEF Scan!HeightMap, Value
<1>2. m = [values |-> m.values, twice |-> m.twice]
  BY DEF Scan!HeightMap
<1>3. [m EXCEPT !.twice = @ \/ b] = [values |-> m.values, twice |-> m.twice \/ b]
  BY <1>2
<1> DEFINE t == m.twice \/ b
<1>4. t \in BOOLEAN
  BY <1>1
<1> HIDE DEF t
<1>5. [values |-> m.values, twice |-> t] \in Scan!HeightMap
  BY <1>1, <1>4 DEF Scan!HeightMap, Value
<1> QED BY <1>3, <1>5 DEF t

\* What AppendProperties says.
LEMMA AppendTyped == ASSUME NEW S, NEW s \in Seq(S), NEW x \in S PROVE Append(s, x) \in Seq(S)
OBVIOUS

\* Every step keeps the types of the scanner's numbers.
LEMMA NumbersStay == ScanNumbers /\ [Scan!Next]_(Scan!vars) => ScanNumbers'
<1> SUFFICES ASSUME ScanNumbers, [Scan!Next]_(Scan!vars) PROVE ScanNumbers' OBVIOUS
<1> USE DEF ScanNumbers
<1> USE ScannerNumbers
<1>0. { clock, travel, first, mapping } \subseteq Nat
  OBVIOUS
<1>1. CASE Scan!Tick
  <2>1. clock' = clock + 1 /\ clock' <= MaxClock /\ UNCHANGED << first, mapping, stops >>
    BY <1>0, <1>1 DEF Scan!Tick
  <2>2. travel' \in Nat /\ travel' <= travel + 1
    BY <1>0, <1>1 DEF Scan!Tick
  <2>3. timer' \in -1 .. Delay
    BY <1>1 DEF Scan!Tick
  <2> QED BY <1>0, <2>1, <2>2, <2>3
<1>2. CASE Scan!MeasureItem
  BY <1>2 DEF Scan!MeasureItem
<1>3. CASE Scan!AddValue \/ Scan!MeasureBelt \/ Scan!MeasureNothing
           \/ Scan!FinishMeasurement \/ Scan!Arrive
  <2>1. UNCHANGED << clock, travel, first, mapping, stops >>
    BY <1>3 DEF Scan!AddValue, Scan!MeasureBelt, Scan!MeasureNothing, Scan!FinishMeasurement,
                Scan!Arrive
  <2>2. timer' = timer \/ timer' = -1 \/ timer' = Delay
    BY <1>3 DEF Scan!AddValue, Scan!MeasureBelt, Scan!MeasureNothing, Scan!FinishMeasurement,
                Scan!Arrive
  <2> QED BY <2>1, <2>2
<1>4. CASE Scan!Suspend \/ Scan!Resume
  <2>1. UNCHANGED << clock, travel, timer >>
    BY <1>4 DEF Scan!Suspend, Scan!Resume
  <2>2. \/ mapping' = clock - first /\ first' = first
        \/ mapping' = mapping /\ first' = clock - mapping
    BY <1>4 DEF Scan!Suspend, Scan!Resume, Scan!NewFirst
  <2>3. first' \in Nat /\ first' <= clock /\ mapping' \in Nat /\ mapping' <= clock
    BY <1>0, <2>2
  <2>4. stops' \in 0 .. MaxStops
    BY <1>4 DEF Scan!Suspend, Scan!Resume
  <2> QED BY <1>0, <2>1, <2>3, <2>4
<1>5. CASE UNCHANGED Scan!vars
  BY <1>5 DEF Scan!vars, Scan!scanner
<1> QED BY <1>1, <1>2, <1>3, <1>4, <1>5 DEF Scan!Next

\* So does each flag.
LEMMA FlagsStay == ScanFlags /\ [Scan!Next]_(Scan!vars) => ScanFlags'
<1> SUFFICES ASSUME ScanFlags, [Scan!Next]_(Scan!vars) PROVE ScanFlags' OBVIOUS
<1> USE DEF ScanFlags
<1>1. CASE Scan!Tick \/ Scan!MeasureItem \/ Scan!MeasureNothing
  BY <1>1 DEF Scan!Tick, Scan!MeasureItem, Scan!MeasureNothing
<1>2. CASE Scan!AddValue
  BY <1>2 DEF Scan!AddValue
<1>3. CASE Scan!MeasureBelt \/ Scan!Arrive
  BY <1>3 DEF Scan!MeasureBelt, Scan!Arrive
<1>4. CASE Scan!FinishMeasurement
  <2>1. tooLong' \in BOOLEAN
    BY <1>4 DEF Scan!FinishMeasurement
  <2> QED BY <1>4, <2>1 DEF Scan!FinishMeasurement
<1>5. CASE Scan!Suspend \/ Scan!Resume
  BY <1>5 DEF Scan!Suspend, Scan!Resume
<1>6. CASE UNCHANGED Scan!vars
  BY <1>6 DEF Scan!vars, Scan!scanner
<1> QED BY <1>1, <1>2, <1>3, <1>4, <1>5, <1>6 DEF Scan!Next

\* A pulse is there until it is handled.
LEMMA PulsesStay ==
    ScanPulses /\ ScanNumbers /\ ScanNumbers' /\ [Scan!Next]_(Scan!vars) => ScanPulses'
<1> SUFFICES ASSUME ScanPulses, ScanNumbers, ScanNumbers', [Scan!Next]_(Scan!vars)
             PROVE  ScanPulses'
  OBVIOUS
<1> USE DEF ScanPulses
<1>1. CASE Scan!Tick
  <2>1. clock' \in 0 .. MaxClock
    BY DEF ScanNumbers
  <2>2. waiting' = waiting \/ waiting' = Append(waiting, clock')
    BY <1>1 DEF Scan!Tick, Scan!Noticed
  <2>3. Append(waiting, clock') \in Seq(0 .. MaxClock) /\ Append(waiting, clock') # <<>>
    BY <2>1
  <2> QED BY <1>1, <2>2, <2>3 DEF Scan!Tick
<1>2. CASE Scan!MeasureItem
  BY <1>2 DEF Scan!MeasureItem
<1>3. CASE Scan!AddValue \/ Scan!MeasureBelt \/ Scan!MeasureNothing
  <2>1. waiting # <<>> /\ waiting' = Tail(waiting) /\ adding' = {}
    BY <1>3 DEF Scan!AddValue, Scan!MeasureBelt, Scan!MeasureNothing, Scan!Idle
  <2> QED BY <2>1
<1>4. CASE Scan!FinishMeasurement \/ Scan!Suspend \/ Scan!Resume \/ Scan!Arrive
           \/ UNCHANGED Scan!vars
  BY <1>4 DEF Scan!FinishMeasurement, Scan!Suspend, Scan!Resume, Scan!Arrive, Scan!vars,
              Scan!scanner
<1> QED BY <1>1, <1>2, <1>3, <1>4 DEF Scan!Next

\* There is one map at most that values are added to, and all are maps.
LEMMA MapsStay == ScanInv /\ [Scan!Next]_(Scan!vars) => ScanMaps'
<1> SUFFICES ASSUME ScanInv, [Scan!Next]_(Scan!vars) PROVE ScanMaps' OBVIOUS
<1> USE DEF ScanInv, ScanMaps
<1>1. CASE Scan!Tick \/ Scan!MeasureBelt \/ Scan!MeasureNothing \/ Scan!Resume
  BY <1>1 DEF Scan!Tick, Scan!MeasureBelt, Scan!MeasureNothing, Scan!Resume
<1>2. CASE Scan!MeasureItem
  <2>1. first' \in 0 .. MaxClock /\ first' <= clock /\ clock - first' \in 0 .. MaxClock
    BY <1>2, ScannerNumbers DEF Scan!MeasureItem, ScanNumbers
  <2>2. [time |-> clock - first', place |-> travel] \in Value
    BY <2>1, ScannerNumbers DEF Value, ScanNumbers
  <2>3. adding' = {[time |-> clock - first', place |-> travel]}
    BY <1>2 DEF Scan!MeasureItem
  <2>4. [values |-> <<>>, twice |-> FALSE] \in Scan!HeightMap
    BY DEF Scan!HeightMap
  <2>5. \E m \in current' : current' = {m} /\ m \in Scan!HeightMap
    <3>1. CASE current = {}
      BY <1>2, <2>4, <3>1 DEF Scan!MeasureItem
    <3>2. CASE current # {}
      BY <1>2, <3>2 DEF Scan!MeasureItem
    <3> QED BY <3>1, <3>2
  <2>6. \E v \in adding' : adding' = {v} /\ v \in Value
    <3> DEFINE v == [time |-> clock - first', place |-> travel]
    <3>1. v \in Value /\ adding' = {v}
      BY <2>2, <2>3
    <3> HIDE DEF v
    <3> QED BY <3>1
  <2>7. UNCHANGED << finished, passed >>
    BY <1>2 DEF Scan!MeasureItem
  <2> QED BY <2>5, <2>6, <2>7
<1>3. CASE Scan!AddValue
  <2>1. adding # {} /\ UNCHANGED << finished, passed >> /\ adding' = {}
    BY <1>3 DEF Scan!AddValue
  <2>2. PICK v \in adding : adding = {v} /\ v \in Value
    BY <2>1
  <2>3. (CHOOSE x \in adding : TRUE) = v
    BY <2>2
  <2>4. current' = { [m EXCEPT !.values = Append(@, v)] : m \in current }
    BY <1>3, <2>3 DEF Scan!AddValue
  <2>5. ASSUME NEW m \in current, current = {m}, m \in Scan!HeightMap
        PROVE  \E w \in current' : current' = {w} /\ w \in Scan!HeightMap
    <3> DEFINE w == [m EXCEPT !.values = Append(@, v)]
    <3>1. w \in Scan!HeightMap
      BY <2>2, <2>5, LongerMap
    <3>2. current' = {w}
      BY <2>4, <2>5
    <3> HIDE DEF w
    <3> QED BY <3>1, <3>2
  <2>6. current = {} => current' = {}
    BY <2>4
  <2> QED BY <2>1, <2>5, <2>6
<1>4. CASE Scan!FinishMeasurement
  <2>1. PICK m \in current : current = {m} /\ m \in Scan!HeightMap
    BY <1>4 DEF Scan!FinishMeasurement
  <2>2. UNCHANGED << adding, passed >>
    BY <1>4 DEF Scan!FinishMeasurement
  <2>3. \/ finished' = Append(finished, m) /\ current' = {}
        \/ UNCHANGED << finished, current >>
    BY <1>4, <2>1 DEF Scan!FinishMeasurement
  <2>4. finished' \in Seq(Scan!HeightMap)
    BY <2>1, <2>3, AppendTyped
  <2> QED BY <2>2, <2>3, <2>4
<1>5. CASE Scan!Suspend
  <2>1. UNCHANGED << finished, passed, adding >>
    BY <1>5 DEF Scan!Suspend
  <2>2. ASSUME NEW m \in current, current = {m}, m \in Scan!HeightMap
        PROVE  \E w \in current' : current' = {w} /\ w \in Scan!HeightMap
    <3> DEFINE w == [m EXCEPT !.twice = @ \/ suspended]
    <3>1. w \in Scan!HeightMap
      BY <2>2, FlaggedMap DEF ScanFlags
    <3>2. current' = {w}
      BY <1>5, <2>2 DEF Scan!Suspend
    <3> HIDE DEF w
    <3> QED BY <3>1, <3>2
  <2>3. current = {} => current' = {}
    BY <1>5 DEF Scan!Suspend
  <2> QED BY <2>1, <2>2, <2>3
<1>6. CASE Scan!Arrive
  <2>1. finished' \in Seq(Scan!HeightMap)
    BY <1>6 DEF Scan!Arrive
  <2>2. (IF finished = <<>> THEN {} ELSE {Head(finished)}) \in SUBSET Scan!HeightMap
    OBVIOUS
  <2>3. passed' \in Seq(SUBSET Scan!HeightMap) /\ Len(passed') = Len(passed) + 1
    BY <1>6, <2>2 DEF Scan!Arrive
  <2>4. Len(passed') <= Len(Places)
    BY <1>6, <2>3, ScannerNumbers DEF Scan!Arrive
  <2>5. UNCHANGED << current, adding >>
    BY <1>6 DEF Scan!Arrive
  <2> QED BY <2>1, <2>3, <2>4, <2>5
<1>7. CASE UNCHANGED Scan!vars
  BY <1>7 DEF Scan!vars, Scan!scanner
<1> QED BY <1>1, <1>2, <1>3, <1>4, <1>5, <1>6, <1>7 DEF Scan!Next

\* The scanner begins with no map.
LEMMA ScannerStarts == Scan!Init => ScanInv
<1> SUFFICES ASSUME Scan!Init PROVE ScanInv OBVIOUS
<1> USE DEF Scan!Init
<1>1. <<>> \in Seq(Scan!HeightMap) /\ <<>> \in Seq(SUBSET Scan!HeightMap)
      /\ <<>> \in Seq(0 .. MaxClock)
  OBVIOUS
<1>2. ScanNumbers
  <2>1. 0 \in 0 .. MaxClock /\ -1 \in -1 .. Delay /\ 0 \in 0 .. MaxStops
    BY ScannerNumbers
  <2> QED BY <2>1 DEF ScanNumbers
<1>3. Len(passed) <= Len(Places)
  BY ScannerNumbers
<1> QED BY <1>1, <1>2, <1>3 DEF ScanInv, ScanFlags, ScanPulses, ScanMaps

\* Every step of the scanner keeps its types.
LEMMA ScannerGoesOn == ScanInv /\ [Scan!Next]_(Scan!vars) => ScanInv'
BY NumbersStay, FlagsStay, PulsesStay, MapsStay DEF ScanInv

\* They are those of its type invariant.
LEMMA ScannerEnds == ScanInv => Scan!TypeOK
BY DEF ScanInv, ScanNumbers, ScanFlags, ScanPulses, ScanMaps, Scan!TypeOK

-----------------------------------------------------------------------------
(***************************************************************************)
(* Sorter, for every set of types it has a rule for and however many items *)
(* are on the line.                                                        *)
(***************************************************************************)
\* A set of positions that is not empty has a greatest one.
LEMMA Greatest ==
    ASSUME NEW n \in Nat, NEW S, S \subseteq 1 .. n, S # {}
    PROVE  \E i \in S : \A j \in S : j <= i
<1> DEFINE D == {n - j : j \in S}
<1>1. D \subseteq Nat /\ D # {}
  <2>1. \A j \in S : j \in 1 .. n
    OBVIOUS
  <2>2. \A j \in 1 .. n : n - j \in Nat
    OBVIOUS
  <2> QED BY <2>1, <2>2
<1> HIDE DEF D
<1>2. PICK d \in D : \A e \in D : d <= e
  BY <1>1, Least
<1>3. PICK i \in S : d = n - i
  BY DEF D
<1>4. ASSUME NEW j \in S PROVE j <= i
  <2>1. n - j \in D
    BY DEF D
  <2>2. n - i <= n - j /\ i \in 1 .. n /\ j \in 1 .. n
    BY <1>2, <1>3, <2>1
  <2> QED BY <2>2
<1> QED BY <1>4

\* The oldest item of a segment is one of it.
LEMMA OldestIsThere ==
    ASSUME line \in Seq(Sort!Item), NEW seg, Sort!At(seg) # {}
    PROVE  Sort!Oldest(seg) \in Sort!At(seg) /\ \A j \in Sort!At(seg) : j <= Sort!Oldest(seg)
<1>1. Sort!At(seg) \subseteq 1 .. Len(line) /\ Len(line) \in Nat
  BY DEF Sort!At
<1>2. \E i \in Sort!At(seg) : \A j \in Sort!At(seg) : j <= i
  BY <1>1, Greatest
<1> QED BY <1>2 DEF Sort!Oldest

\* Where an item may be, and what may be decided of it.
Stage == {"M1", "M1_SWITCH", "M1_END", "M2", "M2_SWITCH", "DONE"}
Decision == {"VOID", "KEEP", "TOSS_M", "TOSS_S", "TOSS"}

\* There is a rule for every type.
LEMMA DecideTyped ==
    ASSUME NEW t \in Type, NEW h
    PROVE  Sort!decide(t, h) \in {"KEEP", "TOSS_M", "TOSS_S", "TOSS"}
<1>1. Sort!decideSorted(t, h) \in {"KEEP", "TOSS_S"}
  BY DEF Sort!decideSorted
<1>2. t \in {"HOLLOW", "HOLLOW_METAL"} => Sort!contained(t)
  <2>1. 1 \in DOMAIN Sort!Cycle /\ Sort!Cycle[1] = "HOLLOW"
        /\ 3 \in DOMAIN Sort!Cycle /\ Sort!Cycle[3] = "HOLLOW_METAL"
    BY DEF Sort!Cycle
  <2> QED BY <2>1 DEF Sort!contained, Sort!Range
<1>3. t \in {"HOLLOW", "HOLLOW_METAL", "FLAT", "UPSIDEDOWN"}
           \cup {"CODED_000", "CODED_001", "CODED_010", "CODED_011",
                 "CODED_100", "CODED_101", "CODED_110", "CODED_111"}
  BY PartsAssumption DEF Sort!SorterAssumption
<1> HIDE DEF Sort!decideSorted, Sort!contained
<1> QED BY <1>1, <1>2, <1>3 DEF Sort!decide

\* What is decided of an item leaves it where it is.
LEMMA EvaluatedTyped ==
    ASSUME NEW x \in Sort!Item, NEW m \in Type \cup {"NULL"}, NEW h
    PROVE  LET y == Sort!Evaluated(Sort!Analysed(x, m), h)
           IN  y \in Sort!Item /\ y.at = x.at
<1>1. PICK a : a = Sort!Analysed(x, m)
  OBVIOUS
<1>2. a \in Sort!Item /\ a.at = x.at
  BY <1>1 DEF Sort!Analysed, Sort!Item
<1>3. PICK d : d = Sort!Decided(a, h)
  OBVIOUS
<1>4. d \in Decision
  <2>1. a.action \in Decision /\ a.plugin \in Type \cup {"NULL"}
    BY <1>2 DEF Sort!Item, Decision
  <2>2. a.plugin # "NULL" => Sort!decide(a.plugin, h) \in {"KEEP", "TOSS_M", "TOSS_S", "TOSS"}
    BY <2>1, DecideTyped
  <2> QED BY <1>3, <2>1, <2>2 DEF Sort!Decided, Decision
<1>5. PICK e : e = IF d = "TOSS" THEN Sort!Here(a) ELSE d
  OBVIOUS
<1>6. e \in Decision
  BY <1>4, <1>5 DEF Sort!Here, Decision
<1>7. \A b \in Decision, p \in BOOLEAN :
         [a EXCEPT !.action = b, !.pass = p] \in Sort!Item
         /\ [a EXCEPT !.action = b, !.pass = p].at = a.at
  BY <1>2 DEF Sort!Item, Decision
<1>8. \E b \in Decision, p \in BOOLEAN :
         Sort!Evaluated(a, h) = [a EXCEPT !.action = b, !.pass = p]
  <2>1. Sort!Evaluated(a, h) =
          CASE e = "KEEP" -> [a EXCEPT !.action = e, !.pass = TRUE]
            [] e = "TOSS_M" /\ "M" \in full -> [a EXCEPT !.action = "TOSS_S", !.pass = TRUE]
            [] e = "TOSS_S" /\ "S" \notin full /\ a.at = "M1_SWITCH"
                 -> [a EXCEPT !.action = e, !.pass = TRUE]
            [] OTHER -> [a EXCEPT !.action = e, !.pass = FALSE]
    BY <1>3, <1>5 DEF Sort!Evaluated
  <2>2. "TOSS_S" \in Decision /\ TRUE \in BOOLEAN /\ FALSE \in BOOLEAN
    BY DEF Decision
  <2> QED BY <1>6, <2>1, <2>2
<1> QED BY <1>1, <1>2, <1>7, <1>8

\* The positions of a line whose items are not done.
Working(s) == {i \in 1 .. Len(s) : s[i].at # "DONE"}

\* There are no more of them if each is one of the positions before.
LEMMA NoMoreWorking ==
    ASSUME NEW S, NEW T, IsFiniteSet(T), NEW f \in [S -> T],
           \A i, j \in S : f[i] = f[j] => i = j
    PROVE  IsFiniteSet(S) /\ Cardinality(S) <= Cardinality(T)
BY FS_Injection DEF Injection, IsInjective

\* The positions of a line are finitely many.
LEMMA WorkingFinite ==
    ASSUME NEW s \in Seq(Sort!Item)
    PROVE  IsFiniteSet(Working(s)) /\ Cardinality(Working(s)) \in Nat
<1>1. IsFiniteSet(1 .. Len(s))
  BY FS_Interval
<1>2. Working(s) \in SUBSET (1 .. Len(s))
  BY DEF Working
<1> QED BY <1>1, <1>2, FS_Subset, FS_CardinalityType

\* An item that moves on, or is decided of, is on the line before.
LEMMA MovesOn ==
    ASSUME NEW s \in Seq(Sort!Item), NEW i \in Working(s), NEW x \in Sort!Item
    PROVE  LET w == [s EXCEPT ![i] = x]
           IN  /\ w \in Seq(Sort!Item) /\ Len(w) = Len(s)
               /\ Cardinality(Working(w)) <= Cardinality(Working(s))
<1> DEFINE w == [s EXCEPT ![i] = x]
<1>1. i \in 1 .. Len(s)
  BY DEF Working
<1>2. w \in Seq(Sort!Item) /\ Len(w) = Len(s) /\ \A j \in 1 .. Len(s) : j # i => w[j] = s[j]
  BY <1>1
<1>3. Working(w) \in SUBSET Working(s)
  BY <1>2 DEF Working
<1> QED BY <1>2, <1>3, WorkingFinite, FS_Subset

\* The oldest item is forgotten.
LEMMA FrontLeaves ==
    ASSUME NEW s \in Seq(Sort!Item), s # <<>>
    PROVE  /\ Sort!Front(s) \in Seq(Sort!Item)
           /\ Cardinality(Working(Sort!Front(s))) <= Cardinality(Working(s))
<1>1. Len(s) \in Nat /\ Len(s) > 0
  OBVIOUS
<1>2. /\ Sort!Front(s) \in Seq(Sort!Item) /\ Len(Sort!Front(s)) = Len(s) - 1
      /\ \A j \in 1 .. (Len(s) - 1) : Sort!Front(s)[j] = s[j]
  <2>1. Sort!Front(s) = SubSeq(s, 1, Len(s) - 1)
    BY DEF Sort!Front
  <2> DEFINE t == SubSeq(s, 1, Len(s) - 1)
  <2>2. t \in Seq(Sort!Item) /\ Len(t) = Len(s) - 1
    <3>1. PICK n \in Nat : n = Len(s) - 1
      BY <1>1
    <3>2. n <= Len(s) /\ \A j \in 1 .. n : s[j] \in Sort!Item
      BY <1>1, <3>1
    <3>3. SubSeq(s, 1, n) \in Seq(Sort!Item) /\ Len(SubSeq(s, 1, n)) = n
      BY <1>1, <3>2
    <3> QED BY <3>1, <3>3
  <2>3. \A j \in 1 .. (Len(s) - 1) : t[j] = s[j]
    BY <1>1
  <2> QED BY <2>1, <2>2, <2>3
<1>3. Working(Sort!Front(s)) \in SUBSET Working(s)
  BY <1>1, <1>2 DEF Working
<1> QED BY <1>2, <1>3, WorkingFinite, FS_Subset

\* A line without its i-th item.
LEMMA Removed ==
    ASSUME NEW s \in Seq(Sort!Item), NEW i \in 1 .. Len(s)
    PROVE  LET w == Sort!RemoveAt(s, i)
           IN  /\ w \in Seq(Sort!Item) /\ Len(w) = Len(s) - 1
               /\ \A j \in 1 .. Len(w) : w[j] = IF j < i THEN s[j] ELSE s[j + 1]
<1> DEFINE a == SubSeq(s, 1, i - 1)
           b == SubSeq(s, i + 1, Len(s))
           w == Sort!RemoveAt(s, i)
<1>1. i \in 1 .. Len(s) /\ Len(s) \in Nat
  OBVIOUS
<1>2. /\ a \in Seq(Sort!Item) /\ Len(a) = i - 1 /\ \A j \in 1 .. (i - 1) : a[j] = s[j]
  BY <1>1
<1>3. /\ b \in Seq(Sort!Item) /\ Len(b) = Len(s) - i
      /\ \A j \in 1 .. (Len(s) - i) : b[j] = s[i + j]
  BY <1>1
<1>4. w = a \o b
  BY DEF Sort!RemoveAt
<1> HIDE DEF a, b, w
<1>5. /\ w \in Seq(Sort!Item) /\ Len(w) = Len(s) - 1
      /\ \A j \in 1 .. Len(w) : w[j] = IF j < i THEN s[j] ELSE s[j + 1]
  <2>1. w \in Seq(Sort!Item) /\ Len(w) = Len(a) + Len(b)
    <3>1. a \in Seq(Sort!Item) /\ b \in Seq(Sort!Item)
      BY <1>2, <1>3
    <3>2. a \o b \in Seq(Sort!Item) /\ Len(a \o b) = Len(a) + Len(b)
      BY <3>1
    <3> QED BY <1>4, <3>2
  <2>2. ASSUME NEW j \in 1 .. Len(w) PROVE w[j] = IF j < i THEN s[j] ELSE s[j + 1]
    <3>1. w[j] = IF j <= Len(a) THEN a[j] ELSE b[j - Len(a)]
      BY <1>2, <1>3, <1>4, <2>1
    <3>2. CASE j < i
      BY <1>1, <1>2, <2>1, <3>1, <3>2
    <3>3. CASE ~(j < i)
      <4>1. ~(j <= Len(a)) /\ j - Len(a) \in 1 .. (Len(s) - i) /\ i + (j - Len(a)) = j + 1
        BY <1>1, <1>2, <1>3, <2>1, <3>3
      <4> QED BY <1>3, <3>1, <3>3, <4>1
    <3> QED BY <3>2, <3>3
  <2>3. Len(w) = Len(s) - 1
    BY <1>1, <1>2, <1>3, <2>1
  <2> QED BY <2>1, <2>2, <2>3
<1> QED BY <1>5 DEF w

\* An item goes down a ramp, or is lost.
LEMMA OneLeaves ==
    ASSUME NEW s \in Seq(Sort!Item), NEW i \in Working(s)
    PROVE  /\ Sort!RemoveAt(s, i) \in Seq(Sort!Item)
           /\ Cardinality(Working(Sort!RemoveAt(s, i))) <= Cardinality(Working(s))
<1> DEFINE w == Sort!RemoveAt(s, i)
<1>1. i \in 1 .. Len(s) /\ Len(s) \in Nat
  BY DEF Working
<1>5. /\ w \in Seq(Sort!Item) /\ Len(w) = Len(s) - 1
      /\ \A j \in 1 .. Len(w) : w[j] = IF j < i THEN s[j] ELSE s[j + 1]
  BY <1>1, Removed
<1> HIDE DEF w
<1> DEFINE f == [j \in Working(w) |-> IF j < i THEN j ELSE j + 1]
<1>6. f \in [Working(w) -> Working(s)]
  <2> SUFFICES ASSUME NEW j \in Working(w)
               PROVE  (IF j < i THEN j ELSE j + 1) \in Working(s)
    OBVIOUS
  <2>1. j \in 1 .. Len(w) /\ w[j].at # "DONE"
    BY DEF Working
  <2>2. CASE j < i
    BY <1>1, <1>5, <2>1, <2>2 DEF Working
  <2>3. CASE ~(j < i)
    <3>1. j + 1 \in 1 .. Len(s) /\ w[j] = s[j + 1]
      BY <1>1, <1>5, <2>1, <2>3
    <3> QED BY <2>1, <2>3, <3>1 DEF Working
  <2> QED BY <2>2, <2>3
<1>7. \A j, k \in Working(w) : f[j] = f[k] => j = k
  <2>1. \A j \in Working(w) : j \in Nat
    BY DEF Working
  <2> QED BY <1>1, <2>1
<1> HIDE DEF f
<1>8. Cardinality(Working(w)) <= Cardinality(Working(s))
  BY <1>6, <1>7, WorkingFinite, NoMoreWorking
<1> QED BY <1>5, <1>8 DEF w

\* One more item comes.
LEMMA OneArrives ==
    ASSUME NEW s \in Seq(Sort!Item), NEW x \in Sort!Item
    PROVE  /\ << x >> \o s \in Seq(Sort!Item)
           /\ Cardinality(Working(<< x >> \o s)) <= Cardinality(Working(s)) + 1
<1>1. PICK w : w = << x >> \o s
  OBVIOUS
<1>2. /\ w \in Seq(Sort!Item) /\ Len(w) = Len(s) + 1 /\ Len(s) \in Nat
      /\ \A j \in 2 .. Len(w) : w[j] = s[j - 1]
  BY <1>1
<1> DEFINE S == Working(w) \ {1}
           f == [j \in S |-> j - 1]
<1>3. f \in [S -> Working(s)]
  <2> SUFFICES ASSUME NEW j \in S PROVE j - 1 \in Working(s) OBVIOUS
  <2>1. j \in 2 .. Len(w) /\ w[j].at # "DONE"
    BY <1>2 DEF Working
  <2>2. j - 1 \in 1 .. Len(s) /\ w[j] = s[j - 1]
    BY <1>2, <2>1
  <2> QED BY <2>1, <2>2 DEF Working
<1>4. \A j, k \in S : f[j] = f[k] => j = k
  <2>1. \A j \in S : j \in Nat
    BY DEF Working
  <2> QED BY <2>1
<1> HIDE DEF f
<1>5. Cardinality(S) <= Cardinality(Working(s))
  BY <1>3, <1>4, WorkingFinite, NoMoreWorking
<1>6. IsFiniteSet(Working(w)) /\ Cardinality(Working(w)) \in Nat /\ Cardinality(Working(s)) \in Nat
  BY <1>2, WorkingFinite
<1>7. Cardinality(S) = IF 1 \in Working(w) THEN Cardinality(Working(w)) - 1
                                           ELSE Cardinality(Working(w))
  BY <1>6, FS_RemoveElement
<1> HIDE DEF S
<1>8. Cardinality(Working(w)) <= Cardinality(Working(s)) + 1
  BY <1>5, <1>6, <1>7
<1> QED BY <1>1, <1>2, <1>8

\* The instance of the sorter counts as is counted here.
LEMMA SameSize == \A S : Sort!Cardinality(S) = Cardinality(S)
BY DEF Sort!Cardinality, Cardinality

\* The type invariant of the sorter in these terms.
LEMMA SorterTypes ==
    Sort!TypeOK <=> /\ line \in Seq(Sort!Item) /\ Cardinality(Working(line)) <= MaxLine
                    /\ full \subseteq {"M", "S"}
<1>1. Sort!OnLine = Working(line)
  BY DEF Sort!OnLine, Working
<1> QED BY <1>1, SameSize DEF Sort!TypeOK

\* The same after a step.
LEMMA SorterTypesNext ==
    Sort!TypeOK' <=> /\ line' \in Seq(Sort!Item) /\ Cardinality(Working(line')) <= MaxLine
                     /\ full' \subseteq {"M", "S"}
<1>1. Sort!OnLine' = Working(line')
  BY DEF Sort!OnLine, Working
<1> QED BY <1>1, SameSize DEF Sort!TypeOK

\* The line keeps its types and has no more items than it may.
LEMMA SorterTyped == Sort!TypeOK /\ [Sort!Next]_(Sort!vars) => Sort!TypeOK'
<1> SUFFICES ASSUME Sort!TypeOK, [Sort!Next]_(Sort!vars) PROVE Sort!TypeOK'
  OBVIOUS
<1>0. Sort!OnLine = Working(line)
  BY DEF Sort!OnLine, Working
<1>1. line \in Seq(Sort!Item) /\ Cardinality(Working(line)) <= MaxLine /\ full \subseteq {"M", "S"}
  BY SorterTypes
<1>2. Cardinality(Working(line)) \in Nat /\ MaxLine \in Nat
  BY <1>1, WorkingFinite, PartsAssumption DEF Sort!SorterAssumption
<1>3. ASSUME line' \in Seq(Sort!Item), Cardinality(Working(line')) <= Cardinality(Working(line)),
             UNCHANGED full
      PROVE  Sort!TypeOK'
  <2>1. Cardinality(Working(line')) \in Nat
    BY <1>3, WorkingFinite
  <2> QED BY <1>1, <1>2, <1>3, <2>1, SorterTypesNext
<1>4. CASE Sort!Arrive
  <2> DEFINE x == [at |-> "M1", plugin |-> "NULL", action |-> "VOID", pass |-> FALSE]
  <2>1. x \in Sort!Item
    BY DEF Sort!Item
  <2>2. line' = << x >> \o line /\ Cardinality(Working(line)) < MaxLine /\ full' = full
    BY <1>0, <1>4, SameSize DEF Sort!Arrive
  <2> HIDE DEF x
  <2>3. line' \in Seq(Sort!Item) /\ Cardinality(Working(line')) <= Cardinality(Working(line)) + 1
    BY <1>1, <2>1, <2>2, OneArrives
  <2>4. Cardinality(Working(line')) \in Nat
    BY <2>3, WorkingFinite
  <2> QED BY <1>1, <1>2, <2>2, <2>3, <2>4, SorterTypesNext
<1>5. ASSUME NEW seg \in Stage, seg # "DONE", Sort!At(seg) # {}
      PROVE  /\ Sort!Oldest(seg) \in Working(line) /\ line[Sort!Oldest(seg)].at = seg
             /\ line[Sort!Oldest(seg)] \in Sort!Item
  <2>1. Sort!Oldest(seg) \in Sort!At(seg)
    BY <1>1, <1>5, OldestIsThere
  <2>2. Sort!Oldest(seg) \in 1 .. Len(line) /\ line[Sort!Oldest(seg)].at = seg
    BY <2>1 DEF Sort!At
  <2> QED BY <1>1, <1>5, <2>2 DEF Working
<1>6. \A x \in Sort!Item, seg \in Stage : [x EXCEPT !.at = seg] \in Sort!Item
  BY DEF Sort!Item, Stage
<1>7. ASSUME NEW from \in Stage, NEW switch \in Stage, from # "DONE", Sort!Analyse(from, switch)
      PROVE  Sort!TypeOK'
  <2> DEFINE i == Sort!Oldest(from)
             x == [line[i] EXCEPT !.at = switch]
  <2>1. Sort!At(from) # {} /\ full' = full
    BY <1>7 DEF Sort!Analyse
  <2>2. i \in Working(line) /\ line[i] \in Sort!Item
    BY <1>5, <1>7, <2>1
  <2>3. x \in Sort!Item
    BY <1>6, <2>2
  <2>4. PICK m \in Type \cup {"NULL"} :
              line' = [line EXCEPT ![i] = Sort!Evaluated(Sort!Analysed(x, m), Sort!history(i))]
    BY <1>7 DEF Sort!Analyse
  <2> HIDE DEF i, x
  <2>5. PICK y : y = Sort!Evaluated(Sort!Analysed(x, m), Sort!history(i))
    OBVIOUS
  <2>6. y \in Sort!Item
    BY <2>3, <2>5, EvaluatedTyped
  <2>7. line' = [line EXCEPT ![i] = y]
    BY <2>4, <2>5
  <2> QED BY <1>1, <1>3, <2>1, <2>2, <2>6, <2>7, MovesOn
<1>8. ASSUME NEW switch \in Stage, NEW to \in Stage, switch # "DONE", Sort!PassSwitch(switch, to)
      PROVE  Sort!TypeOK'
  <2> DEFINE i == Sort!Oldest(switch)
             x == [line[i] EXCEPT !.at = to]
             s == [line EXCEPT ![i].at = to]
  <2>1. Sort!At(switch) # {} /\ full' = full /\ line' = Sort!Trimmed(s)
    BY <1>8 DEF Sort!PassSwitch
  <2>2. i \in Working(line) /\ line[i] \in Sort!Item
    BY <1>5, <1>8, <2>1
  <2>3. x \in Sort!Item /\ s = [line EXCEPT ![i] = x]
    BY <1>6, <2>2
  <2> HIDE DEF i, x, s
  <2>4. s \in Seq(Sort!Item) /\ Cardinality(Working(s)) <= Cardinality(Working(line))
        /\ Len(s) = Len(line)
    BY <1>1, <2>2, <2>3, MovesOn
  <2>5. s # <<>>
    BY <1>1, <2>2, <2>4 DEF Working
  <2>6. line' = s \/ line' = Sort!Front(s)
    BY <2>1 DEF Sort!Trimmed
  <2>7. line' \in Seq(Sort!Item) /\ Cardinality(Working(line')) <= Cardinality(Working(s))
    <3>1. Cardinality(Working(s)) \in Nat
      BY <2>4, WorkingFinite
    <3> QED BY <2>4, <2>5, <2>6, <3>1, FrontLeaves
  <2>8. Cardinality(Working(s)) \in Nat /\ Cardinality(Working(line')) \in Nat
    BY <2>4, <2>7, WorkingFinite
  <2>9. Cardinality(Working(line')) <= Cardinality(Working(line))
    BY <1>2, <2>4, <2>7, <2>8
  <2> QED BY <1>3, <2>1, <2>7, <2>9
<1>9. CASE Sort!HandOver
  <2>0. PICK i : i = Sort!Oldest("M1_END")
    OBVIOUS
  <2> DEFINE x == [line[i] EXCEPT !.at = "M2"]
  <2>1. Sort!At("M1_END") # {} /\ full' = full /\ line' = [line EXCEPT ![i].at = "M2"]
    BY <1>9, <2>0 DEF Sort!HandOver
  <2>2. "M1_END" \in Stage /\ "M2" \in Stage /\ "M1_END" # "DONE"
    BY DEF Stage
  <2>3. i \in Working(line) /\ line[i] \in Sort!Item
    BY <1>5, <2>0, <2>1, <2>2
  <2>4. x \in Sort!Item /\ line' = [line EXCEPT ![i] = x]
    BY <1>6, <2>1, <2>2, <2>3
  <2> HIDE DEF x
  <2>5. line' \in Seq(Sort!Item) /\ Cardinality(Working(line')) <= Cardinality(Working(line))
    BY <1>1, <2>3, <2>4, MovesOn
  <2> QED BY <1>3, <2>1, <2>5
<1>10. CASE Sort!Leave
  <2>1. PICK i \in Sort!OnLine : line' = Sort!RemoveAt(line, i)
    BY <1>10 DEF Sort!Leave
  <2>2. full' = full
    BY <1>10 DEF Sort!Leave
  <2> QED BY <1>0, <1>1, <1>3, <2>1, <2>2, OneLeaves
<1>11. CASE Sort!RampChanges
  <2>1. line' = line /\ full' \subseteq {"M", "S"}
    BY <1>11 DEF Sort!RampChanges
  <2> QED BY <1>1, <2>1, SorterTypesNext
<1>12. CASE UNCHANGED Sort!vars
  <2>1. line' = line /\ full' = full
    BY <1>12 DEF Sort!vars
  <2> QED BY <1>1, <2>1, SorterTypesNext
<1>13. /\ "M1" \in Stage /\ "M1_SWITCH" \in Stage /\ "M2" \in Stage /\ "M2_SWITCH" \in Stage
       /\ "M1_END" \in Stage /\ "DONE" \in Stage
  BY DEF Stage
<1> QED BY <1>4, <1>7, <1>8, <1>9, <1>10, <1>11, <1>12, <1>13 DEF Sort!Next

\* The line begins empty.
LEMMA SorterStarts == Sort!Init => Sort!TypeOK
<1> SUFFICES ASSUME Sort!Init PROVE Sort!TypeOK OBVIOUS
<1>1. line = <<>> /\ full = {}
  BY DEF Sort!Init
<1>2. Working(line) = {}
  BY <1>1 DEF Working
<1>3. MaxLine \in Nat
  BY PartsAssumption DEF Sort!SorterAssumption
<1> QED BY <1>1, <1>2, <1>3, FS_EmptySet, SorterTypes

-----------------------------------------------------------------------------
(***************************************************************************)
(* The cycle of the hollow items.  A history is a set of numbers; what is  *)
(* said of the items is said of any function f of them.                    *)
(***************************************************************************)
Turn(n) == IF n % 3 = 2 THEN "HOLLOW_METAL" ELSE "HOLLOW"

\* After three turns the cycle is where it was.
LEMMA ThreeTurns == \A n \in Nat : (n + 3) % 3 = n % 3
OBVIOUS

\* Three turns in a row tell where in the cycle they are.
LEMMA SamePhase ==
    \A m, n \in Nat : /\ Turn(m) = Turn(n)
                      /\ Turn(m + 1) = Turn(n + 1)
                      /\ Turn(m + 2) = Turn(n + 2)
                      => m % 3 = n % 3
BY DEF Turn

\* From the same point of the cycle it goes on in the same way.
LEMMA SameTurns == \A m, n, k \in Nat : m % 3 = n % 3 => Turn(m + k) = Turn(n + k)
BY DEF Turn

\* Each point of the cycle is one of the first three.
LEMMA PhaseFor == \A n \in Nat : \E i \in 1 .. 3 : i % 3 = n % 3
OBVIOUS

Newer(h, j) == Cardinality({k \in h : k <= j})
Older(h, j) == Cardinality({k \in h : k >= j})

\* Of a history, an item and those before and after it are the whole.
LEMMA NewerAndOlder ==
    ASSUME NEW h \in SUBSET Nat, IsFiniteSet(h), NEW j \in h
    PROVE  /\ Newer(h, j) \in 1 .. Cardinality(h) /\ Older(h, j) \in 1 .. Cardinality(h)
           /\ Newer(h, j) + Older(h, j) = Cardinality(h) + 1
<1> DEFINE S == {k \in h : k <= j}
           T == {k \in h : k >= j}
<1>1. S \cup T = h /\ S \cap T = {j} /\ S \in SUBSET h /\ T \in SUBSET h
  <2>1. \A k \in h : k \in Nat /\ j \in Nat /\ (k <= j \/ k >= j) /\ (k <= j /\ k >= j => k = j)
    OBVIOUS
  <2>2. j \in S /\ j \in T
    BY <2>1
  <2>3. S \cap T = {j}
    BY <2>1, <2>2
  <2> QED BY <2>1, <2>3
<1>2. IsFiniteSet(S) /\ IsFiniteSet(T)
  BY <1>1, FS_Subset
<1> HIDE DEF S, T
<1>3. Cardinality(S) + Cardinality(T) = Cardinality(h) + 1
  <2>1. Cardinality(h) = Cardinality(S) + Cardinality(T) - Cardinality({j})
    BY <1>1, <1>2, FS_Union
  <2>2. Cardinality(S) \in Nat /\ Cardinality(T) \in Nat /\ Cardinality({j}) = 1
    BY <1>2, FS_CardinalityType, FS_Singleton
  <2> QED BY <2>1, <2>2
<1>4. Cardinality(S) \in Nat /\ Cardinality(T) \in Nat /\ Cardinality(h) \in Nat
      /\ Cardinality(S) <= Cardinality(h) /\ Cardinality(T) <= Cardinality(h)
  BY <1>1, <1>2, FS_CardinalityType, FS_Subset
<1> QED BY <1>3, <1>4 DEF Newer, Older, S, T

\* The last three items of a history.
LEMMA LastThree ==
    ASSUME NEW h \in SUBSET Nat, IsFiniteSet(h), Cardinality(h) >= 3
    PROVE  \E a, b, c \in h : Newer(h, a) = 1 /\ Newer(h, b) = 2 /\ Newer(h, c) = 3
<1>0. Cardinality(h) \in Nat
  BY FS_CardinalityType
<1>1. PICK a \in h : \A k \in h : a <= k
  <2>1. h # {}
    BY FS_EmptySet
  <2> QED BY <2>1, Least
<1>2. IsFiniteSet(h \ {a}) /\ Cardinality(h \ {a}) = Cardinality(h) - 1
  BY FS_RemoveElement
<1>3. PICK b \in h \ {a} : \A k \in h \ {a} : b <= k
  <2>1. h \ {a} # {}
    BY <1>0, <1>2, FS_EmptySet
  <2> QED BY <2>1, Least
<1>4. IsFiniteSet((h \ {a}) \ {b}) /\ Cardinality((h \ {a}) \ {b}) = Cardinality(h) - 2
  <2>1. /\ IsFiniteSet((h \ {a}) \ {b})
        /\ Cardinality((h \ {a}) \ {b}) = Cardinality(h \ {a}) - 1
    BY <1>2, FS_RemoveElement
  <2> QED BY <1>0, <1>2, <2>1
<1>5. PICK c \in (h \ {a}) \ {b} : \A k \in (h \ {a}) \ {b} : c <= k
  <2>1. (h \ {a}) \ {b} # {}
    BY <1>0, <1>4, FS_EmptySet
  <2> QED BY <2>1, Least
<1>6. /\ {k \in h : k <= a} = {a} /\ {k \in h : k <= b} = {a, b}
      /\ {k \in h : k <= c} = {a, b, c} /\ a # b /\ a # c /\ b # c
  <2>1. a \in Nat /\ b \in Nat /\ c \in Nat /\ a # b /\ a # c /\ b # c
    OBVIOUS
  <2>2. a <= b /\ a <= c /\ b <= c
    BY <1>1, <1>3, <1>5
  <2>3. \A k \in h : k \in Nat /\ (k # a => b <= k) /\ (k # a /\ k # b => c <= k) /\ a <= k
    BY <1>1, <1>3, <1>5
  <2>4. {k \in h : k <= a} = {a}
    <3>1. \A k \in h : k <= a => k \in {a}
      BY <2>1, <2>2, <2>3
    <3>2. \A k \in {a} : k \in h /\ k <= a
      BY <2>1, <2>2
    <3> QED BY <3>1, <3>2
  <2>5. {k \in h : k <= b} = {a, b}
    <3>1. \A k \in h : k <= b => k \in {a, b}
      BY <2>1, <2>2, <2>3
    <3>2. \A k \in {a, b} : k \in h /\ k <= b
      BY <2>1, <2>2
    <3> QED BY <3>1, <3>2
  <2>6. {k \in h : k <= c} = {a, b, c}
    <3>1. \A k \in h : k <= c => k \in {a, b, c}
      BY <2>1, <2>2, <2>3
    <3>2. \A k \in {a, b, c} : k \in h /\ k <= c
      BY <2>1, <2>2
    <3> QED BY <3>1, <3>2
  <2> QED BY <2>1, <2>4, <2>5, <2>6
<1>7. Cardinality({a}) = 1 /\ IsFiniteSet({a})
  BY FS_Singleton
<1>8. Cardinality({a, b}) = 2 /\ IsFiniteSet({a, b})
  <2>1. {a, b} = {a} \cup {b}
    OBVIOUS
  <2>2. b \notin {a}
    BY <1>6
  <2>3. /\ IsFiniteSet({a} \cup {b})
        /\ Cardinality({a} \cup {b}) = IF b \in {a} THEN Cardinality({a}) ELSE Cardinality({a}) + 1
    BY <1>7, FS_AddElement
  <2> QED BY <1>7, <2>1, <2>2, <2>3
<1>9. Cardinality({a, b, c}) = 3
  <2>1. {a, b, c} = {a, b} \cup {c} /\ c \notin {a, b}
    BY <1>6
  <2> QED BY <1>8, <2>1, FS_AddElement
<1> QED BY <1>6, <1>7, <1>8, <1>9 DEF Newer

\* A history that is moved along counts as before.
LEMMA MovedSize ==
    ASSUME NEW S \in SUBSET Nat, IsFiniteSet(S), NEW d \in Nat
    PROVE  IsFiniteSet({j + d : j \in S}) /\ Cardinality({j + d : j \in S}) = Cardinality(S)
<1> DEFINE T == {j + d : j \in S}
           f == [j \in S |-> j + d]
<1>1. f \in Bijection(S, T)
  <2>1. \A i, j \in S : i + d = j + d => i = j
    OBVIOUS
  <2> QED BY <2>1 DEF Bijection, Injection, Surjection, IsInjective
<1> QED BY <1>1, FS_Bijection DEF ExistsBijection

\* So does each of its items.
LEMMA MovedRanks ==
    ASSUME NEW h \in SUBSET Nat, IsFiniteSet(h), NEW d \in Nat, NEW j \in h
    PROVE  LET g == {k + d : k \in h}
           IN  Newer(g, j + d) = Newer(h, j) /\ Older(g, j + d) = Older(h, j)
<1> DEFINE g == {k + d : k \in h}
           S == {k \in h : k <= j}
           T == {k \in h : k >= j}
<1>1. S \in SUBSET h /\ T \in SUBSET h /\ S \in SUBSET Nat /\ T \in SUBSET Nat
  OBVIOUS
<1>2. IsFiniteSet(S) /\ IsFiniteSet(T)
  BY <1>1, FS_Subset
<1>3. {k \in g : k <= j + d} = {k + d : k \in S}
  OBVIOUS
<1>4. {k \in g : k >= j + d} = {k + d : k \in T}
  OBVIOUS
<1> HIDE DEF g, S, T
<1>5. Cardinality({k + d : k \in S}) = Cardinality(S) /\ Cardinality({k + d : k \in T}) = Cardinality(T)
  BY <1>1, <1>2, MovedSize
<1> QED BY <1>3, <1>4, <1>5 DEF Newer, Older, g, S, T

LastFew(h) == IF Cardinality(h) < 3 THEN Cardinality(h) ELSE 3

\* All of a history follows the cycle, from its p-th place on.
Turning(p, h, f) == \A j \in h : f[j] = Turn(p + Older(h, j))

\* The last three of a history follow the cycle, from its i-th place on.
Agrees(i, h, f) ==
    \A j \in h : Newer(h, j) <= 3 => f[j] = Turn(i + LastFew(h) + 1 - Newer(h, j))

\* A history that follows the cycle is found to do so by its last three.
LEMMA HistoryFits ==
    ASSUME NEW h \in SUBSET Nat, IsFiniteSet(h), NEW f, NEW p \in 1 .. 3, Turning(p, h, f)
    PROVE  \E i \in 1 .. 3 : Agrees(i, h, f)
<1>1. Cardinality(h) \in Nat
  BY FS_CardinalityType
<1>2. \A j \in h : /\ f[j] = Turn(p + Older(h, j)) /\ Newer(h, j) \in 1 .. Cardinality(h)
                   /\ Older(h, j) = Cardinality(h) + 1 - Newer(h, j)
  <2>1. TAKE j \in h
  <2>2. /\ Newer(h, j) \in 1 .. Cardinality(h) /\ Older(h, j) \in 1 .. Cardinality(h)
        /\ Newer(h, j) + Older(h, j) = Cardinality(h) + 1
    BY NewerAndOlder
  <2> QED BY <1>1, <2>2 DEF Turning
<1>3. CASE Cardinality(h) < 3
  <2>1. Agrees(p, h, f)
    BY <1>1, <1>2, <1>3 DEF Agrees, LastFew
  <2> QED BY <2>1
<1>4. CASE Cardinality(h) >= 3
  <2>1. PICK i \in 1 .. 3 : i % 3 = (p + Cardinality(h)) % 3
    BY <1>1, PhaseFor
  <2>2. LastFew(h) = 3
    BY <1>1, <1>4 DEF LastFew
  <2>3. ASSUME NEW j \in h, Newer(h, j) <= 3
        PROVE  f[j] = Turn(i + 3 + 1 - Newer(h, j))
    <3>1. PICK k \in Nat : k = 3 - Newer(h, j)
      BY <1>2, <2>3
    <3>2. /\ f[j] = Turn(p + Older(h, j)) /\ Newer(h, j) \in 1 .. 3
          /\ Older(h, j) = Cardinality(h) + 1 - Newer(h, j)
      BY <1>1, <1>2, <2>3
    <3>3. i + 3 + 1 - Newer(h, j) = i + (k + 1)
      BY <3>1, <3>2
    <3>4. (p + Older(h, j)) + 3 = (p + Cardinality(h)) + (k + 1) /\ p + Older(h, j) \in Nat
      BY <1>1, <1>2, <3>1, <3>2
    <3>5. Turn(i + (k + 1)) = Turn((p + Cardinality(h)) + (k + 1))
      <4>1. i \in Nat /\ p + Cardinality(h) \in Nat /\ k + 1 \in Nat
        BY <1>1
      <4> QED BY <2>1, <4>1, SameTurns
    <3>6. Turn(p + Older(h, j)) = Turn((p + Older(h, j)) + 3)
      BY <3>4, ThreeTurns DEF Turn
    <3> QED BY <3>2, <3>3, <3>4, <3>5, <3>6
  <2> QED BY <2>2, <2>3 DEF Agrees
<1> QED BY <1>1, <1>3, <1>4

\* What may come after the last three may come after the whole.
LEMMA NextFits ==
    ASSUME NEW h \in SUBSET Nat, IsFiniteSet(h), NEW f, NEW p \in 1 .. 3, Turning(p, h, f),
           NEW i \in 1 .. 3, Agrees(i, h, f)
    PROVE  \E q \in 1 .. 3 : /\ Turning(q, h, f)
                             /\ Turn(i + LastFew(h) + 1) = Turn(q + (Cardinality(h) + 1))
<1>1. Cardinality(h) \in Nat
  BY FS_CardinalityType
<1>2. ASSUME NEW j \in h
      PROVE  /\ Newer(h, j) \in 1 .. Cardinality(h)
             /\ Older(h, j) = Cardinality(h) + 1 - Newer(h, j)
             /\ f[j] = Turn(p + Older(h, j))
             /\ Newer(h, j) <= 3 => f[j] = Turn(i + LastFew(h) + 1 - Newer(h, j))
  <2>2. /\ Newer(h, j) \in 1 .. Cardinality(h) /\ Older(h, j) \in 1 .. Cardinality(h)
        /\ Newer(h, j) + Older(h, j) = Cardinality(h) + 1
    BY NewerAndOlder
  <2>3. /\ f[j] = Turn(p + Older(h, j))
        /\ Newer(h, j) <= 3 => f[j] = Turn(i + LastFew(h) + 1 - Newer(h, j))
    BY DEF Turning, Agrees
  <2> QED BY <1>1, <2>2, <2>3
<1>3. CASE Cardinality(h) < 3
  <2>1. LastFew(h) = Cardinality(h)
    BY <1>3 DEF LastFew
  <2>2. ASSUME NEW j \in h PROVE f[j] = Turn(i + Older(h, j))
    <3>1. Newer(h, j) <= 3 /\ i + LastFew(h) + 1 - Newer(h, j) = i + Older(h, j)
      BY <1>1, <1>2, <1>3, <2>1
    <3> QED BY <1>2, <3>1
  <2>3. i + LastFew(h) + 1 = i + (Cardinality(h) + 1)
    BY <1>1, <2>1
  <2> QED BY <2>2, <2>3 DEF Turning
<1>4. CASE Cardinality(h) >= 3
  <2>1. PICK a, b, c \in h : Newer(h, a) = 1 /\ Newer(h, b) = 2 /\ Newer(h, c) = 3
    BY <1>1, <1>4, LastThree
  <2>2. LastFew(h) = 3
    BY <1>1, <1>4 DEF LastFew
  <2>3. PICK n \in Nat : n + 2 = p + Cardinality(h)
    BY <1>1, <1>4
  <2>4. Turn(n + 2) = Turn((i + 1) + 2)
    <3>1. p + Older(h, a) = n + 2 /\ i + LastFew(h) + 1 - Newer(h, a) = (i + 1) + 2
      BY <1>1, <1>2, <2>1, <2>2, <2>3
    <3> QED BY <1>2, <2>1, <3>1
  <2>5. Turn(n + 1) = Turn((i + 1) + 1)
    <3>1. p + Older(h, b) = n + 1 /\ i + LastFew(h) + 1 - Newer(h, b) = (i + 1) + 1
      BY <1>1, <1>2, <2>1, <2>2, <2>3
    <3> QED BY <1>2, <2>1, <3>1
  <2>6. Turn(n) = Turn(i + 1)
    <3>1. p + Older(h, c) = n /\ i + LastFew(h) + 1 - Newer(h, c) = i + 1
      BY <1>1, <1>2, <2>1, <2>2, <2>3
    <3> QED BY <1>2, <2>1, <3>1
  <2>7. PICK m \in Nat : m = i + 1
    OBVIOUS
  <2>8. n % 3 = m % 3
    BY <2>4, <2>5, <2>6, <2>7, SamePhase
  <2>10. Turn(n + 3) = Turn(m + 3)
    <3>1. 3 \in Nat
      OBVIOUS
    <3> QED BY <2>8, <3>1, SameTurns
  <2>9. n + 3 = p + (Cardinality(h) + 1) /\ (i + 1) + 3 = i + LastFew(h) + 1
    BY <1>1, <2>2, <2>3
  <2> QED BY <2>7, <2>9, <2>10
<1> QED BY <1>1, <1>3, <1>4
-----------------------------------------------------------------------------
(***************************************************************************)
(* What has been delivered: the same cycle, in SortedLine's terms.         *)
(***************************************************************************)
HollowOnes == {"HOLLOW", "HOLLOW_METAL"}
Stay == {"CODED_000", "CODED_011", "CODED_101", "CODED_110"} \cup HollowOnes

\* The hollow ones among what was delivered.
Hollows(d) == {k \in DOMAIN d : d[k] \in HollowOnes}

\* What was delivered is of types that are kept, and follows the cycle.
Cycles(d) == /\ \A k \in DOMAIN d : d[k] \in Stay
             /\ \E p \in 1 .. 3 : Turning(p, Hollows(d), d)

\* The two modules have the same cycle.
LEMMA TheCycle ==
    /\ Sort!SIZE = 3 /\ \A t : Sort!contained(t) <=> t \in HollowOnes
    /\ \A n \in Nat : Sort!InCycle(n) = Turn(n) /\ Delivery!InCycle(n) = Turn(n)
    /\ Delivery!Range(Delivery!Cycle) = HollowOnes
<1>1. /\ Sort!Cycle = <<"HOLLOW", "HOLLOW", "HOLLOW_METAL">>
      /\ Delivery!Cycle = <<"HOLLOW", "HOLLOW", "HOLLOW_METAL">>
  BY DEF Sort!Cycle, Delivery!Cycle
<1> DEFINE c == <<"HOLLOW", "HOLLOW", "HOLLOW_METAL">>
<1>2. DOMAIN c = 1 .. 3 /\ c[1] = "HOLLOW" /\ c[2] = "HOLLOW" /\ c[3] = "HOLLOW_METAL" /\ Len(c) = 3
  OBVIOUS
<1> HIDE DEF c
<1>3. {c[x] : x \in DOMAIN c} = HollowOnes
  <2>1. \A x \in 1 .. 3 : c[x] \in HollowOnes
    BY <1>2 DEF HollowOnes
  <2>2. "HOLLOW" = c[1] /\ "HOLLOW_METAL" = c[3] /\ 1 \in 1 .. 3 /\ 3 \in 1 .. 3
    BY <1>2
  <2> QED BY <1>2, <2>1, <2>2 DEF HollowOnes
<1>4. Sort!SIZE = 3
  BY <1>1, <1>2 DEF Sort!SIZE, c
<1>5. \A t : Sort!contained(t) <=> t \in HollowOnes
  BY <1>1, <1>3 DEF Sort!contained, Sort!Range, c
<1>6. Delivery!Range(Delivery!Cycle) = HollowOnes
  BY <1>1, <1>3 DEF Delivery!Range, c
<1>7. ASSUME NEW n \in Nat PROVE c[(n % 3) + 1] = Turn(n)
  <2>1. n % 3 = 0 \/ n % 3 = 1 \/ n % 3 = 2
    OBVIOUS
  <2> QED BY <1>2, <2>1 DEF Turn
<1> QED BY <1>1, <1>4, <1>5, <1>6, <1>7 DEF Sort!InCycle, Delivery!InCycle, c

\* What follows the cycle is sorted.
LEMMA CyclesSorted == ASSUME NEW d, Cycles(d), IsFiniteSet(DOMAIN d) PROVE Delivery!Sorted(d)
<1>1. Delivery!Hollow(d) = Hollows(d) /\ IsFiniteSet(Hollows(d))
  <2>1. Hollows(d) \in SUBSET DOMAIN d
    BY DEF Hollows
  <2> QED BY <2>1, TheCycle, FS_Subset DEF Delivery!Hollow, Hollows
<1>2. \A S : Delivery!Cardinality(S) = Cardinality(S)
  BY DEF Delivery!Cardinality, Cardinality
<1>3. Delivery!Range(d) \subseteq Delivery!Kept \cup Delivery!Range(Delivery!Cycle)
  <2>1. Delivery!Kept \cup HollowOnes = Stay
    BY DEF Delivery!Kept, Stay
  <2> QED BY <2>1, TheCycle DEF Delivery!Range, Cycles
<1>4. PICK p \in 1 .. 3 : Turning(p, Hollows(d), d)
  BY DEF Cycles
<1>5. ASSUME NEW k \in Delivery!Hollow(d)
      PROVE  d[k] = Delivery!InCycle(p + Delivery!Cardinality({j \in Delivery!Hollow(d) : j >= k}))
  <2>1. d[k] = Turn(p + Older(Hollows(d), k))
    BY <1>1, <1>4, <1>5 DEF Turning
  <2>2. Older(Hollows(d), k) = Delivery!Cardinality({j \in Delivery!Hollow(d) : j >= k})
    BY <1>1, <1>2 DEF Older
  <2>3. Older(Hollows(d), k) \in Nat
    <3>1. {j \in Hollows(d) : j >= k} \in SUBSET Hollows(d)
      OBVIOUS
    <3> QED BY <1>1, <3>1, FS_Subset, FS_CardinalityType DEF Older
  <2>4. p + Older(Hollows(d), k) \in Nat
    BY <2>3
  <2> QED BY <2>1, <2>2, <2>4, TheCycle
<1> QED BY <1>3, <1>5 DEF Delivery!Sorted

\* A history that is moved along the line follows the cycle as before.
LEMMA MovedTurning ==
    ASSUME NEW h \in SUBSET Nat, IsFiniteSet(h), NEW n \in Nat, NEW d, NEW f,
           \A k \in h : f[k + n] = d[k], NEW p
    PROVE  Turning(p, {k + n : k \in h}, f) <=> Turning(p, h, d)
<1> DEFINE g == {k + n : k \in h}
<1>1. \A k \in h : k + n \in g /\ Older(g, k + n) = Older(h, k)
  BY MovedRanks
<1>2. \A j \in g : \E k \in h : j = k + n
  OBVIOUS
<1> HIDE DEF g
<1>3. Turning(p, g, f) <=> \A k \in h : f[k + n] = Turn(p + Older(g, k + n))
  BY <1>1, <1>2 DEF Turning
<1>4. Turning(p, g, f) <=> \A k \in h : d[k] = Turn(p + Older(h, k))
  BY <1>1, <1>3
<1> QED BY <1>4 DEF Turning, g

\* What was delivered with one more item in front of it.
LEMMA OneMore ==
    ASSUME NEW d \in Seq(Stay), NEW t \in Stay, NEW q \in 1 .. 3, Turning(q, Hollows(d), d),
           t \in HollowOnes => t = Turn(q + (Cardinality(Hollows(d)) + 1))
    PROVE  Cycles(<< t >> \o d)
<1>1. PICK e : e = << t >> \o d
  OBVIOUS
<1>2. /\ e \in Seq(Stay) /\ Len(e) = Len(d) + 1 /\ Len(d) \in Nat /\ e[1] = t
      /\ \A k \in 1 .. Len(d) : e[k + 1] = d[k]
      /\ \A k \in 2 .. Len(e) : k - 1 \in 1 .. Len(d) /\ e[k] = d[k - 1]
  BY <1>1
<1> DEFINE h == Hollows(d)
           g == {k + 1 : k \in h}
<1>3. h \in SUBSET (1 .. Len(d)) /\ h \in SUBSET Nat /\ IsFiniteSet(h)
  <2>1. h \in SUBSET (1 .. Len(d))
    BY DEF Hollows
  <2>2. IsFiniteSet(1 .. Len(d))
    BY <1>2, FS_Interval
  <2> QED BY <2>1, <2>2, FS_Subset
<1>4. Turning(q, g, e)
  <2>1. \A k \in h : e[k + 1] = d[k]
    BY <1>2, <1>3
  <2>2. 1 \in Nat
    OBVIOUS
  <2> QED BY <1>3, <2>1, <2>2, MovedTurning
<1>5. IsFiniteSet(g) /\ Cardinality(g) = Cardinality(h) /\ Cardinality(h) \in Nat
  <2>1. 1 \in Nat
    OBVIOUS
  <2> QED BY <1>3, <2>1, MovedSize, FS_CardinalityType
<1>6. Hollows(e) = IF t \in HollowOnes THEN g \cup {1} ELSE g
  <2>1. DOMAIN e = 1 .. (Len(d) + 1) /\ DOMAIN d = 1 .. Len(d)
    BY <1>2
  <2>2. \A k \in 2 .. (Len(d) + 1) : k \in Hollows(e) <=> k - 1 \in h
    BY <1>2, <2>1 DEF Hollows
  <2>3. 1 \in Hollows(e) <=> t \in HollowOnes
    BY <1>2, <2>1 DEF Hollows
  <2>4. \A k \in 2 .. (Len(d) + 1) : k \in g <=> k - 1 \in h
    BY <1>2, <1>3
  <2>5. \A k \in g : k \in 2 .. (Len(d) + 1)
    BY <1>2, <1>3
  <2>6. \A k \in Hollows(e) : k = 1 \/ k \in 2 .. (Len(d) + 1)
    BY <1>2, <2>1 DEF Hollows
  <2> HIDE DEF g, h
  <2>7. \A k : k \in Hollows(e) <=> k \in g \/ (k = 1 /\ t \in HollowOnes)
    <3>1. TAKE k
    <3>2. CASE k \in 2 .. (Len(d) + 1)
      <4>1. k # 1
        BY <3>2
      <4> QED BY <2>2, <2>4, <3>2, <4>1
    <3>3. CASE k \notin 2 .. (Len(d) + 1)
      <4>1. k \notin g /\ (k \in Hollows(e) => k = 1)
        BY <2>5, <2>6, <3>3
      <4> QED BY <2>3, <4>1
    <3> QED BY <3>2, <3>3
  <2> QED BY <2>7
<1>7. \A k \in g : k \in Nat /\ k > 1
  BY <1>3
<1> HIDE DEF g, h
<1>8. Turning(q, Hollows(e), e)
  <2>1. CASE t \notin HollowOnes
    BY <1>4, <1>6, <2>1
  <2>2. CASE t \in HollowOnes
    <3>1. ASSUME NEW k \in g PROVE e[k] = Turn(q + Older(Hollows(e), k))
      <4>1. {j \in Hollows(e) : j >= k} = {j \in g : j >= k}
        BY <1>6, <1>7, <2>2
      <4> QED BY <1>4, <4>1 DEF Turning, Older
    <3>2. Older(Hollows(e), 1) = Cardinality(h) + 1
      <4>1. {j \in Hollows(e) : j >= 1} = g \cup {1} /\ 1 \notin g
        BY <1>6, <1>7, <2>2
      <4> QED BY <1>5, <4>1, FS_AddElement DEF Older
    <3>3. e[1] = Turn(q + Older(Hollows(e), 1))
      BY <1>2, <2>2, <3>2 DEF h
    <3> QED BY <1>6, <2>2, <3>1, <3>3 DEF Turning
  <2> QED BY <2>1, <2>2
<1> QED BY <1>1, <1>2, <1>8 DEF Cycles

\* What was delivered without its oldest item.
LEMMA OneLess ==
    ASSUME NEW d \in Seq(Stay), Cycles(d), Len(d) > 0, NEW e \in Seq(Stay), Len(e) = Len(d) - 1,
           \A k \in 1 .. Len(e) : e[k] = d[k]
    PROVE  Cycles(e)
<1>0. PICK n \in Nat : n + 1 = Len(d) /\ n = Len(e)
  OBVIOUS
<1>1. DOMAIN d = 1 .. (n + 1) /\ DOMAIN e = 1 .. n
  BY <1>0
<1>2. Hollows(e) = Hollows(d) \ {n + 1}
  <2>1. \A k \in 1 .. n : k \in Hollows(e) <=> k \in Hollows(d)
    BY <1>0, <1>1 DEF Hollows
  <2>2. \A k \in Hollows(d) : k \in 1 .. n \/ k = n + 1
    BY <1>1 DEF Hollows
  <2>3. \A k \in Hollows(e) : k \in 1 .. n /\ k # n + 1
    BY <1>1 DEF Hollows
  <2> QED BY <2>1, <2>2, <2>3
<1>3. IsFiniteSet(Hollows(d)) /\ Hollows(d) \in SUBSET (1 .. (n + 1))
  <2>1. Hollows(d) \in SUBSET (1 .. (n + 1)) /\ n + 1 \in Int /\ 1 \in Int
    BY <1>1 DEF Hollows
  <2> QED BY <2>1, FS_Interval, FS_Subset
<1>4. PICK p \in 1 .. 3 : Turning(p, Hollows(d), d)
  BY DEF Cycles
<1>5. CASE n + 1 \notin Hollows(d)
  <2>1. Hollows(e) = Hollows(d)
    BY <1>2, <1>5
  <2>2. \A k \in Hollows(e) : e[k] = d[k]
    BY <1>0, <1>1 DEF Hollows
  <2>3. Turning(p, Hollows(e), e)
    BY <1>4, <2>1, <2>2 DEF Turning
  <2> QED BY <2>3 DEF Cycles
<1>6. CASE n + 1 \in Hollows(d)
  <2>1. PICK q \in 1 .. 3 : q % 3 = (p + 1) % 3
    <3>1. p + 1 \in Nat
      OBVIOUS
    <3> QED BY <3>1, PhaseFor
  <2>2. ASSUME NEW k \in Hollows(e) PROVE e[k] = Turn(q + Older(Hollows(e), k))
    <3>0. k \in 1 .. n /\ k \in Hollows(d) /\ e[k] = d[k]
      BY <1>0, <1>1, <1>2 DEF Hollows
    <3> DEFINE S == {j \in Hollows(d) : j >= k}
    <3>1. {j \in Hollows(e) : j >= k} = S \ {n + 1} /\ n + 1 \in S
      BY <1>2, <1>6, <3>0
    <3>2. IsFiniteSet(S)
      <4>1. S \in SUBSET Hollows(d)
        OBVIOUS
      <4> QED BY <1>3, <4>1, FS_Subset
    <3> HIDE DEF S
    <3>3. Cardinality(S \ {n + 1}) = Cardinality(S) - 1 /\ Cardinality(S \ {n + 1}) \in Nat
      <4>1. IsFiniteSet(S \ {n + 1}) /\ Cardinality(S \ {n + 1}) = Cardinality(S) - 1
        BY <3>1, <3>2, FS_RemoveElement
      <4> QED BY <4>1, FS_CardinalityType
    <3>4. PICK m \in Nat : m = Older(Hollows(e), k)
      BY <3>1, <3>3 DEF Older
    <3>5. d[k] = Turn(p + Cardinality(S))
      BY <1>4, <3>0 DEF Turning, Older, S
    <3>6. p + Cardinality(S) = (p + 1) + m
      <4>1. Cardinality(S) \in Nat
        BY <3>2, FS_CardinalityType
      <4>2. m = Cardinality(S \ {n + 1})
        BY <3>1, <3>4 DEF Older
      <4>3. m = Cardinality(S) - 1
        BY <3>3, <4>2
      <4> QED BY <4>1, <4>3
    <3>7. Turn((p + 1) + m) = Turn(q + m)
      <4>1. p + 1 \in Nat /\ q \in Nat
        OBVIOUS
      <4> QED BY <2>1, <4>1, SameTurns
    <3> QED BY <3>0, <3>4, <3>5, <3>6, <3>7
  <2>3. Turning(q, Hollows(e), e)
    BY <2>2 DEF Turning
  <2> QED BY <2>3 DEF Cycles
<1> QED BY <1>5, <1>6

-----------------------------------------------------------------------------
(***************************************************************************)
(* The line: its items stay in order, so those that are done are the last  *)
(* ones, and what the plugin is shown of them is what was delivered.       *)
(***************************************************************************)
\* The segments of the line, from the newest items to the oldest.
No(at) == CASE at = "M1" -> 1 [] at = "M1_SWITCH" -> 2 [] at = "M1_END" -> 3
            [] at = "M2" -> 4 [] at = "M2_SWITCH" -> 5 [] at = "DONE" -> 6

\* No item is ahead of one in a later segment.
InLine(s) == \A i, j \in 1 .. Len(s) : i < j => No(s[i].at) <= No(s[j].at)

OneAtSwitch(s) ==
    \A i, j \in 1 .. Len(s) : s[i].at = "M2_SWITCH" /\ s[j].at = "M2_SWITCH" => i = j

DoneAreKept(s) ==
    \A i \in 1 .. Len(s) :
        s[i].at = "DONE" => s[i].action = "KEEP" /\ s[i].plugin \in Stay /\ s[i].plugin # "NULL"

DoneOf(s) == {i \in 1 .. Len(s) : s[i].at = "DONE"}
OutOf(s) == LET n == Cardinality(DoneOf(s)) IN [k \in 1 .. n |-> s[Len(s) - n + k].plugin]

\* An item that may pass the switch of module 2 is the next of the cycle.
Passes(s) ==
    \A i \in 1 .. Len(s) :
        s[i].at = "M2_SWITCH" /\ s[i].pass =>
            /\ s[i].action = "KEEP" /\ s[i].plugin \in Stay /\ s[i].plugin # "NULL"
            /\ Cycles(<< s[i].plugin >> \o OutOf(s))

SortedSoFar(s) == /\ InLine(s) /\ OneAtSwitch(s) /\ DoneAreKept(s) /\ Passes(s)
                  /\ Cycles(OutOf(s)) /\ Cardinality(DoneOf(s)) <= HistoryDepth

\* The items that are done begin after the m-th.
Begin(s, m) == m \in 0 .. Len(s) /\ \A j \in 1 .. Len(s) : s[j].at = "DONE" <=> j > m

\* The items that are done are the last ones.
LEMMA DoneAreLast ==
    ASSUME NEW s \in Seq(Sort!Item), InLine(s)
    PROVE  \E m \in 0 .. Len(s) : Begin(s, m)
<1>1. Len(s) \in Nat /\ \A j \in 1 .. Len(s) : s[j] \in Sort!Item
  OBVIOUS
<1>2. CASE DoneOf(s) = {}
  <2>1. Begin(s, Len(s))
    BY <1>1, <1>2 DEF Begin, DoneOf
  <2> QED BY <1>1, <2>1
<1>3. CASE DoneOf(s) # {}
  <2>1. DoneOf(s) \subseteq Nat
    BY DEF DoneOf
  <2>2. PICK i \in DoneOf(s) : \A j \in DoneOf(s) : i <= j
    BY <1>3, <2>1, Least
  <2>3. i \in 1 .. Len(s) /\ s[i].at = "DONE"
    BY DEF DoneOf
  <2>4. ASSUME NEW j \in 1 .. Len(s) PROVE s[j].at = "DONE" <=> j > i - 1
    <3>1. CASE j < i
      BY <2>2, <2>3, <3>1 DEF DoneOf
    <3>2. CASE j = i
      BY <2>3, <3>2
    <3>3. CASE j > i
      <4>1. No(s[j].at) >= 6 /\ s[j].at \in Stage
        <5>1. No("DONE") = 6 BY DEF No
        <5>2. No(s[i].at) <= No(s[j].at) BY <2>3, <3>3 DEF InLine
        <5>3. s[j].at \in Stage BY <1>1 DEF Sort!Item, Stage
        <5>4. No(s[j].at) \in Nat BY <5>3 DEF Stage, No
        <5> QED BY <2>3, <5>1, <5>2, <5>3, <5>4
      <4>2. s[j].at = "DONE"
        BY <4>1 DEF Stage, No
      <4> QED BY <2>3, <3>3, <4>2
    <3> QED BY <2>3, <3>1, <3>2, <3>3
  <2>5. Begin(s, i - 1) /\ i - 1 \in 0 .. Len(s)
    BY <1>1, <2>3, <2>4 DEF Begin
  <2> QED BY <2>5
<1> QED BY <1>2, <1>3

\* So what was delivered are the types of those after the m-th.
LEMMA OutIs ==
    ASSUME NEW s \in Seq(Sort!Item), NEW m \in 0 .. Len(s), Begin(s, m)
    PROVE  /\ DoneOf(s) = (m + 1) .. Len(s) /\ Cardinality(DoneOf(s)) = Len(s) - m
           /\ Len(s) - m \in Nat
           /\ OutOf(s) = [k \in 1 .. (Len(s) - m) |-> s[m + k].plugin]
<1>1. Len(s) \in Nat /\ Len(s) - m \in Nat
  OBVIOUS
<1>2. DoneOf(s) = (m + 1) .. Len(s)
  <2>1. \A j \in 1 .. Len(s) : j \in DoneOf(s) <=> j > m
    BY DEF DoneOf, Begin
  <2>2. \A j \in DoneOf(s) : j \in 1 .. Len(s)
    BY DEF DoneOf
  <2>3. \A j \in (m + 1) .. Len(s) : j \in 1 .. Len(s) /\ j > m
    BY <1>1
  <2>4. \A j \in 1 .. Len(s) : j > m => j \in (m + 1) .. Len(s)
    BY <1>1
  <2> QED BY <2>1, <2>2, <2>3, <2>4
<1>3. Cardinality(DoneOf(s)) = Len(s) - m
  <2>1. m + 1 \in Int /\ Len(s) \in Int
    BY <1>1
  <2>2. Cardinality((m + 1) .. Len(s)) = IF m + 1 > Len(s) THEN 0 ELSE Len(s) - (m + 1) + 1
    BY <2>1, FS_Interval
  <2> QED BY <1>1, <1>2, <2>2
<1>4. Len(s) - (Len(s) - m) = m
  BY <1>1
<1> QED BY <1>1, <1>2, <1>3, <1>4 DEF OutOf

\* Lines whose last items have the same types have delivered the same.
LEMMA SameOut ==
    ASSUME NEW s \in Seq(Sort!Item), NEW t \in Seq(Sort!Item),
           NEW m \in 0 .. Len(s), NEW n \in 0 .. Len(t), Begin(s, m), Begin(t, n),
           Len(t) - n = Len(s) - m,
           \A k \in 1 .. (Len(s) - m) : t[n + k].plugin = s[m + k].plugin
    PROVE  OutOf(t) = OutOf(s) /\ Cardinality(DoneOf(t)) = Cardinality(DoneOf(s))
<1>1. /\ Cardinality(DoneOf(s)) = Len(s) - m
      /\ OutOf(s) = [k \in 1 .. (Len(s) - m) |-> s[m + k].plugin]
  BY OutIs
<1>2. /\ Cardinality(DoneOf(t)) = Len(t) - n
      /\ OutOf(t) = [k \in 1 .. (Len(t) - n) |-> t[n + k].plugin]
  BY OutIs
<1> QED BY <1>1, <1>2

\* An item moves on to the next segment, which is not that of the switch of
\* module 2 nor of those that are done.
LEMMA OneMoves ==
    ASSUME NEW s \in Seq(Sort!Item), SortedSoFar(s), NEW i \in 1 .. Len(s), NEW x \in Sort!Item,
           \A j \in 1 .. Len(s) : s[j].at = s[i].at => j <= i,
           No(x.at) = No(s[i].at) + 1, No(s[i].at) \in 1 .. 3
    PROVE  LET t == [s EXCEPT ![i] = x] IN SortedSoFar(t) /\ OutOf(t) = OutOf(s)
<1> DEFINE t == [s EXCEPT ![i] = x]
<1>1. /\ t \in Seq(Sort!Item) /\ Len(t) = Len(s) /\ t[i] = x
      /\ \A j \in 1 .. Len(s) : j # i => t[j] = s[j]
  OBVIOUS
<1> HIDE DEF t
<1>2. \A j \in 1 .. Len(s) : s[j].at \in Stage /\ No(s[j].at) \in 1 .. 6
  <2>1. \A j \in 1 .. Len(s) : s[j] \in Sort!Item
    OBVIOUS
  <2> QED BY <2>1 DEF Sort!Item, Stage, No
<1>3. \A a, b \in Stage : No(a) = No(b) => a = b
  BY DEF Stage, No
<1>4. /\ x.at \in Stage /\ x.at # "M2_SWITCH" /\ x.at # "DONE"
      /\ s[i].at # "M2_SWITCH" /\ s[i].at # "DONE"
  <2>1. No("M2_SWITCH") = 5 /\ No("DONE") = 6
    BY DEF No
  <2>2. x.at \in Stage
    BY DEF Sort!Item, Stage
  <2> QED BY <2>1, <2>2
<1>5. InLine(t)
  <2>1. SUFFICES ASSUME NEW j \in 1 .. Len(s), NEW k \in 1 .. Len(s), j < k
                 PROVE  No(t[j].at) <= No(t[k].at)
    BY <1>1 DEF InLine
  <2>2. No(s[j].at) <= No(s[k].at)
    BY <2>1 DEF SortedSoFar, InLine
  <2>3. CASE k = i
    BY <1>1, <1>2, <2>1, <2>2, <2>3
  <2>4. CASE j = i
    <3>1. s[k].at # s[i].at
      BY <2>1, <2>4
    <3>2. No(s[k].at) # No(s[i].at)
      BY <1>2, <1>3, <3>1
    <3>3. No(s[k].at) >= No(s[i].at) + 1
      BY <1>2, <2>2, <2>4, <3>2
    <3> QED BY <1>1, <2>1, <2>4, <3>3
  <2>5. CASE j # i /\ k # i
    BY <1>1, <2>2, <2>5
  <2> QED BY <2>3, <2>4, <2>5
<1>6. PICK m \in 0 .. Len(s) : Begin(s, m)
  BY DoneAreLast DEF SortedSoFar
<1>7. Begin(t, m)
  BY <1>1, <1>4, <1>6 DEF Begin
<1>8. OutOf(t) = OutOf(s) /\ Cardinality(DoneOf(t)) = Cardinality(DoneOf(s))
  <2>1. \A k \in 1 .. (Len(s) - m) : m + k \in 1 .. Len(s) /\ m + k > m
    OBVIOUS
  <2>2. \A k \in 1 .. (Len(s) - m) : m + k # i
    BY <1>4, <1>6, <2>1 DEF Begin
  <2>3. \A k \in 1 .. (Len(s) - m) : t[m + k].plugin = s[m + k].plugin
    BY <1>1, <2>1, <2>2
  <2> QED BY <1>1, <1>6, <1>7, <2>3, SameOut
<1>9. OneAtSwitch(t) /\ DoneAreKept(t)
  BY <1>1, <1>4 DEF SortedSoFar, OneAtSwitch, DoneAreKept
<1>10. Passes(t)
  BY <1>1, <1>4, <1>8 DEF SortedSoFar, Passes
<1> QED BY <1>5, <1>8, <1>9, <1>10 DEF SortedSoFar, t

\* A new item comes.
LEMMA OneComes ==
    ASSUME NEW s \in Seq(Sort!Item), SortedSoFar(s), NEW x \in Sort!Item, x.at = "M1"
    PROVE  SortedSoFar(<< x >> \o s) /\ OutOf(<< x >> \o s) = OutOf(s)
<1>1. PICK t : t = << x >> \o s
  OBVIOUS
<1>2. /\ t \in Seq(Sort!Item) /\ Len(t) = Len(s) + 1 /\ Len(s) \in Nat /\ t[1] = x
      /\ \A j \in 2 .. Len(t) : j - 1 \in 1 .. Len(s) /\ t[j] = s[j - 1]
  BY <1>1
<1>3. \A j \in 1 .. Len(t) : No(t[j].at) \in 1 .. 6
  <2>1. \A j \in 1 .. Len(t) : t[j] \in Sort!Item
    BY <1>2
  <2> QED BY <2>1 DEF Sort!Item, No
<1>4. No(x.at) = 1
  BY DEF No
<1>5. InLine(t)
  <2>1. SUFFICES ASSUME NEW j \in 1 .. Len(t), NEW k \in 1 .. Len(t), j < k
                 PROVE  No(t[j].at) <= No(t[k].at)
    BY DEF InLine
  <2>2. k \in 2 .. Len(t)
    BY <1>2, <2>1
  <2>3. CASE j = 1
    <3>1. t[j].at = x.at /\ No(t[j].at) = 1
      BY <1>2, <1>4, <2>3
    <3>2. No(t[k].at) \in 1 .. 6
      BY <1>3
    <3> QED BY <3>1, <3>2
  <2>4. CASE j # 1
    <3>1. j \in 2 .. Len(t) /\ j - 1 < k - 1
      BY <1>2, <2>1, <2>4
    <3> QED BY <1>2, <2>2, <3>1 DEF SortedSoFar, InLine
  <2> QED BY <2>3, <2>4
<1>6. \A j \in 1 .. Len(t) : t[j].at # "M1" => j \in 2 .. Len(t)
  BY <1>2
<1>7. PICK m \in 0 .. Len(s) : Begin(s, m)
  BY DoneAreLast DEF SortedSoFar
<1>8. m + 1 \in 0 .. Len(t) /\ Begin(t, m + 1)
  <2>1. m + 1 \in 0 .. Len(t)
    BY <1>2
  <2>2. ASSUME NEW j \in 1 .. Len(t) PROVE t[j].at = "DONE" <=> j > m + 1
    <3>1. CASE j = 1
      BY <1>2, <3>1
    <3>2. CASE j # 1
      <4>1. j \in 2 .. Len(t) /\ (j > m + 1 <=> j - 1 > m)
        BY <1>2, <3>2
      <4> QED BY <1>2, <1>7, <4>1 DEF Begin
    <3> QED BY <3>1, <3>2
  <2> QED BY <2>1, <2>2 DEF Begin
<1>9. OutOf(t) = OutOf(s) /\ Cardinality(DoneOf(t)) = Cardinality(DoneOf(s))
  <2>1. ASSUME NEW k \in 1 .. (Len(s) - m) PROVE t[(m + 1) + k].plugin = s[m + k].plugin
    <3>1. (m + 1) + k \in 2 .. Len(t) /\ ((m + 1) + k) - 1 = m + k
      BY <1>2
    <3> QED BY <1>2, <3>1
  <2>2. Len(t) - (m + 1) = Len(s) - m
    BY <1>2
  <2>3. PICK n \in 0 .. Len(t) : n = m + 1
    BY <1>8
  <2> QED BY <1>2, <1>7, <1>8, <2>1, <2>2, <2>3, SameOut
<1>10. OneAtSwitch(t)
  <2>1. SUFFICES ASSUME NEW j \in 1 .. Len(t), NEW k \in 1 .. Len(t),
                        t[j].at = "M2_SWITCH", t[k].at = "M2_SWITCH"
                 PROVE  j = k
    BY DEF OneAtSwitch
  <2>2. j \in 2 .. Len(t) /\ k \in 2 .. Len(t)
    BY <1>6, <2>1
  <2>3. j - 1 = k - 1
    BY <1>2, <2>1, <2>2 DEF SortedSoFar, OneAtSwitch
  <2> QED BY <2>2, <2>3
<1>11. DoneAreKept(t)
  BY <1>2, <1>6 DEF SortedSoFar, DoneAreKept
<1>12. Passes(t)
  <2>1. \A j \in 1 .. Len(t) : t[j].at = "M2_SWITCH" => j - 1 \in 1 .. Len(s) /\ t[j] = s[j - 1]
    BY <1>2, <1>6
  <2> QED BY <1>9, <2>1 DEF SortedSoFar, Passes
<1> QED BY <1>1, <1>5, <1>9, <1>10, <1>11, <1>12 DEF SortedSoFar

\* An item that is not done goes down a ramp, or is lost.
LEMMA OneGoes ==
    ASSUME NEW s \in Seq(Sort!Item), SortedSoFar(s), NEW i \in 1 .. Len(s), s[i].at # "DONE"
    PROVE  SortedSoFar(Sort!RemoveAt(s, i)) /\ OutOf(Sort!RemoveAt(s, i)) = OutOf(s)
<1>1. PICK t : t = Sort!RemoveAt(s, i)
  OBVIOUS
<1>2. /\ t \in Seq(Sort!Item) /\ Len(t) = Len(s) - 1 /\ Len(s) \in Nat /\ Len(t) \in Nat
      /\ \A j \in 1 .. Len(t) : t[j] = IF j < i THEN s[j] ELSE s[j + 1]
  <2>1. /\ t \in Seq(Sort!Item) /\ Len(t) = Len(s) - 1
        /\ \A j \in 1 .. Len(t) : t[j] = IF j < i THEN s[j] ELSE s[j + 1]
    BY <1>1, Removed
  <2> QED BY <2>1
<1> DEFINE e == [j \in 1 .. Len(t) |-> IF j < i THEN j ELSE j + 1]
<1>3. \A j \in 1 .. Len(t) : e[j] \in 1 .. Len(s) /\ t[j] = s[e[j]]
  BY <1>2
<1>4. \A j, k \in 1 .. Len(t) : (j < k => e[j] < e[k]) /\ (e[j] = e[k] => j = k)
  BY <1>2
<1>5. InLine(t)
  BY <1>3, <1>4 DEF SortedSoFar, InLine
<1>6. PICK m \in 0 .. Len(s) : Begin(s, m)
  BY DoneAreLast DEF SortedSoFar
<1>7. m - 1 \in 0 .. Len(t) /\ Begin(t, m - 1) /\ i <= m
  <2>1. i <= m
    BY <1>6 DEF Begin
  <2>2. m - 1 \in 0 .. Len(t)
    BY <1>2, <2>1
  <2>3. ASSUME NEW j \in 1 .. Len(t) PROVE t[j].at = "DONE" <=> j > m - 1
    <3>1. e[j] > m <=> j > m - 1
      BY <1>2, <2>1
    <3> QED BY <1>3, <1>6, <3>1 DEF Begin
  <2> QED BY <2>1, <2>2, <2>3 DEF Begin
<1>8. OutOf(t) = OutOf(s) /\ Cardinality(DoneOf(t)) = Cardinality(DoneOf(s))
  <2>1. PICK n \in 0 .. Len(t) : n = m - 1
    BY <1>7
  <2>2. Len(t) - n = Len(s) - m
    BY <1>2, <2>1
  <2>3. ASSUME NEW k \in 1 .. (Len(s) - m) PROVE t[n + k].plugin = s[m + k].plugin
    <3>1. n + k \in 1 .. Len(t) /\ ~(n + k < i) /\ (n + k) + 1 = m + k
      BY <1>2, <1>7, <2>1
    <3> QED BY <1>2, <3>1
  <2> QED BY <1>2, <1>6, <1>7, <2>1, <2>2, <2>3, SameOut
<1> HIDE DEF e
<1>9. OneAtSwitch(t)
  BY <1>3, <1>4 DEF SortedSoFar, OneAtSwitch
<1>10. DoneAreKept(t)
  BY <1>3 DEF SortedSoFar, DoneAreKept
<1>11. Passes(t)
  BY <1>3, <1>8 DEF SortedSoFar, Passes
<1> QED BY <1>1, <1>5, <1>8, <1>9, <1>10, <1>11 DEF SortedSoFar

-----------------------------------------------------------------------------
(***************************************************************************)
(* What the plugins decide, and what that means for what is delivered.     *)
(***************************************************************************)
\* What the plugin compares with the cycle.
LEMMA FollowsAgrees ==
    ASSUME NEW g \in SUBSET Nat, IsFiniteSet(g), NEW f, \A j \in g : f[j] = line[j].plugin,
           NEW i \in 1 .. 3
    PROVE  (Sort!Follows(g, i) <=> Agrees(i, g, f)) /\ Sort!Past(g) = LastFew(g)
           /\ LastFew(g) \in 0 .. 3
<1>1. Cardinality(g) \in Nat
  BY FS_CardinalityType
<1>2. Sort!Past(g) = LastFew(g)
  BY SameSize, TheCycle DEF Sort!Past, LastFew
<1>3. LastFew(g) \in 0 .. 3 /\ (LastFew(g) = Cardinality(g) \/ LastFew(g) = 3)
  BY <1>1 DEF LastFew
<1>4. ASSUME NEW j \in g
      PROVE  /\ Sort!Rank(g, j) = Newer(g, j) /\ Newer(g, j) \in 1 .. Cardinality(g)
             /\ Newer(g, j) <= 3 => i + LastFew(g) + 1 - Newer(g, j) \in Nat
  <2>1. Sort!Rank(g, j) = Newer(g, j)
    BY SameSize DEF Sort!Rank, Newer
  <2>2. Newer(g, j) \in 1 .. Cardinality(g)
    BY NewerAndOlder
  <2> QED BY <1>1, <1>3, <2>1, <2>2
<1>5. ASSUME NEW j \in g, Newer(g, j) <= 3
      PROVE  Sort!InCycle(i + Sort!Past(g) + 1 - Sort!Rank(g, j))
               = Turn(i + LastFew(g) + 1 - Newer(g, j))
  BY <1>2, <1>4, <1>5, TheCycle
<1>6. Sort!Follows(g, i) <=>
        \A j \in g : Newer(g, j) <= 3 =>
            line[j].plugin = Sort!InCycle(i + Sort!Past(g) + 1 - Sort!Rank(g, j))
  BY <1>4, TheCycle DEF Sort!Follows
<1>7. Sort!Follows(g, i) <=> Agrees(i, g, f)
  BY <1>5, <1>6 DEF Agrees
<1> QED BY <1>2, <1>3, <1>7

\* A hollow item that is kept behind those that are done is next in the cycle.
LEMMA KeptIsNext ==
    ASSUME line \in Seq(Sort!Item), NEW i \in 0 .. Len(line), NEW d \in Seq(Stay),
           Len(d) = Len(line) - i, \A k \in 1 .. Len(d) : d[k] = line[i + k].plugin, Cycles(d),
           NEW t \in HollowOnes, Sort!decideSorted(t, (i + 1) .. Len(line)) = "KEEP"
    PROVE  \E q \in 1 .. 3 : /\ Turning(q, Hollows(d), d)
                             /\ t = Turn(q + (Cardinality(Hollows(d)) + 1))
<1>0. PICK n \in Nat : n = Len(line)
  OBVIOUS
<1> DEFINE h == (i + 1) .. n
           g == Sort!Hollow(h)
           f == [j \in 1 .. n |-> line[j].plugin]
<1>1. CASE Len(d) = 0
  <2>1. Hollows(d) = {}
    BY <1>1 DEF Hollows
  <2>2. Cardinality(Hollows(d)) = 0 /\ \A q \in 1 .. 3 : Turning(q, Hollows(d), d)
    BY <2>1, FS_EmptySet DEF Turning
  <2>3. Turn(1 + (0 + 1)) = "HOLLOW_METAL" /\ Turn(2 + (0 + 1)) = "HOLLOW"
    BY DEF Turn
  <2>4. t = "HOLLOW" \/ t = "HOLLOW_METAL"
    BY DEF HollowOnes
  <2>5. CASE t = "HOLLOW_METAL"
    <3>1. 1 \in 1 .. 3 OBVIOUS
    <3> QED BY <2>2, <2>3, <2>5, <3>1
  <2>6. CASE t = "HOLLOW"
    <3>1. 2 \in 1 .. 3 OBVIOUS
    <3> QED BY <2>2, <2>3, <2>6, <3>1
  <2> QED BY <2>4, <2>5, <2>6
<1>2. CASE Len(d) > 0
  <2>1. n \in h /\ \A j \in h : j \in 1 .. n /\ j <= n /\ j \in Nat
    BY <1>0, <1>2
  <2>2. Hollows(d) \in SUBSET (1 .. Len(d)) /\ Hollows(d) \in SUBSET Nat /\ IsFiniteSet(Hollows(d))
    <3>1. Hollows(d) \in SUBSET (1 .. Len(d))
      BY DEF Hollows
    <3>2. IsFiniteSet(1 .. Len(d))
      BY FS_Interval
    <3> QED BY <3>1, <3>2, FS_Subset
  <2>3. g = {k + i : k \in Hollows(d)}
    <3>1. \A j \in h : j \in g <=> line[j].plugin \in HollowOnes
      BY TheCycle DEF Sort!Hollow
    <3>2. \A j \in g : j \in h
      BY DEF Sort!Hollow
    <3>3. \A j \in h : j - i \in 1 .. Len(d) /\ j = (j - i) + i /\ d[j - i] = line[j].plugin
      BY <1>0
    <3>4. \A k \in 1 .. Len(d) : k + i \in h /\ d[k] = line[k + i].plugin
      BY <1>0
    <3>5. \A k \in Hollows(d) : k \in 1 .. Len(d) /\ d[k] \in HollowOnes
      BY <2>2 DEF Hollows
    <3>6. \A k \in 1 .. Len(d) : d[k] \in HollowOnes => k \in Hollows(d)
      BY DEF Hollows
    <3> HIDE DEF g, h
    <3>7. ASSUME NEW j \in g PROVE j \in {k + i : k \in Hollows(d)}
      <4>1. j - i \in Hollows(d) /\ j = (j - i) + i
        BY <3>1, <3>2, <3>3, <3>6
      <4> QED BY <4>1
    <3>8. ASSUME NEW k \in Hollows(d) PROVE k + i \in g
      BY <3>1, <3>4, <3>5
    <3> QED BY <3>7, <3>8
  <2>4. g \in SUBSET Nat /\ g \in SUBSET h /\ IsFiniteSet(g)
        /\ Cardinality(g) = Cardinality(Hollows(d)) /\ Cardinality(g) \in Nat
    <3>0. \A j \in g : j \in h
      BY DEF Sort!Hollow
    <3>1. i \in Nat
      OBVIOUS
    <3> HIDE DEF g, h
    <3>2. IsFiniteSet(g) /\ Cardinality(g) = Cardinality(Hollows(d))
      BY <2>2, <2>3, <3>1, MovedSize
    <3> QED BY <2>1, <3>0, <3>2, FS_CardinalityType
  <2>5. \A q : Turning(q, g, f) <=> Turning(q, Hollows(d), d)
    <3>1. \A k \in Hollows(d) : f[k + i] = d[k]
      BY <1>0, <2>2
    <3> HIDE DEF f, g
    <3>2. i \in Nat
      OBVIOUS
    <3> QED BY <2>2, <2>3, <3>1, <3>2, MovedTurning
  <2>6. \A j \in g : f[j] = line[j].plugin
    BY <2>1, <2>4
  <2> HIDE DEF f, g
  <2>7. PICK p \in 1 .. 3 : Turning(p, g, f)
    BY <2>5 DEF Cycles
  <2>8. \A a \in 1 .. 3 : (Sort!Follows(g, a) <=> Agrees(a, g, f)) /\ Sort!Past(g) = LastFew(g)
                          /\ LastFew(g) \in 0 .. 3
    BY <2>4, <2>6, FollowsAgrees
  <2>9. \E a \in 1 .. 3 : Sort!Follows(g, a)
    <3>1. \E a \in 1 .. 3 : Agrees(a, g, f)
      BY <2>4, <2>7, HistoryFits
    <3> QED BY <2>8, <3>1
  <2>10. Sort!predictNext(h) = {Sort!InCycle(a + Sort!Past(g) + 1) :
                                   a \in {b \in 1 .. 3 : Sort!Follows(g, b)}}
    BY TheCycle DEF Sort!predictNext, g
  <2>11. Sort!predictNext(h) # {}
    BY <2>9, <2>10
  <2> DEFINE fits == {j \in h : Sort!predictNext(Sort!Since(h, j)) # {}}
  <2>12. Sort!Since(h, n) = h
    BY <2>1 DEF Sort!Since
  <2> HIDE DEF h
  <2>13. n \in fits /\ \A j \in fits : j <= n /\ j \in Nat
    BY <2>1, <2>11, <2>12
  <2>14. Sort!Max(fits) = n
    <3> HIDE DEF fits
    <3>1. \E x \in fits : \A y \in fits : x >= y
      BY <2>13
    <3>2. Sort!Max(fits) \in fits /\ \A y \in fits : Sort!Max(fits) >= y
      BY <3>1 DEF Sort!Max
    <3>3. PICK m : m = Sort!Max(fits)
      OBVIOUS
    <3>4. m \in fits /\ m >= n /\ m <= n /\ m \in Nat
      BY <2>13, <3>2, <3>3
    <3> QED BY <3>3, <3>4
  <2>15. t \in Sort!predictNext(h)
    <3>1. Sort!decideSorted(t, h) = "KEEP"
      BY <1>0 DEF h
    <3>2. fits # {} /\ Sort!Since(h, Sort!Max(fits)) = h
      BY <2>12, <2>13, <2>14
    <3> QED BY <3>1, <3>2 DEF Sort!decideSorted
  <2>16. PICK a \in 1 .. 3 : Sort!Follows(g, a) /\ t = Sort!InCycle(a + Sort!Past(g) + 1)
    BY <2>10, <2>15
  <2>17. t = Turn(a + LastFew(g) + 1)
    <3>1. a + LastFew(g) + 1 \in Nat
      BY <2>8
    <3> QED BY <2>8, <2>16, <3>1, TheCycle
  <2>18. \E q \in 1 .. 3 : Turning(q, g, f) /\ Turn(a + LastFew(g) + 1) = Turn(q + (Cardinality(g) + 1))
    <3>1. Agrees(a, g, f)
      BY <2>8, <2>16
    <3> QED BY <2>4, <2>7, <3>1, NextFits
  <2> QED BY <2>4, <2>5, <2>17, <2>18
<1> QED BY <1>1, <1>2

\* The module is told to let an item pass only if it is to be kept.
LEMMA PassIsKeep ==
    ASSUME NEW x \in Sort!Item, x.at = "M2_SWITCH", NEW m \in Type \cup {"NULL"}, NEW h
    PROVE  LET y == Sort!Evaluated(Sort!Analysed(x, m), h)
           IN  y.pass => /\ y.action = "KEEP" /\ y.plugin \in Type /\ y.plugin # "NULL"
                         /\ Sort!decide(y.plugin, h) = "KEEP"
<1>1. PICK a : a = Sort!Analysed(x, m)
  OBVIOUS
<1>2. /\ a \in Sort!Item /\ a.at = "M2_SWITCH" /\ a.plugin \in Type \cup {"NULL"}
      /\ a.plugin = "NULL" => a.action = "TOSS"
  <2>1. x.plugin \in Type \cup {"NULL"}
    BY DEF Sort!Item
  <2> QED BY <1>1, <2>1 DEF Sort!Analysed, Sort!Item
<1>3. PICK d : d = Sort!Decided(a, h)
  OBVIOUS
<1>4. /\ d = "KEEP" => a.plugin # "NULL" /\ Sort!decide(a.plugin, h) = "KEEP"
      /\ d # "TOSS_M"
  BY <1>2, <1>3 DEF Sort!Decided
<1>5. Sort!Here(a) = "TOSS_S"
  BY <1>2 DEF Sort!Here
<1>6. PICK e : e = IF d = "TOSS" THEN "TOSS_S" ELSE d
  OBVIOUS
<1>7. e # "TOSS_M" /\ (e = "KEEP" => d = "KEEP")
  BY <1>4, <1>6
<1>8. Sort!Evaluated(a, h) =
          CASE e = "KEEP" -> [a EXCEPT !.action = e, !.pass = TRUE]
            [] e = "TOSS_M" /\ "M" \in full -> [a EXCEPT !.action = "TOSS_S", !.pass = TRUE]
            [] e = "TOSS_S" /\ "S" \notin full /\ a.at = "M1_SWITCH"
                 -> [a EXCEPT !.action = e, !.pass = TRUE]
            [] OTHER -> [a EXCEPT !.action = e, !.pass = FALSE]
  BY <1>3, <1>5, <1>6 DEF Sort!Evaluated
<1>9. CASE e = "KEEP"
  <2>1. Sort!Evaluated(a, h) = [a EXCEPT !.action = "KEEP", !.pass = TRUE]
    BY <1>8, <1>9
  <2>2. [a EXCEPT !.action = "KEEP", !.pass = TRUE].action = "KEEP"
        /\ [a EXCEPT !.action = "KEEP", !.pass = TRUE].plugin = a.plugin
    BY <1>2 DEF Sort!Item
  <2> QED BY <1>1, <1>2, <1>4, <1>7, <1>9, <2>1, <2>2
<1>10. CASE e # "KEEP"
  <2>1. Sort!Evaluated(a, h) = [a EXCEPT !.action = e, !.pass = FALSE]
    BY <1>2, <1>7, <1>8, <1>10
  <2>2. [a EXCEPT !.action = e, !.pass = FALSE].pass = FALSE
    BY <1>2 DEF Sort!Item
  <2> QED BY <1>1, <2>1, <2>2
<1> QED BY <1>9, <1>10

\* What the plugins keep.
LEMMA KeepMeans ==
    ASSUME NEW t \in Type, NEW h, Sort!decide(t, h) = "KEEP"
    PROVE  t \in Stay /\ (t \in HollowOnes => Sort!decideSorted(t, h) = "KEEP")
<1>1. t \in {"HOLLOW", "HOLLOW_METAL", "FLAT", "UPSIDEDOWN"}
           \cup {"CODED_000", "CODED_001", "CODED_010", "CODED_011",
                 "CODED_100", "CODED_101", "CODED_110", "CODED_111"}
  BY PartsAssumption DEF Sort!SorterAssumption
<1>2. Sort!contained(t) <=> t \in HollowOnes
  BY TheCycle
<1> HIDE DEF Sort!decideSorted, Sort!contained
<1>3. CASE t \in HollowOnes
  <2>1. t \notin {"CODED_000", "CODED_011", "CODED_101", "CODED_110"}
        /\ t \notin {"FLAT", "CODED_001", "CODED_100"} /\ t \notin {"CODED_010", "CODED_111"}
        /\ t # "UPSIDEDOWN"
    BY <1>3 DEF HollowOnes
  <2> QED BY <1>2, <1>3, <2>1 DEF Sort!decide, Stay
<1>4. CASE t \notin HollowOnes
  BY <1>1, <1>2, <1>4 DEF Sort!decide, Stay, HollowOnes
<1> QED BY <1>3, <1>4

\* What is known of a line by its types.
LEMMA OnTheLine ==
    ASSUME NEW s \in Seq(Sort!Item)
    PROVE  /\ Len(s) \in Nat
           /\ \A j \in 1 .. Len(s) : s[j] \in Sort!Item /\ s[j].at \in Stage /\ No(s[j].at) \in 1 .. 6
<1>1. \A j \in 1 .. Len(s) : s[j] \in Sort!Item
  OBVIOUS
<1> QED BY <1>1 DEF Sort!Item, Stage, No

\* The segments have numbers of their own.
LEMMA Numbers ==
    /\ No("M1") = 1 /\ No("M1_SWITCH") = 2 /\ No("M1_END") = 3
    /\ No("M2") = 4 /\ No("M2_SWITCH") = 5 /\ No("DONE") = 6
    /\ \A a, b \in Stage : No(a) = No(b) => a = b
<1>1. No("M1") = 1 /\ No("M1_SWITCH") = 2 /\ No("M1_END") = 3
  BY DEF No
<1>2. No("M2") = 4 /\ No("M2_SWITCH") = 5 /\ No("DONE") = 6
  BY DEF No
<1>3. \A a, b \in Stage : No(a) = No(b) => a = b
  BY DEF Stage, No
<1> QED BY <1>1, <1>2, <1>3

\* The item at the switch of module 2, or the next for it, is the one behind
\* those that are done.
LEMMA BehindDone ==
    ASSUME NEW s \in Seq(Sort!Item), InLine(s), NEW i \in 1 .. Len(s),
           \/ /\ s[i].at = "M2" /\ \A j \in 1 .. Len(s) : s[j].at = "M2" => j <= i
              /\ \A j \in 1 .. Len(s) : s[j].at # "M2_SWITCH"
           \/ s[i].at = "M2_SWITCH" /\ OneAtSwitch(s)
    PROVE  Begin(s, i)
<1>1. ASSUME NEW j \in 1 .. Len(s), j > i PROVE s[j].at = "DONE"
  <2>1. No(s[i].at) <= No(s[j].at) /\ s[j].at \in Stage
    BY <1>1, OnTheLine DEF InLine
  <2>2. s[j].at # "M2_SWITCH" /\ (s[i].at = "M2" => s[j].at # "M2")
    BY <1>1 DEF OneAtSwitch
  <2>3. No(s[j].at) >= 4 /\ (s[j].at = "M2" => No(s[i].at) = 4)
    BY <2>1, Numbers, OnTheLine
  <2> QED BY <2>1, <2>2, <2>3, Numbers DEF Stage
<1>2. ASSUME NEW j \in 1 .. Len(s), ~(j > i) PROVE s[j].at # "DONE"
  <2>1. No(s[j].at) <= No(s[i].at)
    BY <1>2, OnTheLine DEF InLine
  <2> QED BY <2>1, Numbers
<1> QED BY <1>1, <1>2, OnTheLine DEF Begin

\* It is decided of the next item for the switch of module 2.
LEMMA OneDecided ==
    ASSUME NEW s \in Seq(Sort!Item), SortedSoFar(s), NEW i \in 1 .. Len(s), Begin(s, i),
           s[i].at = "M2", \A j \in 1 .. Len(s) : s[j].at # "M2_SWITCH",
           NEW y \in Sort!Item, y.at = "M2_SWITCH",
           y.pass => /\ y.action = "KEEP" /\ y.plugin \in Stay /\ y.plugin # "NULL"
                     /\ Cycles(<< y.plugin >> \o OutOf(s))
    PROVE  LET t == [s EXCEPT ![i] = y] IN SortedSoFar(t) /\ OutOf(t) = OutOf(s)
<1> DEFINE t == [s EXCEPT ![i] = y]
<1>1. /\ t \in Seq(Sort!Item) /\ Len(t) = Len(s) /\ t[i] = y /\ Len(s) \in Nat
      /\ \A j \in 1 .. Len(s) : j # i => t[j] = s[j]
  OBVIOUS
<1> HIDE DEF t
<1>2. Begin(t, i) /\ i \in 0 .. Len(s) /\ i \in 0 .. Len(t)
  BY <1>1 DEF Begin
<1>3. OutOf(t) = OutOf(s) /\ Cardinality(DoneOf(t)) = Cardinality(DoneOf(s))
  <2>1. ASSUME NEW k \in 1 .. (Len(s) - i) PROVE t[i + k].plugin = s[i + k].plugin
    <3>1. i + k \in 1 .. Len(s) /\ i + k # i
      BY <1>1
    <3> QED BY <1>1, <3>1
  <2> QED BY <1>1, <1>2, <2>1, SameOut
<1>4. InLine(t)
  <2>1. SUFFICES ASSUME NEW j \in 1 .. Len(s), NEW k \in 1 .. Len(s), j < k
                 PROVE  No(t[j].at) <= No(t[k].at)
    BY <1>1 DEF InLine
  <2>2. No(s[j].at) <= No(s[k].at) /\ No(s[j].at) \in 1 .. 6 /\ No(s[k].at) \in 1 .. 6
    BY <2>1, OnTheLine DEF SortedSoFar, InLine
  <2>3. CASE k = i
    BY <1>1, <2>1, <2>2, <2>3, Numbers
  <2>4. CASE j = i
    <3>1. s[k].at = "DONE"
      BY <2>1, <2>4 DEF Begin
    <3> QED BY <1>1, <2>1, <2>4, <3>1, Numbers
  <2>5. CASE j # i /\ k # i
    BY <1>1, <2>2, <2>5
  <2> QED BY <2>3, <2>4, <2>5
<1>5. OneAtSwitch(t)
  BY <1>1 DEF OneAtSwitch
<1>6. DoneAreKept(t)
  BY <1>1 DEF SortedSoFar, DoneAreKept
<1>7. Passes(t)
  BY <1>1, <1>3 DEF Passes
<1> QED BY <1>3, <1>4, <1>5, <1>6, <1>7 DEF SortedSoFar, t

\* What was delivered is of types that stay.
LEMMA OutStays ==
    ASSUME NEW s \in Seq(Sort!Item), DoneAreKept(s), NEW m \in 0 .. Len(s), Begin(s, m)
    PROVE  /\ OutOf(s) \in Seq(Stay) /\ Len(OutOf(s)) = Len(s) - m
           /\ \A k \in 1 .. (Len(s) - m) : OutOf(s)[k] = s[m + k].plugin
<1>1. PICK n \in Nat : n = Len(s) - m
  BY OutIs
<1>2. OutOf(s) = [k \in 1 .. n |-> s[m + k].plugin]
  BY <1>1, OutIs
<1>3. \A k \in 1 .. n : s[m + k].plugin \in Stay
  <2>1. TAKE k \in 1 .. n
  <2>2. m + k \in 1 .. Len(s) /\ m + k > m
    BY <1>1
  <2> QED BY <2>2 DEF Begin, DoneAreKept
<1>4. OutOf(s) \in Seq(Stay) /\ Len(OutOf(s)) = n
  BY <1>1, <1>2, <1>3
<1> QED BY <1>1, <1>2, <1>4

\* The item that is told to pass is the next of the cycle: this is where the
\* plugin's rule is used.
LEMMA DecidedAtM2 ==
    ASSUME line \in Seq(Sort!Item), SortedSoFar(line), NEW i \in 1 .. Len(line), Begin(line, i),
           NEW x \in Sort!Item, x.at = "M2_SWITCH", NEW m \in Type \cup {"NULL"}
    PROVE  LET y == Sort!Evaluated(Sort!Analysed(x, m), Sort!history(i))
           IN  y.pass => /\ y.action = "KEEP" /\ y.plugin \in Stay /\ y.plugin # "NULL"
                         /\ Cycles(<< y.plugin >> \o OutOf(line))
<1>1. Sort!history(i) = (i + 1) .. Len(line)
  <2>1. ASSUME NEW j \in (i + 1) .. Len(line)
        PROVE  line[j].plugin # "NULL" /\ line[j].action = "KEEP"
    <3>1. j \in 1 .. Len(line) /\ j > i
      BY OnTheLine
    <3> QED BY <3>1 DEF Begin, SortedSoFar, DoneAreKept
  <2> QED BY <2>1 DEF Sort!history
<1>2. PICK h : h = Sort!history(i)
  OBVIOUS
<1>3. PICK y : y = Sort!Evaluated(Sort!Analysed(x, m), h)
  OBVIOUS
<1>4. SUFFICES ASSUME y.pass
               PROVE  /\ y.action = "KEEP" /\ y.plugin \in Stay /\ y.plugin # "NULL"
                      /\ Cycles(<< y.plugin >> \o OutOf(line))
  BY <1>2, <1>3
<1>5. /\ y.action = "KEEP" /\ y.plugin \in Type /\ y.plugin # "NULL"
      /\ Sort!decide(y.plugin, h) = "KEEP"
  BY <1>3, <1>4, PassIsKeep
<1>6. y.plugin \in Stay /\ (y.plugin \in HollowOnes => Sort!decideSorted(y.plugin, h) = "KEEP")
  BY <1>5, KeepMeans
<1>7. /\ OutOf(line) \in Seq(Stay) /\ Len(OutOf(line)) = Len(line) - i
      /\ \A k \in 1 .. Len(OutOf(line)) : OutOf(line)[k] = line[i + k].plugin
      /\ i \in 0 .. Len(line)
  <2>1. i \in 0 .. Len(line)
    BY OnTheLine
  <2> QED BY <2>1, OutStays DEF SortedSoFar
<1>8. PICK d : d = OutOf(line)
  OBVIOUS
<1>9. d \in Seq(Stay) /\ Cycles(d)
  BY <1>7, <1>8 DEF SortedSoFar
<1>10. \E q \in 1 .. 3 : /\ Turning(q, Hollows(d), d)
                         /\ y.plugin \in HollowOnes => y.plugin = Turn(q + (Cardinality(Hollows(d)) + 1))
  <2>1. CASE y.plugin \in HollowOnes
    <3>1. Sort!decideSorted(y.plugin, (i + 1) .. Len(line)) = "KEEP"
      BY <1>1, <1>2, <1>6, <2>1
    <3> QED BY <1>7, <1>8, <1>9, <2>1, <3>1, KeptIsNext
  <2>2. CASE y.plugin \notin HollowOnes
    BY <1>9, <2>2 DEF Cycles
  <2> QED BY <2>1, <2>2
<1>11. Cycles(<< y.plugin >> \o d)
  BY <1>6, <1>9, <1>10, OneMore
<1> QED BY <1>5, <1>6, <1>8, <1>11

\* The oldest of those that are done is forgotten.
LEMMA OneForgotten ==
    ASSUME NEW s \in Seq(Sort!Item), InLine(s), DoneAreKept(s), Cycles(OutOf(s)),
           NEW m \in 0 .. Len(s), Begin(s, m), m < Len(s),
           \A j \in 1 .. Len(s) : s[j].at # "M2_SWITCH"
    PROVE  LET w == Sort!Front(s)
           IN  /\ InLine(w) /\ OneAtSwitch(w) /\ DoneAreKept(w) /\ Passes(w) /\ Cycles(OutOf(w))
               /\ OutOf(w) = SubSeq(OutOf(s), 1, Len(s) - m - 1)
               /\ Cardinality(DoneOf(w)) = Len(s) - m - 1
<1>1. PICK n \in Nat : n + 1 = Len(s)
  BY OnTheLine
<1>2. PICK w : w = Sort!Front(s)
  OBVIOUS
<1>3. w \in Seq(Sort!Item) /\ Len(w) = n /\ \A j \in 1 .. n : j \in 1 .. Len(s) /\ w[j] = s[j]
  <2>1. Sort!Front(s) = SubSeq(s, 1, n)
    BY <1>1 DEF Sort!Front
  <2>2. n <= Len(s) /\ \A j \in 1 .. n : s[j] \in Sort!Item
    BY <1>1
  <2>3. SubSeq(s, 1, n) \in Seq(Sort!Item) /\ Len(SubSeq(s, 1, n)) = n
    BY <1>1, <2>2
  <2>4. \A j \in 1 .. n : SubSeq(s, 1, n)[j] = s[j] /\ j \in 1 .. Len(s)
    BY <1>1
  <2> QED BY <1>2, <2>1, <2>3, <2>4
<1>4. m \in 0 .. Len(w) /\ Begin(w, m)
  BY <1>1, <1>3 DEF Begin
<1>5. InLine(w) /\ OneAtSwitch(w) /\ DoneAreKept(w) /\ Passes(w)
  BY <1>3 DEF InLine, OneAtSwitch, DoneAreKept, Passes
<1>6. /\ OutOf(s) \in Seq(Stay) /\ Len(OutOf(s)) = Len(s) - m
      /\ \A k \in 1 .. (Len(s) - m) : OutOf(s)[k] = s[m + k].plugin
  BY OutStays
<1>7. /\ OutOf(w) \in Seq(Stay) /\ Len(OutOf(w)) = n - m
      /\ \A k \in 1 .. (n - m) : OutOf(w)[k] = w[m + k].plugin
  BY <1>3, <1>4, <1>5, OutStays
<1>8. PICK d : d = OutOf(s)
  OBVIOUS
<1>9. PICK e : e = OutOf(w)
  OBVIOUS
<1>10. PICK k \in Nat : k = n - m
  BY <1>1
<1>11. /\ d \in Seq(Stay) /\ Len(d) = k + 1 /\ e \in Seq(Stay) /\ Len(e) = k
       /\ \A j \in 1 .. k : e[j] = d[j]
  <2>1. ASSUME NEW j \in 1 .. k PROVE e[j] = d[j]
    <3>1. m + j \in 1 .. n /\ j \in 1 .. (n - m) /\ j \in 1 .. (Len(s) - m)
      BY <1>1, <1>10
    <3> QED BY <1>3, <1>6, <1>7, <1>8, <1>9, <3>1
  <2> QED BY <1>1, <1>6, <1>7, <1>8, <1>9, <1>10, <2>1
<1>12. Cycles(e)
  <2>1. Cycles(d) /\ Len(d) > 0 /\ Len(e) = Len(d) - 1 /\ \A j \in 1 .. Len(e) : e[j] = d[j]
    BY <1>8, <1>11
  <2> QED BY <1>11, <2>1, OneLess
<1>13. e = SubSeq(d, 1, k)
  <2>1. SubSeq(d, 1, k) \in Seq(Stay) /\ Len(SubSeq(d, 1, k)) = k
    <3>1. k <= Len(d) /\ \A j \in 1 .. k : d[j] \in Stay
      BY <1>11
    <3> QED BY <1>11, <3>1
  <2>2. \A j \in 1 .. k : SubSeq(d, 1, k)[j] = d[j]
    BY <1>11
  <2> QED BY <1>11, <2>1, <2>2
<1>14. Cardinality(DoneOf(w)) = k
  BY <1>3, <1>4, <1>10, OutIs
<1>15. k = Len(s) - m - 1
  BY <1>1, <1>10
<1> QED BY <1>2, <1>5, <1>8, <1>9, <1>12, <1>13, <1>14, <1>15

\* The item at the switch of module 2 passes it, and is done.
LEMMA OneDone ==
    ASSUME NEW s \in Seq(Sort!Item), SortedSoFar(s), NEW i \in 1 .. Len(s),
           s[i].at = "M2_SWITCH", s[i].pass, HistoryDepth \in Nat
    PROVE  LET t == [s EXCEPT ![i] = [s[i] EXCEPT !.at = "DONE"]]
               w == IF Cardinality(DoneOf(t)) > HistoryDepth THEN Sort!Front(t) ELSE t
               e == << s[i].plugin >> \o OutOf(s)
           IN  /\ SortedSoFar(w) /\ s[i].plugin \in Stay
               /\ OutOf(w) = SubSeq(e, 1, IF Len(e) > HistoryDepth THEN HistoryDepth ELSE Len(e))
<1> DEFINE x == [s[i] EXCEPT !.at = "DONE"]
           t == [s EXCEPT ![i] = x]
           w == IF Cardinality(DoneOf(t)) > HistoryDepth THEN Sort!Front(t) ELSE t
           e == << s[i].plugin >> \o OutOf(s)
<1>1. /\ x \in Sort!Item /\ x.at = "DONE" /\ x.plugin = s[i].plugin /\ x.action = s[i].action
      /\ s[i] \in Sort!Item
  <2>1. s[i] \in Sort!Item
    OBVIOUS
  <2> QED BY <2>1 DEF Sort!Item
<1> HIDE DEF x
<1>2. /\ t \in Seq(Sort!Item) /\ Len(t) = Len(s) /\ t[i] = x /\ Len(s) \in Nat
      /\ \A j \in 1 .. Len(s) : j # i => t[j] = s[j]
  BY <1>1
<1> HIDE DEF t
<1>3. /\ s[i].action = "KEEP" /\ s[i].plugin \in Stay /\ s[i].plugin # "NULL"
      /\ Cycles(<< s[i].plugin >> \o OutOf(s))
  BY DEF SortedSoFar, Passes
<1>4. Begin(s, i) /\ i \in 0 .. Len(s)
  <2>1. Begin(s, i)
    BY BehindDone DEF SortedSoFar
  <2> QED BY <1>2, <2>1
<1>5. PICK m \in 0 .. Len(s) : m + 1 = i
  <2>1. i - 1 \in 0 .. Len(s) /\ (i - 1) + 1 = i
    BY <1>2
  <2> QED BY <2>1
<1>6. Begin(t, m) /\ m \in 0 .. Len(t) /\ m < Len(t)
  <2>1. ASSUME NEW j \in 1 .. Len(t) PROVE t[j].at = "DONE" <=> j > m
    <3>1. CASE j = i
      BY <1>1, <1>2, <1>5, <3>1
    <3>2. CASE j # i
      <4>1. j > m <=> j > i
        BY <1>2, <1>5, <3>2
      <4> QED BY <1>2, <1>4, <3>2, <4>1 DEF Begin
    <3> QED BY <3>1, <3>2
  <2> QED BY <1>2, <1>5, <2>1 DEF Begin
<1>7. InLine(t)
  <2>1. SUFFICES ASSUME NEW j \in 1 .. Len(s), NEW k \in 1 .. Len(s), j < k
                 PROVE  No(t[j].at) <= No(t[k].at)
    BY <1>2 DEF InLine
  <2>2. No(s[j].at) <= No(s[k].at) /\ No(s[j].at) \in 1 .. 6 /\ No(s[k].at) \in 1 .. 6
    BY <2>1, OnTheLine DEF SortedSoFar, InLine
  <2>3. CASE k = i
    BY <1>1, <1>2, <2>1, <2>2, <2>3, Numbers
  <2>4. CASE j = i
    <3>1. s[k].at = "DONE"
      BY <1>4, <2>1, <2>4 DEF Begin
    <3> QED BY <1>1, <1>2, <2>1, <2>4, <3>1, Numbers
  <2>5. CASE j # i /\ k # i
    BY <1>2, <2>2, <2>5
  <2> QED BY <2>3, <2>4, <2>5
<1>8. \A j \in 1 .. Len(t) : t[j].at # "M2_SWITCH"
  <2>1. TAKE j \in 1 .. Len(t)
  <2>2. CASE j = i
    BY <1>1, <1>2, <2>2
  <2>3. CASE j # i
    BY <1>2, <2>3 DEF SortedSoFar, OneAtSwitch
  <2> QED BY <2>2, <2>3
<1>9. OneAtSwitch(t) /\ Passes(t)
  BY <1>8 DEF OneAtSwitch, Passes
<1>10. DoneAreKept(t)
  <2>1. ASSUME NEW j \in 1 .. Len(t), t[j].at = "DONE"
        PROVE  t[j].action = "KEEP" /\ t[j].plugin \in Stay /\ t[j].plugin # "NULL"
    <3>1. CASE j = i
      BY <1>1, <1>2, <1>3, <3>1
    <3>2. CASE j # i
      BY <1>2, <2>1, <3>2 DEF SortedSoFar, DoneAreKept
    <3> QED BY <3>1, <3>2
  <2> QED BY <2>1 DEF DoneAreKept
<1>11. PICK n \in Nat : n = Len(s) - i
  BY <1>2
<1>12. /\ OutOf(s) \in Seq(Stay) /\ Len(OutOf(s)) = n
       /\ \A k \in 1 .. n : OutOf(s)[k] = s[i + k].plugin
       /\ Cardinality(DoneOf(s)) = n
  <2>1. Cardinality(DoneOf(s)) = n
    BY <1>4, <1>11, OutIs
  <2> QED BY <1>4, <1>11, <2>1, OutStays DEF SortedSoFar
<1>13. /\ OutOf(t) \in Seq(Stay) /\ Len(OutOf(t)) = n + 1
       /\ \A k \in 1 .. (n + 1) : OutOf(t)[k] = t[m + k].plugin
       /\ Cardinality(DoneOf(t)) = n + 1
  <2>1. Len(t) - m = n + 1
    BY <1>2, <1>5, <1>11
  <2>2. Cardinality(DoneOf(t)) = n + 1
    BY <1>2, <1>6, <2>1, OutIs
  <2> QED BY <1>2, <1>6, <1>10, <2>1, <2>2, OutStays
<1>14. e \in Seq(Stay) /\ Len(e) = n + 1 /\ e[1] = s[i].plugin
       /\ \A k \in 2 .. (n + 1) : e[k] = OutOf(s)[k - 1]
  BY <1>3, <1>12
<1> HIDE DEF e
<1>15. OutOf(t) = e
  <2>1. ASSUME NEW k \in 1 .. (n + 1) PROVE OutOf(t)[k] = e[k]
    <3>1. CASE k = 1
      BY <1>1, <1>2, <1>5, <1>13, <1>14, <3>1
    <3>2. CASE k # 1
      <4>1. k - 1 \in 1 .. n /\ k \in 2 .. (n + 1) /\ m + k = i + (k - 1)
            /\ i + (k - 1) \in 1 .. Len(s) /\ i + (k - 1) # i
        BY <1>2, <1>5, <1>11, <3>2
      <4>2. OutOf(t)[k] = t[i + (k - 1)].plugin
        BY <1>13, <4>1
      <4>3. t[i + (k - 1)] = s[i + (k - 1)]
        BY <1>2, <4>1
      <4>4. e[k] = s[i + (k - 1)].plugin
        BY <1>12, <1>14, <4>1
      <4> QED BY <4>2, <4>3, <4>4
    <3> QED BY <3>1, <3>2
  <2> QED BY <1>13, <1>14, <2>1
<1>16. Cycles(OutOf(t))
  BY <1>3, <1>15 DEF e
<1>17. n <= HistoryDepth
  BY <1>12 DEF SortedSoFar
<1>18. CASE n + 1 > HistoryDepth
  <2>1. n = HistoryDepth /\ Len(e) > HistoryDepth
    BY <1>14, <1>17, <1>18
  <2>2. w = Sort!Front(t)
    BY <1>13, <1>18
  <2> HIDE DEF w
  <2>3. Len(t) - m - 1 = n
    BY <1>2, <1>5, <1>11
  <2>4. /\ InLine(w) /\ OneAtSwitch(w) /\ DoneAreKept(w) /\ Passes(w) /\ Cycles(OutOf(w))
        /\ OutOf(w) = SubSeq(OutOf(t), 1, n) /\ Cardinality(DoneOf(w)) = n
    BY <1>2, <1>6, <1>7, <1>8, <1>10, <1>16, <2>2, <2>3, OneForgotten
  <2>5. SortedSoFar(w)
    BY <1>17, <2>4 DEF SortedSoFar
  <2> QED BY <1>3, <1>15, <2>1, <2>4, <2>5 DEF w, e, t, x
<1>19. CASE ~(n + 1 > HistoryDepth)
  <2>1. w = t /\ ~(Len(e) > HistoryDepth) /\ n + 1 <= HistoryDepth
    BY <1>13, <1>14, <1>19
  <2> HIDE DEF w
  <2>2. SortedSoFar(w)
    BY <1>7, <1>9, <1>10, <1>13, <1>16, <2>1 DEF SortedSoFar
  <2>3. SubSeq(e, 1, Len(e)) = e
    BY <1>14
  <2> QED BY <1>3, <1>15, <2>1, <2>2, <2>3 DEF w, e, t, x
<1> QED BY <1>18, <1>19

-----------------------------------------------------------------------------
\* The items are in order on the line, and what has left it follows the cycle.
SorterInv == Sort!TypeOK /\ SortedSoFar(line)

\* What was delivered after t was, of which HistoryDepth items count.
WithOneMore(t) ==
    LET e == << t >> \o OutOf(line)
    IN  SubSeq(e, 1, IF Len(e) > HistoryDepth THEN HistoryDepth ELSE Len(e))

\* Each step of the line delivers nothing, or one item that is to be kept.
LEMMA SorterDelivers ==
    ASSUME SorterInv, [Sort!Next]_(Sort!vars)
    PROVE  /\ SortedSoFar(line')
           /\ \/ OutOf(line') = OutOf(line)
              \/ \E t \in Stay : OutOf(line') = WithOneMore(t)
<1>1. line \in Seq(Sort!Item) /\ SortedSoFar(line) /\ HistoryDepth \in Nat
  BY SorterTypes, PartsAssumption DEF SorterInv, Sort!SorterAssumption
<1>2. ASSUME NEW seg \in Stage, Sort!At(seg) # {}
      PROVE  \E i \in 1 .. Len(line) :
                /\ i = Sort!Oldest(seg) /\ line[i].at = seg /\ line[i] \in Sort!Item
                /\ \A j \in 1 .. Len(line) : line[j].at = seg => j <= i
  <2>1. Sort!Oldest(seg) \in Sort!At(seg) /\ \A j \in Sort!At(seg) : j <= Sort!Oldest(seg)
    BY <1>1, <1>2, OldestIsThere
  <2> QED BY <1>1, <2>1 DEF Sort!At
<1>3. \A x \in Sort!Item, seg \in Stage :
         [x EXCEPT !.at = seg] \in Sort!Item /\ [x EXCEPT !.at = seg].at = seg
  BY DEF Sort!Item, Stage
<1>4. ASSUME NEW i \in 1 .. Len(line), NEW y \in Sort!Item, line' = [line EXCEPT ![i] = y],
             \A j \in 1 .. Len(line) : line[j].at = line[i].at => j <= i,
             No(y.at) = No(line[i].at) + 1, No(line[i].at) \in 1 .. 3
      PROVE  SortedSoFar(line') /\ OutOf(line') = OutOf(line)
  BY <1>1, <1>4, OneMoves
<1>5. CASE Sort!Arrive
  <2> DEFINE x == [at |-> "M1", plugin |-> "NULL", action |-> "VOID", pass |-> FALSE]
  <2>1. x \in Sort!Item /\ x.at = "M1"
    BY DEF Sort!Item
  <2>2. line' = << x >> \o line
    BY <1>5 DEF Sort!Arrive
  <2> HIDE DEF x
  <2> QED BY <1>1, <2>1, <2>2, OneComes
<1>6. ASSUME NEW from \in Stage, NEW switch \in Stage, Sort!Analyse(from, switch)
      PROVE  \E i \in 1 .. Len(line), x \in Sort!Item, m \in Type \cup {"NULL"}, y \in Sort!Item :
                /\ line[i].at = from /\ x.at = switch /\ y.at = switch
                /\ \A j \in 1 .. Len(line) : line[j].at = from => j <= i
                /\ \A j \in 1 .. Len(line) : line[j].at # switch
                /\ y = Sort!Evaluated(Sort!Analysed(x, m), Sort!history(i))
                /\ line' = [line EXCEPT ![i] = y]
  <2>1. Sort!At(from) # {} /\ Sort!At(switch) = {}
    BY <1>6 DEF Sort!Analyse
  <2>2. PICK i \in 1 .. Len(line) :
                /\ i = Sort!Oldest(from) /\ line[i].at = from /\ line[i] \in Sort!Item
                /\ \A j \in 1 .. Len(line) : line[j].at = from => j <= i
    BY <1>2, <2>1
  <2>3. PICK x : x = [line[i] EXCEPT !.at = switch]
    OBVIOUS
  <2>4. x \in Sort!Item /\ x.at = switch
    BY <1>3, <2>2, <2>3
  <2>5. PICK m \in Type \cup {"NULL"} :
              line' = [line EXCEPT ![i] = Sort!Evaluated(Sort!Analysed(x, m), Sort!history(i))]
    BY <1>6, <2>2, <2>3 DEF Sort!Analyse
  <2>6. PICK y : y = Sort!Evaluated(Sort!Analysed(x, m), Sort!history(i))
    OBVIOUS
  <2>7. y \in Sort!Item /\ y.at = switch
    BY <2>4, <2>6, EvaluatedTyped
  <2>8. \A j \in 1 .. Len(line) : line[j].at # switch
    BY <2>1 DEF Sort!At
  <2>9. line' = [line EXCEPT ![i] = y]
    BY <2>5, <2>6
  <2> QED BY <2>2, <2>4, <2>6, <2>7, <2>8, <2>9
<1>7. CASE Sort!Analyse("M1", "M1_SWITCH")
  <2>1. "M1" \in Stage /\ "M1_SWITCH" \in Stage
    BY DEF Stage
  <2>2. PICK i \in 1 .. Len(line), x \in Sort!Item, m \in Type \cup {"NULL"}, y \in Sort!Item :
                /\ line[i].at = "M1" /\ y.at = "M1_SWITCH"
                /\ \A j \in 1 .. Len(line) : line[j].at = "M1" => j <= i
                /\ line' = [line EXCEPT ![i] = y]
    BY <1>6, <1>7, <2>1
  <2>3. No(y.at) = No(line[i].at) + 1 /\ No(line[i].at) \in 1 .. 3
    BY <2>2, Numbers
  <2> QED BY <1>4, <2>2, <2>3
<1>8. CASE Sort!Analyse("M2", "M2_SWITCH")
  <2>1. "M2" \in Stage /\ "M2_SWITCH" \in Stage
    BY DEF Stage
  <2>2. PICK i \in 1 .. Len(line), x \in Sort!Item, m \in Type \cup {"NULL"}, y \in Sort!Item :
                /\ line[i].at = "M2" /\ x.at = "M2_SWITCH" /\ y.at = "M2_SWITCH"
                /\ \A j \in 1 .. Len(line) : line[j].at = "M2" => j <= i
                /\ \A j \in 1 .. Len(line) : line[j].at # "M2_SWITCH"
                /\ y = Sort!Evaluated(Sort!Analysed(x, m), Sort!history(i))
                /\ line' = [line EXCEPT ![i] = y]
    BY <1>6, <1>8, <2>1
  <2>3. Begin(line, i)
    BY <1>1, <2>2, BehindDone DEF SortedSoFar
  <2>4. y.pass => /\ y.action = "KEEP" /\ y.plugin \in Stay /\ y.plugin # "NULL"
                  /\ Cycles(<< y.plugin >> \o OutOf(line))
    BY <1>1, <2>2, <2>3, DecidedAtM2
  <2> QED BY <1>1, <2>2, <2>3, <2>4, OneDecided
<1>9. ASSUME NEW switch \in Stage, NEW to \in Stage, Sort!PassSwitch(switch, to)
      PROVE  \E i \in 1 .. Len(line) :
                /\ line[i].at = switch /\ line[i] \in Sort!Item
                /\ \A j \in 1 .. Len(line) : line[j].at = switch => j <= i
                /\ \E j \in 1 .. Len(line) : line[j].at = switch /\ line[j].pass
                /\ LET t == [line EXCEPT ![i] = [line[i] EXCEPT !.at = to]]
                   IN  line' = IF Cardinality(DoneOf(t)) > HistoryDepth THEN Sort!Front(t) ELSE t
  <2>1. PICK k \in Sort!At(switch) : line[k].pass
    BY <1>9 DEF Sort!PassSwitch
  <2>2. k \in 1 .. Len(line) /\ line[k].at = switch
    BY DEF Sort!At
  <2>3. PICK i \in 1 .. Len(line) :
                /\ i = Sort!Oldest(switch) /\ line[i].at = switch /\ line[i] \in Sort!Item
                /\ \A j \in 1 .. Len(line) : line[j].at = switch => j <= i
    BY <1>2, <2>1
  <2>4. PICK t : t = [line EXCEPT ![i] = [line[i] EXCEPT !.at = to]]
    OBVIOUS
  <2>5. line' = Sort!Trimmed(t)
    BY <1>9, <2>3, <2>4 DEF Sort!PassSwitch
  <2>6. line' = IF Cardinality(DoneOf(t)) > HistoryDepth THEN Sort!Front(t) ELSE t
    BY <2>5, SameSize DEF Sort!Trimmed, DoneOf
  <2> QED BY <2>1, <2>2, <2>3, <2>4, <2>6
<1>10. CASE Sort!PassSwitch("M1_SWITCH", "M1_END")
  <2>1. "M1_SWITCH" \in Stage /\ "M1_END" \in Stage
    BY DEF Stage
  <2>2. PICK i \in 1 .. Len(line) :
                /\ line[i].at = "M1_SWITCH" /\ line[i] \in Sort!Item
                /\ \A j \in 1 .. Len(line) : line[j].at = "M1_SWITCH" => j <= i
                /\ \E j \in 1 .. Len(line) : line[j].at = "M1_SWITCH" /\ line[j].pass
                /\ LET t == [line EXCEPT ![i] = [line[i] EXCEPT !.at = "M1_END"]]
                   IN  line' = IF Cardinality(DoneOf(t)) > HistoryDepth THEN Sort!Front(t) ELSE t
    BY <1>9, <1>10, <2>1
  <2>3. PICK y : y = [line[i] EXCEPT !.at = "M1_END"]
    OBVIOUS
  <2>4. y \in Sort!Item /\ y.at = "M1_END"
    BY <1>3, <2>1, <2>2, <2>3
  <2>5. PICK t : t = [line EXCEPT ![i] = y]
    OBVIOUS
  <2>6. No(y.at) = No(line[i].at) + 1 /\ No(line[i].at) \in 1 .. 3
    BY <2>2, <2>4, Numbers
  <2>7. SortedSoFar(t) /\ OutOf(t) = OutOf(line)
    BY <1>1, <2>2, <2>4, <2>5, <2>6, OneMoves
  <2>8. line' = t
    <3>1. line' = IF Cardinality(DoneOf(t)) > HistoryDepth THEN Sort!Front(t) ELSE t
      BY <2>2, <2>3, <2>5
    <3>2. Cardinality(DoneOf(t)) \in Nat
      <4>1. t \in Seq(Sort!Item)
        BY <1>1, <2>4, <2>5
      <4>2. PICK m \in 0 .. Len(t) : Begin(t, m)
        BY <2>7, <4>1, DoneAreLast DEF SortedSoFar
      <4> QED BY <4>1, <4>2, OutIs
    <3> QED BY <1>1, <2>7, <3>1, <3>2 DEF SortedSoFar
  <2> QED BY <2>7, <2>8
<1>11. CASE Sort!PassSwitch("M2_SWITCH", "DONE")
  <2>1. "M2_SWITCH" \in Stage /\ "DONE" \in Stage
    BY DEF Stage
  <2>2. PICK i \in 1 .. Len(line) :
                /\ line[i].at = "M2_SWITCH" /\ line[i] \in Sort!Item
                /\ \A j \in 1 .. Len(line) : line[j].at = "M2_SWITCH" => j <= i
                /\ \E j \in 1 .. Len(line) : line[j].at = "M2_SWITCH" /\ line[j].pass
                /\ LET t == [line EXCEPT ![i] = [line[i] EXCEPT !.at = "DONE"]]
                   IN  line' = IF Cardinality(DoneOf(t)) > HistoryDepth THEN Sort!Front(t) ELSE t
    BY <1>9, <1>11, <2>1
  <2>3. line[i].pass
    BY <1>1, <2>2 DEF SortedSoFar, OneAtSwitch
  <2>4. SortedSoFar(line') /\ line[i].plugin \in Stay /\ OutOf(line') = WithOneMore(line[i].plugin)
    BY <1>1, <2>2, <2>3, OneDone DEF WithOneMore
  <2> QED BY <2>4
<1>12. CASE Sort!HandOver
  <2>1. "M1_END" \in Stage /\ "M2" \in Stage
    BY DEF Stage
  <2>2. PICK i \in 1 .. Len(line) :
                /\ i = Sort!Oldest("M1_END") /\ line[i].at = "M1_END" /\ line[i] \in Sort!Item
                /\ \A j \in 1 .. Len(line) : line[j].at = "M1_END" => j <= i
    BY <1>2, <1>12, <2>1 DEF Sort!HandOver
  <2>3. PICK y : y = [line[i] EXCEPT !.at = "M2"]
    OBVIOUS
  <2>4. y \in Sort!Item /\ y.at = "M2"
    BY <1>3, <2>1, <2>2, <2>3
  <2>5. line' = [line EXCEPT ![i] = y]
    BY <1>12, <2>2, <2>3 DEF Sort!HandOver
  <2>6. No(y.at) = No(line[i].at) + 1 /\ No(line[i].at) \in 1 .. 3
    BY <2>2, <2>4, Numbers
  <2> QED BY <1>4, <2>2, <2>4, <2>5, <2>6
<1>13. CASE Sort!Leave
  <2>1. PICK i \in Sort!OnLine : line' = Sort!RemoveAt(line, i)
    BY <1>13 DEF Sort!Leave
  <2>2. i \in 1 .. Len(line) /\ line[i].at # "DONE"
    BY DEF Sort!OnLine
  <2> QED BY <1>1, <2>1, <2>2, OneGoes
<1>14. CASE Sort!RampChanges
  BY <1>1, <1>14 DEF Sort!RampChanges
<1>15. CASE UNCHANGED Sort!vars
  BY <1>1, <1>15 DEF Sort!vars
<1> QED BY <1>5, <1>7, <1>8, <1>10, <1>11, <1>12, <1>13, <1>14, <1>15 DEF Sort!Next

\* The items that are done are what the line has delivered.
LEMMA DeliveredIsOut ==
    /\ Sort!Delivered = OutOf(line)
    /\ Sort!Delivered' = OutOf(line')
<1>1. Sort!At("DONE") = DoneOf(line) /\ Sort!At("DONE")' = DoneOf(line')
  BY DEF Sort!At, DoneOf
<1> QED BY <1>1, SameSize DEF Sort!Delivered, OutOf

\* Nothing is on the line in the beginning.
LEMMA SorterBegins == Sort!Init => SorterInv /\ Sort!Delivered = <<>>
<1> SUFFICES ASSUME Sort!Init PROVE SorterInv /\ Sort!Delivered = <<>>
  OBVIOUS
<1>1. line = <<>> /\ Sort!TypeOK
  BY SorterStarts DEF Sort!Init
<1>2. DoneOf(line) = {} /\ Cardinality({}) = 0 /\ HistoryDepth \in Nat
  BY <1>1, FS_EmptySet, PartsAssumption DEF DoneOf, Sort!SorterAssumption
<1>3. OutOf(line) = <<>>
  BY <1>2 DEF OutOf
<1>4. Cycles(<<>>)
  <2>1. DOMAIN <<>> = {} /\ Hollows(<<>>) = {} /\ 1 \in 1 .. 3
    BY DEF Hollows
  <2> QED BY <2>1 DEF Cycles, Turning
<1>5. InLine(line) /\ OneAtSwitch(line) /\ DoneAreKept(line) /\ Passes(line)
  BY <1>1 DEF InLine, OneAtSwitch, DoneAreKept, Passes
<1>6. Cardinality(DoneOf(line)) <= HistoryDepth
  BY <1>2
<1>7. Cycles(OutOf(line))
  BY <1>3, <1>4
<1>8. SortedSoFar(line)
  BY <1>5, <1>6, <1>7 DEF SortedSoFar
<1>9. Sort!Delivered = <<>>
  BY <1>3, DeliveredIsOut
<1> QED BY <1>1, <1>8, <1>9 DEF SorterInv

\* The line goes on as it should.
LEMMA SorterGoesOn == SorterInv /\ [Sort!Next]_(Sort!vars) => SorterInv'
<1> SUFFICES ASSUME SorterInv, [Sort!Next]_(Sort!vars) PROVE SorterInv'
  OBVIOUS
<1>1. Sort!TypeOK'
  BY SorterTyped DEF SorterInv
<1>2. SortedSoFar(line')
  BY SorterDelivers
<1>3. SortedSoFar(line)' <=> SortedSoFar(line')
  BY DEF SortedSoFar, InLine, OneAtSwitch, DoneAreKept, Passes, Cycles, DoneOf, OutOf
<1> QED BY <1>1, <1>2, <1>3 DEF SorterInv

\* What an item that is delivered makes of what was delivered before is sorted.
LEMMA DeliversSorted ==
    ASSUME SortedSoFar(line'), line' \in Seq(Sort!Item)
    PROVE  Delivery!Sorted(OutOf(line'))
<1>1. PICK m \in 0 .. Len(line') : Begin(line', m)
  BY DoneAreLast DEF SortedSoFar
<1>2. OutOf(line') \in Seq(Stay)
  BY <1>1, OutStays DEF SortedSoFar
<1>3. PICK d : d = OutOf(line')
  OBVIOUS
<1>4. IsFiniteSet(DOMAIN d)
  <2>1. DOMAIN d = 1 .. Len(d) /\ Len(d) \in Nat
    BY <1>2, <1>3
  <2> QED BY <2>1, FS_Interval
<1>5. Cycles(d)
  BY <1>3 DEF SortedSoFar
<1> QED BY <1>3, <1>4, <1>5, CyclesSorted

\* Every step of the line is a delivery, or none.
LEMMA SorterRefines ==
    ASSUME part = "Sorter", part' = part, SorterInv, [Sort!Next]_(Sort!vars)
    PROVE  [Delivery!Next]_(IF part = "Sorter" THEN Sort!Delivered ELSE <<>>)
<1>1. SortedSoFar(line') /\ line' \in Seq(Sort!Item)
  BY SorterDelivers, SorterGoesOn, SorterTypesNext DEF SorterInv
<1>2. Sort!Delivered = OutOf(line) /\ Sort!Delivered' = OutOf(line')
  BY DeliveredIsOut
<1>3. CASE OutOf(line') = OutOf(line)
  BY <1>2, <1>3
<1>4. ASSUME NEW t \in Stay, OutOf(line') = WithOneMore(t) PROVE Delivery!Next
  <2>1. t \in Delivery!Kept \cup Delivery!Range(Delivery!Cycle)
    BY TheCycle DEF Delivery!Kept, Stay
  <2>2. Delivery!Sorted(OutOf(line'))
    BY <1>1, DeliversSorted
  <2>3. Delivery!Deliver(t)
    BY <1>2, <1>4, <2>2 DEF Delivery!Deliver, WithOneMore
  <2> QED BY <2>1, <2>3 DEF Delivery!Next
<1> QED BY <1>3, <1>4, SorterDelivers

-----------------------------------------------------------------------------
(***************************************************************************)
(* The components together: each invariant is about the part it belongs to.*)
(***************************************************************************)
PartsInv == /\ part = "Sensors" => SenseInv /\ Sense!TypeOK
            /\ part = "Actuators" => ActInv
            /\ part = "Converter" => ConvInv
            /\ part = "Calibration" => CalInv
            /\ part = "Scanner" => ScanInv
            /\ part = "Sorter" => SorterInv

\* The chosen component begins as it does by itself, and so does the tracker.
LEMMA ChosenBegins ==
    PartsInit => /\ Init
                 /\ part = "Sensors" => Sense!Init
                 /\ part = "Actuators" => Act!Init
                 /\ part = "Converter" => Conv!Init
                 /\ part = "Calibration" => Cal!Init
                 /\ part = "Scanner" => Scan!Init
                 /\ part = "Sorter" => Sort!Init
BY DEF PartsInit, Init

\* What a step of the parts is to the tracker and to the chosen component.
LEMMA ChosenGoesOn ==
    [PartsNext]_partVars => /\ part' = part
                            /\ [Next]_vars
                            /\ part = "Sensors" => [Sense!Next]_(Sense!vars)
                            /\ part = "Actuators" => [Act!Next]_(Act!vars)
                            /\ part = "Converter" => [Conv!Next]_(Conv!vars)
                            /\ part = "Calibration" => [Cal!Next]_(Cal!vars)
                            /\ part = "Scanner" => [Scan!Next]_(Scan!vars)
                            /\ part = "Sorter" => [Sort!Next]_(Sort!vars)
<1>1. CASE UNCHANGED partVars
  BY <1>1 DEF partVars, sensors, actuators, converter, calibration, scanner, sorter, vars,
              Sense!vars, Sense!hw, Act!vars, Act!light, Conv!vars, Cal!vars,
              Cal!object, Cal!belt, Scan!vars, Scan!scanner,
              Sort!vars
<1>2. CASE PartsNext
  <2>1. UNCHANGED net => UNCHANGED vars
    BY DEF vars
  <2> QED BY <1>2, <2>1 DEF PartsNext, TrackerStep, SensorsStep, ActuatorsStep, ConverterStep,
                            CalibrationStep, ScannerStep, SorterStep
<1> QED BY <1>1, <1>2

\* Each component keeps to its invariant while it is the part.
LEMMA PartsKeepSound == PartsSpec => []PartsInv
<1>1. PartsInit => PartsInv
  <2> SUFFICES ASSUME PartsInit PROVE PartsInv OBVIOUS
  <2>1. part = "Sensors" => SenseInv /\ Sense!TypeOK
    BY ChosenBegins, SensorsStart, SensorsBegin
  <2>2. part = "Actuators" => ActInv
    BY ChosenBegins, ActuatorsStart
  <2>3. part = "Converter" => ConvInv
    BY ChosenBegins, ConverterStarts
  <2>4. part = "Calibration" => CalInv
    BY ChosenBegins, CalibrationStarts
  <2>5. part = "Scanner" => ScanInv
    BY ChosenBegins, ScannerStarts
  <2>6. part = "Sorter" => SorterInv
    BY ChosenBegins, SorterBegins
  <2> QED BY <2>1, <2>2, <2>3, <2>4, <2>5, <2>6 DEF PartsInv
<1>2. PartsInv /\ [PartsNext]_partVars => PartsInv'
  <2> SUFFICES ASSUME PartsInv, [PartsNext]_partVars PROVE PartsInv' OBVIOUS
  <2>1. part' = part
    BY ChosenGoesOn
  <2>2. part = "Sensors" => SenseInv' /\ Sense!TypeOK'
    BY ChosenGoesOn, SensorsGoOn, SensorsTyped DEF PartsInv
  <2>3. part = "Actuators" => ActInv'
    BY ChosenGoesOn, ActuatorsGoOn DEF PartsInv
  <2>4. part = "Converter" => ConvInv'
    BY ChosenGoesOn, ConverterGoesOn DEF PartsInv
  <2>5. part = "Calibration" => CalInv'
    BY ChosenGoesOn, CalibrationGoesOn DEF PartsInv
  <2>6. part = "Scanner" => ScanInv'
    BY ChosenGoesOn, ScannerGoesOn DEF PartsInv
  <2>7. part = "Sorter" => SorterInv'
    BY ChosenGoesOn, SorterGoesOn DEF PartsInv
  <2> QED BY <2>1, <2>2, <2>3, <2>4, <2>5, <2>6, <2>7 DEF PartsInv
<1> QED BY <1>1, <1>2, PTL DEF PartsSpec

\* What the components do is nothing to the item tracker.
LEMMA TrackerAmongParts == PartsSpec => Spec
BY ChosenBegins, ChosenGoesOn, PTL DEF PartsSpec, Spec

\* Every variable of every component keeps to its type, for all values of the
\* constants that the assumptions allow.
THEOREM TypesAlwaysOK == PartsSpec => []TypesOK
<1>1. PartsInv /\ TypeOK => TypesOK
  BY ActuatorsEnd, ConverterEnds, CalibrationEnds, ScannerEnds DEF PartsInv, TypesOK, SorterInv
<1> QED BY <1>1, PartsKeepSound, TrackerAmongParts, TypeCorrect, PTL

(***************************************************************************)
(* Whatever the pins do and whenever the interrupt thread runs, what the   *)
(* handler knows of every subscribed pin ends up as what the pin is        *)
(* (physical.cpp, channel.cpp), for every set of pins and queue length.    *)
(***************************************************************************)
THEOREM NoEdgeIsLost == PartsSpec => []NoEdgeLost
<1>1. PartsInv => NoEdgeLost BY SensorsEnd DEF PartsInv, NoEdgeLost
<1> QED BY <1>1, PartsKeepSound, PTL

\* Once all pulses are through, the lights and the belt are as last called for,
\* although a flashing light is switched and the belt started in calibration on
\* threads of their own; of the belt's direction it says nothing from when that
\* start has overlapped a call of the handler's until the next right(), left()
\* or stop().
THEOREM OutputsAlwaysFollow == PartsSpec => []OutputsFollowCalls
<1>1. PartsInv => OutputsFollowCalls BY ActuatorsEnd DEF PartsInv, OutputsFollowCalls
<1> QED BY <1>1, PartsKeepSound, PTL

\* The service routine of the converter reads no empty FIFO, and none before the
\* step is configured, whatever an earlier run has left in the registers.
THEOREM OnlySamplesAreRead == PartsSpec => []ReadsOnlySamples
<1>1. PartsInv => ReadsOnlySamples BY ConverterEnds DEF PartsInv, ReadsOnlySamples
<1> QED BY <1>1, PartsKeepSound, PTL

\* What is saved was measured in one pass, and after a calibration the belt stands.
THEOREM CalibrationAlwaysSound == PartsSpec => []CalibrationIsSound
<1>1. PartsInv => CalibrationIsSound BY CalibrationEnds DEF PartsInv, CalibrationIsSound
<1> QED BY <1>1, PartsKeepSound, PTL

(***************************************************************************)
(* Refinement: whatever the two modules make of an item, whichever items   *)
(* are lost, taken for something else or sent on because a ramp is full,   *)
(* those that leave module 2 are of types that are to be kept, and the     *)
(* hollow ones follow the cycle (items.h, sortable.h, master.cpp), however *)
(* many items the line and the plugins' history hold.                      *)
(***************************************************************************)
THEOREM AlwaysKeptInOrder == PartsSpec => KeptInOrder
<1>1. PartsInit => Delivery!Init
  <2> SUFFICES ASSUME PartsInit PROVE Delivery!Init OBVIOUS
  <2>1. part = "Sorter" => Sort!Delivered = <<>>
    BY ChosenBegins, SorterBegins
  <2> QED BY <2>1 DEF Delivery!Init
<1>2. PartsInv /\ [PartsNext]_partVars
        => [Delivery!Next]_(IF part = "Sorter" THEN Sort!Delivered ELSE <<>>)
  <2> SUFFICES ASSUME PartsInv, [PartsNext]_partVars
               PROVE  [Delivery!Next]_(IF part = "Sorter" THEN Sort!Delivered ELSE <<>>)
    OBVIOUS
  <2>1. part' = part
    BY ChosenGoesOn
  <2>2. CASE part = "Sorter"
    BY <2>1, <2>2, ChosenGoesOn, SorterRefines DEF PartsInv
  <2>3. CASE part # "Sorter"
    BY <2>1, <2>3
  <2> QED BY <2>2, <2>3
<1> QED BY <1>1, <1>2, PartsKeepSound, PTL DEF PartsSpec, KeptInOrder, Delivery!Spec
=============================================================================
