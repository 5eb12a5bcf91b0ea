------------------------------ MODULE Actuators ------------------------------
(***************************************************************************)
(* The outputs: the calls of hal::Lights, hal::Motor and hal::Switch, each *)
(* a few steps of the handler's thread, the delayed start of the belt in   *)
(* calibration, which has a thread of its own, the callback that flashes a *)
(* light on the timer's thread, and the HAL thread, which sets and resets  *)
(* the bits of GPIO 1.  A pulse has the priority of the thread that sends  *)
(* it, and a channel hands out those of higher priority first; the timer's *)
(* thread gives itself priority 250, the delayed start has the handler's.  *)
(***************************************************************************)
EXTENDS Naturals, Sequences

CONSTANTS Calls,      \* the calls that managers make
          MaxPulses   \* bound: pulses of each priority in the channel

ActuatorsAssumption ==
    /\ Calls \subseteq { "turnOn", "turnOff", "flash", "start", "stop", "right", "left",
                         "slow", "fast", "enable", "disable", "open", "close" }
    /\ MaxPulses \in Nat

VARIABLES out,        \* bits of GPIO 1 that are set
          channel,    \* pulses by the priority of the thread that sent them
          todo,       \* steps that are left of the handler's call
          delayed,    \* steps that are left of the delayed start
          torn,       \* the delayed start and a call for the belt have overlapped
          mState,     \* SingleLight::mState
          armed,      \* SingleLight::mTimer
          callback,   \* what the flashing callback is about to do, or "idle"
          motor       \* mRunning, mFast, mEnabled and mRight

light == <<mState, armed, callback>>
vars == <<out, channel, todo, delayed, torn, light, motor>>

Init == /\ out = {}
        /\ channel = [handler |-> <<>>, timer |-> <<>>]
        /\ todo = <<>> /\ delayed = <<>> /\ torn = FALSE
        /\ mState = "OFF" /\ armed = FALSE /\ callback = "idle"
        /\ motor = [running |-> FALSE, fast |-> TRUE, enabled |-> TRUE, right |-> TRUE]

-----------------------------------------------------------------------------
Set(bit)     == [do |-> "set", bits |-> {bit}]
Reset(bits)  == [do |-> "reset", bits |-> bits]
Become(s)    == [do |-> "mState", to |-> s]
RemoveTimer  == [do |-> "removeTimer"]
Register     == [do |-> "register"]
Note(f, v)   == [do |-> "motor", field |-> f, value |-> v]
SetDirection == [do |-> "direction"]

\* Mutant of TurnOff: the timer is removed when the light is off.
TurnOffFirst == <<Reset({"LIGHT"}), Become("OFF"), RemoveTimer>>

TurnOff == <<RemoveTimer, Become("OFF"), Reset({"LIGHT"})>>
TurnOn  == <<RemoveTimer, Become("ON"), Set("LIGHT")>>
Flash   == <<RemoveTimer, Set("LIGHT"), Become("FLASHING_ON"), Register>>

\* start() reads mRight; right() and left() set the bit of a direction whether
\* the belt runs or not.
Starting == <<SetDirection, Note("running", TRUE)>>
Right    == <<Reset({"LEFT"}), Set("RIGHT"), Note("right", TRUE)>>

BeltCalls == {"start", "stop", "right", "left"}

Steps(call) ==
    CASE call = "turnOn"  -> TurnOn
      [] call = "turnOff" -> TurnOff
      [] call = "flash"   -> Flash
      [] call = "start"   -> Starting
      [] call = "stop"    -> <<Reset({"LEFT", "RIGHT"}), Note("running", FALSE)>>
      [] call = "right"   -> Right
      [] call = "left"    -> <<Reset({"RIGHT"}), Set("LEFT"), Note("right", FALSE)>>
      [] call = "slow"    -> <<Set("SLOW"), Note("fast", FALSE)>>
      [] call = "fast"    -> <<Reset({"SLOW"}), Note("fast", TRUE)>>
      [] call = "enable"  -> <<Reset({"DISABLE"}), Note("enabled", TRUE)>>
      [] call = "disable" -> <<Set("DISABLE"), Note("enabled", FALSE)>>
      [] call = "open"    -> <<Set("SWITCH")>>
      [] call = "close"   -> <<Reset({"SWITCH"})>>

\* The steps that touch what the delayed start touches.
OfBelt(s) == \/ s.do \in {"set", "reset"} /\ s.bits \cap {"LEFT", "RIGHT"} # {}
             \/ s.do = "motor" /\ s.field \in {"running", "right"}
             \/ s.do = "direction"

InBeltCall == todo # <<>> /\ OfBelt(Head(todo))

Send(thread, p) == /\ Len(channel[thread]) < MaxPulses
                   /\ channel' = [channel EXCEPT ![thread] = Append(@, p)]

\* What two overlapping calls have left is made good by any later one but
\* start(), which leaves the direction as it finds it.
Call == /\ todo = <<>>
        /\ \E call \in Calls :
              /\ todo' = Steps(call)
              /\ torn' = IF call \in BeltCalls
                           THEN delayed # <<>> \/ (torn /\ call = "start")
                           ELSE torn
        /\ UNCHANGED <<out, channel, delayed, light, motor>>

\* The callback of STATE_0: right() and start().  It is registered once at a
\* time, and leave() does not cancel it.
DelayedStart == /\ delayed = <<>>
                /\ delayed' = Right \o Starting
                /\ torn' = InBeltCall
                /\ UNCHANGED <<out, channel, todo, light, motor>>

\* What is left after the first step: start() reads mRight, and then sends.
Rest(steps) ==
    IF Head(steps).do = "direction"
      THEN <<Set(IF motor.right THEN "RIGHT" ELSE "LEFT")>> \o Tail(steps)
      ELSE Tail(steps)

Output(s) ==
    \/ /\ s.do \in {"set", "reset"}
       /\ Send("handler", s)
       /\ UNCHANGED motor
    \/ /\ s.do = "motor" /\ motor' = [motor EXCEPT ![s.field] = s.value]
       /\ UNCHANGED channel
    \/ /\ s.do = "direction"
       /\ UNCHANGED <<channel, motor>>

\* removeTimer() waits for the lock that the timer's thread holds while it
\* runs a callback.
OfLight(s) ==
    \/ /\ s.do = "mState" /\ mState' = s.to
       /\ UNCHANGED <<armed, callback>>
    \/ /\ s.do = "removeTimer" /\ callback = "idle" /\ armed' = FALSE
       /\ UNCHANGED <<mState, callback>>
    \/ /\ s.do = "register" /\ armed' = TRUE
       /\ UNCHANGED <<mState, callback>>

Step ==
    /\ todo # <<>> /\ todo' = Rest(todo)
    /\ \/ Output(Head(todo)) /\ UNCHANGED light
       \/ OfLight(Head(todo)) /\ UNCHANGED <<channel, motor>>
    /\ UNCHANGED <<out, delayed, torn>>

StepOfDelayed ==
    /\ delayed # <<>> /\ delayed' = Rest(delayed)
    /\ Output(Head(delayed))
    /\ UNCHANGED <<out, todo, torn, light>>

-----------------------------------------------------------------------------
Expire == /\ armed /\ callback = "idle"
          /\ callback' = mState
          /\ UNCHANGED <<out, channel, todo, delayed, torn, mState, armed, motor>>

Toggle ==
    /\ callback # "idle" /\ callback' = "idle"
    /\ \/ /\ callback = "FLASHING_ON" /\ mState' = "FLASHING_OFF"
          /\ Send("timer", Reset({"LIGHT"}))
       \/ /\ callback = "FLASHING_OFF" /\ mState' = "FLASHING_ON"
          /\ Send("timer", Set("LIGHT"))
       \/ /\ callback \in {"ON", "OFF"}
          /\ UNCHANGED <<channel, mState>>
    /\ UNCHANGED <<out, todo, delayed, torn, armed, motor>>

First == IF channel.timer # <<>> THEN "timer" ELSE "handler"

HALThread ==
    /\ channel[First] # <<>>
    /\ LET p == Head(channel[First])
       IN  out' = IF p.do = "set" THEN out \cup p.bits ELSE out \ p.bits
    /\ channel' = [channel EXCEPT ![First] = Tail(@)]
    /\ UNCHANGED <<todo, delayed, torn, light, motor>>

Next == Call \/ Step \/ DelayedStart \/ StepOfDelayed \/ Expire \/ Toggle \/ HALThread

Spec == Init /\ [][Next]_vars

-----------------------------------------------------------------------------
TypeOK == /\ out \subseteq {"LIGHT", "LEFT", "RIGHT", "SLOW", "DISABLE", "SWITCH"}
          /\ \A t \in {"handler", "timer"} : Len(channel[t]) <= MaxPulses
          /\ Len(todo) <= 4 /\ Len(delayed) <= 5 /\ torn \in BOOLEAN
          /\ mState \in {"ON", "OFF", "FLASHING_ON", "FLASHING_OFF"} /\ armed \in BOOLEAN
          /\ callback \in {"idle", "ON", "OFF", "FLASHING_ON", "FLASHING_OFF"}
          /\ motor \in [{"running", "fast", "enabled", "right"} -> BOOLEAN]

Drained == /\ todo = <<>> /\ delayed = <<>> /\ callback = "idle"
           /\ \A t \in DOMAIN channel : channel[t] = <<>>

\* Once the pulses are through, a light that was turned on or off is, however
\* the flashing of before interleaved with the call and its pulses overtook
\* those of the handler, and the speed and the brake are what the object says.
\* The bits of the direction are what it says and never both, on whichever
\* thread the belt was driven last, unless the delayed start has overlapped a
\* call of the handler's for the belt and nothing but start() came after.
OutputsFollowCalls ==
    Drained =>
        /\ mState = "ON" => "LIGHT" \in out
        /\ mState = "OFF" => "LIGHT" \notin out
        /\ motor.fast = ("SLOW" \notin out)
        /\ motor.enabled = ("DISABLE" \notin out)
        /\ ~torn => /\ ~({"LEFT", "RIGHT"} \subseteq out)
                    /\ motor.running => (IF motor.right THEN "RIGHT" ELSE "LEFT") \in out
=============================================================================
