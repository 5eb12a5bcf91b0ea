--------------------------- MODULE ServicesProofs ---------------------------
(***************************************************************************)
(* Proofs about the services, one section each: the timers, the connection *)
(* of the two modules and the analyser.  A section has the inductive       *)
(* invariant of its service, the lemmas that it holds in the beginning and *)
(* is kept by every step, and the theorem about the service's own          *)
(* specification.  The last section puts them together.  (The BSP link has *)
(* a module of its own, BspLinkProofs.)                                    *)
(***************************************************************************)
EXTENDS Services, TLAPS

-----------------------------------------------------------------------------
(***************************************************************************)
(* The timers, for every number of them.  A cancelled timer stays quiet.   *)
(* The lock is what it rests on: another thread comes in between two       *)
(* updates only, when no callback of a Holder runs and no timer waits in   *)
(* mQueue, so what it cancels is in the map, where shutdown() stops it, or *)
(* gone.                                                                   *)
(***************************************************************************)
ATimer == [kind : {"none", "Holder", "Async"}, at : {"map", "queue", "gone"},
           remaining : 0..2, period : 0..1, paused : BOOLEAN, active : BOOLEAN,
           running : BOOLEAN, pulses : 0..MaxPulses, stop : BOOLEAN, busy : BOOLEAN]

\* What holds of each timer, whoever has cancelled it: an async timer that is
\* over or gone, or has been told to stop, does not start a callback.
Proper(t) == t.kind = "Async" /\ (t.stop \/ ~t.active \/ t.at = "gone") => ~t.running

\* A cancelled timer: it is not in the queue, and has been shut down.
Stopped(t) == /\ t.at # "queue"
              /\ t.kind = "Holder" /\ t.at = "map" => ~t.active
              /\ t.kind = "Async" => ~t.running

TimersTyping == /\ nextID \in 1..(MaxTimers + 1)
                /\ timers \in [Time!Id -> ATimer]
                /\ cancelled \subseteq 1..(nextID - 1)
                /\ visited \subseteq Time!Id
                /\ updating \in BOOLEAN

\* A callback runs within an update(), and not that of a cancelled timer.
CallbackRuns == executing # 0 =>
                   /\ executing \in Time!Id \ cancelled /\ executing < nextID
                   /\ updating
                   /\ timers[executing].kind = "Holder"

TimersInv == /\ TimersTyping
             /\ CallbackRuns
             /\ \A i \in Time!Id : Proper(timers[i])
             /\ \A i \in Time!Id \cap cancelled : Stopped(timers[i])
             /\ \A i \in Time!Id : timers[i].at = "queue" => updating
             /\ \A i \in Time!Id : i >= nextID => timers[i].at = "gone"

-----------------------------------------------------------------------------
(***************************************************************************)
(* What the operations on one timer preserve.                              *)
(***************************************************************************)
LEMMA TimerBounds == MaxTimers \in Nat \ {0} /\ MaxPulses \in Nat \ {0}
BY ServicesAssumption DEF Time!TimersAssumption

\* A new timer has its type.
LEMMA NewTimer ==
    ASSUME NEW kind \in {"Holder", "Async"}, NEW r \in 0..1, NEW p \in 0..1,
           NEW place \in {"map", "queue"}
    PROVE  Time!New(kind, r, p, place) \in ATimer /\ Proper(Time!New(kind, r, p, place))
           /\ Time!New(kind, r, p, place).at = place
<1>1. r \in 0..2 /\ p \in 0..1 /\ 0 \in 0..MaxPulses
  BY TimerBounds
<1> QED BY <1>1 DEF Time!New, ATimer, Proper

\* shutdown() stops a timer wherever it is, except one that waits in
\* mQueue.
LEMMA ShutDownStops ==
    ASSUME NEW t \in ATimer, Proper(t)
    PROVE  /\ Time!ShutDown(t) \in ATimer /\ Proper(Time!ShutDown(t))
           /\ Time!ShutDown(t).at = t.at /\ Time!ShutDown(t).kind = t.kind
           /\ t.at # "queue" => Stopped(Time!ShutDown(t))
BY DEF ATimer, Proper, Stopped, Time!ShutDown, Time!Done

\* What update() does to the timer it is at.
Kept(t, u) == /\ u \in ATimer /\ Proper(u)
              /\ u.kind = t.kind /\ u.at \in {t.at, "gone"}
              /\ Stopped(t) => Stopped(u)

\* A timer keeps what was said of it when the map erases it,
LEMMA EraseKeeps == ASSUME NEW t \in ATimer, Proper(t), Time!Done(t) PROVE Kept(t, Time!Erase(t))
BY DEF ATimer, Kept, Proper, Stopped, Time!Erase, Time!Done

\* when a pulse counts it down,
LEMMA CountDownKeeps ==
    ASSUME NEW t \in ATimer, Proper(t), t.remaining > 0
    PROVE  Kept(t, Time!CountDown(t))
BY DEF ATimer, Kept, Proper, Stopped, Time!CountDown

\* when it starts anew,
LEMMA RewoundKeeps == ASSUME NEW t \in ATimer, Proper(t) PROVE Kept(t, Time!Rewound(t))
<1>1. CASE t.period > 0
  BY <1>1 DEF ATimer, Kept, Proper, Stopped, Time!Rewound
<1>2. CASE ~(t.period > 0) /\ t.kind = "Holder"
  BY <1>2 DEF ATimer, Kept, Proper, Stopped, Time!Rewound
<1>3. CASE ~(t.period > 0) /\ t.kind # "Holder"
  BY <1>3 DEF ATimer, Kept, Proper, Stopped, Time!Rewound
<1> QED BY <1>1, <1>2, <1>3

\* when an asynchronous one is sent its pulse,
LEMMA PulsedKeeps == ASSUME NEW t \in ATimer, Proper(t) PROVE Kept(t, Time!Pulsed(t))
<1> DEFINE r == Time!Rewound(t)
           n == IF r.pulses = MaxPulses THEN r.pulses ELSE r.pulses + 1
<1>1. Kept(t, r) BY RewoundKeeps
<1>2. n \in 0..MaxPulses BY <1>1, TimerBounds DEF Kept, ATimer
<1>3. Time!Pulsed(t) = [r EXCEPT !.pulses = n] BY DEF Time!Pulsed
<1> HIDE DEF r, n
<1> QED BY <1>1, <1>2, <1>3 DEF ATimer, Kept, Proper, Stopped

\* and when its thread receives it.
LEMMA ReceivedKeeps ==
    ASSUME NEW t \in ATimer, Proper(t), t.pulses > 0
    PROVE  Kept(t, [Time!Received(t) EXCEPT !.busy = TRUE])
<1> DEFINE r == Time!Received(t)
<1> DEFINE n == t.pulses - 1
<1>0. n \in 0..MaxPulses BY TimerBounds DEF ATimer
<1>1. Kept(t, r)
  <2>1. r = [t EXCEPT !.pulses = n] BY DEF Time!Received
  <2> HIDE DEF r, n
  <2> QED BY <1>0, <2>1 DEF ATimer, Kept, Proper, Stopped
<1> SUFFICES Kept(t, [r EXCEPT !.busy = TRUE]) OBVIOUS
<1> HIDE DEF r
<1> QED BY <1>1 DEF ATimer, Kept, Proper, Stopped

-----------------------------------------------------------------------------
(***************************************************************************)
(* A step that replaces one timer by one of the same kind in its place.    *)
(***************************************************************************)
LEMMA Replaced ==
    ASSUME TimersInv, NEW i \in Time!Id, NEW u, Kept(timers[i], u),
           timers' = [timers EXCEPT ![i] = u],
           UNCHANGED <<updating, nextID, cancelled>>,
           executing' \in {0, executing}, visited' \subseteq Time!Id
    PROVE  TimersInv'
<1>1. TimersTyping' BY DEF TimersInv, TimersTyping, Kept
<1>2. \A j \in Time!Id : timers'[j] = IF j = i THEN u ELSE timers[j]
  BY DEF TimersInv, TimersTyping
<1>3. \A j \in Time!Id : Proper(timers[j])' /\ ((j \in cancelled)' => Stopped(timers[j])')
  BY <1>2 DEF TimersInv, Kept, Proper, Stopped
<1>4. \A j \in Time!Id : timers'[j].kind = timers[j].kind /\ timers'[j].at \in {timers[j].at, "gone"}
  BY <1>2 DEF Kept
<1>5. CallbackRuns'
  <2> SUFFICES ASSUME executing' # 0 PROVE CallbackRuns'
    BY DEF CallbackRuns
  <2>1. executing' = executing /\ executing # 0
    OBVIOUS
  <2> QED BY <2>1, <1>4 DEF TimersInv, CallbackRuns
<1>6. \A j \in Time!Id : timers'[j].at = "queue" => updating'
  BY <1>4 DEF TimersInv
<1>7. \A j \in Time!Id : j >= nextID' => timers'[j].at = "gone"
  BY <1>4 DEF TimersInv
<1> QED BY <1>1, <1>3, <1>5, <1>6, <1>7 DEF TimersInv

(***************************************************************************)
(* A step that adds a timer.                                               *)
(***************************************************************************)
LEMMA Added ==
    ASSUME TimersInv, nextID <= MaxTimers,
           NEW t \in ATimer, Proper(t), t.at = "queue" => updating,
           timers' = [timers EXCEPT ![nextID] = t],
           nextID' = nextID + 1,
           UNCHANGED <<visited, updating, executing, cancelled>>
    PROVE  TimersInv'
<1>1. nextID \in Time!Id /\ nextID \notin cancelled
  BY DEF TimersInv, TimersTyping, Time!Id
<1>2. \A i \in Time!Id : timers'[i] = IF i = nextID THEN t ELSE timers[i]
  BY DEF TimersInv, TimersTyping
<1>3. TimersTyping'
  <2>1. timers' \in [Time!Id -> ATimer] BY <1>1 DEF TimersInv, TimersTyping
  <2>2. nextID' \in 1..(MaxTimers + 1) /\ 1..(nextID - 1) \subseteq 1..(nextID' - 1)
    BY TimerBounds DEF TimersInv, TimersTyping
  <2>3. updating' \in BOOLEAN BY Zenon DEF TimersInv, TimersTyping
  <2> QED BY <2>1, <2>2, <2>3 DEF TimersInv, TimersTyping
<1>4. CallbackRuns'
  <2> SUFFICES ASSUME executing # 0 PROVE CallbackRuns'
    BY DEF CallbackRuns
  <2>1. /\ executing \in Time!Id \ cancelled /\ executing < nextID
        /\ timers[executing].kind = "Holder" /\ updating
    BY DEF TimersInv, CallbackRuns
  <2>2. executing # nextID /\ executing < nextID + 1
    BY <2>1 DEF TimersInv, TimersTyping, Time!Id
  <2>3. timers'[executing] = timers[executing]
    BY <2>1, <2>2, <1>2
  <2> QED BY <2>1, <2>2, <2>3 DEF CallbackRuns
<1>5. \A i \in Time!Id : Proper(timers[i])'
  BY <1>2 DEF TimersInv, Proper
<1>6. \A i \in Time!Id \cap cancelled : Stopped(timers[i])'
  BY <1>1, <1>2 DEF TimersInv, Stopped
<1>7. \A i \in Time!Id : timers'[i].at = "queue" => updating'
  BY <1>2 DEF TimersInv
<1>8. \A i \in Time!Id : i >= nextID' => timers'[i].at = "gone"
  BY <1>2 DEF TimersInv, TimersTyping, Time!Id
<1> QED BY <1>3, <1>4, <1>5, <1>6, <1>7, <1>8 DEF TimersInv

\* The timers begin with the invariant,
LEMMA TimersStart == Time!Init => TimersInv
<1> SUFFICES ASSUME Time!Init PROVE TimersInv
  OBVIOUS
<1>1. Time!Unused \in ATimer /\ Proper(Time!Unused) /\ Time!Unused.at = "gone"
  BY TimerBounds DEF Time!Unused, ATimer, Proper
<1>2. timers = [i \in Time!Id |-> Time!Unused] /\ nextID = 1 /\ cancelled = {} /\ executing = 0
      /\ updating = FALSE
  BY DEF Time!Init
<1>3. TimersTyping
  <2>1. timers \in [Time!Id -> ATimer] BY <1>1, <1>2
  <2>2. nextID \in 1..(MaxTimers + 1) BY <1>2, TimerBounds
  <2>3. cancelled \subseteq 1..(nextID - 1) BY <1>2
  <2>4. updating \in BOOLEAN BY <1>2, Zenon
  <2>5. visited \subseteq Time!Id BY DEF Time!Init
  <2> QED BY <2>1, <2>2, <2>3, <2>4, <2>5 DEF TimersTyping
<1> QED BY <1>1, <1>2, <1>3 DEF TimersInv, CallbackRuns

\* and keep it, whatever the threads do.
LEMMA TimersGoOn == TimersInv /\ [Time!Next]_(Time!vars) => TimersInv'
<1> SUFFICES ASSUME TimersInv, [Time!Next]_(Time!vars) PROVE TimersInv'
  OBVIOUS
<1> USE DEF TimersInv
<1>0. visited' \subseteq Time!Id
  BY DEF Time!Next, Time!vars, Time!Register, Time!Unregister, Time!PauseOrResume, Time!Tick,
         Time!Visit, Time!CallbackRegisters, Time!CallbackUnregisters, Time!CallbackReturns,
         Time!EndUpdate, Time!AsyncThread, TimersTyping
<1>1. CASE Time!Register
  <2>1. PICK kind \in {"Holder", "Async"}, r \in 0..1, p \in 0..1 :
           timers' = [timers EXCEPT ![nextID] = Time!New(kind, r, p, "map")]
    BY <1>1 DEF Time!Register
  <2> DEFINE t == Time!New(kind, r, p, "map")
  <2>2. t \in ATimer /\ Proper(t) /\ t.at = "map"
    BY NewTimer
  <2>3. /\ nextID <= MaxTimers /\ nextID' = nextID + 1
        /\ UNCHANGED <<visited, updating, executing, cancelled>>
    BY <1>1 DEF Time!Register
  <2>4. t.at = "queue" => updating
    BY <2>2
  <2>5. timers' = [timers EXCEPT ![nextID] = t]
    BY <2>1
  <2> HIDE DEF t
  <2> QED BY <2>2, <2>3, <2>4, <2>5, Added
<1>2. CASE Time!Unregister
  <2>1. /\ executing = 0 /\ ~updating
        /\ UNCHANGED <<visited, updating, executing, nextID>>
    BY <1>2 DEF Time!Unregister, Time!Locked, CallbackRuns
  <2>2. PICK i \in 1..(nextID - 1) \ cancelled :
           /\ cancelled' = cancelled \cup {i}
           /\ timers' = IF Time!Registered(i) THEN [timers EXCEPT ![i] = Time!ShutDown(@)] ELSE timers
    BY <1>2 DEF Time!Unregister
  <2>3. CASE i \in Time!Id /\ Time!Registered(i)
    <3> DEFINE u == Time!ShutDown(timers[i])
    <3>1. /\ u \in ATimer /\ Proper(u) /\ Stopped(u)
          /\ u.at = timers[i].at
      BY <2>3, ShutDownStops DEF TimersTyping, Time!Registered
    <3>2. timers' = [timers EXCEPT ![i] = u]
      BY <2>2, <2>3
    <3> HIDE DEF u
    <3>3. \A j \in Time!Id : timers'[j] = IF j = i THEN u ELSE timers[j]
      BY <3>2 DEF TimersTyping
    <3>4. TimersTyping'
      BY <2>1, <2>2, <3>1, <3>2 DEF TimersTyping
    <3>5. \A j \in Time!Id : Proper(timers[j])'
      BY <3>1, <3>3 DEF Proper
    <3>6. \A j \in Time!Id \cap (cancelled \cup {i}) : Stopped(timers[j])'
      BY <3>1, <3>3 DEF Stopped
    <3>7. \A j \in Time!Id : timers'[j].at = timers[j].at
      BY <3>1, <3>3
    <3> QED BY <2>1, <2>2, <3>4, <3>5, <3>6, <3>7 DEF CallbackRuns
  <2>4. CASE i \in Time!Id /\ ~Time!Registered(i)
    <3>1. timers' = timers
      BY <2>2, <2>4
    <3>2. timers[i].at = "gone"
      BY <2>1, <2>4 DEF Time!Registered, TimersTyping, ATimer
    <3>3. Stopped(timers[i])
      BY <3>2, <2>4 DEF Stopped, Proper
    <3> QED BY <2>1, <2>2, <3>1, <3>3 DEF CallbackRuns, TimersTyping, Stopped, Proper
  <2> QED BY <2>3, <2>4, TimerBounds DEF TimersTyping, Time!Id
<1>3. CASE Time!PauseOrResume
  <2>1. PICK i \in Time!Id : timers' = [timers EXCEPT ![i].paused = ~@]
    BY <1>3 DEF Time!PauseOrResume
  <2> DEFINE u == [timers[i] EXCEPT !.paused = ~@]
  <2>2. Kept(timers[i], u)
    BY DEF TimersTyping, ATimer, Kept, Proper, Stopped
  <2>3. timers' = [timers EXCEPT ![i] = u]
    BY <2>1
  <2> HIDE DEF u
  <2> QED BY <1>3, <2>2, <2>3, <1>0, Replaced DEF Time!PauseOrResume
<1>4. CASE Time!Tick
  BY <1>0, <1>4 DEF Time!Tick, TimersTyping, CallbackRuns, Proper, Stopped
<1>5. CASE Time!Visit
  <2>1. PICK i \in Time!Id :
           LET t == timers[i]
           IN  /\ Time!Earliest(i)
               /\ \/ Time!Done(t) /\ timers' = [timers EXCEPT ![i] = Time!Erase(t)] /\ UNCHANGED executing
                  \/ UNCHANGED <<timers, executing>>
                  \/ /\ t.remaining > 0
                     /\ timers' = [timers EXCEPT ![i] = Time!CountDown(t)] /\ UNCHANGED executing
                  \/ timers' = [timers EXCEPT ![i] = Time!Pulsed(t)] /\ UNCHANGED executing
                  \/ /\ Time!Ticks(t) /\ t.kind = "Holder"
                     /\ executing' = i /\ UNCHANGED timers
    BY <1>5 DEF Time!Visit
  <2>2. executing = 0 /\ updating /\ UNCHANGED <<updating, nextID, cancelled>>
    BY <1>5 DEF Time!Visit, TimersTyping
  <2>3. timers[i] \in ATimer /\ Proper(timers[i]) /\ timers[i].at = "map"
    BY <2>1 DEF TimersTyping, Time!Earliest, Time!Left, Time!Registered
  <2>4. CASE Time!Done(timers[i]) /\ timers' = [timers EXCEPT ![i] = Time!Erase(timers[i])] /\ UNCHANGED executing
    BY <2>2, <2>3, <2>4, EraseKeeps, <1>0, Replaced
  <2>5. CASE UNCHANGED <<timers, executing>>
    BY <1>0, <2>2, <2>5 DEF TimersTyping, CallbackRuns, Proper, Stopped
  <2>6. CASE timers[i].remaining > 0 /\ timers' = [timers EXCEPT ![i] = Time!CountDown(timers[i])] /\ UNCHANGED executing
    BY <2>2, <2>3, <2>6, CountDownKeeps, <1>0, Replaced
  <2>7. CASE timers' = [timers EXCEPT ![i] = Time!Pulsed(timers[i])] /\ UNCHANGED executing
    BY <2>2, <2>3, <2>7, PulsedKeeps, <1>0, Replaced
  <2>8. CASE Time!Ticks(timers[i]) /\ timers[i].kind = "Holder" /\ executing' = i /\ UNCHANGED timers
    <3>1. i \notin cancelled
      BY <2>3, <2>8 DEF Time!Ticks, Time!Done, Stopped
    <3>2. i < nextID
      BY <2>3 DEF Time!Id, TimersTyping
    <3> QED BY <1>0, <2>2, <2>8, <3>1, <3>2 DEF TimersTyping, CallbackRuns, Proper, Stopped
  <2> QED BY <2>1, <2>4, <2>5, <2>6, <2>7, <2>8
<1>6. CASE Time!CallbackRegisters
  <2>1. PICK kind \in {"Holder", "Async"}, p \in 0..1 :
           timers' = [timers EXCEPT ![nextID] = Time!New(kind, 0, p, "queue")]
    BY <1>6 DEF Time!CallbackRegisters
  <2> DEFINE t == Time!New(kind, 0, p, "queue")
  <2>2. t \in ATimer /\ Proper(t)
    BY NewTimer
  <2>3. /\ nextID <= MaxTimers /\ nextID' = nextID + 1
        /\ UNCHANGED <<visited, updating, executing, cancelled>>
    BY <1>6 DEF Time!CallbackRegisters
  <2>4. updating
    BY <1>6 DEF Time!CallbackRegisters, CallbackRuns
  <2>5. timers' = [timers EXCEPT ![nextID] = t]
    BY <2>1
  <2> HIDE DEF t
  <2> QED BY <2>2, <2>3, <2>4, <2>5, Added
<1>7. CASE Time!CallbackUnregisters
  <2>1. PICK i \in Time!Id : Time!Registered(i) /\ timers' = [timers EXCEPT ![i] = Time!ShutDown(timers[i])]
    BY <1>7 DEF Time!CallbackUnregisters
  <2>2. Kept(timers[i], Time!ShutDown(timers[i]))
    BY <2>1, ShutDownStops DEF TimersTyping, Time!Registered, Kept
  <2> QED BY <1>7, <2>1, <2>2, <1>0, Replaced DEF Time!CallbackUnregisters
<1>8. CASE Time!CallbackReturns
  <2>1. /\ executing \in Time!Id /\ executing' = 0
        /\ UNCHANGED <<updating, nextID, cancelled>>
    BY <1>8 DEF Time!CallbackReturns, CallbackRuns
  <2>2. timers[executing] \in ATimer /\ Proper(timers[executing]) /\ timers[executing].kind = "Holder"
    BY <1>8, <2>1 DEF Time!CallbackReturns, CallbackRuns, TimersTyping
  <2>3. CASE timers' = [timers EXCEPT ![executing] = Time!Rewound(timers[executing])]
    BY <2>1, <2>2, <2>3, RewoundKeeps, <1>0, Replaced
  <2>4. CASE timers' = [timers EXCEPT ![executing].active = FALSE]
    <3> DEFINE u == [timers[executing] EXCEPT !.active = FALSE]
    <3>1. Kept(timers[executing], u)
      BY <2>2 DEF ATimer, Kept, Proper, Stopped
    <3>2. timers' = [timers EXCEPT ![executing] = u]
      BY <2>4
    <3> HIDE DEF u
    <3> QED BY <2>1, <3>1, <3>2, <1>0, Replaced
  <2> QED BY <1>8, <2>3, <2>4 DEF Time!CallbackReturns
<1>9. CASE Time!EndUpdate
  <2> DEFINE place(i) == IF timers[i].at = "queue" THEN [timers[i] EXCEPT !.at = "map"] ELSE timers[i]
  <2>1. /\ timers' = [i \in Time!Id |-> place(i)]
        /\ executing = 0 /\ UNCHANGED <<executing, nextID, cancelled>> /\ updating' = FALSE
    BY <1>9 DEF Time!EndUpdate
  <2>2. \A i \in Time!Id : place(i) \in ATimer /\ Proper(place(i)) /\ place(i).at # "queue"
    BY DEF TimersTyping, ATimer, Proper
  <2>3. \A i \in Time!Id \cap cancelled : place(i) = timers[i]
    BY DEF Stopped
  <2>4. \A i \in Time!Id : i >= nextID => place(i) = timers[i]
    OBVIOUS
  <2> HIDE DEF place
  <2>5. TimersTyping'
    BY <1>0, <2>1, <2>2 DEF TimersTyping
  <2> QED BY <2>1, <2>2, <2>3, <2>4, <2>5 DEF CallbackRuns, Stopped, Proper
<1>10. CASE \E i \in Time!Id : Time!AsyncThread(i)
  <2>1. PICK i \in Time!Id : Time!AsyncThread(i)
    BY <1>10
  <2>2. timers[i] \in ATimer /\ Proper(timers[i]) /\ timers[i].kind = "Async"
    BY <2>1 DEF Time!AsyncThread, TimersTyping
  <2>3. UNCHANGED <<updating, executing, nextID, cancelled>>
    BY <2>1 DEF Time!AsyncThread
  <2>4. CASE timers' = [timers EXCEPT ![i].busy = FALSE]
    <3> DEFINE u == [timers[i] EXCEPT !.busy = FALSE]
    <3>1. Kept(timers[i], u)
      BY <2>2 DEF ATimer, Kept, Proper, Stopped
    <3>2. timers' = [timers EXCEPT ![i] = u]
      BY <2>4
    <3> HIDE DEF u
    <3> QED BY <2>3, <3>1, <3>2, <1>0, Replaced
  <2>5. CASE timers[i].pulses > 0 /\ timers' = [timers EXCEPT ![i] = [Time!Received(timers[i]) EXCEPT !.busy = TRUE]]
    <3> DEFINE u == [Time!Received(timers[i]) EXCEPT !.busy = TRUE]
    <3>1. Kept(timers[i], u)
      BY <2>2, <2>5, ReceivedKeeps
    <3>2. timers' = [timers EXCEPT ![i] = u]
      BY <2>5
    <3> HIDE DEF u
    <3> QED BY <2>3, <3>1, <3>2, <1>0, Replaced
  <2>6. CASE timers[i].stop /\ timers' = [timers EXCEPT ![i].active = FALSE]
    <3> DEFINE u == [timers[i] EXCEPT !.active = FALSE]
    <3>1. Kept(timers[i], u)
      BY <2>2, <2>6 DEF ATimer, Kept, Proper, Stopped
    <3>2. timers' = [timers EXCEPT ![i] = u]
      BY <2>6
    <3> HIDE DEF u
    <3> QED BY <2>3, <3>1, <3>2, <1>0, Replaced
  <2> QED BY <2>1, <2>4, <2>5, <2>6 DEF Time!AsyncThread
<1>11. CASE UNCHANGED Time!vars
  BY <1>0, <1>11 DEF Time!vars, TimersTyping, CallbackRuns, Proper, Stopped
<1> QED BY <1>1, <1>2, <1>3, <1>4, <1>5, <1>6, <1>7, <1>8, <1>9, <1>10, <1>11 DEF Time!Next

\* The invariant is more than what is to be shown.
LEMMA TimersEnd == TimersInv => Time!TypeOK /\ Time!CancelledStaysQuiet
<1> SUFFICES ASSUME TimersInv PROVE Time!TypeOK /\ Time!CancelledStaysQuiet
  OBVIOUS
<1>1. Time!CancelledStaysQuiet
  BY TimerBounds DEF TimersInv, TimersTyping, CallbackRuns, Stopped,
                     Time!CancelledStaysQuiet, Time!Id
<1>2. cancelled \subseteq Time!Id /\ executing \in 0..MaxTimers
  BY TimerBounds DEF TimersInv, TimersTyping, CallbackRuns, Time!Id
<1>3. \A i \in Time!Id : timers[i] \in ATimer
  BY DEF TimersInv, TimersTyping
<1> QED BY <1>1, <1>2, <1>3 DEF Time!TypeOK, TimersInv, TimersTyping, ATimer

(***************************************************************************)
(* CancelledStaysQuiet of Timers, for every number of timers.              *)
(***************************************************************************)
THEOREM CancelledIsQuiet == Time!Spec => [](Time!TypeOK /\ Time!CancelledStaysQuiet)
BY TimersStart, TimersGoOn, TimersEnd, PTL DEF Time!Spec

-----------------------------------------------------------------------------
(***************************************************************************)
(* Connection, for every sequence of packets and heartbeats the other      *)
(* module sends, and for both classes of the layer.                        *)
(*                                                                         *)
(* A packet from the line is at one of six places: processed, in the hand  *)
(* of the processing thread, in mBuffer, in the hand of the serial thread, *)
(* in mReadBuf, or in the hand of the watchdog's reader.  What is at the   *)
(* first places up to one of them is, whichever it is, all that was sent   *)
(* before some packet - as long as the threads that would bring the rest   *)
(* there run: one that ends may take a packet with it, but then nothing    *)
(* comes after it either.                                                  *)
(***************************************************************************)
Where == {"top", "loop", "remove", "process", "done", "deaf", "call", "tested", "insert",
          "closed", "read", "idle", "notify", "up", "interrupt", "serial", "reader",
          "release", "join", "down", "crashed"}

CommTarget == IF Role = "slave" THEN {"BASE"} ELSE {"MASTER", "BASE"}

CommModule == {"BASE", "BASE_M", "BASE_S", "MASTER"}

CommPacket == CommModule \X CommTarget \X
                  (({"post", "serial"} \X Nat) \cup ({"line"} \X Comm!DataNumbers))

LinePacket == { p \in CommPacket : Comm!FromTheLine(p) }

CommScalars == /\ open \in {"open", "closing", "gone"} /\ timer \in {"off", "armed"}
               /\ running \in BOOLEAN /\ timedOut \in BOOLEAN
               /\ posts \in 0..MaxPosts /\ late \subseteq {"ST", "PT", "CB"}
               /\ rbInterrupted \in BOOLEAN /\ mbInterrupted \in BOOLEAN
               /\ pc \in [Comm!Thread -> Where]

\* What is still to be read is the end of what is sent.
CommLine == /\ line \in Seq({"DATA", "WATCHDOG"}) /\ Len(line) <= Len(FromLine)
            /\ \A i \in 1..Len(line) : line[i] = FromLine[Len(FromLine) - Len(line) + i]

CommPackets == /\ got \in Seq(CommPacket) /\ mbContent \in Seq(CommPacket)
               /\ rbContent \in Seq(LinePacket)
               /\ hand \in [Comm!Thread -> CommPacket \cup {<<>>}]
               /\ pc["PT"] = "process" => hand["PT"] \in CommPacket
               /\ pc["ST"] = "insert" => hand["ST"] \in LinePacket
               /\ pc["WR"] = "insert" => hand["WR"] \in LinePacket

\* The packets of the line that are somewhere.
NumbersIn(s) == { Comm!Number(s[i]) : i \in { j \in DOMAIN s : Comm!FromTheLine(s[j]) } }

OneOf(p) == IF Comm!FromTheLine(p) THEN {Comm!Number(p)} ELSE {}

InHand(t, here) == IF pc[t] = here THEN OneOf(hand[t]) ELSE {}

Processed == NumbersIn(got)
ToProcess == Processed \cup InHand("PT", "process")
ToRoute   == ToProcess \cup NumbersIn(mbContent)
ToInsert  == ToRoute \cup InHand("ST", "insert")
ToRead    == ToInsert \cup NumbersIn(rbContent)
ToHandOn  == ToRead \cup InHand("WR", "insert")

ReadSoFar == { n \in Comm!DataNumbers : n > Len(line) }

\* Nothing is missing in front of what is in S.
NoneMissing(S) == \A n \in S : \A m \in Comm!DataNumbers : m > n => m \in S

Falling(s) == \A i, j \in DOMAIN s :
                 i < j /\ Comm!FromTheLine(s[i]) /\ Comm!FromTheLine(s[j])
                    => Comm!Number(s[i]) > Comm!Number(s[j])

WRRuns == pc["WR"] \in {"top", "call", "read", "insert"}
STRuns == pc["ST"] \in {"top", "call", "tested", "remove", "insert"}
PTRuns == pc["PT"] # "done"

BehindReader == /\ InHand("WR", "insert") \cap ToRead = {}
                /\ ToHandOn = ReadSoFar

BehindSerial == /\ NoneMissing(ToInsert) /\ InHand("ST", "insert") \cap ToRoute = {}
                /\ NoneMissing(ToRead) /\ Falling(rbContent)
                /\ NumbersIn(rbContent) \cap ToInsert = {}
                /\ WRRuns => BehindReader

BehindProcessing == /\ NoneMissing(ToRoute) /\ Falling(mbContent)
                    /\ NumbersIn(mbContent) \cap ToProcess = {}
                    /\ STRuns => BehindSerial

CommOrder == /\ NoneMissing(Processed) /\ Falling(got)
             /\ NoneMissing(ToProcess) /\ InHand("PT", "process") \cap Processed = {}
             /\ PTRuns => BehindProcessing

CommInv == CommScalars /\ CommLine /\ CommPackets /\ CommOrder

-----------------------------------------------------------------------------
(***************************************************************************)
(* What is in a queue when something has joined or left it.                *)
(***************************************************************************)
LEMMA NumbersOfAppend ==
    ASSUME NEW S, NEW s \in Seq(S), NEW x \in S
    PROVE  NumbersIn(Append(s, x)) = NumbersIn(s) \cup OneOf(x)
<1> DEFINE t == Append(s, x)
<1>1. /\ DOMAIN s = 1..Len(s) /\ DOMAIN t = 1..(Len(s) + 1) /\ Len(s) \in Nat
      /\ \A i \in 1..Len(s) : t[i] = s[i]
      /\ t[Len(s) + 1] = x
  OBVIOUS
<1> HIDE DEF t
<1>2. ASSUME NEW n \in NumbersIn(t) PROVE n \in NumbersIn(s) \cup OneOf(x)
  <2>1. PICK i \in DOMAIN t : Comm!FromTheLine(t[i]) /\ n = Comm!Number(t[i])
    BY DEF NumbersIn
  <2>2. i \in DOMAIN s \/ i = Len(s) + 1 BY <1>1
  <2> QED BY <1>1, <2>1, <2>2 DEF NumbersIn, OneOf
<1>3. ASSUME NEW n \in NumbersIn(s) PROVE n \in NumbersIn(t)
  <2>1. PICK i \in DOMAIN s : Comm!FromTheLine(s[i]) /\ n = Comm!Number(s[i])
    BY DEF NumbersIn
  <2>2. i \in DOMAIN t /\ t[i] = s[i] BY <1>1
  <2> QED BY <2>1, <2>2 DEF NumbersIn
<1>4. ASSUME NEW n \in OneOf(x) PROVE n \in NumbersIn(t)
  <2>1. Len(s) + 1 \in DOMAIN t BY <1>1
  <2> QED BY <1>1, <2>1 DEF NumbersIn, OneOf
<1> QED BY <1>2, <1>3, <1>4 DEF t

\* The first of a queue and the others are all that is in it.
LEMMA NumbersOfTail ==
    ASSUME NEW S, NEW s \in Seq(S), s # <<>>
    PROVE  NumbersIn(s) = OneOf(Head(s)) \cup NumbersIn(Tail(s))
<1> DEFINE t == Tail(s)
<1>1. /\ DOMAIN s = 1..Len(s) /\ DOMAIN t = 1..(Len(s) - 1) /\ Len(s) \in Nat \ {0}
      /\ \A i \in 1..(Len(s) - 1) : t[i] = s[i + 1]
      /\ Head(s) = s[1]
  OBVIOUS
<1> HIDE DEF t
<1>2. ASSUME NEW n \in NumbersIn(s) PROVE n \in OneOf(Head(s)) \cup NumbersIn(t)
  <2>1. PICK i \in DOMAIN s : Comm!FromTheLine(s[i]) /\ n = Comm!Number(s[i])
    BY DEF NumbersIn
  <2>2. CASE i = 1 BY <1>1, <2>1, <2>2 DEF OneOf
  <2>3. CASE i # 1
    <3>1. i - 1 \in DOMAIN t /\ t[i - 1] = s[i] BY <1>1, <2>3
    <3> QED BY <2>1, <3>1 DEF NumbersIn
  <2> QED BY <2>2, <2>3
<1>3. ASSUME NEW n \in NumbersIn(t) PROVE n \in NumbersIn(s)
  <2>1. PICK i \in DOMAIN t : Comm!FromTheLine(t[i]) /\ n = Comm!Number(t[i])
    BY DEF NumbersIn
  <2>2. i + 1 \in DOMAIN s /\ t[i] = s[i + 1] BY <1>1
  <2> QED BY <2>1, <2>2 DEF NumbersIn
<1>4. ASSUME NEW n \in OneOf(Head(s)) PROVE n \in NumbersIn(s)
  BY <1>1 DEF NumbersIn, OneOf
<1> QED BY <1>2, <1>3, <1>4 DEF t

\* A packet joins in order when it comes after all that are there.
LEMMA FallingAppend ==
    ASSUME NEW S, NEW s \in Seq(S), NEW x \in S, Falling(s),
           \A n \in NumbersIn(s) : \A m \in OneOf(x) : n > m
    PROVE  Falling(Append(s, x))
<1> DEFINE t == Append(s, x)
<1>1. /\ DOMAIN s = 1..Len(s) /\ DOMAIN t = 1..(Len(s) + 1) /\ Len(s) \in Nat
      /\ \A i \in 1..Len(s) : t[i] = s[i]
      /\ t[Len(s) + 1] = x
  OBVIOUS
<1> HIDE DEF t
<1> SUFFICES ASSUME NEW i \in DOMAIN t, NEW j \in DOMAIN t, i < j,
                    Comm!FromTheLine(t[i]), Comm!FromTheLine(t[j])
             PROVE  Comm!Number(t[i]) > Comm!Number(t[j])
  BY DEF Falling, t
<1>2. i \in DOMAIN s /\ t[i] = s[i] BY <1>1
<1>3. CASE j \in DOMAIN s BY <1>1, <1>2, <1>3 DEF Falling
<1>4. CASE j = Len(s) + 1
  <2>1. Comm!Number(t[i]) \in NumbersIn(s) BY <1>2 DEF NumbersIn
  <2>2. Comm!Number(t[j]) \in OneOf(x) BY <1>1, <1>4 DEF OneOf
  <2> QED BY <2>1, <2>2
<1> QED BY <1>1, <1>3, <1>4

\* The first of a queue comes before the others, and they stay in order.
LEMMA FallingTail ==
    ASSUME NEW S, NEW s \in Seq(S), s # <<>>, Falling(s)
    PROVE  /\ Falling(Tail(s))
           /\ \A n \in OneOf(Head(s)) : \A m \in NumbersIn(Tail(s)) : n > m
<1> DEFINE t == Tail(s)
<1>1. /\ DOMAIN s = 1..Len(s) /\ DOMAIN t = 1..(Len(s) - 1) /\ Len(s) \in Nat \ {0}
      /\ \A i \in 1..(Len(s) - 1) : t[i] = s[i + 1]
      /\ Head(s) = s[1]
  OBVIOUS
<1> HIDE DEF t
<1>2. \A i \in DOMAIN t : i + 1 \in DOMAIN s /\ t[i] = s[i + 1] /\ 1 < i + 1
  BY <1>1
<1>3. Falling(t)
  <2> SUFFICES ASSUME NEW i \in DOMAIN t, NEW j \in DOMAIN t, i < j,
                      Comm!FromTheLine(t[i]), Comm!FromTheLine(t[j])
               PROVE  Comm!Number(t[i]) > Comm!Number(t[j])
    BY DEF Falling
  <2>1. i + 1 < j + 1 BY <1>1
  <2> QED BY <1>2, <2>1 DEF Falling
<1>4. ASSUME NEW n \in OneOf(Head(s)), NEW m \in NumbersIn(t) PROVE n > m
  <2>1. PICK j \in DOMAIN t : Comm!FromTheLine(t[j]) /\ m = Comm!Number(t[j])
    BY DEF NumbersIn
  <2>2. Comm!FromTheLine(s[1]) /\ n = Comm!Number(s[1])
    BY <1>1 DEF OneOf
  <2> QED BY <1>1, <1>2, <2>1, <2>2 DEF Falling
<1> QED BY <1>3, <1>4 DEF t

(***************************************************************************)
(* Sets in front of which nothing is missing.                              *)
(***************************************************************************)
\* The numbers are natural ones.
LEMMA DataNumbersAreNumbers == Comm!DataNumbers \subseteq Nat \ {0}
<1>1. Len(FromLine) \in Nat
  BY ServicesAssumption DEF Comm!ConnectionAssumption
<1> QED BY <1>1 DEF Comm!DataNumbers

\* What is not among them comes after all of them.
LEMMA NextIsBelow ==
    ASSUME NEW S \in SUBSET Comm!DataNumbers, NoneMissing(S), NEW h \in Comm!DataNumbers, h \notin S
    PROVE  \A n \in S : n > h
BY DataNumbersAreNumbers DEF NoneMissing

\* The first of what follows can be moved to them.
LEMMA FirstJoins ==
    ASSUME NEW A \in SUBSET Comm!DataNumbers, NEW H \in SUBSET Comm!DataNumbers,
           NEW T \in SUBSET Comm!DataNumbers,
           NoneMissing(A), NoneMissing(A \cup (H \cup T)), \A h \in H : \A t \in T : h > t,
           \A g, h \in H : g = h
    PROVE  NoneMissing(A \cup H)
BY DataNumbersAreNumbers DEF NoneMissing

-----------------------------------------------------------------------------
(***************************************************************************)
(* The types.                                                              *)
(***************************************************************************)
LEMMA ThreadMoves ==
    ASSUME pc \in [Comm!Thread -> Where], NEW t \in Comm!Thread, NEW there \in Where,
           Comm!Goto(t, there)
    PROVE  /\ pc' \in [Comm!Thread -> Where] /\ pc'[t] = there
           /\ \A u \in Comm!Thread \ {t} : pc'[u] = pc[u]
BY DEF Comm!Goto

\* Threads are where they can be.
LEMMA PlacesStay ==
    CommScalars /\ [Comm!Next]_(Comm!vars) => pc' \in [Comm!Thread -> Where]
<1> SUFFICES ASSUME CommScalars, [Comm!Next]_(Comm!vars) PROVE pc' \in [Comm!Thread -> Where]
  OBVIOUS
<1>1. pc \in [Comm!Thread -> Where] BY DEF CommScalars
<1> USE <1>1, ThreadMoves DEF Comm!Thread, Where, Comm!Stay
<1>2. CASE Comm!Post BY <1>2 DEF Comm!Post
<1>3. CASE Comm!ProcessingThread BY <1>3 DEF Comm!ProcessingThread
<1>4. CASE Comm!SerialReads
  <2>1. \/ UNCHANGED pc
        \/ \E there \in {"call", "deaf", "done", "crashed", "closed", "tested", "remove", "insert"} :
              Comm!Goto("ST", there)
    BY <1>4 DEF Comm!SerialReads
  <2> QED BY <2>1
<1>5. CASE Comm!SerialInserts BY <1>5 DEF Comm!SerialInserts
<1>6. CASE Comm!WatchdogReader
  <2>1. \E there \in {"call", "read", "insert", "top", "done", "crashed"} : Comm!Goto("WR", there)
    BY <1>6 DEF Comm!WatchdogReader
  <2> QED BY <2>1
<1>7. CASE Comm!TimesOut \/ Comm!Callback BY <1>7 DEF Comm!TimesOut, Comm!Callback
<1>8. CASE Comm!Shutdown \/ Comm!ShutsDown BY <1>8 DEF Comm!Shutdown, Comm!ShutsDown
<1>9. CASE UNCHANGED Comm!vars BY <1>9 DEF Comm!vars
<1> QED BY <1>2, <1>3, <1>4, <1>5, <1>6, <1>7, <1>8, <1>9 DEF Comm!Next, Comm!SerialThread

\* So do the flags and counters,
LEMMA FlagsOfCommStay ==
    CommScalars /\ [Comm!Next]_(Comm!vars) =>
        /\ open' \in {"open", "closing", "gone"} /\ timer' \in {"off", "armed"}
        /\ running' \in BOOLEAN /\ timedOut' \in BOOLEAN
        /\ posts' \in 0..MaxPosts /\ late' \subseteq {"ST", "PT", "CB"}
        /\ rbInterrupted' \in BOOLEAN /\ mbInterrupted' \in BOOLEAN
<1> SUFFICES ASSUME CommScalars, [Comm!Next]_(Comm!vars)
             PROVE  /\ open' \in {"open", "closing", "gone"} /\ timer' \in {"off", "armed"}
                    /\ running' \in BOOLEAN /\ timedOut' \in BOOLEAN
                    /\ posts' \in 0..MaxPosts /\ late' \subseteq {"ST", "PT", "CB"}
                    /\ rbInterrupted' \in BOOLEAN /\ mbInterrupted' \in BOOLEAN
  OBVIOUS
<1> USE DEF CommScalars, Comm!rb, Comm!mb, Comm!Accept,
            Comm!ReadBuf!Insert, Comm!ReadBuf!Enter, Comm!ReadBuf!Wait, Comm!ReadBuf!Take,
            Comm!ReadBuf!Throw, Comm!ReadBuf!BeginInterrupt, Comm!ReadBuf!NotifyAll,
            Comm!ReadBuf!EndInterrupt, Comm!Buffer!Insert, Comm!Buffer!Enter,
            Comm!Buffer!Wait, Comm!Buffer!Take, Comm!Buffer!Throw,
            Comm!Buffer!BeginInterrupt, Comm!Buffer!NotifyAll, Comm!Buffer!EndInterrupt
<1>1. MaxPosts \in Nat
  BY ServicesAssumption DEF Comm!ConnectionAssumption
<1>2. CASE Comm!Post BY <1>1, <1>2 DEF Comm!Post
<1>3. CASE Comm!ProcessingThread BY <1>3 DEF Comm!ProcessingThread
<1>4. CASE Comm!SerialReads BY <1>4 DEF Comm!SerialReads
<1>5. CASE Comm!SerialInserts BY <1>5 DEF Comm!SerialInserts
<1>6. CASE Comm!WatchdogReader BY <1>6 DEF Comm!WatchdogReader
<1>7. CASE Comm!TimesOut \/ Comm!Callback BY <1>7 DEF Comm!TimesOut, Comm!Callback
<1>8. CASE Comm!Shutdown \/ Comm!ShutsDown BY <1>8 DEF Comm!Shutdown, Comm!ShutsDown
<1>9. CASE UNCHANGED Comm!vars BY <1>9 DEF Comm!vars
<1> QED BY <1>2, <1>3, <1>4, <1>5, <1>6, <1>7, <1>8, <1>9 DEF Comm!Next, Comm!SerialThread

\* and what is still to be read.
LEMMA LineStays ==
    CommLine /\ [Comm!Next]_(Comm!vars) =>
        /\ CommLine'
        /\ ReadSoFar' = ReadSoFar \/ Comm!WatchdogReader
<1> SUFFICES ASSUME CommLine, [Comm!Next]_(Comm!vars)
             PROVE  CommLine' /\ (ReadSoFar' = ReadSoFar \/ Comm!WatchdogReader)
  OBVIOUS
<1>1. FromLine \in Seq({"DATA", "WATCHDOG"})
  BY ServicesAssumption DEF Comm!ConnectionAssumption
<1>2. CASE UNCHANGED line
  BY <1>2 DEF CommLine, ReadSoFar
<1>3. CASE line # <<>> /\ line' = Tail(line) /\ Comm!WatchdogReader
  BY <1>1, <1>3 DEF CommLine
<1> QED
  BY <1>2, <1>3 DEF Comm!Next, Comm!vars, Comm!SerialThread, Comm!Post, Comm!ProcessingThread,
         Comm!SerialReads, Comm!SerialInserts, Comm!WatchdogReader, Comm!TimesOut,
         Comm!Callback, Comm!Shutdown, Comm!ShutsDown

\* The parts of a packet make a packet.
LEMMA PacketOf ==
    ASSUME NEW a \in CommModule, NEW b \in CommTarget,
           NEW c \in ({"post", "serial"} \X Nat) \cup ({"line"} \X Comm!DataNumbers)
    PROVE  <<a, b, c>> \in CommPacket /\ <<a, b, c>>[3] = c /\ <<a, b, c>>[2] = b
<1>1. ASSUME NEW R, NEW T, NEW U, NEW x \in R, NEW y \in T, NEW z \in U
      PROVE  <<x, y, z>> \in R \X T \X U
  OBVIOUS
<1>2. <<a, b, c>>[3] = c /\ <<a, b, c>>[2] = b
  OBVIOUS
<1> QED BY <1>1, <1>2, Zenon DEF CommPacket, CommModule

\* What the other module has sent is a packet of the line.
LEMMA LinePacketTyped ==
    ASSUME NEW n \in Comm!DataNumbers
    PROVE  <<IF Role = "master" THEN "BASE_S" ELSE "MASTER",
             IF Role = "master" THEN "MASTER" ELSE "BASE", <<"line", n>>>> \in LinePacket
<1>1. Role \in {"master", "slave"}
  BY ServicesAssumption DEF Comm!ConnectionAssumption
<1> DEFINE a == IF Role = "master" THEN "BASE_S" ELSE "MASTER"
           b == IF Role = "master" THEN "MASTER" ELSE "BASE"
           c == <<"line", n>>
<1>2. a \in CommModule /\ b \in CommTarget
  BY <1>1 DEF CommTarget, CommModule
<1>3. c \in {"line"} \X Comm!DataNumbers /\ c[1] = "line"
  OBVIOUS
<1> HIDE DEF a, b, c
<1>4. <<a, b, c>> \in LinePacket
  BY <1>2, <1>3, PacketOf DEF LinePacket, Comm!FromTheLine
<1> QED BY <1>4 DEF a, b, c

\* accept() leaves a packet that is not from the line one.
LEMMA AcceptTyped ==
    ASSUME NEW from \in {"BASE", "MASTER"}, NEW to \in Comm!Targets,
           NEW kind \in {"post", "serial"}, NEW n \in Nat,
           Comm!Route(<<from, to, <<kind, n>>>>) # Comm!Nowhere
    PROVE  /\ Comm!Route(<<from, to, <<kind, n>>>>) \in CommPacket
           /\ OneOf(Comm!Route(<<from, to, <<kind, n>>>>)) = {}
<1> DEFINE p == <<from, to, <<kind, n>>>>
           tag == <<kind, n>>
<1>1. Role \in {"master", "slave"}
  BY ServicesAssumption DEF Comm!ConnectionAssumption
<1>2. tag \in {"post", "serial"} \X Nat /\ tag[1] # "line"
  OBVIOUS
<1>3. p[1] = from /\ p[2] = to /\ p = <<from, to, tag>>
  OBVIOUS
<1>4. ASSUME NEW q \in {"BASE", "MASTER", "BASE_M"}, NEW r \in CommTarget
      PROVE  <<q, r, tag>> \in CommPacket /\ OneOf(<<q, r, tag>>) = {}
  <2> HIDE DEF tag
  <2> QED BY <1>2, PacketOf DEF CommModule, OneOf, Comm!FromTheLine
<1>5. [p EXCEPT ![1] = "BASE_M"] = <<"BASE_M", to, tag>>
  BY <1>3
<1>6. [p EXCEPT ![2] = "BASE"] = <<from, "BASE", tag>>
  BY <1>3
<1>7. [p EXCEPT ![1] = from] = p
  BY <1>3
<1> HIDE DEF p, tag
<1>8. \/ Role = "master" /\ to = "MASTER" /\ Comm!Route(p) \in {<<"BASE_M", to, tag>>, p}
      \/ Role = "master" /\ to = "BASE_M" /\ Comm!Route(p) = <<from, "BASE", tag>>
      \/ to = "BASE" /\ Comm!Route(p) = p
      \/ Comm!Route(p) = Comm!Nowhere
  BY <1>3, <1>5, <1>6, <1>7 DEF Comm!Route
<1>9. Comm!Route(p) # Comm!Nowhere
  BY DEF p, tag
<1>10. \A r \in {"MASTER", "BASE"} : Role = "master" => r \in CommTarget
  BY DEF CommTarget
<1>11. "BASE" \in CommTarget
  BY DEF CommTarget
<1>12. Comm!Route(p) \in CommPacket /\ OneOf(Comm!Route(p)) = {}
  BY <1>3, <1>4, <1>8, <1>9, <1>10, <1>11
<1> QED BY <1>12 DEF p, tag

\* So after it mBuffer has what it had from the line.
LEMMA AcceptKeeps ==
    ASSUME mbContent \in Seq(CommPacket),
           NEW from \in {"BASE", "MASTER"}, NEW to \in Comm!Targets,
           NEW kind \in {"post", "serial"}, NEW n \in Nat,
           Comm!Accept(<<from, to, <<kind, n>>>>)
    PROVE  /\ mbContent' \in Seq(CommPacket)
           /\ NumbersIn(mbContent') = NumbersIn(mbContent)
           /\ Falling(mbContent) => Falling(mbContent')
<1> DEFINE r == Comm!Route(<<from, to, <<kind, n>>>>)
<1>1. CASE r = Comm!Nowhere
  BY <1>1 DEF Comm!Accept, Comm!mb
<1>2. CASE r # Comm!Nowhere
  <2>1. r \in CommPacket /\ OneOf(r) = {}
    BY <1>2, AcceptTyped
  <2>2. mbContent' = Append(mbContent, r)
    BY <1>2 DEF Comm!Accept, Comm!Buffer!Insert, Comm!Buffer!Inserted
  <2> HIDE DEF r
  <2>3. Append(mbContent, r) \in Seq(CommPacket)
    BY <2>1
  <2> QED BY <2>1, <2>2, <2>3, NumbersOfAppend, FallingAppend
<1> QED BY <1>1, <1>2

-----------------------------------------------------------------------------
(***************************************************************************)
(* The order.  What the steps of the threads do to the places where the    *)
(* packets are.                                                            *)
(***************************************************************************)
LEMMA NumbersTyped ==
    /\ \A p \in CommPacket : OneOf(p) \subseteq Comm!DataNumbers /\ \A g, h \in OneOf(p) : g = h
    /\ \A s \in Seq(CommPacket) : NumbersIn(s) \subseteq Comm!DataNumbers
<1>1. \A p \in CommPacket : OneOf(p) \subseteq Comm!DataNumbers /\ \A g, h \in OneOf(p) : g = h
  <2> TAKE p \in CommPacket
  <2>1. \/ p[3] \in {"post", "serial"} \X Nat
        \/ p[3] \in {"line"} \X Comm!DataNumbers
    BY DEF CommPacket
  <2>2. p[3][1] = "line" => p[3][2] \in Comm!DataNumbers
    BY <2>1
  <2> QED BY <2>2 DEF OneOf, Comm!FromTheLine, Comm!Number
<1>2. ASSUME NEW s \in Seq(CommPacket), NEW n \in NumbersIn(s) PROVE n \in Comm!DataNumbers
  <2>1. PICK i \in DOMAIN s : Comm!FromTheLine(s[i]) /\ n = Comm!Number(s[i])
    BY DEF NumbersIn
  <2>2. s[i] \in CommPacket OBVIOUS
  <2> QED BY <1>1, <2>1, <2>2 DEF OneOf
<1> QED BY <1>1, <1>2

\* A packet of the line has one number.
LEMMA LineNumber ==
    ASSUME NEW p \in LinePacket
    PROVE  p \in CommPacket /\ Comm!Number(p) \in Comm!DataNumbers /\ OneOf(p) = {Comm!Number(p)}
BY NumbersTyped DEF LinePacket, OneOf

\* Every packet is one that was sent.
LEMMA PlacesTyped ==
    ASSUME CommPackets
    PROVE  /\ Processed \subseteq Comm!DataNumbers /\ ToProcess \subseteq Comm!DataNumbers
           /\ ToRoute \subseteq Comm!DataNumbers /\ ToInsert \subseteq Comm!DataNumbers
           /\ ToRead \subseteq Comm!DataNumbers
<1>1. rbContent \in Seq(CommPacket)
  BY DEF CommPackets, LinePacket
<1>2. /\ InHand("PT", "process") \subseteq Comm!DataNumbers
      /\ InHand("ST", "insert") \subseteq Comm!DataNumbers
  BY NumbersTyped DEF CommPackets, InHand, LinePacket
<1>3. /\ NumbersIn(got) \subseteq Comm!DataNumbers /\ NumbersIn(mbContent) \subseteq Comm!DataNumbers
      /\ NumbersIn(rbContent) \subseteq Comm!DataNumbers
  BY <1>1, NumbersTyped DEF CommPackets
<1> QED BY <1>2, <1>3 DEF Processed, ToProcess, ToRoute, ToInsert, ToRead

\* Nothing is moved, or what is lost is behind a thread that has ended.
LEMMA OrderKept ==
    ASSUME CommOrder, got' = got,
           InHand("PT", "process")' = InHand("PT", "process"),
           PTRuns' => /\ PTRuns
                      /\ NumbersIn(mbContent)' = NumbersIn(mbContent) /\ Falling(mbContent)',
           PTRuns' /\ STRuns' => /\ STRuns /\ rbContent' = rbContent
                                 /\ InHand("ST", "insert")' = InHand("ST", "insert"),
           PTRuns' /\ STRuns' /\ WRRuns' => /\ WRRuns /\ ReadSoFar' = ReadSoFar
                                            /\ InHand("WR", "insert")' = InHand("WR", "insert")
    PROVE  CommOrder'
<1>1. Processed' = Processed /\ ToProcess' = ToProcess
  BY DEF Processed, ToProcess
<1>2. PTRuns' => ToRoute' = ToRoute
  BY <1>1 DEF ToRoute
<1>3. PTRuns' /\ STRuns' => ToInsert' = ToInsert /\ ToRead' = ToRead
  BY <1>2 DEF ToInsert, ToRead
<1>4. PTRuns' /\ STRuns' /\ WRRuns' => ToHandOn' = ToHandOn
  BY <1>3 DEF ToHandOn
<1>5. PTRuns' /\ STRuns' /\ WRRuns' => BehindReader'
  BY <1>2, <1>3, <1>4 DEF CommOrder, BehindProcessing, BehindSerial, BehindReader
<1>6. PTRuns' /\ STRuns' => BehindSerial'
  BY <1>2, <1>3, <1>5 DEF CommOrder, BehindProcessing, BehindSerial
<1>7. PTRuns' => BehindProcessing'
  BY <1>1, <1>2, <1>6 DEF CommOrder, BehindProcessing
<1> QED BY <1>1, <1>7 DEF CommOrder

\* Where a thread does not go, its hand stays.
LEMMA HandStays ==
    ASSUME NEW t, NEW here, hand'[t] = hand[t], pc'[t] = here <=> pc[t] = here
    PROVE  InHand(t, here)' = InHand(t, here)
BY DEF InHand

-----------------------------------------------------------------------------
(***************************************************************************)
(* The processing thread.                                                  *)
(***************************************************************************)
LEMMA Kinds ==
    /\ "PT" \in Comm!Thread /\ "ST" \in Comm!Thread /\ "WR" \in Comm!Thread
    /\ "CB" \in Comm!Thread /\ "MT" \in Comm!Thread
BY DEF Comm!Thread

\* It takes a packet from mBuffer into its hand.
LEMMA ProcessingTakes ==
    ASSUME CommInv, pc["PT"] = "remove", Comm!Goto("PT", "process"), Comm!Buffer!Take("PT"),
           hand' = [hand EXCEPT !["PT"] = Head(mbContent)],
           UNCHANGED <<line, rbContent, got>>
    PROVE  CommPackets' /\ CommOrder'
<1> DEFINE h == Head(mbContent)
           rest == Tail(mbContent)
<1>1. /\ pc' \in [Comm!Thread -> Where] /\ pc'["PT"] = "process"
      /\ \A u \in Comm!Thread \ {"PT"} : pc'[u] = pc[u]
  BY ThreadMoves, Kinds DEF CommInv, CommScalars, Where
<1>2. mbContent \in Seq(CommPacket) /\ mbContent # <<>> /\ mbContent' = rest
  BY DEF CommInv, CommPackets, Comm!Buffer!Take
<1>3. h \in CommPacket /\ rest \in Seq(CommPacket)
  BY <1>2
<1>4. NumbersIn(mbContent) = OneOf(h) \cup NumbersIn(rest)
  BY <1>2, NumbersOfTail
<1> HIDE DEF h, rest
<1>5. CommPackets'
  <2>1. hand \in [Comm!Thread -> CommPacket \cup {<<>>}] BY DEF CommInv, CommPackets
  <2>2. hand' \in [Comm!Thread -> CommPacket \cup {<<>>}] /\ hand'["PT"] = h
        /\ hand'["ST"] = hand["ST"] /\ hand'["WR"] = hand["WR"]
    BY <2>1, <1>3, Kinds DEF h
  <2> QED BY <1>1, <1>2, <1>3, <2>2, Kinds DEF CommInv, CommPackets
<1>6. hand'["PT"] = h /\ \A t \in {"ST", "WR"} : hand'[t] = hand[t]
  BY Kinds DEF h, CommInv, CommPackets
<1>7. /\ InHand("PT", "process") = {} /\ InHand("PT", "process")' = OneOf(h)
      /\ InHand("ST", "insert")' = InHand("ST", "insert")
      /\ InHand("WR", "insert")' = InHand("WR", "insert")
  BY <1>1, <1>6, Kinds DEF InHand
<1>8. PTRuns /\ PTRuns' /\ (STRuns' <=> STRuns) /\ (WRRuns' <=> WRRuns)
  BY <1>1, Kinds DEF PTRuns, STRuns, WRRuns
<1>9. Processed' = Processed /\ ToProcess = Processed /\ ToProcess' = Processed \cup OneOf(h)
  BY <1>7 DEF Processed, ToProcess
<1>10. ToRoute' = ToRoute /\ ToRoute = Processed \cup (OneOf(h) \cup NumbersIn(rest))
  BY <1>2, <1>4, <1>9 DEF ToRoute
<1>11. ToInsert' = ToInsert /\ ToRead' = ToRead /\ ToHandOn' = ToHandOn /\ ReadSoFar' = ReadSoFar
  BY <1>7, <1>10 DEF ToInsert, ToRead, ToHandOn, ReadSoFar
<1>12. /\ Falling(rest) /\ Falling(mbContent')
       /\ \A n \in OneOf(h) : \A m \in NumbersIn(rest) : n > m
  <2>1. Falling(mbContent) BY <1>8 DEF CommInv, CommOrder, BehindProcessing
  <2> QED BY <1>2, <2>1, FallingTail DEF h, rest
<1>13. NoneMissing(ToProcess')
  <2>1. /\ OneOf(h) \subseteq Comm!DataNumbers /\ NumbersIn(rest) \subseteq Comm!DataNumbers
        /\ Processed \subseteq Comm!DataNumbers /\ \A g, k \in OneOf(h) : g = k
    BY <1>3, NumbersTyped, PlacesTyped DEF CommInv
  <2>2. NoneMissing(Processed) /\ NoneMissing(Processed \cup (OneOf(h) \cup NumbersIn(rest)))
    BY <1>8, <1>10 DEF CommInv, CommOrder, BehindProcessing
  <2> QED BY <1>9, <1>12, <2>1, <2>2, FirstJoins
<1>14. OneOf(h) \cap Processed = {} /\ NumbersIn(rest) \cap (Processed \cup OneOf(h)) = {}
  <2>1. NumbersIn(mbContent) \cap Processed = {}
    BY <1>8, <1>9 DEF CommInv, CommOrder, BehindProcessing
  <2>2. \A n \in OneOf(h) : n \notin NumbersIn(rest)
    <3>1. \A n \in OneOf(h) : n \in Nat BY <1>3, NumbersTyped, DataNumbersAreNumbers
    <3> QED BY <3>1, <1>12
  <2> QED BY <1>4, <2>1, <2>2
<1>15. STRuns' => BehindSerial'
  BY <1>7, <1>8, <1>10, <1>11 DEF CommInv, CommOrder, BehindProcessing, BehindSerial, BehindReader
<1>16. BehindProcessing'
  BY <1>2, <1>8, <1>9, <1>10, <1>12, <1>14, <1>15 DEF CommInv, CommOrder, BehindProcessing
<1> QED BY <1>5, <1>7, <1>9, <1>13, <1>14, <1>16 DEF CommInv, CommOrder

\* It gives the packet in its hand to the master or the base.
LEMMA ProcessingGives ==
    ASSUME CommInv, pc["PT"] = "process", Comm!Goto("PT", "loop"),
           got' = Append(got, hand["PT"]), hand' = [hand EXCEPT !["PT"] = <<>>],
           UNCHANGED <<line, rbContent, mbContent>>
    PROVE  CommPackets' /\ CommOrder'
<1> DEFINE h == hand["PT"]
<1>1. /\ pc' \in [Comm!Thread -> Where] /\ pc'["PT"] = "loop"
      /\ \A u \in Comm!Thread \ {"PT"} : pc'[u] = pc[u]
  BY ThreadMoves, Kinds DEF CommInv, CommScalars, Where
<1>2. h \in CommPacket /\ got \in Seq(CommPacket) /\ got' = Append(got, h)
  BY DEF CommInv, CommPackets
<1>3. got' \in Seq(CommPacket) /\ Processed' = Processed \cup OneOf(h)
  BY <1>2, NumbersOfAppend DEF Processed
<1>4. /\ hand' \in [Comm!Thread -> CommPacket \cup {<<>>}]
      /\ \A t \in {"ST", "WR"} : hand'[t] = hand[t]
  BY Kinds DEF CommInv, CommPackets
<1> HIDE DEF h
<1>5. CommPackets'
  BY <1>1, <1>3, <1>4, Kinds DEF CommInv, CommPackets
<1>6. /\ InHand("PT", "process") = OneOf(h) /\ InHand("PT", "process")' = {}
      /\ InHand("ST", "insert")' = InHand("ST", "insert")
      /\ InHand("WR", "insert")' = InHand("WR", "insert")
  BY <1>1, <1>4, Kinds DEF InHand, h
<1>7. PTRuns /\ PTRuns' /\ (STRuns' <=> STRuns) /\ (WRRuns' <=> WRRuns)
  BY <1>1, Kinds DEF PTRuns, STRuns, WRRuns
<1>8. Processed' = ToProcess /\ ToProcess' = ToProcess
  BY <1>3, <1>6 DEF ToProcess
<1>9. /\ ToRoute' = ToRoute /\ ToInsert' = ToInsert /\ ToRead' = ToRead
      /\ ToHandOn' = ToHandOn /\ ReadSoFar' = ReadSoFar
  BY <1>6, <1>8 DEF ToRoute, ToInsert, ToRead, ToHandOn, ReadSoFar
<1>10. Falling(got')
  <2>1. \A n \in Processed : \A m \in OneOf(h) : n > m
    <3> SUFFICES ASSUME NEW m \in OneOf(h) PROVE \A n \in Processed : n > m
      OBVIOUS
    <3>1. m \in Comm!DataNumbers /\ m \notin Processed
      BY <1>2, <1>6, NumbersTyped DEF CommInv, CommOrder
    <3>2. Processed \subseteq Comm!DataNumbers /\ NoneMissing(Processed)
      BY PlacesTyped DEF CommInv, CommOrder
    <3> QED BY <3>1, <3>2, NextIsBelow
  <2> QED BY <1>2, <2>1, FallingAppend DEF Processed, CommInv, CommOrder
<1>11. STRuns' => BehindSerial'
  BY <1>6, <1>7, <1>9 DEF CommInv, CommOrder, BehindProcessing, BehindSerial, BehindReader
<1>12. BehindProcessing'
  BY <1>7, <1>8, <1>9, <1>11 DEF CommInv, CommOrder, BehindProcessing
<1> QED BY <1>5, <1>6, <1>8, <1>10, <1>12 DEF CommInv, CommOrder

\* What it does else moves no packet; when it ends, one may be lost.
LEMMA ProcessingGoesOn == CommInv /\ Comm!ProcessingThread => CommPackets' /\ CommOrder'
<1> SUFFICES ASSUME CommInv, Comm!ProcessingThread PROVE CommPackets' /\ CommOrder'
  OBVIOUS
<1>1. UNCHANGED <<line, rbContent>>
  BY DEF Comm!ProcessingThread, Comm!rb
<1>2. CASE /\ pc["PT"] = "remove" /\ Comm!Goto("PT", "process") /\ Comm!Buffer!Take("PT")
           /\ hand' = [hand EXCEPT !["PT"] = Head(mbContent)] /\ UNCHANGED got
  BY <1>1, <1>2, ProcessingTakes
<1>3. CASE /\ pc["PT"] = "process" /\ Comm!Goto("PT", "loop")
           /\ got' = Append(got, hand["PT"]) /\ hand' = [hand EXCEPT !["PT"] = <<>>]
           /\ UNCHANGED mbContent
  BY <1>1, <1>3, ProcessingGives
<1>4. CASE /\ pc["PT"] \in {"top", "loop", "remove"}
           /\ \/ UNCHANGED pc
              \/ Comm!Goto("PT", "loop") \/ Comm!Goto("PT", "remove")
           /\ UNCHANGED <<mbContent, hand, got>>
  <2>1. /\ pc' \in [Comm!Thread -> Where] /\ pc'["PT"] \in {"top", "loop", "remove"}
        /\ \A u \in Comm!Thread \ {"PT"} : pc'[u] = pc[u]
    BY <1>4, ThreadMoves, Kinds DEF CommInv, CommScalars, Where
  <2>2. CommPackets'
    BY <1>1, <1>4, <2>1, Kinds DEF CommInv, CommPackets
  <2>3. /\ InHand("PT", "process")' = InHand("PT", "process")
        /\ InHand("ST", "insert")' = InHand("ST", "insert")
        /\ InHand("WR", "insert")' = InHand("WR", "insert")
    BY <1>4, <2>1, Kinds DEF InHand
  <2>4. PTRuns /\ PTRuns' /\ (STRuns' <=> STRuns) /\ (WRRuns' <=> WRRuns)
    BY <1>4, <2>1, Kinds DEF PTRuns, STRuns, WRRuns
  <2>5. Falling(mbContent)
    BY <2>4 DEF CommInv, CommOrder, BehindProcessing
  <2>6. CommOrder'
    BY <1>1, <1>4, <2>3, <2>4, <2>5, OrderKept DEF CommInv, ReadSoFar
  <2> QED BY <2>2, <2>6
<1>5. CASE /\ pc["PT"] = "remove" /\ Comm!Goto("PT", "done")
           /\ mbContent' \in Seq(CommPacket) /\ UNCHANGED <<hand, got>>
  <2>1. /\ pc' \in [Comm!Thread -> Where] /\ pc'["PT"] = "done"
        /\ \A u \in Comm!Thread \ {"PT"} : pc'[u] = pc[u]
    BY <1>5, ThreadMoves, Kinds DEF CommInv, CommScalars, Where
  <2>2. CommPackets'
    BY <1>1, <1>5, <2>1, Kinds DEF CommInv, CommPackets
  <2>3. InHand("PT", "process")' = InHand("PT", "process") /\ ~PTRuns'
    BY <1>5, <2>1 DEF InHand, PTRuns
  <2>4. CommOrder'
    BY <1>5, <2>3, OrderKept DEF CommInv
  <2> QED BY <2>2, <2>4
<1>6. mbContent \in Seq(CommPacket)
  BY DEF CommInv, CommPackets
<1> QED BY <1>2, <1>3, <1>4, <1>5, <1>6 DEF Comm!ProcessingThread, Comm!At, Comm!Stay, Comm!mb,
           Comm!Buffer!Enter, Comm!Buffer!Wait, Comm!Buffer!Take, Comm!Buffer!Throw

-----------------------------------------------------------------------------
(***************************************************************************)
(* The serial thread.                                                      *)
(***************************************************************************)
\* It takes a packet from mReadBuf into its hand.
LEMMA SerialTakes ==
    ASSUME CommInv, pc["ST"] = "remove", Comm!Goto("ST", "insert"), Comm!ReadBuf!Take("ST"),
           hand' = [hand EXCEPT !["ST"] = Head(rbContent)],
           UNCHANGED <<line, mbContent, got>>
    PROVE  CommPackets' /\ CommOrder'
<1> DEFINE h == Head(rbContent)
           rest == Tail(rbContent)
<1>1. /\ pc' \in [Comm!Thread -> Where] /\ pc'["ST"] = "insert"
      /\ \A u \in Comm!Thread \ {"ST"} : pc'[u] = pc[u]
  BY ThreadMoves, Kinds DEF CommInv, CommScalars, Where
<1>2. rbContent \in Seq(LinePacket) /\ rbContent # <<>> /\ rbContent' = rest
  BY DEF CommInv, CommPackets, Comm!ReadBuf!Take
<1>3. h \in LinePacket /\ rest \in Seq(LinePacket)
  BY <1>2
<1>4. h \in CommPacket /\ rest \in Seq(CommPacket)
  BY <1>3 DEF LinePacket
<1>5. NumbersIn(rbContent) = OneOf(h) \cup NumbersIn(rest)
  BY <1>2, NumbersOfTail
<1> HIDE DEF h, rest
<1>6. /\ hand' \in [Comm!Thread -> CommPacket \cup {<<>>}] /\ hand'["ST"] = h
      /\ \A t \in {"PT", "WR"} : hand'[t] = hand[t]
  BY <1>4, Kinds DEF CommInv, CommPackets, h
<1>7. CommPackets'
  BY <1>1, <1>2, <1>3, <1>6, Kinds DEF CommInv, CommPackets
<1>8. /\ InHand("ST", "insert") = {} /\ InHand("ST", "insert")' = OneOf(h)
      /\ InHand("PT", "process")' = InHand("PT", "process")
      /\ InHand("WR", "insert")' = InHand("WR", "insert")
  BY <1>1, <1>6, Kinds DEF InHand
<1>9. STRuns /\ STRuns' /\ (PTRuns' <=> PTRuns) /\ (WRRuns' <=> WRRuns)
  BY <1>1, Kinds DEF PTRuns, STRuns, WRRuns
<1>10. Processed' = Processed /\ ToProcess' = ToProcess /\ ToRoute' = ToRoute
  BY <1>8 DEF Processed, ToProcess, ToRoute
<1>11. ToInsert = ToRoute /\ ToInsert' = ToRoute \cup OneOf(h)
  BY <1>8, <1>10 DEF ToInsert
<1>12. ToRead' = ToRead /\ ToRead = ToRoute \cup (OneOf(h) \cup NumbersIn(rest))
  BY <1>2, <1>5, <1>11 DEF ToRead
<1>13. ToHandOn' = ToHandOn /\ ReadSoFar' = ReadSoFar
  BY <1>8, <1>12 DEF ToHandOn, ReadSoFar
<1>14. ASSUME PTRuns PROVE BehindSerial'
  <2>1. BehindProcessing /\ BehindSerial
    BY <1>9, <1>14 DEF CommInv, CommOrder, BehindProcessing
  <2>2. /\ Falling(rest) /\ Falling(rbContent')
        /\ \A n \in OneOf(h) : \A m \in NumbersIn(rest) : n > m
    BY <1>2, <2>1, FallingTail DEF h, rest, BehindSerial
  <2>3. NoneMissing(ToInsert')
    <3>1. /\ OneOf(h) \subseteq Comm!DataNumbers /\ NumbersIn(rest) \subseteq Comm!DataNumbers
          /\ ToRoute \subseteq Comm!DataNumbers /\ \A g, k \in OneOf(h) : g = k
      BY <1>4, NumbersTyped, PlacesTyped DEF CommInv
    <3>2. NoneMissing(ToRoute) /\ NoneMissing(ToRoute \cup (OneOf(h) \cup NumbersIn(rest)))
      BY <1>12, <2>1 DEF BehindProcessing, BehindSerial
    <3> QED BY <1>11, <2>2, <3>1, <3>2, FirstJoins
  <2>4. OneOf(h) \cap ToRoute = {} /\ NumbersIn(rest) \cap (ToRoute \cup OneOf(h)) = {}
    <3>1. NumbersIn(rbContent) \cap ToRoute = {}
      BY <1>11, <2>1 DEF BehindSerial
    <3>2. \A n \in OneOf(h) : n \in Nat
      BY <1>4, NumbersTyped, DataNumbersAreNumbers
    <3>3. \A n \in OneOf(h) : n \notin NumbersIn(rest)
      BY <2>2, <3>2
    <3> QED BY <1>5, <3>1, <3>3
  <2>5. WRRuns' => BehindReader'
    BY <1>8, <1>9, <1>12, <1>13, <2>1 DEF BehindSerial, BehindReader
  <2> QED BY <1>2, <1>8, <1>10, <1>11, <1>12, <2>1, <2>2, <2>3, <2>4, <2>5 DEF BehindSerial
<1>15. PTRuns' => BehindProcessing'
  BY <1>9, <1>10, <1>14 DEF CommInv, CommOrder, BehindProcessing
<1> QED BY <1>7, <1>8, <1>10, <1>15 DEF CommInv, CommOrder

\* It puts the packet in its hand into mBuffer.
LEMMA SerialPuts ==
    ASSUME CommInv, pc["ST"] = "insert", Comm!Goto("ST", "top"), Comm!Buffer!Insert(hand["ST"]),
           hand' = [hand EXCEPT !["ST"] = <<>>],
           UNCHANGED <<line, rbContent, got>>
    PROVE  CommPackets' /\ CommOrder'
<1> DEFINE h == hand["ST"]
<1>1. /\ pc' \in [Comm!Thread -> Where] /\ pc'["ST"] = "top"
      /\ \A u \in Comm!Thread \ {"ST"} : pc'[u] = pc[u]
  BY ThreadMoves, Kinds DEF CommInv, CommScalars, Where
<1>2. h \in LinePacket /\ h \in CommPacket /\ mbContent \in Seq(CommPacket)
      /\ mbContent' = Append(mbContent, h)
  BY DEF CommInv, CommPackets, LinePacket, Comm!Buffer!Insert, Comm!Buffer!Inserted
<1>3. mbContent' \in Seq(CommPacket) /\ NumbersIn(mbContent') = NumbersIn(mbContent) \cup OneOf(h)
  BY <1>2, NumbersOfAppend
<1>4. /\ hand' \in [Comm!Thread -> CommPacket \cup {<<>>}]
      /\ \A t \in {"PT", "WR"} : hand'[t] = hand[t]
  BY Kinds DEF CommInv, CommPackets
<1> HIDE DEF h
<1>5. CommPackets'
  BY <1>1, <1>3, <1>4, Kinds DEF CommInv, CommPackets
<1>6. /\ InHand("ST", "insert") = OneOf(h) /\ InHand("ST", "insert")' = {}
      /\ InHand("PT", "process")' = InHand("PT", "process")
      /\ InHand("WR", "insert")' = InHand("WR", "insert")
  BY <1>1, <1>4, Kinds DEF InHand, h
<1>7. STRuns /\ STRuns' /\ (PTRuns' <=> PTRuns) /\ (WRRuns' <=> WRRuns)
  BY <1>1, Kinds DEF PTRuns, STRuns, WRRuns
<1>8. Processed' = Processed /\ ToProcess' = ToProcess
  BY <1>6 DEF Processed, ToProcess
<1>9. /\ ToRoute' = ToInsert /\ ToInsert' = ToInsert /\ ToRead' = ToRead
      /\ ToHandOn' = ToHandOn /\ ReadSoFar' = ReadSoFar
  BY <1>3, <1>6, <1>8 DEF ToRoute, ToInsert, ToRead, ToHandOn, ReadSoFar
<1>10. ASSUME PTRuns PROVE BehindProcessing'
  <2>1. BehindProcessing /\ BehindSerial
    BY <1>7, <1>10 DEF CommInv, CommOrder, BehindProcessing
  <2>2. OneOf(h) \cap ToRoute = {} /\ NumbersIn(mbContent) \subseteq ToRoute /\ ToProcess \subseteq ToRoute
    BY <1>6, <2>1 DEF BehindSerial, ToRoute
  <2>3. \A n \in NumbersIn(mbContent) : \A m \in OneOf(h) : n > m
    <3>1. ASSUME NEW m \in OneOf(h) PROVE \A n \in ToRoute : n > m
      <4>1. m \in Comm!DataNumbers /\ m \notin ToRoute
        BY <1>2, <2>2, <3>1, NumbersTyped
      <4>2. ToRoute \subseteq Comm!DataNumbers /\ NoneMissing(ToRoute)
        BY <2>1, PlacesTyped DEF CommInv, BehindProcessing
      <4> QED BY <4>1, <4>2, NextIsBelow
    <3> QED BY <2>2, <3>1
  <2>4. Falling(mbContent')
    BY <1>2, <2>1, <2>3, FallingAppend DEF BehindProcessing
  <2>5. NumbersIn(mbContent') \cap ToProcess' = {}
    BY <1>3, <1>8, <2>1, <2>2 DEF BehindProcessing
  <2>6. BehindSerial'
    BY <1>6, <1>7, <1>9, <2>1 DEF BehindSerial, BehindReader
  <2> QED BY <1>9, <2>1, <2>4, <2>5, <2>6 DEF BehindProcessing, BehindSerial
<1> QED BY <1>5, <1>6, <1>7, <1>8, <1>10 DEF CommInv, CommOrder

\* What it does else moves no packet from the line.
LEMMA SerialElse ==
    ASSUME CommInv, pc' \in [Comm!Thread -> Where],
           \A u \in Comm!Thread \ {"ST"} : pc'[u] = pc[u],
           pc'["ST"] # "insert",
           pc'["ST"] \in {"top", "call", "tested", "remove"}
               => pc["ST"] \in {"top", "call", "tested", "remove"},
           UNCHANGED <<line, rbContent, hand, got>>,
           mbContent' \in Seq(CommPacket), NumbersIn(mbContent') = NumbersIn(mbContent),
           Falling(mbContent) => Falling(mbContent')
    PROVE  CommPackets' /\ CommOrder'
<1>1. CommPackets'
  BY Kinds DEF CommInv, CommPackets
<1>2. /\ InHand("PT", "process")' = InHand("PT", "process")
      /\ InHand("WR", "insert")' = InHand("WR", "insert")
  BY Kinds DEF InHand
<1>3. STRuns' => STRuns /\ InHand("ST", "insert")' = InHand("ST", "insert")
  BY DEF STRuns, InHand
<1>4. (PTRuns' <=> PTRuns) /\ (WRRuns' <=> WRRuns)
  BY Kinds DEF PTRuns, WRRuns
<1>5. PTRuns => Falling(mbContent')
  BY DEF CommInv, CommOrder, BehindProcessing
<1>6. CommOrder'
  BY <1>2, <1>3, <1>4, <1>5, OrderKept DEF CommInv, ReadSoFar
<1> QED BY <1>1, <1>6

\* The serial thread keeps the order.
LEMMA SerialGoesOn == CommInv /\ Comm!SerialThread => CommPackets' /\ CommOrder'
<1> SUFFICES ASSUME CommInv, Comm!SerialThread PROVE CommPackets' /\ CommOrder'
  OBVIOUS
<1>1. UNCHANGED <<line, got>>
  BY DEF Comm!SerialThread, Comm!SerialReads, Comm!SerialInserts
<1>2. CASE /\ pc["ST"] = "remove" /\ Comm!Goto("ST", "insert") /\ Comm!ReadBuf!Take("ST")
           /\ hand' = [hand EXCEPT !["ST"] = Head(rbContent)] /\ UNCHANGED mbContent
  BY <1>1, <1>2, SerialTakes
<1>3. CASE /\ pc["ST"] = "insert" /\ Comm!Goto("ST", "top") /\ Comm!Buffer!Insert(hand["ST"])
           /\ hand' = [hand EXCEPT !["ST"] = <<>>] /\ UNCHANGED rbContent
  BY <1>1, <1>3, SerialPuts
<1>4. mbContent \in Seq(CommPacket) /\ pc \in [Comm!Thread -> Where]
  BY DEF CommInv, CommPackets, CommScalars
<1>5. CASE /\ pc["ST"] \in {"top", "call", "tested", "remove"}
           /\ \/ UNCHANGED pc
              \/ \E there \in {"call", "deaf", "done", "crashed", "closed", "tested", "remove"} :
                    Comm!Goto("ST", there)
           /\ UNCHANGED <<mbContent, rbContent, hand>>
  <2>1. /\ pc' \in [Comm!Thread -> Where] /\ pc'["ST"] # "insert"
        /\ \A u \in Comm!Thread \ {"ST"} : pc'[u] = pc[u]
    BY <1>4, <1>5, ThreadMoves, Kinds DEF Where
  <2> QED BY <1>1, <1>4, <1>5, <2>1, SerialElse
<1>6. CASE /\ Comm!Goto("ST", "done")
           /\ Comm!Accept(Comm!SerialError) \/ UNCHANGED mbContent
           /\ UNCHANGED <<rbContent, hand>>
  <2>1. /\ pc' \in [Comm!Thread -> Where] /\ pc'["ST"] = "done"
        /\ \A u \in Comm!Thread \ {"ST"} : pc'[u] = pc[u]
    BY <1>4, <1>6, ThreadMoves, Kinds DEF Where
  <2>2. /\ mbContent' \in Seq(CommPacket) /\ NumbersIn(mbContent') = NumbersIn(mbContent)
        /\ Falling(mbContent) => Falling(mbContent')
    <3>1. "BASE" \in Comm!Targets BY DEF Comm!Targets
    <3> QED BY <1>4, <1>6, <3>1, AcceptKeeps DEF Comm!SerialError
  <2> QED BY <1>1, <1>6, <2>1, <2>2, SerialElse
<1>7. CASE Comm!SerialReads
  BY <1>2, <1>5, <1>7 DEF Comm!SerialReads, Comm!At, Comm!Stay, Comm!mb, Comm!rb,
        Comm!ReadBuf!Enter, Comm!ReadBuf!Wait, Comm!ReadBuf!Throw
<1>8. CASE Comm!SerialInserts
  BY <1>3, <1>6, <1>8 DEF Comm!SerialInserts, Comm!At, Comm!mb, Comm!rb
<1> QED BY <1>7, <1>8 DEF Comm!SerialThread

-----------------------------------------------------------------------------
(***************************************************************************)
(* The watchdog's reader.                                                  *)
(***************************************************************************)
\* What it reads is the next that was sent.
LEMMA ReadsNext ==
    ASSUME CommLine, line # <<>>, line' = Tail(line)
    PROVE  /\ Len(line) \in Nat
           /\ Comm!IsData(Head(line)) =>
                 /\ Len(line) \in Comm!DataNumbers /\ Len(line) \notin ReadSoFar
                 /\ ReadSoFar' = ReadSoFar \cup {Len(line)}
           /\ ~Comm!IsData(Head(line)) => ReadSoFar' = ReadSoFar
<1> DEFINE n == Len(line)
<1>1. FromLine \in Seq({"DATA", "WATCHDOG"}) /\ line \in Seq({"DATA", "WATCHDOG"})
  BY ServicesAssumption DEF Comm!ConnectionAssumption, CommLine
<1>2. /\ Len(FromLine) \in Nat /\ n \in Nat \ {0} /\ n <= Len(FromLine)
      /\ Head(line) = line[1] /\ Len(line') = n - 1
  BY <1>1 DEF CommLine
<1>3. line[1] = FromLine[Len(FromLine) - n + 1]
  BY <1>2 DEF CommLine
<1>4. Len(FromLine) - n + 1 = Len(FromLine) + 1 - n
  BY <1>2
<1>5. Comm!IsData(Head(line)) <=> n \in Comm!DataNumbers
  BY <1>2, <1>3, <1>4 DEF Comm!IsData, Comm!DataNumbers
<1> HIDE DEF n
<1>6. n \notin ReadSoFar
  BY <1>2 DEF ReadSoFar, n
<1>7. \A m \in Comm!DataNumbers : m > n - 1 <=> m > n \/ m = n
  BY <1>2, DataNumbersAreNumbers
<1>8. ReadSoFar' = { m \in Comm!DataNumbers : m > n - 1 } /\ ReadSoFar = { m \in Comm!DataNumbers : m > n }
  BY <1>2 DEF ReadSoFar, n
<1>9. n \in Comm!DataNumbers => ReadSoFar' = ReadSoFar \cup {n}
  BY <1>7, <1>8
<1>10. n \notin Comm!DataNumbers => ReadSoFar' = ReadSoFar
  BY <1>7, <1>8
<1> QED BY <1>2, <1>5, <1>6, <1>9, <1>10 DEF n

\* It takes a packet off the line into its hand.
LEMMA ReaderTakes ==
    ASSUME CommInv, pc["WR"] = "read", Comm!Goto("WR", "insert"), NEW p \in LinePacket,
           hand' = [hand EXCEPT !["WR"] = p], OneOf(p) \cap ReadSoFar = {},
           ReadSoFar' = ReadSoFar \cup OneOf(p),
           UNCHANGED <<rbContent, mbContent, got>>
    PROVE  CommPackets' /\ CommOrder'
<1>1. /\ pc' \in [Comm!Thread -> Where] /\ pc'["WR"] = "insert"
      /\ \A u \in Comm!Thread \ {"WR"} : pc'[u] = pc[u]
  BY ThreadMoves, Kinds DEF CommInv, CommScalars, Where
<1>2. /\ hand' \in [Comm!Thread -> CommPacket \cup {<<>>}] /\ hand'["WR"] = p
      /\ \A t \in {"PT", "ST"} : hand'[t] = hand[t]
  BY LineNumber, Kinds DEF CommInv, CommPackets
<1>3. CommPackets'
  BY <1>1, <1>2, Kinds DEF CommInv, CommPackets
<1>4. /\ InHand("WR", "insert") = {} /\ InHand("WR", "insert")' = OneOf(p)
      /\ InHand("PT", "process")' = InHand("PT", "process")
      /\ InHand("ST", "insert")' = InHand("ST", "insert")
  BY <1>1, <1>2, Kinds DEF InHand
<1>5. WRRuns /\ WRRuns' /\ (PTRuns' <=> PTRuns) /\ (STRuns' <=> STRuns)
  BY <1>1, Kinds DEF PTRuns, STRuns, WRRuns
<1>6. /\ Processed' = Processed /\ ToProcess' = ToProcess /\ ToRoute' = ToRoute
      /\ ToInsert' = ToInsert /\ ToRead' = ToRead
  BY <1>4 DEF Processed, ToProcess, ToRoute, ToInsert, ToRead
<1>7. ToHandOn = ToRead /\ ToHandOn' = ToRead \cup OneOf(p)
  BY <1>4, <1>6 DEF ToHandOn
<1>8. ASSUME PTRuns, STRuns PROVE BehindSerial'
  <2>1. BehindSerial /\ BehindReader
    BY <1>5, <1>8 DEF CommInv, CommOrder, BehindProcessing, BehindSerial
  <2>2. BehindReader'
    BY <1>4, <1>6, <1>7, <2>1 DEF BehindReader
  <2> QED BY <1>4, <1>6, <2>1, <2>2 DEF BehindSerial
<1>9. PTRuns' => BehindProcessing'
  BY <1>5, <1>6, <1>8 DEF CommInv, CommOrder, BehindProcessing
<1> QED BY <1>3, <1>4, <1>6, <1>9 DEF CommInv, CommOrder

\* It puts the packet in its hand into mReadBuf.
LEMMA ReaderPuts ==
    ASSUME CommInv, pc["WR"] = "insert", Comm!Goto("WR", "top"), Comm!ReadBuf!Insert(hand["WR"]),
           hand' = [hand EXCEPT !["WR"] = <<>>],
           UNCHANGED <<line, mbContent, got>>
    PROVE  CommPackets' /\ CommOrder'
<1> DEFINE h == hand["WR"]
<1>1. /\ pc' \in [Comm!Thread -> Where] /\ pc'["WR"] = "top"
      /\ \A u \in Comm!Thread \ {"WR"} : pc'[u] = pc[u]
  BY ThreadMoves, Kinds DEF CommInv, CommScalars, Where
<1>2. h \in LinePacket /\ rbContent \in Seq(LinePacket) /\ rbContent' = Append(rbContent, h)
  BY DEF CommInv, CommPackets, LinePacket, Comm!ReadBuf!Insert, Comm!ReadBuf!Inserted
<1>3. rbContent' \in Seq(LinePacket) /\ NumbersIn(rbContent') = NumbersIn(rbContent) \cup OneOf(h)
  BY <1>2, NumbersOfAppend
<1>4. /\ hand' \in [Comm!Thread -> CommPacket \cup {<<>>}]
      /\ \A t \in {"PT", "ST"} : hand'[t] = hand[t]
  BY Kinds DEF CommInv, CommPackets
<1> HIDE DEF h
<1>5. CommPackets'
  BY <1>1, <1>3, <1>4, Kinds DEF CommInv, CommPackets
<1>6. /\ InHand("WR", "insert") = OneOf(h) /\ InHand("WR", "insert")' = {}
      /\ InHand("PT", "process")' = InHand("PT", "process")
      /\ InHand("ST", "insert")' = InHand("ST", "insert")
  BY <1>1, <1>4, Kinds DEF InHand, h
<1>7. WRRuns /\ WRRuns' /\ (PTRuns' <=> PTRuns) /\ (STRuns' <=> STRuns)
  BY <1>1, Kinds DEF PTRuns, STRuns, WRRuns
<1>8. /\ Processed' = Processed /\ ToProcess' = ToProcess /\ ToRoute' = ToRoute
      /\ ToInsert' = ToInsert
  BY <1>6 DEF Processed, ToProcess, ToRoute, ToInsert
<1>9. ToRead' = ToHandOn /\ ToHandOn' = ToHandOn /\ ReadSoFar' = ReadSoFar
  BY <1>3, <1>6, <1>8 DEF ToRead, ToHandOn, ReadSoFar
<1>10. ASSUME PTRuns, STRuns PROVE BehindSerial'
  <2>1. BehindSerial /\ BehindReader
    BY <1>7, <1>10 DEF CommInv, CommOrder, BehindProcessing, BehindSerial
  <2>2. OneOf(h) \cap ToRead = {} /\ NumbersIn(rbContent) \subseteq ToRead /\ ToInsert \subseteq ToRead
    BY <1>6, <2>1 DEF BehindReader, ToRead
  <2>3. \A n \in NumbersIn(rbContent) : \A m \in OneOf(h) : n > m
    <3>1. ASSUME NEW m \in OneOf(h) PROVE \A n \in ToRead : n > m
      <4>1. m \in Comm!DataNumbers /\ m \notin ToRead
        BY <1>2, <2>2, <3>1, LineNumber
      <4>2. ToRead \subseteq Comm!DataNumbers /\ NoneMissing(ToRead)
        BY <2>1, PlacesTyped DEF CommInv, BehindSerial
      <4> QED BY <4>1, <4>2, NextIsBelow
    <3> QED BY <2>2, <3>1
  <2>4. Falling(rbContent')
    BY <1>2, <2>1, <2>3, FallingAppend DEF BehindSerial
  <2>5. NumbersIn(rbContent') \cap ToInsert' = {}
    BY <1>3, <1>8, <2>1, <2>2 DEF BehindSerial
  <2>6. NoneMissing(ToRead')
    <3>1. ToRead' = ReadSoFar BY <1>9, <2>1 DEF BehindReader
    <3>2. \A m \in Comm!DataNumbers : m \in Nat BY DataNumbersAreNumbers
    <3>3. Len(line) \in Nat
      <4>1. line \in Seq({"DATA", "WATCHDOG"}) BY DEF CommInv, CommLine
      <4> QED BY <4>1
    <3>4. NoneMissing(ReadSoFar) BY <3>2, <3>3 DEF NoneMissing, ReadSoFar
    <3> QED BY <3>1, <3>4
  <2>7. BehindReader'
    BY <1>6, <1>9, <2>1 DEF BehindReader
  <2> QED BY <1>6, <1>8, <2>1, <2>4, <2>5, <2>6, <2>7 DEF BehindSerial
<1>11. PTRuns' => BehindProcessing'
  BY <1>7, <1>8, <1>10 DEF CommInv, CommOrder, BehindProcessing
<1> QED BY <1>5, <1>6, <1>8, <1>11 DEF CommInv, CommOrder

\* What it does else moves no packet, and a heartbeat is none.
LEMMA ReaderElse ==
    ASSUME CommInv, pc' \in [Comm!Thread -> Where],
           \A u \in Comm!Thread \ {"WR"} : pc'[u] = pc[u],
           pc'["WR"] # "insert",
           pc'["WR"] \in {"top", "call", "read"} => pc["WR"] \in {"top", "call", "read"},
           UNCHANGED <<rbContent, mbContent, hand, got>>,
           ReadSoFar' = ReadSoFar
    PROVE  CommPackets' /\ CommOrder'
<1>1. CommPackets'
  BY Kinds DEF CommInv, CommPackets
<1>2. /\ InHand("PT", "process")' = InHand("PT", "process")
      /\ InHand("ST", "insert")' = InHand("ST", "insert")
  BY Kinds DEF InHand
<1>3. WRRuns' => WRRuns /\ InHand("WR", "insert")' = InHand("WR", "insert")
  BY DEF WRRuns, InHand
<1>4. (PTRuns' <=> PTRuns) /\ (STRuns' <=> STRuns)
  BY Kinds DEF PTRuns, STRuns
<1>5. PTRuns => Falling(mbContent)
  BY DEF CommInv, CommOrder, BehindProcessing
<1>6. CommOrder'
  BY <1>2, <1>3, <1>4, <1>5, OrderKept DEF CommInv
<1> QED BY <1>1, <1>6

\* The reader of the watchdog keeps the order.
LEMMA ReaderGoesOn == CommInv /\ Comm!WatchdogReader => CommPackets' /\ CommOrder'
<1> SUFFICES ASSUME CommInv, Comm!WatchdogReader PROVE CommPackets' /\ CommOrder'
  OBVIOUS
<1>1. UNCHANGED <<mbContent, got>>
  BY DEF Comm!WatchdogReader, Comm!mb
<1>2. pc \in [Comm!Thread -> Where]
  BY DEF CommInv, CommScalars
<1> DEFINE p == <<IF Role = "master" THEN "BASE_S" ELSE "MASTER",
                  IF Role = "master" THEN "MASTER" ELSE "BASE", <<"line", Len(line)>>>>
<1>3. CASE /\ pc["WR"] = "read" /\ line # <<>> /\ line' = Tail(line) /\ Comm!IsData(Head(line))
           /\ Comm!Goto("WR", "insert") /\ hand' = [hand EXCEPT !["WR"] = p] /\ UNCHANGED rbContent
  <2>1. /\ Len(line) \in Comm!DataNumbers /\ Len(line) \notin ReadSoFar
        /\ ReadSoFar' = ReadSoFar \cup {Len(line)}
    BY <1>3, ReadsNext DEF CommInv
  <2>2. p \in LinePacket
    BY <2>1, LinePacketTyped
  <2>3. OneOf(p) = {Len(line)}
    BY <2>2, LineNumber DEF Comm!Number
  <2> HIDE DEF p
  <2> QED BY <1>1, <1>3, <2>1, <2>2, <2>3, ReaderTakes
<1>4. CASE /\ pc["WR"] = "insert" /\ Comm!Goto("WR", "top") /\ Comm!ReadBuf!Insert(hand["WR"])
           /\ hand' = [hand EXCEPT !["WR"] = <<>>] /\ UNCHANGED line
  BY <1>1, <1>4, ReaderPuts
<1>5. CASE /\ \/ pc["WR"] = "top" /\ \E there \in {"call", "done"} : Comm!Goto("WR", there)
              \/ pc["WR"] = "call" /\ \E there \in {"read", "crashed"} : Comm!Goto("WR", there)
              \/ Comm!Goto("WR", "done")
              \/ pc["WR"] = "read" /\ Comm!Goto("WR", "top")
           /\ \/ UNCHANGED line
              \/ line # <<>> /\ line' = Tail(line) /\ ~Comm!IsData(Head(line))
           /\ UNCHANGED <<rbContent, hand>>
  <2>1. /\ pc' \in [Comm!Thread -> Where] /\ pc'["WR"] # "insert"
        /\ \A u \in Comm!Thread \ {"WR"} : pc'[u] = pc[u]
        /\ pc'["WR"] \in {"top", "call", "read"} => pc["WR"] \in {"top", "call", "read"}
    BY <1>2, <1>5, ThreadMoves, Kinds DEF Where
  <2>2. ReadSoFar' = ReadSoFar
    BY <1>5, ReadsNext DEF CommInv, ReadSoFar
  <2> QED BY <1>1, <1>5, <2>1, <2>2, ReaderElse
<1> QED BY <1>3, <1>4, <1>5 DEF Comm!WatchdogReader, Comm!At, Comm!rb

-----------------------------------------------------------------------------
(***************************************************************************)
(* The other threads move no packet of the line.                           *)
(***************************************************************************)
LEMMA OthersKeepOrder ==
    ASSUME CommInv, pc' \in [Comm!Thread -> Where],
           \A t \in {"PT", "ST", "WR"} : pc'[t] = pc[t],
           UNCHANGED <<line, rbContent, hand, got>>,
           mbContent' \in Seq(CommPacket), NumbersIn(mbContent') = NumbersIn(mbContent),
           Falling(mbContent) => Falling(mbContent')
    PROVE  CommPackets' /\ CommOrder'
<1>1. CommPackets'
  BY DEF CommInv, CommPackets
<1>2. /\ InHand("PT", "process")' = InHand("PT", "process")
      /\ InHand("ST", "insert")' = InHand("ST", "insert")
      /\ InHand("WR", "insert")' = InHand("WR", "insert")
  BY DEF InHand
<1>3. (PTRuns' <=> PTRuns) /\ (STRuns' <=> STRuns) /\ (WRRuns' <=> WRRuns)
  BY DEF PTRuns, STRuns, WRRuns
<1>4. PTRuns => Falling(mbContent')
  BY DEF CommInv, CommOrder, BehindProcessing
<1>5. CommOrder'
  BY <1>2, <1>3, <1>4, OrderKept DEF CommInv, ReadSoFar
<1> QED BY <1>1, <1>5

\* They are the module's own packets, the callback of the watchdog and the
\* main thread.
LEMMA OthersGoOn ==
    ASSUME CommInv,
           \/ Comm!Post \/ Comm!TimesOut \/ Comm!Callback \/ Comm!Shutdown \/ Comm!ShutsDown
           \/ UNCHANGED Comm!vars
    PROVE  CommPackets' /\ CommOrder'
<1>1. /\ pc \in [Comm!Thread -> Where] /\ mbContent \in Seq(CommPacket)
      /\ posts \in 0..MaxPosts /\ MaxPosts \in Nat
  BY ServicesAssumption DEF CommInv, CommScalars, CommPackets, Comm!ConnectionAssumption
<1>2. CASE Comm!Post
  <2>1. /\ UNCHANGED <<line, rbContent, hand, got, pc>>
        /\ \E to \in Comm!Targets :
              Comm!Accept(<<IF to = "MASTER" THEN "BASE" ELSE "MASTER", to, <<"post", posts + 1>>>>)
    BY <1>2 DEF Comm!Post, Comm!rb
  <2>2. /\ mbContent' \in Seq(CommPacket) /\ NumbersIn(mbContent') = NumbersIn(mbContent)
        /\ Falling(mbContent) => Falling(mbContent')
    <3>1. PICK to \in Comm!Targets :
             Comm!Accept(<<IF to = "MASTER" THEN "BASE" ELSE "MASTER", to, <<"post", posts + 1>>>>)
      BY <2>1
    <3>2. PICK from \in {"BASE", "MASTER"} : from = IF to = "MASTER" THEN "BASE" ELSE "MASTER"
      OBVIOUS
    <3>3. posts + 1 \in Nat BY <1>1
    <3>4. Comm!Accept(<<from, to, <<"post", posts + 1>>>>) BY <3>1, <3>2
    <3> QED BY <1>1, <3>3, <3>4, AcceptKeeps
  <2> QED BY <1>1, <2>1, <2>2, OthersKeepOrder
<1>3. CASE \/ Comm!TimesOut \/ Comm!Callback \/ Comm!Shutdown \/ Comm!ShutsDown
           \/ UNCHANGED Comm!vars
  <2>1. UNCHANGED <<line, rbContent, mbContent, hand, got>>
    BY <1>3 DEF Comm!TimesOut, Comm!Callback, Comm!Shutdown, Comm!ShutsDown, Comm!vars, Comm!rb,
           Comm!mb, Comm!ReadBuf!BeginInterrupt, Comm!ReadBuf!NotifyAll, Comm!ReadBuf!EndInterrupt,
           Comm!Buffer!BeginInterrupt, Comm!Buffer!NotifyAll, Comm!Buffer!EndInterrupt
  <2>2. \/ UNCHANGED pc
        \/ \E t \in {"MT", "CB"}, there \in Where : Comm!Goto(t, there)
    BY <1>3 DEF Comm!TimesOut, Comm!Callback, Comm!Shutdown, Comm!ShutsDown, Comm!vars,
           Comm!Stay, Where
  <2>3. /\ pc' \in [Comm!Thread -> Where]
        /\ \A t \in {"PT", "ST", "WR"} : pc'[t] = pc[t]
    BY <1>1, <2>2, ThreadMoves, Kinds
  <2> QED BY <1>1, <2>1, <2>3, OthersKeepOrder
<1> QED BY <1>2, <1>3

(***************************************************************************)
(* The invariant of the connection.                                        *)
(***************************************************************************)
LEMMA CommStarts == Comm!Init => CommInv
<1> SUFFICES ASSUME Comm!Init PROVE CommInv
  OBVIOUS
<1> USE DEF Comm!Init
<1>1. FromLine \in Seq({"DATA", "WATCHDOG"}) /\ MaxPosts \in Nat
  BY ServicesAssumption DEF Comm!ConnectionAssumption
<1>2. CommScalars
  <2>1. pc \in [Comm!Thread -> Where] BY DEF Where
  <2>2. rbInterrupted = FALSE /\ mbInterrupted = FALSE
    BY DEF Comm!ReadBuf!Init, Comm!Buffer!Init
  <2>3. posts \in 0..MaxPosts /\ late \subseteq {"ST", "PT", "CB"} /\ open = "open" /\ timer = "off"
        /\ running = FALSE /\ timedOut = FALSE
    BY <1>1
  <2> HIDE DEF Comm!Init
  <2> QED BY <2>1, <2>2, <2>3 DEF CommScalars
<1>3. CommLine
  BY <1>1 DEF CommLine
<1>4. rbContent = <<>> /\ mbContent = <<>> /\ got = <<>>
  BY DEF Comm!ReadBuf!Init, Comm!Buffer!Init
<1>5. pc["PT"] = "top" /\ pc["ST"] = "top" /\ pc["WR"] = "top"
  BY DEF Comm!Thread
<1>6. CommPackets
  BY <1>4, <1>5 DEF CommPackets
<1>7. NumbersIn(<<>>) = {} /\ Falling(<<>>)
  BY DEF NumbersIn, Falling
<1>8. /\ InHand("PT", "process") = {} /\ InHand("ST", "insert") = {} /\ InHand("WR", "insert") = {}
  BY <1>5 DEF InHand
<1>9. ReadSoFar = {}
  BY <1>1, DataNumbersAreNumbers DEF ReadSoFar, Comm!DataNumbers
<1>10. /\ Processed = {} /\ ToProcess = {} /\ ToRoute = {} /\ ToInsert = {} /\ ToRead = {}
       /\ ToHandOn = {}
  BY <1>4, <1>7, <1>8 DEF Processed, ToProcess, ToRoute, ToInsert, ToRead, ToHandOn
<1>11. NoneMissing({})
  BY DEF NoneMissing
<1>12. CommOrder
  BY <1>4, <1>7, <1>8, <1>9, <1>10, <1>11 DEF CommOrder, BehindProcessing, BehindSerial, BehindReader
<1> QED BY <1>2, <1>3, <1>6, <1>12 DEF CommInv

\* Every step of every thread keeps it.
LEMMA CommGoesOn == CommInv /\ [Comm!Next]_(Comm!vars) => CommInv'
<1> SUFFICES ASSUME CommInv, [Comm!Next]_(Comm!vars) PROVE CommInv'
  OBVIOUS
<1>1. CommScalars'
  BY PlacesStay, FlagsOfCommStay DEF CommInv, CommScalars
<1>2. CommLine'
  BY LineStays DEF CommInv
<1>3. CommPackets' /\ CommOrder'
  BY ProcessingGoesOn, SerialGoesOn, ReaderGoesOn, OthersGoOn DEF Comm!Next
<1> QED BY <1>1, <1>2, <1>3 DEF CommInv

\* What has been processed is then all that was sent up to something.
LEMMA CommEnds == CommInv => Comm!TypeOK /\ Comm!ProcessedInOrder
<1> SUFFICES ASSUME CommInv PROVE Comm!TypeOK /\ Comm!ProcessedInOrder
  OBVIOUS
<1>1. Comm!TypeOK
  <2>1. \A p \in CommPacket : p[2] \in CommTarget
    BY DEF CommPacket
  <2>2. mbContent \in Seq(CommPacket)
    BY DEF CommInv, CommPackets
  <2>3. \A i \in DOMAIN mbContent : mbContent[i][2] \in CommTarget
    BY <2>1, <2>2
  <2> QED BY <2>3 DEF CommInv, CommScalars, Comm!TypeOK, CommTarget
<1>2. /\ got \in Seq(CommPacket) /\ NoneMissing(Processed) /\ Falling(got)
      /\ Processed \subseteq Comm!DataNumbers
  BY PlacesTyped DEF CommInv, CommPackets, CommOrder
<1>3. ASSUME NEW i \in DOMAIN got, Comm!FromTheLine(got[i])
      PROVE  /\ Comm!Number(got[i]) \in Comm!DataNumbers
             /\ \A n \in Comm!DataNumbers :
                   n > Comm!Number(got[i]) <=>
                      \E j \in 1..i - 1 : Comm!FromTheLine(got[j]) /\ Comm!Number(got[j]) = n
  <2>1. DOMAIN got = 1..Len(got) /\ Len(got) \in Nat
    BY <1>2
  <2>2. Comm!Number(got[i]) \in Processed
    BY <1>3 DEF Processed, NumbersIn
  <2>3. Comm!Number(got[i]) \in Nat
    BY <1>2, <2>2, DataNumbersAreNumbers
  <2>4. ASSUME NEW n \in Comm!DataNumbers, n > Comm!Number(got[i])
        PROVE  \E j \in 1..i - 1 : Comm!FromTheLine(got[j]) /\ Comm!Number(got[j]) = n
    <3>1. n \in Processed
      BY <1>2, <2>2, <2>4 DEF NoneMissing
    <3>2. PICK j \in DOMAIN got : Comm!FromTheLine(got[j]) /\ n = Comm!Number(got[j])
      BY <3>1 DEF Processed, NumbersIn
    <3>3. n \in Nat BY DataNumbersAreNumbers
    <3>4. ~(i < j) /\ i # j
      BY <1>2, <1>3, <2>3, <2>4, <3>2, <3>3 DEF Falling
    <3> QED BY <2>1, <3>2, <3>4
  <2>5. ASSUME NEW j \in 1..i - 1, Comm!FromTheLine(got[j])
        PROVE  Comm!Number(got[j]) > Comm!Number(got[i])
    BY <1>2, <1>3, <2>1, <2>5 DEF Falling
  <2> QED BY <1>2, <2>2, <2>4, <2>5
<1> QED BY <1>1, <1>3 DEF Comm!ProcessedInOrder

(***************************************************************************)
(* ProcessedInOrder of Connection, whatever the other module sends.        *)
(***************************************************************************)
THEOREM LineIsProcessedInOrder == Comm!Spec => [](Comm!TypeOK /\ Comm!ProcessedInOrder)
BY CommStarts, CommGoesOn, CommEnds, PTL DEF Comm!Spec

-----------------------------------------------------------------------------
(***************************************************************************)
(* The analyser, for every set of addresses and every number of items.     *)
(* That the plugins recognise the recordings is an assumption that TLC     *)
(* evaluates; what is proved is that the process tree is always the one of *)
(* the height map at hand, whatever was at its address before, so that no  *)
(* item is taken for another one and none is tossed.                       *)
(***************************************************************************)
ItemRecord == [kind : Kind, data : Seq(Address), plugin : Range(Plugins) \cup {"none"}, toss : BOOLEAN]

\* An item that has been measured has its own plugin, another one has none.
Identified(item) == /\ ~item.toss
                    /\ item.plugin = IF item.data = <<>> THEN "none" ELSE item.kind.type

AnalyserInv == /\ heap \in [Address -> DOMAIN Storage \cup {0}]
               /\ items \in Seq(ItemRecord)
               /\ \A k \in DOMAIN items : Identified(items[k])

\* The tree is made for the height map at its address.
LEMMA TreeIsNew ==
    ASSUME NEW a \in Address, NEW h
    PROVE  Use(Clear(processor), a, h).of = h[a]
BY AnalyserAssumption DEF AnalyserAssumption, Use, Clear, NoTree

\* An item that is matched by its own plugin gets that one.
LEMMA AnalysedIsIdentified ==
    ASSUME NEW item \in ItemRecord, Identified(item), NEW a \in Address, NEW match,
           Plugins[Best(match)] = item.kind.type, match[Best(match)] > Enough,
           item.kind.type \in Range(Plugins)
    PROVE  Analysed(item, a, match) \in ItemRecord /\ Identified(Analysed(item, a, match))
<1> DEFINE type == Plugins[Best(match)]
           known == match[Best(match)] > Enough
           conflict == known /\ item.plugin \notin {"none", type}
           new == [item EXCEPT !.data = Append(@, a),
                               !.plugin = IF conflict THEN "none" ELSE IF known THEN type ELSE @,
                               !.toss = @ \/ conflict \/ ~known]
<1>1. item.plugin \in {"none", type} /\ item.toss = FALSE
  BY DEF Identified, ItemRecord
<1>2. known = TRUE /\ conflict = FALSE
  BY <1>1
<1>3. type = item.kind.type
  OBVIOUS
<1>4. Analysed(item, a, match) = new
  BY DEF Analysed
<1>5. new = [item EXCEPT !.data = Append(item.data, a), !.plugin = item.kind.type, !.toss = FALSE]
  BY <1>1, <1>2, <1>3
<1>6. Append(item.data, a) \in Seq(Address) /\ Append(item.data, a) # <<>>
  BY DEF ItemRecord
<1> DEFINE d == Append(item.data, a)
           t == item.kind.type
<1>7. t \in Range(Plugins) \cup {"none"}
  OBVIOUS
<1>8. new = [item EXCEPT !.data = d, !.plugin = t, !.toss = FALSE]
  BY <1>5
<1> HIDE DEF new, d
<1>9. new \in ItemRecord /\ new.toss = FALSE /\ new.data = d /\ new.plugin = t /\ new.kind = item.kind
  BY <1>6, <1>7, <1>8 DEF ItemRecord, d
<1>10. d # <<>>
  BY <1>6 DEF d
<1> QED BY <1>4, <1>9, <1>10 DEF Identified

\* The analyser begins with the invariant,
LEMMA AnalyserStarts == Init => AnalyserInv
BY DEF Init, AnalyserInv

\* and an item that leaves changes nothing for the others.
LEMMA OthersLeftAlone ==
    ASSUME items \in Seq(ItemRecord), \A j \in DOMAIN items : Identified(items[j]),
           NEW k \in DOMAIN items
    PROVE  /\ RemoveAt(items, k) \in Seq(ItemRecord)
           /\ \A j \in DOMAIN RemoveAt(items, k) : Identified(RemoveAt(items, k)[j])
<1> DEFINE r == RemoveAt(items, k)
<1>1. Len(items) \in Nat /\ k \in 1..Len(items)
  OBVIOUS
<1>2. /\ SubSeq(items, 1, k - 1) \in Seq(ItemRecord) /\ Len(SubSeq(items, 1, k - 1)) = k - 1
      /\ \A j \in 1..k - 1 : SubSeq(items, 1, k - 1)[j] = items[j]
  BY <1>1
<1>3. /\ SubSeq(items, k + 1, Len(items)) \in Seq(ItemRecord)
      /\ Len(SubSeq(items, k + 1, Len(items))) = Len(items) - k
      /\ \A j \in 1..Len(items) - k : SubSeq(items, k + 1, Len(items))[j] = items[j + k]
  BY <1>1
<1> DEFINE p == SubSeq(items, 1, k - 1)
           q == SubSeq(items, k + 1, Len(items))
<1>4. r = p \o q
  BY DEF RemoveAt
<1> HIDE DEF p, q, r
<1>5. /\ r \in Seq(ItemRecord) /\ DOMAIN r = 1..Len(p) + Len(q)
      /\ \A j \in 1..Len(p) + Len(q) : r[j] = IF j <= Len(p) THEN p[j] ELSE q[j - Len(p)]
  BY <1>2, <1>3, <1>4 DEF p, q
<1>6. /\ DOMAIN r = 1..Len(items) - 1
      /\ \A j \in DOMAIN r : r[j] = IF j < k THEN items[j] ELSE items[j + 1]
  <2>1. Len(p) = k - 1 /\ Len(q) = Len(items) - k BY <1>2, <1>3 DEF p, q
  <2>2. DOMAIN r = 1..Len(items) - 1 BY <1>1, <1>5, <2>1
  <2> SUFFICES ASSUME NEW j \in 1..Len(items) - 1
               PROVE  r[j] = IF j < k THEN items[j] ELSE items[j + 1]
    BY <2>2
  <2>3. CASE j < k
    <3>1. j \in 1..k - 1 BY <1>1, <2>3
    <3>2. r[j] = p[j] BY <1>1, <1>5, <2>1, <3>1
    <3> QED BY <1>2, <2>3, <3>1, <3>2 DEF p
  <2>4. CASE ~(j < k)
    <3>1. j - (k - 1) \in 1..Len(items) - k /\ (j - (k - 1)) + k = j + 1 BY <1>1, <2>4
    <3>2. r[j] = q[j - (k - 1)] BY <1>1, <1>5, <2>1, <2>4
    <3>3. q[j - (k - 1)] = items[(j - (k - 1)) + k] BY <1>3, <3>1 DEF q
    <3> QED BY <2>4, <3>1, <3>2, <3>3
  <2> QED BY <2>3, <2>4
<1>7. ASSUME NEW j \in DOMAIN r PROVE Identified(r[j])
  <2>1. (IF j < k THEN j ELSE j + 1) \in DOMAIN items
    BY <1>1, <1>6
  <2> QED BY <1>6, <2>1
<1> QED BY <1>5, <1>7 DEF r

\* It is kept when an item comes, is measured or leaves.
LEMMA AnalyserGoesOn == AnalyserInv /\ [Next]_vars => AnalyserInv'
<1> SUFFICES ASSUME AnalyserInv, [Next]_vars PROVE AnalyserInv'
  OBVIOUS
<1> USE DEF AnalyserInv
<1>1. CASE NewItem
  <2>1. PICK k \in Kind :
           items' = Append(items, [kind |-> k, data |-> <<>>, plugin |-> "none", toss |-> FALSE])
    BY <1>1 DEF NewItem
  <2> DEFINE new == [kind |-> k, data |-> <<>>, plugin |-> "none", toss |-> FALSE]
  <2>2. new \in ItemRecord /\ Identified(new)
    BY DEF ItemRecord, Identified
  <2>3. items' = Append(items, new)
    BY <2>1
  <2> HIDE DEF new
  <2>4. items' \in Seq(ItemRecord) /\ \A j \in DOMAIN items' : Identified(items'[j])
    <3>1. items' \in Seq(ItemRecord) BY <2>2, <2>3
    <3>2. \A j \in DOMAIN items' : (j \in DOMAIN items /\ items'[j] = items[j]) \/ items'[j] = new
      BY <2>2, <2>3
    <3> QED BY <2>2, <3>1, <3>2
  <2> QED BY <1>1, <2>4 DEF NewItem
<1>2. CASE Analyse
  <2>1. PICK k \in DOMAIN items, r \in DOMAIN Storage, a \in Address :
           /\ Storage[r].type = ProfileOf(items[k].kind.type)
           /\ heap' = [heap EXCEPT ![a] = r]
           /\ Identify(k, a)
    BY <1>2 DEF Analyse
  <2>2. heap' \in [Address -> DOMAIN Storage \cup {0}] /\ heap'[a] = r
    BY <2>1
  <2> DEFINE item == items[k]
             match == Matches(r, item.kind.metal)
             new == Analysed(item, a, match)
  <2>3. item \in ItemRecord /\ Identified(item) /\ item.kind \in Kind
    <3>1. item \in ItemRecord OBVIOUS
    <3> HIDE DEF item
    <3>2. item.kind \in Kind BY <3>1 DEF ItemRecord
    <3> QED BY <3>1, <3>2 DEF item
  <2>4. items' = [items EXCEPT ![k] = new]
    BY <2>1, <2>2, TreeIsNew DEF Identify
  <2>5. Plugins[Best(match)] = item.kind.type /\ match[Best(match)] > Enough
    BY <2>1, <2>3, RecordingsAssumption DEF Recognised
  <2>6. item.kind.type \in Range(Plugins)
    BY <2>3 DEF Kind
  <2> HIDE DEF match
  <2>7. new \in ItemRecord /\ Identified(new)
    BY <2>3, <2>5, <2>6, AnalysedIsIdentified
  <2> HIDE DEF new
  <2>8. items' \in Seq(ItemRecord) /\ \A j \in DOMAIN items' : Identified(items'[j])
    <3>1. items' \in Seq(ItemRecord) BY <2>4, <2>7
    <3>2. DOMAIN items' = DOMAIN items BY <2>4
    <3>3. \A j \in DOMAIN items : items'[j] = items[j] \/ items'[j] = new BY <2>4
    <3> QED BY <2>7, <3>1, <3>2, <3>3
  <2> QED BY <2>2, <2>8
<1>3. CASE Leave
  <2>1. PICK k \in DOMAIN items :
           /\ items' = RemoveAt(items, k)
           /\ heap' = [a \in Address |-> IF Contains(items[k].data, a) THEN 0 ELSE heap[a]]
    BY <1>3 DEF Leave
  <2>2. heap' \in [Address -> DOMAIN Storage \cup {0}]
    BY <2>1
  <2> QED BY <2>1, <2>2, OthersLeftAlone
<1>4. CASE UNCHANGED vars
  BY <1>4 DEF vars
<1> QED BY <1>1, <1>2, <1>3, <1>4 DEF Next

\* It is more than what is to be shown.
LEMMA AnalyserEnds == AnalyserInv => KnownItemsAreIdentified
BY DEF AnalyserInv, Identified, KnownItemsAreIdentified

(***************************************************************************)
(* KnownItemsAreIdentified of Analyser, wherever height maps are put.      *)
(***************************************************************************)
THEOREM ItemsAreIdentified == Spec => []KnownItemsAreIdentified
BY AnalyserStarts, AnalyserGoesOn, AnalyserEnds, PTL DEF Spec

-----------------------------------------------------------------------------
(***************************************************************************)
(* All together: the part that was chosen goes on as it would by itself,   *)
(* and the others stay as they are.                                        *)
(***************************************************************************)
ServicesInv == /\ AnalyserInv
               /\ part = "Connection" => CommInv
               /\ part = "Timers" => TimersInv

\* A part that does not move keeps its invariant.
LEMMA CommIdle == CommInv /\ UNCHANGED connection => CommInv'
<1> SUFFICES ASSUME CommInv, UNCHANGED connection PROVE CommInv'
  OBVIOUS
<1>1. UNCHANGED Comm!vars
  BY DEF connection, Comm!vars, Comm!rb, Comm!mb
<1> QED BY <1>1, CommGoesOn

\* Every step keeps what holds of the part.
LEMMA ServicesKeepSound == ServicesSpec => []ServicesInv
<1>1. ServicesInit => ServicesInv
  BY AnalyserStarts, CommStarts, TimersStart DEF ServicesInit, ServicesInv
<1>2. ServicesInv /\ [ServicesNext]_servicesVars => ServicesInv'
  <2> SUFFICES ASSUME ServicesInv, [ServicesNext]_servicesVars PROVE ServicesInv'
    OBVIOUS
  <2>1. part' = part
    BY DEF ServicesNext, servicesVars
  <2>2. AnalyserInv'
    <3>1. [Next]_vars
      BY DEF ServicesNext, servicesVars, AnalyserStep, ConnectionStep, TimersStep, LinkStep
    <3> QED BY <3>1, AnalyserGoesOn DEF ServicesInv
  <2>3. ASSUME part = "Connection" PROVE CommInv'
    <3>1. Comm!Next \/ UNCHANGED connection
      BY <2>3 DEF ServicesNext, servicesVars, AnalyserStep, ConnectionStep, TimersStep, LinkStep
    <3> QED BY <2>3, <3>1, CommGoesOn, CommIdle DEF ServicesInv
  <2>4. ASSUME part = "Timers" PROVE TimersInv'
    <3>1. [Time!Next]_(Time!vars)
      BY <2>4 DEF ServicesNext, servicesVars, AnalyserStep, ConnectionStep, TimersStep, LinkStep,
             timerParts, Time!vars
    <3> QED BY <2>4, <3>1, TimersGoOn DEF ServicesInv
  <2> QED BY <2>1, <2>2, <2>3, <2>4 DEF ServicesInv
<1> QED BY <1>1, <1>2, PTL DEF ServicesSpec

(***************************************************************************)
(* What the run checks of the services, for every value of the constants.  *)
(***************************************************************************)
\* No callback begins once its timer was cancelled.
THEOREM CancelledAlwaysQuiet == ServicesSpec => []CancelledStaysQuiet
<1>1. ServicesInv => CancelledStaysQuiet
  BY TimersEnd DEF ServicesInv, CancelledStaysQuiet
<1> QED BY <1>1, ServicesKeepSound, PTL

\* Every item the program has a recording of is taken for what it is.
THEOREM KnownAlwaysIdentified == ServicesSpec => []KnownItemsAreIdentified
<1>1. ServicesInv => KnownItemsAreIdentified
  BY AnalyserEnds DEF ServicesInv
<1> QED BY <1>1, ServicesKeepSound, PTL
=============================================================================
