------------------------------- MODULE Timers -------------------------------
(***************************************************************************)
(* The timer service: timer::Impl with its thread that ticks every         *)
(* millisecond, Holder timers whose callbacks run on that thread, and      *)
(* Async timers with a thread of their own.  The timer thread holds mMutex *)
(* for a whole update(), so other threads come in between two updates      *)
(* only; what a callback on the timer thread does itself takes no lock and *)
(* finds mTimers as it is, without the timers that wait in mQueue.         *)
(***************************************************************************)
EXTENDS Naturals, FiniteSets

CONSTANTS MaxTimers,   \* bound: timers that are ever registered
          MaxPulses    \* bound: EXECUTE pulses that wait for an async thread

TimersAssumption == MaxTimers \in Nat \ {0} /\ MaxPulses \in Nat \ {0}

Id == 1..MaxTimers

VARIABLES timer,      \* the timers by id
          visited,    \* ids update() has been at; mMutex is held
          updating,
          executing,  \* the Holder whose callback runs, or 0
          nextID,
          cancelled   \* ids whose manager has been reset by another thread

vars == <<timer, visited, updating, executing, nextID, cancelled>>

(***************************************************************************)
(* Base and Async.  "at" is where the object is, "running" and "active"    *)
(* are mRunning and mIsActive of an async timer, "active" mActive of a     *)
(* holder; "pulses" are the EXECUTE messages on an async timer's channel,  *)
(* "stop" a SHUTDOWN behind them, "busy" a callback in progress.           *)
(***************************************************************************)
Unused == [kind |-> "none", at |-> "gone", remaining |-> 0, period |-> 0, paused |-> FALSE,
           active |-> FALSE, running |-> FALSE, pulses |-> 0, stop |-> FALSE, busy |-> FALSE]

New(kind, r, p, place) ==
    [kind |-> kind, at |-> place, remaining |-> r, period |-> p, paused |-> FALSE,
     active |-> TRUE, running |-> (kind = "Async"), pulses |-> 0, stop |-> FALSE, busy |-> FALSE]

Done(t) == ~t.active

\* Mutant of ShutDown: the thread of an async timer is not told.
StopsTicking(t) == IF t.kind = "Holder" THEN [t EXCEPT !.active = FALSE]
                   ELSE [t EXCEPT !.running = FALSE]

\* shutdown(): a holder is done at once, an async timer when its thread has
\* received the message.
ShutDown(t) ==
    IF t.kind = "Holder" THEN [t EXCEPT !.active = FALSE]
    ELSE IF Done(t) THEN t
    ELSE [t EXCEPT !.running = FALSE, !.stop = TRUE]

Init == /\ timer = [i \in Id |-> Unused]
        /\ visited = {} /\ updating = FALSE /\ executing = 0
        /\ nextID = 1 /\ cancelled = {}

-----------------------------------------------------------------------------
\* Mutant of Locked: unregisterCallback() and the others take no lock.
Unlocked == TRUE

\* MXT_SYNCHRONIZE on any thread but the timer's.
Locked == ~updating

Registered(i) == timer[i].at = "map"

Register ==
    /\ Locked /\ nextID <= MaxTimers
    /\ \E kind \in {"Holder", "Async"}, r \in 0..1, p \in 0..1 :
         timer' = [timer EXCEPT ![nextID] = New(kind, r, p, "map")]
    /\ nextID' = nextID + 1
    /\ UNCHANGED <<visited, updating, executing, cancelled>>

\* unregisterCallback() through the manager's reset() or destructor.
Unregister ==
    /\ Locked
    /\ \E i \in 1..(nextID - 1) \ cancelled :
         /\ cancelled' = cancelled \cup {i}
         /\ timer' = IF Registered(i) THEN [timer EXCEPT ![i] = ShutDown(@)] ELSE timer
    /\ UNCHANGED <<visited, updating, executing, nextID>>

PauseOrResume ==
    /\ Locked
    /\ \E i \in Id \ cancelled :
         Registered(i) /\ timer' = [timer EXCEPT ![i].paused = ~@]
    /\ UNCHANGED <<visited, updating, executing, nextID, cancelled>>

-----------------------------------------------------------------------------
(***************************************************************************)
(* update() goes through the timers in the order of their ids.             *)
(***************************************************************************)
Left == { i \in Id : Registered(i) /\ i \notin visited }

Earliest(i) == i \in Left /\ \A j \in Left : i <= j

Tick == /\ ~updating
        /\ updating' = TRUE /\ visited' = {}
        /\ UNCHANGED <<timer, executing, nextID, cancelled>>

Erase(t) == [t EXCEPT !.at = "gone"]

\* After its callback a periodic timer starts again, another one is over;
\* Async::done does not ask for that.
Rewound(t) == IF t.period > 0 THEN [t EXCEPT !.remaining = t.period - 1]
              ELSE IF t.kind = "Holder" THEN [t EXCEPT !.active = FALSE]
              ELSE [t EXCEPT !.remaining = 2]   \* 2^32 - 1 milliseconds

CountDown(t) == [t EXCEPT !.remaining = IF t.remaining = 2 THEN 2 ELSE @ - 1]

\* tick() of an async timer does nothing once it is shut down.
Ticks(t) == ~Done(t) /\ ~t.paused /\ (t.kind = "Async" => t.running)

\* execute() of an async timer sends it a message.
Pulsed(t) == [Rewound(t) EXCEPT !.pulses = IF @ = MaxPulses THEN @ ELSE @ + 1]

Visit ==
    /\ updating /\ executing = 0
    /\ \E i \in Id :
         LET t == timer[i]
         IN  /\ Earliest(i)
             /\ visited' = visited \cup {i}
             /\ \/ /\ Done(t)
                   /\ timer' = [timer EXCEPT ![i] = Erase(t)]
                   /\ UNCHANGED executing
                \/ /\ ~Done(t) /\ ~Ticks(t)
                   /\ UNCHANGED <<timer, executing>>
                \/ /\ Ticks(t) /\ t.remaining > 0
                   /\ timer' = [timer EXCEPT ![i] = CountDown(t)]
                   /\ UNCHANGED executing
                \/ /\ Ticks(t) /\ t.remaining = 0 /\ t.kind = "Async"
                   /\ timer' = [timer EXCEPT ![i] = Pulsed(t)]
                   /\ UNCHANGED executing
                \/ /\ Ticks(t) /\ t.remaining = 0 /\ t.kind = "Holder"
                   /\ executing' = i
                   /\ UNCHANGED timer
    /\ UNCHANGED <<updating, nextID, cancelled>>

\* What a callback on the timer thread does: register a timer, reset the
\* manager of one, its own included, and return or throw.
CallbackRegisters ==
    /\ executing # 0 /\ nextID <= MaxTimers
    /\ \E kind \in {"Holder", "Async"}, p \in 0..1 :
         timer' = [timer EXCEPT ![nextID] = New(kind, 0, p, "queue")]
    /\ nextID' = nextID + 1
    /\ UNCHANGED <<visited, updating, executing, cancelled>>

CallbackUnregisters ==
    /\ executing # 0
    /\ \E i \in Id : Registered(i) /\ timer' = [timer EXCEPT ![i] = ShutDown(@)]
    /\ UNCHANGED <<visited, updating, executing, nextID, cancelled>>

CallbackReturns ==
    /\ executing # 0
    /\ \/ timer' = [timer EXCEPT ![executing] = Rewound(@)]
       \/ timer' = [timer EXCEPT ![executing].active = FALSE]
    /\ executing' = 0
    /\ UNCHANGED <<visited, updating, nextID, cancelled>>

EndUpdate ==
    /\ updating /\ executing = 0 /\ Left = {}
    /\ timer' = [i \in Id |-> IF timer[i].at = "queue" THEN [timer[i] EXCEPT !.at = "map"] ELSE timer[i]]
    /\ updating' = FALSE /\ visited' = {}
    /\ UNCHANGED <<executing, nextID, cancelled>>

TimerThread == Visit \/ CallbackReturns \/ EndUpdate

-----------------------------------------------------------------------------
(***************************************************************************)
(* The thread of an async timer: messages in order, mRunning tested again  *)
(* before the callback.                                                    *)
(***************************************************************************)
Received(t) == [t EXCEPT !.pulses = @ - 1]

AsyncThread(i) ==
    /\ timer[i].kind = "Async" /\ timer[i].active
    /\ LET t == timer[i]
       IN  \/ /\ t.busy
              /\ timer' = [timer EXCEPT ![i].busy = FALSE]
           \/ /\ ~t.busy /\ t.pulses > 0 /\ t.running
              /\ timer' = [timer EXCEPT ![i] = [Received(t) EXCEPT !.busy = TRUE]]
           \/ /\ ~t.busy /\ t.stop
              /\ timer' = [timer EXCEPT ![i].active = FALSE]
    /\ UNCHANGED <<visited, updating, executing, nextID, cancelled>>

Next == \/ Register \/ Unregister \/ PauseOrResume
        \/ Tick \/ Visit \/ CallbackRegisters \/ CallbackUnregisters \/ CallbackReturns \/ EndUpdate
        \/ \E i \in Id : AsyncThread(i)

\* The pulse comes every millisecond, and threads that can run do.
Fairness == /\ WF_vars(Tick) /\ WF_vars(TimerThread)
            /\ \A i \in Id : WF_vars(AsyncThread(i))

Spec == Init /\ [][Next]_vars /\ Fairness

-----------------------------------------------------------------------------
TypeOK == /\ nextID \in 1..(MaxTimers + 1) /\ executing \in 0..MaxTimers
          /\ cancelled \subseteq Id /\ visited \subseteq Id
          /\ \A i \in Id : /\ timer[i].at \in {"map", "queue", "gone"}
                           /\ timer[i].kind \in {"none", "Holder", "Async"}
                           /\ timer[i].pulses \in 0..MaxPulses
                           /\ timer[i].remaining \in 0..2

\* When unregisterCallback() returns on another thread, the callback of a
\* Holder is not running and does not run again; that of an async timer may
\* still run, but none begins.
CancelledStaysQuiet ==
    /\ \A i \in cancelled : executing # i /\ ~(timer[i].kind = "Async" /\ timer[i].running)
    /\ \A i \in Id : timer[i].at = "queue" => updating

\* A cancelled timer is released in the end, with its thread.
Cancelled(i) == i \in cancelled
Released(i)  == timer[i].at = "gone"

CancelledIsReleased == \A i \in Id : Cancelled(i) ~> Released(i)
=============================================================================
