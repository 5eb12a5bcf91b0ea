---------------------------- MODULE ErrorRecovery ----------------------------
(***************************************************************************)
(* How the line gets out of an error: the error managers of the two        *)
(* modules (base/error_manager.cpp and base/error), the handler that       *)
(* dispatches to them (base/handler.cpp), and the error states of the      *)
(* master (master/logic.cpp, master/hsm/error.cpp).                        *)
(*                                                                         *)
(* The handler thread of a module takes packets and hardware events from   *)
(* one channel, and reads the buttons and light barriers when it gets to   *)
(* an event, not when it happened.  The master takes its packets from one   *)
(* queue; those of module 1 and its own are in it at once, those of        *)
(* module 2 when the serial line has carried them.                         *)
(***************************************************************************)
EXTENDS Integers, Sequences

CONSTANTS Kinds,      \* the errors that the master raises while it runs
          BarriersM,  \* the light barriers of each module that items break
          BarriersS,
          MaxErrors,  \* bound: errors raised in a behaviour, emergency stops included
          MaxEvents   \* bound: what waits, either way, when a hardware event comes

ASSUME KindsAssumption ==
    Kinds \subseteq {"RAMP_FULL", "ITEM_APPEARED", "ITEM_DISAPPEARED", "ITEM_STUCK", "ANALYSE"}

\* RAMP is LB_RAMP, ITEM the light barrier at which an item is in error.
ASSUME BarriersAssumption == BarriersM \cup BarriersS \subseteq {"RAMP", "ITEM"}

ASSUME BoundsAssumption == {MaxErrors, MaxEvents} \subseteq Nat

VARIABLES line,      \* the state of the master
          manager,   \* Handler::mCurrentManager
          error,     \* ErrorManager::mCurrentError
          mFixed,    \* ErrorManager::mFixed
          inbox,     \* the channel of the handler thread
          queue,     \* packets the master has received
          serial,    \* packets of module 2 on the serial line
          pressed,   \* the emergency stop is pressed
          blocked,   \* light barriers of interest that are broken
          raised     \* errors raised so far

base == <<manager, error, mFixed>>
plant == <<pressed, blocked>>
vars == <<line, base, inbox, queue, serial, plant, raised>>

Module == {"M", "S"}
Barriers(m) == IF m = "M" THEN BarriersM ELSE BarriersS

ErrorLine == {"error_both", "error_m", "error_s"}

(***************************************************************************)
(* error::Recoverable and its kinds.  A warning is fixed as soon as it is  *)
(* entered.                                                                *)
(***************************************************************************)
NoError == [kind |-> "NONE", priority |-> -2, state |-> "OK"]

Priority(k, m) == CASE k = "WARNING" -> -1
                    [] k = "ESTOP"   -> IF pressed[m] THEN 5 ELSE 4
                    [] OTHER         -> 0

Solve(s) == CASE s = "PENDING" -> "GONE" [] s = "ACK" -> "OK" [] OTHER -> s

Acknowledge(s) == CASE s = "PENDING" -> "ACK" [] s = "GONE" -> "OK" [] OTHER -> s

Entered(k, m) ==
    CASE k = "WARNING" -> "OK"
      [] k = "ESTOP" /\ ~pressed[m] -> "OK"
      [] k = "RAMP_FULL" /\ "RAMP" \notin blocked[m] -> "OK"
      [] k = "ITEM_STUCK" /\ "ITEM" \notin blocked[m] -> "GONE"
      [] OTHER -> "PENDING"

(***************************************************************************)
(* The handle() of each error.                                             *)
(***************************************************************************)
Cleared(k, m, e) ==
    CASE k = "ESTOP" -> e = "BTN_ESTOP" /\ ~pressed[m]
      [] k = "RAMP_FULL" -> e = "RAMP" /\ "RAMP" \notin blocked[m]
      [] k = "ITEM_DISAPPEARED" -> e = "BTN_RESET"
      [] k = "ITEM_STUCK" -> "ITEM" \notin blocked[m]
      [] k \in {"ITEM_APPEARED", "ANALYSE"} -> e = "ITEM" /\ "ITEM" \notin blocked[m]
      [] OTHER -> FALSE

Confirmed(k, m, e) == e = "BTN_RESET" /\ ~(k = "ESTOP" /\ pressed[m])

Handled(s, k, m, e) ==
    LET solved == IF Cleared(k, m, e) THEN Solve(s) ELSE s
    IN  IF Confirmed(k, m, e) THEN Acknowledge(solved) ELSE solved

(***************************************************************************)
(* What a module sends to the master.                                      *)
(***************************************************************************)
From(m, msg) == [src |-> m, msg |-> msg]

Tell(m, msg) == IF m = "M" THEN queue' = Append(queue, From(m, msg)) /\ UNCHANGED serial
                           ELSE serial' = Append(serial, From(m, msg)) /\ UNCHANGED queue

TellNothing == UNCHANGED <<queue, serial>>


(***************************************************************************)
(* The handler thread of module m.  Next(m, p): p is the next thing in its *)
(* channel.                                                                *)
(***************************************************************************)
Takes(m) == inbox[m] # <<>> /\ inbox' = [inbox EXCEPT ![m] = Tail(@)]

(***************************************************************************)
(* ErrorManager::accept of an error packet, after Handler::doSwitch.  The  *)
(* new error replaces one of lower priority; if it does not, and the       *)
(* current one has been fixed, that is reported again.                     *)
(***************************************************************************)
\* Mutant of Answers: a module reports its error fixed once.
AnswersOnce(replaces, fixed) == replaces /\ fixed

Answers(replaces, fixed) == fixed

AcceptError(m) ==
    /\ Takes(m)
    /\ Head(inbox[m]).type = "ERROR"
    /\ LET k == Head(inbox[m]).what
           replaces == Priority(k, m) > error[m].priority
           new == [kind |-> k, priority |-> Priority(k, m), state |-> Entered(k, m)]
       IN  /\ manager' = [manager EXCEPT ![m] = "error"]
           /\ error' = IF replaces THEN [error EXCEPT ![m] = new] ELSE error
           /\ mFixed' = IF replaces THEN [mFixed EXCEPT ![m] = new.state = "OK"] ELSE mFixed
           /\ IF Answers(replaces, mFixed'[m]) THEN Tell(m, "FIXED") ELSE TellNothing
    /\ UNCHANGED <<line, plant, raised>>

(***************************************************************************)
(* Handler::processBase: leaving the error manager forgets its error.      *)
(***************************************************************************)
\* Mutant of Leave: mFixed survives.
LeaveFixed(m) == error' = [error EXCEPT ![m] = NoError] /\ UNCHANGED mFixed

Leave(m) == error' = [error EXCEPT ![m] = NoError] /\ mFixed' = [mFixed EXCEPT ![m] = FALSE]

AcceptMode(m) ==
    /\ Takes(m)
    /\ Head(inbox[m]).type = "MODE"
    /\ manager' = [manager EXCEPT ![m] = Head(inbox[m]).what]
    /\ Leave(m)
    /\ UNCHANGED <<line, queue, serial, plant, raised>>

(***************************************************************************)
(* Handler::processHAL.  A pressed emergency stop is reported whatever the *)
(* manager, and the manager does not see it.                               *)
(***************************************************************************)
HandleStop(m) ==
    /\ Takes(m)
    /\ Head(inbox[m]).type = "EVENT" /\ Head(inbox[m]).what = "BTN_ESTOP" /\ pressed[m]
    /\ Tell(m, "ESTOP")
    /\ UNCHANGED <<line, base, plant, raised>>

HandleEvent(m) ==
    /\ Takes(m)
    /\ Head(inbox[m]).type = "EVENT"
    /\ LET e   == Head(inbox[m]).what
           now == Handled(error[m].state, error[m].kind, m, e)
       IN  /\ ~(e = "BTN_ESTOP" /\ pressed[m])
           /\ CASE manager[m] = "error" ->
                     LET fixed == error[m].state # "OK" /\ now = "OK"
                     IN  /\ error' = [error EXCEPT ![m].state = now]
                         /\ mFixed' = IF fixed THEN [mFixed EXCEPT ![m] = TRUE] ELSE mFixed
                         /\ IF fixed THEN Tell(m, "FIXED") ELSE TellNothing
                [] manager[m] = "ready" /\ e = "BTN_START" ->
                     Tell(m, "RUN") /\ UNCHANGED <<error, mFixed>>
                [] OTHER -> UNCHANGED <<error, mFixed, queue, serial>>
    /\ UNCHANGED <<line, manager, plant, raised>>

(***************************************************************************)
(* The serial line, and the master.                                        *)
(***************************************************************************)
\* Mutant of Target: one module is enough.
TargetAtOnce(l, p) ==
    CASE p.msg \notin {"FIXED", "RUN"} -> "error_both"
      [] p.msg = "FIXED" /\ l \in ErrorLine -> "ready"
      [] p.msg = "RUN" /\ l = "ready" -> "run"
      [] OTHER -> l

Target(l, p) ==
    CASE p.msg \notin {"FIXED", "RUN"} -> "error_both"
      [] p = From("S", "FIXED") /\ l = "error_both" -> "error_m"
      [] p = From("M", "FIXED") /\ l = "error_both" -> "error_s"
      [] p = From("M", "FIXED") /\ l = "error_m" -> "ready"
      [] p = From("S", "FIXED") /\ l = "error_s" -> "ready"
      [] p.msg = "RUN" /\ l = "ready" -> "run"
      [] OTHER -> l

\* An error of the other module is only a warning, unless it stops both.
Warns(p, m) == p.msg \notin {"ESTOP", "RAMP_FULL"} /\ p.src # m

Forward(p, m) ==
    IF p.msg \in {"FIXED", "RUN"} THEN <<>>
    ELSE <<[type |-> "ERROR", what |-> IF Warns(p, m) THEN "WARNING" ELSE p.msg]>>

\* Mutants of Announce: errors are announced too, or only run is.
AnnounceAll(l, k) == IF k # l THEN <<[type |-> "MODE", what |-> k]>> ELSE <<>>
Announce(l, k) == IF k # l /\ k \in {"ready", "run"} THEN <<[type |-> "MODE", what |-> k]>> ELSE <<>>

Arrive ==
    /\ serial # <<>>
    /\ queue' = Append(queue, Head(serial))
    /\ serial' = Tail(serial)
    /\ UNCHANGED <<line, base, inbox, plant, raised>>

MasterAccept ==
    /\ queue # <<>>
    /\ LET p == Head(queue)
           k == Target(line, p)
       IN  /\ line' = k
           /\ inbox' = [m \in Module |-> inbox[m] \o Announce(line, k) \o Forward(p, m)]
    /\ queue' = Tail(queue)
    /\ UNCHANGED <<base, serial, plant, raised>>

(***************************************************************************)
(* While it runs the master reports what it finds wrong to itself.         *)
(***************************************************************************)
RaiseError ==
    /\ line = "run" /\ raised < MaxErrors
    /\ \E k \in Kinds, m \in Module : queue' = Append(queue, From(m, k))
    /\ raised' = raised + 1
    /\ UNCHANGED <<line, base, inbox, serial, plant>>

(***************************************************************************)
(* The people at the line, and the items that break a light barrier while  *)
(* the belt moves them.                                                    *)
(***************************************************************************)
Quiet(m) == Len(inbox[m]) < MaxEvents /\ Len(queue) + Len(serial) < MaxEvents

Happens(m, e) == /\ inbox' = [inbox EXCEPT ![m] = Append(@, [type |-> "EVENT", what |-> e])]
                 /\ UNCHANGED <<line, base, queue, serial>>

Press(m)   == /\ Quiet(m) /\ ~pressed[m] /\ raised < MaxErrors
              /\ pressed' = [pressed EXCEPT ![m] = TRUE]
              /\ raised' = raised + 1
              /\ Happens(m, "BTN_ESTOP") /\ UNCHANGED blocked

Release(m) == /\ pressed[m]
              /\ pressed' = [pressed EXCEPT ![m] = FALSE]
              /\ Happens(m, "BTN_ESTOP") /\ UNCHANGED <<blocked, raised>>

Block(m, b) == /\ b \notin blocked[m] /\ manager[m] = "run" /\ Quiet(m)
               /\ blocked' = [blocked EXCEPT ![m] = @ \cup {b}]
               /\ Happens(m, b) /\ UNCHANGED <<pressed, raised>>

Clear(m, b) == /\ b \in blocked[m]
               /\ blocked' = [blocked EXCEPT ![m] = @ \ {b}]
               /\ Happens(m, b) /\ UNCHANGED <<pressed, raised>>

PushReset(m) == Quiet(m) /\ Happens(m, "BTN_RESET") /\ manager[m] = "error" /\ UNCHANGED <<plant, raised>>

PushStart(m) == Quiet(m) /\ Happens(m, "BTN_START") /\ manager[m] = "ready" /\ UNCHANGED <<plant, raised>>

Init == /\ line = "run"
        /\ manager = [m \in Module |-> "run"]
        /\ error = [m \in Module |-> NoError]
        /\ mFixed = [m \in Module |-> FALSE]
        /\ inbox = [m \in Module |-> <<>>]
        /\ queue = <<>>
        /\ serial = <<>>
        /\ pressed = [m \in Module |-> FALSE]
        /\ blocked = [m \in Module |-> {}]
        /\ raised = 0

Handle(m) == AcceptError(m) \/ AcceptMode(m) \/ HandleStop(m) \/ HandleEvent(m)

Next == \/ \E m \in Module : \/ Handle(m)
                             \/ Press(m) \/ Release(m) \/ PushReset(m) \/ PushStart(m)
                             \/ \E b \in Barriers(m) : Block(m, b) \/ Clear(m, b)
        \/ Arrive \/ MasterAccept \/ RaiseError

(***************************************************************************)
(* The threads run, and the people at the line do what the lights ask for: *)
(* they clear the barriers, release the emergency stop and push reset      *)
(* again and again.                                                        *)
(***************************************************************************)
Fairness == /\ WF_vars(Arrive) /\ WF_vars(MasterAccept)
            /\ \A m \in Module :
                 /\ WF_vars(Handle(m)) /\ WF_vars(Release(m)) /\ SF_vars(PushReset(m))
                 /\ \A b \in Barriers(m) : WF_vars(Clear(m, b))

Spec == Init /\ [][Next]_vars /\ Fairness
-----------------------------------------------------------------------------
TypeOK == /\ line \in ErrorLine \cup {"run", "ready"}
          /\ manager \in [Module -> {"run", "ready", "error"}]
          /\ \A m \in Module : error[m].state \in {"PENDING", "ACK", "GONE", "OK"}
          /\ mFixed \in [Module -> BOOLEAN]
          /\ pressed \in [Module -> BOOLEAN]
          /\ \A m \in Module : blocked[m] \subseteq Barriers(m)
          /\ raised \in 0..MaxErrors

\* The modules agree with the master.  What a module repeats when the master
\* asks again is true: it has reported its error fixed only if it is.  And
\* once a module has handled what the master sent, it is in the mode of the
\* master.
FixedMeansFixed ==
    \A m \in Module : mFixed[m] <=> manager[m] = "error" /\ error[m].state = "OK"

Waiting(m) == {inbox[m][i].type : i \in DOMAIN inbox[m]}

ModesAgree ==
    \A m \in Module : Waiting(m) \subseteq {"EVENT"} =>
        manager[m] = IF line \in ErrorLine THEN "error" ELSE line

ModulesAgree == FixedMeansFixed /\ ModesAgree

\* error_manager_logic.cpp:86 "won't leave estop error with wrong
\* acknowledgment": the line leaves the error state only when every
\* emergency stop that is pressed is one the master has not heard of yet.
OnTheWay(m) == \/ \E i \in DOMAIN inbox[m] : inbox[m][i] = [type |-> "EVENT", what |-> "BTN_ESTOP"]
               \/ \E i \in DOMAIN queue : queue[i] = From(m, "ESTOP")
               \/ \E i \in DOMAIN serial : serial[i] = From(m, "ESTOP")

NoRecoveryWhileStopped ==
    [][(line \in ErrorLine /\ line' = "ready") => \A m \in Module : pressed[m] => OnTheWay(m)]_vars

\* A single error is left only when both modules have fixed it.
RecoveryMeansFixed ==
    [][(raised = 1 /\ line \in ErrorLine /\ line' = "ready") => \A m \in Module : mFixed[m]]_vars

\* Nobody looks at the barrier again: enter() of ITEM_APPEARED and ANALYSE
\* (item_appeared.cpp:28, analyse.cpp:26) does not, so the error of an item that
\* has left it by then is never solved, unless an emergency stop replaces it.
Stranded(m) ==
    /\ manager[m] = "error"
    /\ error[m].kind \in {"ITEM_APPEARED", "ANALYSE"} /\ error[m].state \in {"PENDING", "ACK"}
    /\ "ITEM" \notin blocked[m]
    /\ ~\E i \in DOMAIN inbox[m] : inbox[m][i] = [type |-> "EVENT", what |-> "ITEM"]

\* The line never gets stuck in an error: whatever the errors and the order
\* in which they come and are fixed, a report that all is well again is
\* neither lost nor used up by an earlier error.  Only an item that has left
\* its barrier too soon can keep it there.
AlwaysRecovers == (line \in ErrorLine) ~> (line = "ready" \/ \E m \in Module : Stranded(m))
=============================================================================
