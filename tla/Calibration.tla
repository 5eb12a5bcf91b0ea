----------------------------- MODULE Calibration -----------------------------
(***************************************************************************)
(* How a module comes by its configuration: the managers of the modes in   *)
(* which the line stands (base/idle) and the ConfigManager, which measures *)
(* an item on its way to the end, back to the start and to the end again,  *)
(* the ConfigObject it writes to, and the file that outlives the program.  *)
(* What the handler's thread does to an event is one step, except for the  *)
(* two writes of save(); the delayed start of the belt is a timer with a   *)
(* thread of its own, which leave() does not cancel.                       *)
(***************************************************************************)
EXTENDS Naturals

CONSTANTS MaxPasses,   \* bound: passes of calibration that are begun
          MaybeZero    \* the values that a measurement may find to be 0

Values == {"heightSensorMin", "heightSensorMax", "itemInLB", "startToHs", "hsToSwitch", "switchToEnd"}

CalibrationAssumption == MaxPasses \in Nat /\ MaybeZero \subseteq Values

\* A value stands for the pass in which it was measured; 0 is the number 0.
Zero == [v \in Values |-> 0]

VARIABLES program,    \* "up", "saving", "down", or "refused" to start
          file,       \* system.conf: "missing", "empty" or "full", and its values
          config,     \* the fields of the ConfigObject
          mValid,     \* ConfigObject::mValid
          manager,    \* Handler::mCurrentManager
          age,        \* of mPressed of the idle and the valid manager
          mState,     \* ConfigManager::mState
          measured,   \* the fields of the ConfigManager
          pass,       \* passes begun
          failed,     \* a pass has failed in setting the object
          told,       \* the last message to the master
          starter,    \* the delayed start: "off", "armed", or its steps left
          out,        \* the direction bits of the motor
          mRight,     \* Motor::mRight
          late         \* the delayed start went on after the mode was left

object == <<config, mValid>>
belt == <<starter, out, mRight, late>>
vars == <<program, file, object, manager, age, mState, measured, pass, failed, told, belt>>

Manager == {"Idle", "Valid", "Ready", "Config", "Other"}

Complete(c) == \A v \in Values : c[v] > 0

\* isValid() remembers what it once found.
IsValid(c, remembered) == remembered \/ Complete(c)

\* The constructors: what the file holds is taken as it is, a file of another
\* length is refused.
StartUp == /\ program' = IF file.is = "empty" THEN "refused" ELSE "up"
           /\ config' = IF file.is = "full" THEN file.values ELSE Zero
           /\ mValid' = Complete(config')
           /\ told' = IF mValid' THEN "VALID" ELSE "-"
           /\ manager' = "Idle" /\ age' = [m \in {"Idle", "Valid"} |-> "old"]
           /\ mState' = 0 /\ measured' = Zero
           /\ starter' = "off" /\ out' = {} /\ mRight' = TRUE

Init == /\ program = "down" /\ file = [is |-> "missing", values |-> Zero]
        /\ config = Zero /\ mValid = FALSE
        /\ manager = "Idle" /\ age = [m \in {"Idle", "Valid"} |-> "old"]
        /\ mState = 0 /\ measured = Zero /\ pass = 0 /\ failed = FALSE
        /\ told = "-" /\ starter = "off" /\ out = {} /\ mRight = TRUE /\ late = FALSE

Start == /\ program = "down"
         /\ StartUp
         /\ failed' = FALSE /\ late' = FALSE
         /\ UNCHANGED <<file, pass>>

\* The power fails; save() has opened, and so emptied, the file.
Stop == /\ program \in {"up", "saving"}
        /\ program' = "down" /\ starter' = "off" /\ out' = {}
        /\ UNCHANGED <<file, object, manager, age, mState, measured, pass, failed, told, mRight, late>>

-----------------------------------------------------------------------------
(***************************************************************************)
(* Handler::doSwitch with leave() and enter() of the managers.             *)
(***************************************************************************)
\* Mutant of Restarted: enter() goes on where the last pass was left.
NotRestarted(s) == s

Restarted(s) == 0

Left == {}

Switch(m) ==
    /\ program = "up" /\ m # manager
    /\ m = "Config" => pass < MaxPasses
    /\ manager' = m
    /\ IF manager = "Config" THEN out' = Left /\ mRight' = TRUE ELSE UNCHANGED <<out, mRight>>
    /\ IF m = "Config" THEN mState' = Restarted(mState) /\ pass' = pass + 1
                       ELSE UNCHANGED <<mState, pass>>
    /\ IF m = "Idle" /\ IsValid(config, mValid)
         THEN mValid' = TRUE /\ told' = "VALID"
         ELSE UNCHANGED <<mValid, told>>
    /\ UNCHANGED <<program, file, config, age, measured, failed, starter, late>>

(***************************************************************************)
(* The start button.  Each manager has a time of its own at which it saw   *)
(* the button pressed last, 0 at first: new, medium once it is mMin ago,   *)
(* and old once it is mMax ago.                                            *)
(***************************************************************************)
Elapse == /\ program = "up"
          /\ \E m \in DOMAIN age :
               age' = [age EXCEPT ![m] = IF @ = "new" THEN "medium" ELSE "old"]
          /\ UNCHANGED <<program, file, object, manager, mState, measured, pass, failed, told, belt>>

Press == /\ program = "up" /\ manager \in DOMAIN age
         /\ age' = [age EXCEPT ![manager] = "new"]
         /\ UNCHANGED <<program, file, object, manager, mState, measured, pass, failed, told, belt>>

Release ==
    /\ program = "up"
    /\ \/ manager \in DOMAIN age /\ age[manager] = "old" /\ told' = "CONFIG"
       \/ manager = "Valid" /\ age["Valid"] = "medium" /\ told' = "RUN"
       \/ manager = "Ready" /\ told' = "RUN"
    /\ UNCHANGED <<program, file, object, manager, age, mState, measured, pass, failed, belt>>

-----------------------------------------------------------------------------
(***************************************************************************)
(* ConfigManager::handle.  A state waits for one light barrier to be       *)
(* broken or free, measures something and drives the belt; the last one    *)
(* ends the pass.                                                          *)
(***************************************************************************)
Measures(s) ==
    CASE s = 1  -> {"heightSensorMin"}
      [] s = 3  -> {"heightSensorMin"}
      [] s = 6  -> {"startToHs", "heightSensorMax"}
      [] s = 8  -> {"hsToSwitch"}
      [] s = 9  -> {"itemInLB"}
      [] s = 10 -> {"switchToEnd"}
      [] OTHER  -> {}

Drives(s, bits) ==
    CASE s = 3 -> {"LEFT"} [] s = 5 -> {"RIGHT"} [] s = 10 -> {} [] OTHER -> bits

Turned(s, right) == CASE s = 3 -> FALSE [] s = 5 -> TRUE [] OTHER -> right

Found == [v \in Values |-> IF v \in MaybeZero THEN {0, pass} ELSE {pass}]

Measured(s, m) == \A v \in Values : IF v \in Measures(s) THEN m[v] \in Found[v] ELSE m[v] = measured[v]

Results == [Values -> 0..MaxPasses]

\* The setters, in the order of the code, up to the one that throws.
Order == <<"heightSensorMin", "heightSensorMax", "itemInLB", "startToHs", "hsToSwitch", "switchToEnd">>

Throws(m) == \E v \in Values : m[v] = 0

TakenOver(m) ==
    [v \in Values |-> LET i == CHOOSE j \in DOMAIN Order : Order[j] = v
                      IN  IF \A j \in 1..i : m[Order[j]] > 0 THEN m[v] ELSE config[v]]

Advance ==
    /\ program = "up" /\ manager = "Config" /\ mState < 10
    /\ mState' = mState + 1
    /\ \E m \in Results : Measured(mState, m) /\ measured' = m
    /\ out' = Drives(mState, out) /\ mRight' = Turned(mState, mRight)
    /\ IF mState = 0 THEN starter' = "armed" /\ told' = "START" ELSE UNCHANGED <<starter, told>>
    /\ UNCHANGED <<program, file, object, manager, age, pass, failed, late>>

\* When the file cannot be opened the exception goes to the handler's loop:
\* no message is sent, and the state stays.
Finish ==
    /\ program = "up" /\ manager = "Config" /\ mState = 10
    /\ out' = {}
    /\ \E m \in Results :
         /\ Measured(10, m) /\ measured' = m /\ config' = TakenOver(m)
         /\ \/ /\ Throws(m)
               /\ mState' = 11 /\ told' = "FAILED" /\ failed' = TRUE
               /\ UNCHANGED <<program, file, mValid>>
            \/ /\ ~Throws(m)
               /\ program' = "saving" /\ file' = [is |-> "empty", values |-> Zero]
               /\ mValid' = TRUE /\ failed' = FALSE
               /\ UNCHANGED <<mState, told>>
            \/ /\ ~Throws(m)
               /\ mValid' = TRUE /\ failed' = FALSE
               /\ UNCHANGED <<program, file, mState, told>>
    /\ UNCHANGED <<manager, age, pass, starter, mRight, late>>

Saved == /\ program = "saving"
         /\ program' = "up" /\ file' = [is |-> "full", values |-> config]
         /\ mState' = 11 /\ told' = "DONE"
         /\ UNCHANGED <<object, manager, age, measured, pass, failed, belt>>

\* The master moves and holds the belt while the other module is calibrated.
Accept == /\ program = "up" /\ manager = "Config"
          /\ \/ out' = {"RIGHT"} /\ mRight' = TRUE
             \/ out' = {} /\ UNCHANGED mRight
          /\ UNCHANGED <<program, file, object, manager, age, mState, measured, pass, failed, told, starter, late>>

-----------------------------------------------------------------------------
\* right() and start() on a thread of the timer's; what leave() and the states
\* do to the motor may come in between, and start() goes by what they left.
\* That they may come in the middle of either is in Actuators.
DelayedStart ==
    /\ program \in {"up", "saving"}
    /\ \/ /\ starter = "armed" /\ starter' = "right"
          /\ out' = (out \ {"LEFT"}) \cup {"RIGHT"} /\ mRight' = TRUE
       \/ /\ starter = "right" /\ starter' = "off"
          /\ out' = out \cup {IF mRight THEN "RIGHT" ELSE "LEFT"} /\ UNCHANGED mRight
    /\ late' = (late \/ manager # "Config")
    /\ UNCHANGED <<program, file, object, manager, age, mState, measured, pass, failed, told>>

Next == \/ Start \/ Stop \/ \E m \in Manager : Switch(m)
        \/ Elapse \/ Press \/ Release
        \/ Advance \/ Finish \/ Saved \/ Accept \/ DelayedStart

Spec == Init /\ [][Next]_vars

-----------------------------------------------------------------------------
TypeOK == /\ program \in {"up", "saving", "down", "refused"}
          /\ file.is \in {"missing", "empty", "full"} /\ file.values \in Results
          /\ config \in Results /\ measured \in Results /\ mValid \in BOOLEAN
          /\ mState \in 0..11 /\ pass \in 0..MaxPasses
          /\ starter \in {"off", "armed", "right"} /\ out \subseteq {"LEFT", "RIGHT"}
          /\ mRight \in BOOLEAN

OnePass(c) == \E n \in 1..MaxPasses : \A v \in Values : c[v] = n

\* What is in the file was measured in one pass, whatever was left, begun
\* again, failed or lost before, and so is what a valid configuration holds,
\* unless the last pass that ended has failed: then the setters that came
\* before the one that threw have mixed two passes.
SavedTogether == /\ file.is = "full" => OnePass(file.values)
                 /\ IsValid(config, mValid) /\ ~failed => OnePass(config)

\* A module that has left calibration has its belt standing, unless the
\* delayed start was still to come.
LeftMeansStopped == manager # "Config" /\ out # {} => late
=============================================================================
