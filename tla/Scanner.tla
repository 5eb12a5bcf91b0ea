------------------------------ MODULE Scanner ------------------------------
(***************************************************************************)
(* The item scanner of a module (base/run/item_scanner.cpp): the handler   *)
(* thread adds what the height sensor shows to a height map, suspends and  *)
(* resumes, and takes finished maps; a callback of the timer service, on   *)
(* the timer thread, finishes a map when the sensor has shown the belt for *)
(* MXT_FINISH_DELAY.  They share the map without a lock.                   *)
(*                                                                         *)
(* Time is counted in ticks, and the belt moves by one in a tick.  The     *)
(* items lie on it at least Gap apart, and the belt stops and starts with  *)
(* suspend() and resume() of the run manager.  The thread of the hardware  *)
(* sees the height change within the tick and sends a HEIGHT_SENSOR pulse; *)
(* it sends none while the height stays as it is.  The handler thread      *)
(* measures anew when it comes to the pulse, at most MaxLag later.  A      *)
(* callback runs within the tick it is due in, since the timer thread has  *)
(* the higher priority.                                                    *)
(***************************************************************************)
EXTENDS Integers, Sequences

CONSTANTS
    Places,     \* where each item begins on the belt, and its height from there on
    Gap,        \* belt before and after each item
    Delay,      \* MXT_FINISH_DELAY
    UB,         \* UPPERBOUND, the number of values of a height map
    MaxLag,     \* bound: ticks from a pulse until it is handled
    MaxStops,   \* bound: calls of suspend()
    MaxClock    \* bound: ticks altogether

Item == DOMAIN Places

Begin(k) == Places[k][1]
Shape(k) == Places[k][2]
End(k)   == Begin(k) + Len(Shape(k))

Covers(k, place) == Begin(k) <= place /\ place < End(k)

\* measureNormalized(): 0 for the belt, and for what is as low as the belt
Height(place) ==
    IF \E k \in Item : Covers(k, place)
    THEN LET k == CHOOSE j \in Item : Covers(j, place)
         IN  Shape(k)[place - Begin(k) + 1]
    ELSE 0

\* An item has a height where it begins and where it ends.  It may have holes
\* down to the belt, if they are shorter than the delay after which it is over.
ScannerAssumption ==
    /\ Places \in Seq(Nat \X Seq(Nat))
    /\ { Gap, Delay, UB, MaxLag } \subseteq Nat \ {0}
    /\ \A k \in Item :
          /\ Begin(k) >= (IF k = 1 THEN 0 ELSE End(k - 1)) + Gap
          /\ MaxLag < Len(Shape(k)) /\ Shape(k)[Len(Shape(k))] # 0
          /\ \A i \in 1 .. MaxLag + 1 : Shape(k)[i] # 0
          /\ \A i \in DOMAIN Shape(k) :
                \E j \in DOMAIN Shape(k) : i <= j /\ j < i + Delay - MaxLag /\ Shape(k)[j] # 0
    /\ Gap > Delay + MaxLag
    /\ { MaxStops, MaxClock } \subseteq Nat

-----------------------------------------------------------------------------
VARIABLES
    clock,       \* Timer::elapsed()
    travel,      \* how far the belt has moved
    running,     \* whether it does
    waiting,     \* the HEIGHT_SENSOR pulses for the handler: when each was sent
    current,     \* mCurrentHM: no map or one, with its values and the place of each
    finished,    \* mFinishedHM
    done,        \* mDone
    suspended,   \* mSuspend
    first,       \* mFirstStamp
    mapping,     \* mLastMappingTime
    timer,       \* ticks until mFinishTimer runs, or -1
    adding,      \* what takeMeasurement is about to add, if anything
    dropped,     \* whether a pulse was handled while suspended, and is lost
    onHole,      \* whether the belt was stopped at a hole in an item
    passed,      \* for each item that came to the switch, the map it got, if any
    stops,       \* number of calls of suspend()
    tooLong,     \* whether a map exceeded UB
    crashed      \* whether mCurrentHM was used after its release

scanner == << current, finished, done, suspended, first, mapping, timer, adding >>

vars == << clock, travel, running, waiting, scanner, passed, stops, tooLong, crashed,
           dropped, onHole >>

Init ==
    /\ clock = 0 /\ travel = 0 /\ running = FALSE /\ waiting = <<>>
    /\ current = {} /\ finished = <<>> /\ adding = {}
    /\ done = FALSE /\ suspended = FALSE
    /\ first = 0 /\ mapping = 0 /\ timer = -1
    /\ passed = <<>> /\ stops = 0
    /\ tooLong = FALSE /\ crashed = FALSE /\ dropped = FALSE /\ onHole = FALSE

-----------------------------------------------------------------------------
(***************************************************************************)
(* Time.  No tick goes by while a callback is due, or while the handler    *)
(* thread is as late as it can be.                                         *)
(***************************************************************************)
\* what the hardware's thread sends for the change of the height, if any
Noticed == IF Height(travel') # Height(travel) THEN Append(waiting, clock') ELSE waiting

Tick ==
    /\ clock < MaxClock
    /\ timer # 0
    /\ waiting # <<>> => clock - Head(waiting) < MaxLag
    /\ clock' = clock + 1
    /\ travel' = IF running THEN travel + 1 ELSE travel
    /\ waiting' = Noticed
    /\ timer' = IF timer > 0 THEN timer - 1 ELSE timer
    /\ UNCHANGED << running, current, finished, done, suspended, first, mapping, adding,
                    passed, stops, tooLong, crashed, dropped, onHole >>

(***************************************************************************)
(* takeMeasurement() for the pulse that waits longest, up to the reset of  *)
(* the timer and from there on: the reset waits for a callback that runs,  *)
(* and the map may be gone then.  It does nothing while suspended.         *)
(***************************************************************************)
Idle == adding = {} /\ ~crashed

MeasureItem ==
    /\ Idle /\ waiting # <<>> /\ ~suspended
    /\ Height(travel) # 0
    /\ first' = IF current = {} THEN clock ELSE first
    /\ current' = IF current = {} THEN {[values |-> <<>>, twice |-> FALSE]} ELSE current
    /\ done' = FALSE
    /\ adding' = {[time |-> clock - first', place |-> travel]}
    /\ UNCHANGED << clock, travel, running, waiting, finished, suspended, mapping, timer,
                    passed, stops, tooLong, crashed, dropped, onHole >>

AddValue ==
    /\ adding # {} /\ ~crashed
    /\ timer' = -1
    /\ crashed' = (current = {})
    /\ current' = { [m EXCEPT !.values = Append(@, CHOOSE v \in adding : TRUE)] : m \in current }
    /\ adding' = {}
    /\ waiting' = Tail(waiting)
    /\ UNCHANGED << clock, travel, running, finished, done, suspended, first, mapping,
                    passed, stops, tooLong, dropped, onHole >>

MeasureBelt ==
    /\ Idle /\ waiting # <<>> /\ ~suspended
    /\ Height(travel) = 0
    /\ done' = (done \/ current # {})
    /\ timer' = IF current # {} /\ ~done THEN Delay ELSE timer
    /\ waiting' = Tail(waiting)
    /\ UNCHANGED << clock, travel, running, current, finished, suspended, first, mapping,
                    adding, passed, stops, tooLong, crashed, dropped, onHole >>

MeasureNothing ==
    /\ Idle /\ waiting # <<>> /\ suspended
    /\ waiting' = Tail(waiting)
    /\ dropped' = TRUE
    /\ UNCHANGED << clock, travel, running, current, finished, done, suspended, first,
                    mapping, timer, adding, passed, stops, tooLong, crashed, onHole >>

\* finishMeasurement(), on the timer thread
FinishMeasurement ==
    /\ timer = 0 /\ ~crashed
    /\ timer' = -1
    /\ \E m \in current :
          IF Len(m.values) <= UB
          THEN finished' = Append(finished, m) /\ current' = {} /\ UNCHANGED tooLong
          ELSE tooLong' = TRUE /\ UNCHANGED << finished, current >>
    /\ UNCHANGED << clock, travel, running, waiting, done, suspended, first, mapping, adding,
                    passed, stops, crashed, dropped, onHole >>

-----------------------------------------------------------------------------
(***************************************************************************)
(* RunManager::suspend() and resume(): the first for SUSPEND and, perhaps  *)
(* again, in leave().  The timer of a map runs on.                         *)
(***************************************************************************)
Suspend ==
    /\ Idle /\ stops < MaxStops
    /\ running' = FALSE
    /\ suspended' = TRUE
    /\ mapping' = clock - first
    /\ current' = { [m EXCEPT !.twice = @ \/ suspended] : m \in current }
    /\ stops' = stops + 1
    /\ onHole' = (onHole \/ (timer >= 0 /\ \E k \in Item : Covers(k, travel)))
    /\ UNCHANGED << clock, travel, waiting, finished, done, first, timer, adding, passed,
                    tooLong, crashed, dropped >>

\* Mutant of NewFirst: the time the belt stood counts.
OldFirst(f) == f

\* what mFirstStamp becomes when the belt goes on
NewFirst(f) == clock - mapping

Resume ==
    /\ Idle /\ ~running
    /\ first' = NewFirst(first)
    /\ suspended' = FALSE
    /\ running' = TRUE
    /\ UNCHANGED << clock, travel, waiting, current, finished, done, mapping, timer, adding,
                    passed, stops, tooLong, crashed, dropped, onHole >>

\* an item reaches the switch: ready() and getHeightmap(), or no map
Arrive ==
    /\ Idle
    /\ Len(passed) < Len(Places)
    /\ travel >= End(Len(passed) + 1) + Gap
    /\ passed' = Append(passed, IF finished = <<>> THEN {} ELSE {Head(finished)})
    /\ finished' = IF finished = <<>> THEN finished ELSE Tail(finished)
    /\ UNCHANGED << clock, travel, running, waiting, current, done, suspended, first, mapping,
                    timer, adding, stops, tooLong, crashed, dropped, onHole >>

Next == \/ Tick \/ MeasureItem \/ AddValue \/ MeasureBelt \/ MeasureNothing
         \/ FinishMeasurement \/ Suspend \/ Resume \/ Arrive

Spec == Init /\ [][Next]_vars

-----------------------------------------------------------------------------
HeightMap == [values : Seq([time : 0 .. MaxClock, place : 0 .. MaxClock]), twice : BOOLEAN]

(***************************************************************************)
(* The variables have their types: there is at most one map and one value  *)
(* at a time.                                                              *)
(***************************************************************************)
TypeOK ==
    /\ { clock, travel, first, mapping } \subseteq 0 .. MaxClock
    /\ waiting \in Seq(0 .. MaxClock) /\ timer \in -1 .. Delay /\ stops \in 0 .. MaxStops
    /\ { running, done, suspended, tooLong, crashed, dropped, onHole } \subseteq BOOLEAN
    /\ current = {} \/ \E m \in current : current = {m} /\ m \in HeightMap
    /\ adding = {} \/ \E v \in adding : adding = {v}
    /\ finished \in Seq(HeightMap)
    /\ Len(passed) <= Len(Places)

\* where the height of item k changes, for long enough to be measured
Edges(k) == { e \in Begin(k) .. End(k) - 1 :
                /\ Height(e) # Height(e - 1)
                /\ \A p \in e .. e + MaxLag : Height(p) # 0 }

\* the map has a value for each edge of item k, and no value of anything else
ShowsAll(m, k) ==
    /\ m.values # <<>>
    /\ \A i \in DOMAIN m.values : Covers(k, m.values[i].place)
    /\ \A e \in Edges(k) : \E i \in DOMAIN m.values : m.values[i].place - e \in 0 .. MaxLag

\* its times are those of a belt that never stops
InBeltTime(m) ==
    \A i \in DOMAIN m.values : m.values[i].time = m.values[i].place - m.values[1].place

(***************************************************************************)
(* An item that comes to the switch gets its own height map, with a value  *)
(* for each of its edges and with the times it would have had if the belt  *)
(* had not been stopped under the sensor, although the map is finished on  *)
(* another thread and nothing but a change of the height is ever measured. *)
(* This ends with a pulse that is handled while the scanner is suspended,  *)
(* for the height at which the belt then stands is not measured again; and *)
(* with a stop at a hole in an item, for the delay does not stop with it.  *)
(* Two things more are exempt: a map during which the belt was suspended   *)
(* twice without going on in between counts the time from one suspend() to *)
(* the other; and after a map that is too long, and is kept, there are no  *)
(* more maps.                                                              *)
(***************************************************************************)
ItemsGetTheirMaps ==
    \/ dropped \/ onHole
    \/ /\ ~crashed
       /\ \A k \in DOMAIN passed :
             /\ passed[k] = {} => tooLong
             /\ \A m \in passed[k] : ShowsAll(m, k) /\ (m.twice \/ InBeltTime(m))
=============================================================================
