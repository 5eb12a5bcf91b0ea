-------------------------------- MODULE Parts --------------------------------
(***************************************************************************)
(* The components that have no state in common with any other module, in   *)
(* one specification with the item tracker of the master.  One of them,    *)
(* the part, is chosen in the beginning, and it alone takes steps: the     *)
(* reachable states are those of each component by itself, and each        *)
(* property is about its own.                                              *)
(***************************************************************************)
EXTENDS MasterRun

CONSTANTS Pin, Estop, MaxQueue,                                    \* Sensors
          Calls, MaxPulses,                                        \* Actuators
          BufSize, FifoDepth, MaxMeans,                            \* Converter
          MaxPasses, MaybeZero,                                    \* Calibration
          Places, Gap, Delay, UB, MaxLag, MaxStops, MaxClock,      \* Scanner
          Type, HistoryDepth, MaxLine                              \* Sorter

VARIABLES part,
          pins, flagged, masked, pulses, halAt, field, left, phase, connected, events,
          known, missed,                                           \* Sensors
          out, channel, todo, delayed, torn, mState, armed, callback, motor,   \* Actuators
          regs, enabled, status, fifo, pc, attached, isr, seen, idx, means,   \* Converter
          program, file, config, mValid, manager, age, calState, measured, pass, failed,
          told, starter, direction, mRight, late,                  \* Calibration
          clock, travel, running, waiting, current, finished, done, suspended, first,
          mapping, timer, adding, passed, stops, tooLong, crashed, dropped, onHole,  \* Scanner
          line, full                                               \* Sorter

Sense == INSTANCE Sensors
Act   == INSTANCE Actuators
Conv  == INSTANCE Converter WITH Depth <- FifoDepth, MaxPulses <- MaxMeans, pulses <- means
Cal   == INSTANCE Calibration WITH mState <- calState, out <- direction
Scan  == INSTANCE Scanner
Sort  == INSTANCE Sorter WITH Depth <- HistoryDepth

sensors     == << pins, flagged, masked, pulses, halAt, field, left, phase, connected,
                  events, known, missed >>
actuators   == << out, channel, todo, delayed, torn, mState, armed, callback, motor >>
converter   == << regs, enabled, status, fifo, pc, attached, isr, seen, idx, means >>
calibration == << program, file, config, mValid, manager, age, calState, measured, pass,
                  failed, told, starter, direction, mRight, late >>
scanner     == << clock, travel, running, waiting, current, finished, done, suspended, first,
                  mapping, timer, adding, passed, stops, tooLong, crashed, dropped, onHole >>
sorter      == << line, full >>

partVars == << part, net, sensors, actuators, converter, calibration, scanner, sorter >>

ASSUME PartsAssumption == /\ Act!ActuatorsAssumption /\ Conv!ConverterAssumption
                          /\ Cal!CalibrationAssumption /\ Scan!ScannerAssumption
                          /\ Sort!SorterAssumption

-----------------------------------------------------------------------------
(***************************************************************************)
(* A component that is not the part has no state.                          *)
(***************************************************************************)
NoSensors ==
    /\ pins = 0 /\ flagged = 0 /\ masked = 0 /\ pulses = 0 /\ halAt = 0 /\ field = 0
    /\ left = 0 /\ phase = 0 /\ connected = 0 /\ events = 0 /\ known = 0 /\ missed = 0

NoActuators ==
    /\ out = 0 /\ channel = 0 /\ todo = 0 /\ delayed = 0 /\ torn = 0 /\ mState = 0
    /\ armed = 0 /\ callback = 0 /\ motor = 0

NoConverter ==
    /\ regs = 0 /\ enabled = 0 /\ status = 0 /\ fifo = 0 /\ pc = 0 /\ attached = 0
    /\ isr = 0 /\ seen = 0 /\ idx = 0 /\ means = 0

NoCalibration ==
    /\ program = 0 /\ file = 0 /\ config = 0 /\ mValid = 0 /\ manager = 0 /\ age = 0
    /\ calState = 0 /\ measured = 0 /\ pass = 0 /\ failed = 0 /\ told = 0 /\ starter = 0
    /\ direction = 0 /\ mRight = 0 /\ late = 0

NoScanner ==
    /\ clock = 0 /\ travel = 0 /\ running = 0 /\ waiting = 0 /\ current = 0 /\ finished = 0
    /\ done = 0 /\ suspended = 0 /\ first = 0 /\ mapping = 0 /\ timer = 0 /\ adding = 0
    /\ passed = 0 /\ stops = 0 /\ tooLong = 0 /\ crashed = 0
    /\ dropped = 0 /\ onHole = 0

NoSorter == line = 0 /\ full = 0

PartsInit ==
    /\ net = Fresh
    /\ part \in {"Tracker", "Sensors", "Actuators", "Converter", "Calibration", "Scanner", "Sorter"}
    /\ IF part = "Sensors" THEN Sense!Init ELSE NoSensors
    /\ IF part = "Actuators" THEN Act!Init ELSE NoActuators
    /\ IF part = "Converter" THEN Conv!Init ELSE NoConverter
    /\ IF part = "Calibration" THEN Cal!Init ELSE NoCalibration
    /\ IF part = "Scanner" THEN Scan!Init ELSE NoScanner
    /\ IF part = "Sorter" THEN Sort!Init ELSE NoSorter

TrackerStep ==
    /\ part = "Tracker" /\ Next
    /\ UNCHANGED << sensors, actuators, converter, calibration, scanner, sorter >>

SensorsStep ==
    /\ part = "Sensors" /\ Sense!Next
    /\ UNCHANGED << net, actuators, converter, calibration, scanner, sorter >>

ActuatorsStep ==
    /\ part = "Actuators" /\ Act!Next
    /\ UNCHANGED << net, sensors, converter, calibration, scanner, sorter >>

ConverterStep ==
    /\ part = "Converter" /\ Conv!Next
    /\ UNCHANGED << net, sensors, actuators, calibration, scanner, sorter >>

CalibrationStep ==
    /\ part = "Calibration" /\ Cal!Next
    /\ UNCHANGED << net, sensors, actuators, converter, scanner, sorter >>

ScannerStep ==
    /\ part = "Scanner" /\ Scan!Next
    /\ UNCHANGED << net, sensors, actuators, converter, calibration, sorter >>

SorterStep ==
    /\ part = "Sorter" /\ Sort!Next
    /\ UNCHANGED << net, sensors, actuators, converter, calibration, scanner >>

PartsNext ==
    /\ UNCHANGED part
    /\ \/ TrackerStep \/ SensorsStep \/ ActuatorsStep \/ ConverterStep
       \/ CalibrationStep \/ ScannerStep \/ SorterStep

PartsSpec == PartsInit /\ [][PartsNext]_partVars

-----------------------------------------------------------------------------
(***************************************************************************)
(* Every part has the types it should have.                                *)
(***************************************************************************)
TypesOK ==
    /\ TypeOK
    /\ part = "Sensors" => Sense!TypeOK
    /\ part = "Actuators" => Act!TypeOK
    /\ part = "Converter" => Conv!TypeOK
    /\ part = "Calibration" => Cal!TypeOK
    /\ part = "Scanner" => Scan!TypeOK
    /\ part = "Sorter" => Sort!TypeOK

\* No change of a sensor pin is lost between the interrupt and the manager.
NoEdgeLost == part = "Sensors" => Sense!NoEdgeLost

\* Once all pulses are through, the outputs are what was last asked for.
OutputsFollowCalls == part = "Actuators" => Act!OutputsFollowCalls

\* The service routine of the converter never reads an empty FIFO.
ReadsOnlySamples == part = "Converter" => Conv!ReadsOnlySamples

\* What is saved was measured in one pass, and the belt stands afterwards.
CalibrationIsSound == part = "Calibration" => Cal!SavedTogether /\ Cal!LeftMeansStopped

\* Every item gets its own height map, in the time of the belt, unless a pulse was
\* dropped or the belt stopped at a hole.
ItemsGetTheirMaps == part = "Scanner" => Scan!ItemsGetTheirMaps

\* Refinement: the items that leave module 2 are those to be kept, in order.
Delivery ==
    INSTANCE SortedLine WITH
        Depth <- HistoryDepth, delivered <- IF part = "Sorter" THEN Sort!Delivered ELSE <<>>

KeptInOrder == Delivery!Spec
=============================================================================
