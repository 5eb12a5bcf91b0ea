------------------------------ MODULE Converter ------------------------------
(***************************************************************************)
(* The height sensor: the analogue-digital converter, the register writes  *)
(* with which hal::adc::ADC sets it up on the thread of hal::Physical, its *)
(* interrupt service routine, which collects BufSize samples and sends     *)
(* their mean, and the thread that stores it.                              *)
(*                                                                         *)
(* A register is a function from its fields to numbers; a call of TSCADC   *)
(* clears and sets the bits of the fields it names.  Of the hardware the   *)
(* model knows that STEPCONFIG is write protected, that a flag of          *)
(* IRQSTATUS is cleared by writing it, that a sample goes into the FIFO    *)
(* and raises END_OF_SEQUENCE, and that an interrupt is there while an     *)
(* enabled flag is.  The service routine interrupts the thread, never the  *)
(* other way round; the hardware goes on under both.  Nothing ever stops   *)
(* the converter, so the program may find it running.                      *)
(***************************************************************************)
EXTENDS Naturals, Sequences

CONSTANTS BufSize,     \* MXT_BUFSIZE
          Depth,       \* how many samples the FIFO holds
          MaxPulses    \* bound: ANALOG_SET pulses that wait

\* The FIFO holds more than the sample that the service routine is about to read.
ConverterAssumption == BufSize \in Nat \ {0} /\ Depth \in Nat \ {0, 1} /\ MaxPulses \in Nat

VARIABLES regs,     \* the fields of CTRL, CLKDIV, FIFO0THRESHOLD, STEPENABLE and STEPCONFIG1
          enabled,  \* IRQENABLE
          status,   \* IRQSTATUS
          fifo,     \* samples in FIFO 0
          pc,       \* how many calls of Setup are done
          attached, \* the service routine is attached
          isr,      \* where the service routine is
          seen,     \* its status
          idx,      \* its idx
          pulses    \* ANALOG_SET pulses in the channel of the HAL thread

vars == <<regs, enabled, status, fifo, pc, attached, isr, seen, idx, pulses>>

Flag == {"END_OF_SEQUENCE", "FIFO0_THRESHOLD", "FIFO0_OVERRUN"}

CtrlField == {"ENABLE", "STEP_ID_TAG", "WRITEPROTECT_N", "AFE_PEN_CTRL", "TOUCH_SCREEN_ENABLE"}

StepField == {"MODE", "AVERAGING", "XPPSW", "XNPSW", "YPPSW", "XNNSW", "YPNSW", "YNNSW", "WPNSW",
              "SEL_RFP", "SEL_INM", "SEL_INP", "SEL_RFM", "DIFF_CNTRL", "FIFO_SELECT"}

Field == CtrlField \cup StepField \cup {"CLKDIV", "THRESHOLD", "STEP1"}

-----------------------------------------------------------------------------
(* The calls of TSCADC. *)
Write(to) == [op |-> "write", to |-> to]
OnOff(b) == IF b THEN 1 ELSE 0

stepConfigProtectionDisable == Write([WRITEPROTECT_N |-> 1])
tsModeConfig(mode) == Write([AFE_PEN_CTRL |-> mode])
tsStepModeConfig(mode) == Write([MODE |-> mode])
tsStepFIFOSelConfig(sel) == Write([FIFO_SELECT |-> sel])
tsStepAverageConfig(average) == Write([AVERAGING |-> average])
tsStepConfig(rfm, inp, inm, rfp) ==
    Write([SEL_RFM |-> rfm, SEL_INP |-> inp, SEL_INM |-> inm, SEL_RFP |-> rfp])
configureAFEClock(module, input) == Write([CLKDIV |-> (module \div input) - 1])
tsStepOperationModeControl(mode) == Write([DIFF_CNTRL |-> mode])
tsStepAnalogSupplyConfig(xppsw, xnpsw, yppsw) ==
    Write([XPPSW |-> OnOff(xppsw), XNPSW |-> OnOff(xnpsw), YPPSW |-> OnOff(yppsw)])
tsStepAnalogGroundConfig(xnnsw, ypnsw, ynnsw, wpnsw) ==
    Write([XNNSW |-> OnOff(xnnsw), YPNSW |-> OnOff(ypnsw), YNNSW |-> OnOff(ynnsw), WPNSW |-> OnOff(wpnsw)])
configureStepEnable(on) == Write([STEP1 |-> OnOff(on)])
moduleStateSet(on) == Write([ENABLE |-> OnOff(on)])
stepIDTagConfig(on) == Write([STEP_ID_TAG |-> OnOff(on)])
tsTransistorConfig(on) == Write([TOUCH_SCREEN_ENABLE |-> OnOff(on)])
fifoIRQThresholdLevelConfig(n) == Write([THRESHOLD |-> n - 1])
eventInterruptEnable(flag) == [op |-> "enable", flag |-> flag]
intStatusClear == [op |-> "clear"]
InterruptAttach == [op |-> "attach"]

-----------------------------------------------------------------------------
(* ADC::Impl: SINGLE_ENDED, VSSA, channel 1 against VDDA, FIFO 0,          *)
(* CONTINUOUS_SOFTWARE_ENABLED, no average.                                *)
stepConfigure ==
    << tsStepOperationModeControl(0), tsStepConfig(0, 0, 0, 0),
       tsStepAnalogSupplyConfig(TRUE, FALSE, FALSE), tsStepAnalogGroundConfig(TRUE, FALSE, FALSE, FALSE),
       tsStepFIFOSelConfig(0), tsStepModeConfig(1), tsStepAverageConfig(0) >>

cleanUpInterrupts == << intStatusClear, intStatusClear, intStatusClear >>

init == << configureAFEClock(24000000, 10000 * 100), tsTransistorConfig(FALSE), stepIDTagConfig(TRUE),
           stepConfigProtectionDisable >>
        \o stepConfigure \o << tsModeConfig(0), fifoIRQThresholdLevelConfig(1) >>
        \o cleanUpInterrupts \o << eventInterruptEnable("END_OF_SEQUENCE") >>

adcEnable == << moduleStateSet(FALSE), configureStepEnable(TRUE), moduleStateSet(TRUE) >>

registerAdcISR == cleanUpInterrupts \o << InterruptAttach >> \o cleanUpInterrupts
                  \o << eventInterruptEnable("END_OF_SEQUENCE") >> \o adcEnable

Setup == init \o registerAdcISR

Ready == pc = Len(Setup)

\* Step 1 as stepConfigure() means it to be.
Wanted == [f \in StepField |-> IF f \in {"MODE", "XPPSW", "XNNSW"} THEN 1 ELSE 0]

Configured == \A f \in StepField : regs[f] = Wanted[f]

-----------------------------------------------------------------------------
\* After a reset the converter is off and one shot; an earlier run leaves it
\* set up and sampling, with nobody to read the FIFO.
Init == /\ \/ /\ regs = [f \in Field |-> 0] /\ enabled = {} /\ status = {} /\ fifo = 0
           \/ /\ regs = [f \in Field |->
                           CASE f = "CLKDIV" -> 23
                             [] f \in {"STEP_ID_TAG", "WRITEPROTECT_N", "STEP1", "ENABLE"} -> 1
                             [] f \in StepField -> Wanted[f]
                             [] OTHER -> 0]
              /\ enabled = {"END_OF_SEQUENCE"}
              /\ status \in SUBSET Flag /\ fifo \in 0..Depth
              /\ "END_OF_SEQUENCE" \in status => fifo > 0
        /\ pc = 0 /\ attached = FALSE
        /\ isr = "idle" /\ seen = {} /\ idx = 0
        /\ pulses = 0

Running == regs["ENABLE"] = 1 /\ regs["STEP1"] = 1

\* The hardware takes a sample; a full FIFO drops it.
Convert == /\ Running /\ pulses < MaxPulses
           /\ fifo' = IF fifo = Depth THEN fifo ELSE fifo + 1
           /\ status' = status \cup {"END_OF_SEQUENCE"}
                        \cup (IF fifo = Depth THEN {"FIFO0_OVERRUN"} ELSE {})
                        \cup (IF fifo' > regs["THRESHOLD"] THEN {"FIFO0_THRESHOLD"} ELSE {})
           /\ UNCHANGED <<regs, enabled, pc, attached, isr, seen, idx, pulses>>

Protected(f) == f \in StepField /\ regs["WRITEPROTECT_N"] = 0

Interrupt == attached /\ status \cap enabled # {}

\* One call of the thread that constructs the converter.
SetupCall ==
    /\ ~Ready /\ isr = "idle"
    /\ LET call == Setup[pc + 1] IN
       /\ regs' = IF call.op = "write"
                  THEN [f \in Field |-> IF f \in DOMAIN call.to /\ ~Protected(f) THEN call.to[f] ELSE regs[f]]
                  ELSE regs
       /\ enabled' = IF call.op = "enable" THEN enabled \cup {call.flag} ELSE enabled
       /\ status' = IF call.op = "clear" THEN {} ELSE status
       /\ attached' = (attached \/ call.op = "attach")
    /\ pc' = pc + 1
    /\ UNCHANGED <<fifo, isr, seen, idx, pulses>>

-----------------------------------------------------------------------------
\* adcISR(): intStatus(), intStatusClear() and the FIFO.
EnterISR == /\ isr = "idle" /\ Interrupt
            /\ seen' = status
            /\ isr' = "clear"
            /\ UNCHANGED <<regs, enabled, status, fifo, pc, attached, idx, pulses>>

\* Mutant of Remaining: the flags are left standing.
AllRemain(flags) == flags

Remaining(flags) == flags \ seen

ClearISR == /\ isr = "clear"
            /\ status' = Remaining(status)
            /\ isr' = "read"
            /\ UNCHANGED <<regs, enabled, fifo, pc, attached, seen, idx, pulses>>

\* A full buffer is a pulse with its mean.
ReadISR == /\ isr = "read"
           /\ IF "END_OF_SEQUENCE" \in seen
              THEN /\ fifo' = IF fifo = 0 THEN 0 ELSE fifo - 1
                   /\ idx' = (idx + 1) % BufSize
                   /\ pulses' = IF idx' = 0 THEN pulses + 1 ELSE pulses
              ELSE UNCHANGED <<fifo, idx, pulses>>
           /\ isr' = "idle" /\ seen' = {}
           /\ UNCHANGED <<regs, enabled, status, pc, attached>>

\* updateADC() on the HAL thread.
Receive == /\ Ready /\ isr = "idle" /\ pulses > 0
           /\ pulses' = pulses - 1
           /\ UNCHANGED <<regs, enabled, status, fifo, pc, attached, isr, seen, idx>>

ISR == EnterISR \/ ClearISR \/ ReadISR

Next == Convert \/ SetupCall \/ ISR \/ Receive

Spec == Init /\ [][Next]_vars

-----------------------------------------------------------------------------
TypeOK == /\ regs \in [Field -> Nat]
          /\ enabled \subseteq Flag /\ status \subseteq Flag /\ seen \subseteq Flag
          /\ fifo \in 0..Depth
          /\ pc \in 0..Len(Setup) /\ attached \in BOOLEAN
          /\ isr \in {"idle", "clear", "read"}
          /\ idx \in 0..(BufSize - 1) /\ pulses \in 0..(MaxPulses + 1)

\* The service routine, which reads one sample for each interrupt and clears
\* the flags first, never reads an empty FIFO, also when samples come in
\* between or while the converter that an earlier run left sampling is set
\* up; and it never reads before step 1 is what stepConfigure() means.
ReadsOnlySamples == isr = "read" /\ "END_OF_SEQUENCE" \in seen => fifo > 0 /\ Configured
=============================================================================
