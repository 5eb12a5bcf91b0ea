------------------------------- MODULE Sensors -------------------------------
(***************************************************************************)
(* From a pin to the manager: the interrupt of the sensor GPIO, the thread *)
(* of hal::Physical that reads it, hal::Buffer, which compares what it     *)
(* reads with what it has and tells the subscriber of each pin that        *)
(* differs, and the thread of base::Handler, which looks at the buffer     *)
(* when it gets to the event.                                              *)
(*                                                                         *)
(* The interrupt is a level: it is there while a pin is flagged.  The      *)
(* kernel masks it when it delivers the pulse, and receivePulse() unmasks  *)
(* it.  That it is taken at once, before the thread it interrupts goes on, *)
(* is an assumption about the hardware.                                    *)
(***************************************************************************)
EXTENDS Naturals, Sequences

CONSTANTS Pin,       \* the sensor pins, numbered in the order of HAL::EVENTS
          Estop,     \* the pin of the emergency stop, which is low when pressed
          MaxQueue   \* bound: events that wait when a pin changes

VARIABLES pins,      \* the pins that are high
          flagged,   \* IRQSTATUS
          masked,    \* the interrupt is masked
          pulses,    \* INTERRUPT pulses in the channel of the HAL thread
          halAt,     \* the HAL thread: "wait", "read" or "notify"
          field,     \* mFields[GPIO_0]
          left,      \* pins whose event update() still has to send
          phase,     \* how far the main thread is
          connected, \* the handler has opened its channel
          events,    \* events in the channel of the handler
          known,     \* the pins that are high as far as the handler was told
          missed     \* pins that changed without an event

hw == <<pins, flagged, masked, pulses>>
vars == <<hw, halAt, field, left, phase, connected, events, known, missed>>

\* The constructor has enabled the interrupt and reads the pins for the
\* first time; mFields is not initialised before that.
Init == /\ pins \in SUBSET Pin /\ field \in SUBSET Pin
        /\ flagged = {} /\ masked = FALSE /\ pulses = 0
        /\ halAt = "read" /\ left = {}
        /\ phase = "start" /\ connected = FALSE
        /\ events = <<>> /\ known = {} /\ missed = {}

Flip(S, p) == (S \cup {p}) \ (S \cap {p})

Differ(S, T) == (S \ T) \cup (T \ S)

-----------------------------------------------------------------------------
Change(p) ==
    /\ Len(events) < MaxQueue
    /\ pins' = Flip(pins, p)
    /\ flagged' = flagged \cup {p}
    /\ masked' = TRUE
    /\ pulses' = IF masked THEN pulses ELSE pulses + 1
    /\ UNCHANGED <<halAt, field, left, phase, connected, events, known, missed>>

\* Mutant of Unmasks: the interrupt is unmasked when the flags are clear.
UnmasksAtTheEnd(call) == call = "clearInterruptFlags"

Unmasks(call) == call = "receivePulse"

\* What is flagged when the interrupt is unmasked interrupts again at once.
Unmask(call, n) ==
    /\ masked' = IF Unmasks(call) THEN flagged' # {} ELSE masked
    /\ pulses' = IF Unmasks(call) /\ flagged' # {} THEN n + 1 ELSE n

Receive == /\ halAt = "wait" /\ pulses > 0
           /\ halAt' = "read"
           /\ UNCHANGED <<pins, flagged>>
           /\ Unmask("receivePulse", pulses - 1)
           /\ UNCHANGED <<field, left, phase, connected, events, known, missed>>

Subscribed == phase = "subscribed"

\* update(): without a subscriber only the field changes.
Read == /\ halAt = "read"
        /\ halAt' = "notify"
        /\ field' = pins
        /\ left' = IF Subscribed THEN Differ(field, pins) ELSE {}
        /\ missed' = IF phase = "checked" THEN missed \cup Differ(field, pins) ELSE missed
        /\ UNCHANGED <<hw, phase, connected, events, known>>

IsNext(p) == p \in left /\ \A q \in left : p <= q

\* Handler::handle() sends a pulse; a handler without a channel throws, and
\* updateSensors() drops the other events and does not clear the flags.
Notify(p) ==
    /\ halAt = "notify" /\ IsNext(p)
    /\ \/ /\ connected
          /\ events' = Append(events, p)
          /\ left' = left \ {p}
          /\ UNCHANGED <<halAt, missed>>
       \/ /\ ~connected
          /\ missed' = missed \cup left
          /\ left' = {} /\ halAt' = "wait"
          /\ UNCHANGED events
    /\ UNCHANGED <<hw, field, phase, connected, known>>

Clear == /\ halAt = "notify" /\ left = {}
         /\ halAt' = "wait"
         /\ flagged' = {}
         /\ Unmask("clearInterruptFlags", pulses)
         /\ UNCHANGED <<pins, field, left, phase, connected, events, known, missed>>

HALThread == Receive \/ Read \/ Clear \/ \E p \in Pin : Notify(p)

-----------------------------------------------------------------------------
\* The main thread waits for the HAL thread, does not start when the
\* emergency stop is pressed, connects to the other module and subscribes.
Check == /\ phase = "start" /\ halAt = "wait"
         /\ Estop \in field
         /\ phase' = "checked"
         /\ known' = field
         /\ UNCHANGED <<hw, halAt, field, left, connected, events, missed>>

Subscribe == /\ phase = "checked"
             /\ phase' = "subscribed"
             /\ UNCHANGED <<hw, halAt, field, left, connected, events, known, missed>>

\* The thread of the handler, which is made just before that.
Connect == /\ phase # "start" /\ ~connected
           /\ connected' = TRUE
           /\ UNCHANGED <<hw, halAt, field, left, phase, events, known, missed>>

Update(S, p, T) == IF p \in T THEN S \cup {p} ELSE S \ {p}

\* processHAL(): the master hears of an emergency stop that is pressed, the
\* manager of everything else; what the pin is now is read from the buffer.
Handle == /\ events # <<>>
          /\ known' = Update(known, Head(events), field)
          /\ events' = Tail(events)
          /\ missed' = missed \ {Head(events)}
          /\ UNCHANGED <<hw, halAt, field, left, phase, connected>>

Next == \/ \E p \in Pin : Change(p)
        \/ HALThread
        \/ Check \/ Subscribe \/ Connect \/ Handle

Spec == Init /\ [][Next]_vars

-----------------------------------------------------------------------------
TypeOK == /\ pins \subseteq Pin /\ flagged \subseteq Pin /\ masked \in BOOLEAN
          /\ pulses \in Nat
          /\ halAt \in {"wait", "read", "notify"}
          /\ field \subseteq Pin /\ left \subseteq Pin
          /\ phase \in {"start", "checked", "subscribed"} /\ connected \in BOOLEAN
          /\ events \in Seq(Pin) /\ known \subseteq Pin /\ missed \subseteq Pin

Quiet == pulses = 0 /\ halAt = "wait" /\ events = <<>>

\* When every pulse and event has been dealt with, what the handler was told
\* last is what the pins are, however they changed while they were read, told
\* of and cleared.  Excepted are pins that changed between the check of the
\* emergency stop and the subscription, or before the handler had a channel.
NoEdgeLost == Subscribed /\ Quiet => Differ(known, pins) \subseteq missed
=============================================================================
