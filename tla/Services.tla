------------------------------ MODULE Services ------------------------------
(***************************************************************************)
(* The services the program stands on, in one specification with the       *)
(* analyser: the connection of the two modules, the timers, and the BSP    *)
(* link under fairness.  As in Parts, one of them, the part, is chosen in  *)
(* the beginning and it alone takes steps.                                 *)
(***************************************************************************)
EXTENDS Analyser

CONSTANTS FromLine, MaxPosts, Role,                                  \* Connection
          MaxTimers, MaxPulses,                                      \* Timers
          IdMod, HistoryLen, Damages, MaxDamage, MaxWrites, MaxPackets, MaxWire,
          MaxLate                                                    \* BspLink

VARIABLES part,
          line, open, timer, running, timedOut, pc, hand, rbContent, rbInterrupted, rbAt,
          mbContent, mbInterrupted, mbAt, posts, got, late,          \* Connection
          timers, visited, updating, executing, nextID, cancelled,   \* Timers
          queue, nextId, armed, lateTimeouts, history, chain, lastAck, inbox, resetting,
          sending, wire, damaged, torn, sent, received               \* BspLink

Comm == INSTANCE Connection
Time == INSTANCE Timers WITH timer <- timers
Link == INSTANCE BspLink WITH late <- lateTimeouts

connection == << line, open, timer, running, timedOut, pc, hand, rbContent, rbInterrupted,
                 rbAt, mbContent, mbInterrupted, mbAt, posts, got, late >>
timerParts == << timers, visited, updating, executing, nextID, cancelled >>
link       == << queue, nextId, armed, lateTimeouts, history, chain, lastAck, inbox,
                 resetting, sending, wire, damaged, torn, sent, received >>

servicesVars == << part, vars, connection, timerParts, link >>

ASSUME ServicesAssumption == Comm!ConnectionAssumption /\ Time!TimersAssumption

-----------------------------------------------------------------------------
(***************************************************************************)
(* A service that is not the part has no state; the analyser's is its      *)
(* first one.                                                              *)
(***************************************************************************)
NoConnection ==
    /\ line = 0 /\ open = 0 /\ timer = 0 /\ running = 0 /\ timedOut = 0 /\ pc = 0
    /\ hand = 0 /\ rbContent = 0 /\ rbInterrupted = 0 /\ rbAt = 0 /\ mbContent = 0
    /\ mbInterrupted = 0 /\ mbAt = 0 /\ posts = 0 /\ got = 0 /\ late = 0

NoTimers ==
    /\ timers = 0 /\ visited = 0 /\ updating = 0 /\ executing = 0 /\ nextID = 0
    /\ cancelled = 0

NoLink ==
    /\ queue = 0 /\ nextId = 0 /\ armed = 0 /\ lateTimeouts = 0 /\ history = 0 /\ chain = 0
    /\ lastAck = 0 /\ inbox = 0 /\ resetting = 0 /\ sending = 0 /\ wire = 0 /\ damaged = 0
    /\ torn = 0 /\ sent = 0 /\ received = 0

ServicesInit ==
    /\ Init
    /\ part \in {"Analyser", "Connection", "Timers", "Link"}
    /\ IF part = "Connection" THEN Comm!Init ELSE NoConnection
    /\ IF part = "Timers" THEN Time!Init ELSE NoTimers
    /\ IF part = "Link" THEN Link!Init ELSE NoLink

AnalyserStep ==
    /\ part = "Analyser" /\ Next
    /\ UNCHANGED << connection, timerParts, link >>

ConnectionStep ==
    /\ part = "Connection" /\ Comm!Next
    /\ UNCHANGED << vars, timerParts, link >>

TimersStep ==
    /\ part = "Timers" /\ Time!Next
    /\ UNCHANGED << vars, connection, link >>

LinkStep ==
    /\ part = "Link" /\ Link!Next
    /\ UNCHANGED << vars, connection, timerParts >>

ServicesNext ==
    /\ UNCHANGED part
    /\ AnalyserStep \/ ConnectionStep \/ TimersStep \/ LinkStep

(***************************************************************************)
(* The fairness of each component, for the steps of the part.              *)
(***************************************************************************)
Conn(A)  == part = "Connection" /\ A /\ UNCHANGED << part, vars, timerParts, link >>
Timer(A) == part = "Timers" /\ A /\ UNCHANGED << part, vars, connection, link >>
Bsp(A)   == part = "Link" /\ A /\ UNCHANGED << part, vars, connection, timerParts >>

Fairness ==
    /\ WF_servicesVars(Conn(Comm!ProcessingThread))
    /\ WF_servicesVars(Conn(Comm!SerialThread))
    /\ WF_servicesVars(Conn(Comm!WatchdogReader))
    /\ WF_servicesVars(Conn(Comm!Callback))
    /\ WF_servicesVars(Conn(Comm!ShutsDown))
    /\ WF_servicesVars(Timer(Time!Tick))
    /\ WF_servicesVars(Timer(Time!TimerThread))
    /\ \A i \in 1 .. MaxTimers : WF_servicesVars(Timer(Time!AsyncThread(i)))
    /\ \A e \in {"A", "B"} :
          /\ WF_servicesVars(Bsp(Link!Read(e)))
          /\ WF_servicesVars(Bsp(Link!Receive(e)))
          /\ WF_servicesVars(Bsp(Link!Expire(e)))
          /\ WF_servicesVars(Bsp(Link!Timeout(e)))

ServicesSpec == ServicesInit /\ [][ServicesNext]_servicesVars /\ Fairness

-----------------------------------------------------------------------------
\* The base gets a SERIAL error after the watchdog's time-out.
DeathIsNoticed ==
    part = "Connection" /\ Comm!Dead ~> part = "Connection" /\ Comm!DeathNoticed

\* shutdown() releases and joins all threads.
ShutdownEnds ==
    part = "Connection" /\ Comm!ShutdownBegan ~> part = "Connection" /\ Comm!ShutdownEnded

\* No callback runs once its timer was cancelled (and the timers have their
\* types).
CancelledStaysQuiet == part = "Timers" => Time!TypeOK /\ Time!CancelledStaysQuiet

\* A cancelled timer is released in the end.
CancelledIsReleased ==
    \A i \in 1 .. MaxTimers :
        part = "Timers" /\ Time!Cancelled(i) ~> part = "Timers" /\ Time!Released(i)

\* What is written at one end of the link is read at the other in the end,
\* although payloads and packet types are damaged.
EverythingArrives ==
    \A n \in 1 .. MaxPackets : part = "Link" /\ Link!Sent("A", n) ~> part = "Link" /\ Link!Got("B", n)
=============================================================================
