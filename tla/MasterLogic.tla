----------------------------- MODULE MasterLogic -----------------------------
(***************************************************************************)
(* The master: its hierarchical state machine (master/logic.cpp on         *)
(* lib/hsm.h), the states' handlers (master/hsm) and Master::accept and    *)
(* Master::evaluate (master/master.cpp).  The item tracker of the run      *)
(* state is RunNet.                                                        *)
(*                                                                         *)
(* The communication layer of the master puts the packets of both modules  *)
(* and those the master sends to itself into one FIFO (communication/      *)
(* base.cpp), so what the master decided to do next waits behind whatever  *)
(* the modules sent before: loop is that part of the queue which the       *)
(* master wrote, and a packet of a module may come before any of it.       *)
(***************************************************************************)
EXTENDS RunNet, FiniteSets

CONSTANTS MaxItems,   \* bound: items on module 1 at a time
          MaxLoop,    \* bound: packets to itself the master has waiting
          Asked,      \* bound: the requests the modules make
          Reported    \* bound: the item events the modules report

ASSUME MaxItemsAssumption == MaxItems \in Nat \ {0}
ASSUME MaxLoopAssumption  == MaxLoop \in Nat \ {0}

VARIABLES leaf,      \* Hierarchy::mCurrent
          lastRun,   \* mCurrent of the run machine, its memory
          ramp,      \* mRampFull
          net,       \* the tracker of hsm::Run
          loop,      \* packets to MASTER sent by the master itself
          told,      \* the last mode each module was told to be in
          belt,      \* the motor of each module once it has obeyed all of that
          fixed,     \* modules that sent FIXED since the last error
          served     \* changes with each packet the master takes from loop

vars == <<leaf, lastRun, ramp, net, loop, told, belt, fixed, served>>

Module == {"M", "S"}

RunLeaf    == {"run_both_empty", "run_m_empty", "run_s_empty"}
ErrorLeaf  == {"error_both", "error_m", "error_s"}
ConfigLeaf == {"config_m1_rdy", "config_m1_running", "config_m2_rdy", "config_m2_running"}
IdleLeaf   == {"idle_either", "idle_m1", "idle_m2"}
Leaf       == RunLeaf \cup ErrorLeaf \cup ConfigLeaf \cup IdleLeaf \cup {"valid", "ready"}

(***************************************************************************)
(* The state machine is a tree: Above(l) is the path from a leaf to        *)
(* working, innermost first.                                               *)
(***************************************************************************)
Mode(l) == CASE l \in RunLeaf -> "run" [] l \in ErrorLeaf -> "error"
             [] l \in ConfigLeaf -> "config" [] l \in IdleLeaf -> "idle" [] OTHER -> l

\* Mutant of Above: the states are not inside working.
AboveFlat(l) == IF l \in ErrorLeaf THEN <<l>> ELSE <<l, Mode(l)>>

Above(l) == IF l \in ErrorLeaf THEN <<l>> ELSE <<l, Mode(l), "working">>

On(b, kind, msg) == <<b, kind, msg>>
Either(kind, msg) == {On("M", kind, msg), On("S", kind, msg)}
Rule(from, on, to) == [from |-> from, on |-> on, to |-> to]
Error == <<"-", "Error", "-">>

\* Mutant of OnError: an error that comes while one module has fixed the
\* last one does not start over.
OnErrorOnce == { Rule("working", Error, "error_both") }

OnError == { Rule(l, Error, "error_both") : l \in {"working", "error_m", "error_s"} }

Rules == OnError
    \cup { Rule("error_both", On("S", "Master", "FIXED"), "error_m"),
           Rule("error_both", On("M", "Master", "FIXED"), "error_s"),
           Rule("error_m",    On("M", "Master", "FIXED"), "ready"),
           Rule("error_s",    On("S", "Master", "FIXED"), "ready") }
    \cup { Rule(l, e, "config_m1_rdy") : l \in {"idle", "valid"}, e \in Either("Master", "CONFIG") }
    \cup { Rule("idle_either", On("M", "Master", "VALID"), "idle_m2"),
           Rule("idle_either", On("S", "Master", "VALID"), "idle_m1"),
           Rule("idle_m1",     On("M", "Master", "VALID"), "valid"),
           Rule("idle_m2",     On("S", "Master", "VALID"), "valid"),
           Rule("config_m1_rdy",     On("M", "Config", "START"), "config_m1_running"),
           Rule("config_m1_running", On("M", "Config", "DONE"),  "config_m2_rdy"),
           Rule("config_m2_rdy",     On("S", "Config", "START"), "config_m2_running"),
           Rule("config_m2_running", On("S", "Config", "DONE"),  "valid") }
    \cup { Rule(l, e, "run") : l \in {"valid", "ready"}, e \in Either("Master", "RUN") }
    \cup { Rule("run", e, "ready") : e \in Either("Master", "READY") }
    \cup { Rule("run", e, "valid") : e \in Either("Master", "IDLE") }
    \cup { Rule("run_both_empty", On("S", "Run", "RAMP_FULL"), "run_m_empty"),
           Rule("run_both_empty", On("M", "Run", "RAMP_FULL"), "run_s_empty"),
           Rule("run_m_empty",    On("M", "Run", "RAMP_FULL"), "run_both_empty"),
           Rule("run_s_empty",    On("S", "Run", "RAMP_FULL"), "run_both_empty") }

(***************************************************************************)
(* Hierarchy::process: the innermost state on the path that has a          *)
(* transition for the event takes it.  Entering run resumes its last leaf; *)
(* no other machine is entered except through one of its leaves, so no     *)
(* other memory matters.                                                   *)
(***************************************************************************)
Taken(l, e) == {r \in Rules : r.on = e /\ \E i \in DOMAIN Above(l) : r.from = Above(l)[i]}

StepsUp(l, r) == CHOOSE i \in DOMAIN Above(l) : Above(l)[i] = r.from

Innermost(l, R) == CHOOSE r \in R : \A q \in R : StepsUp(l, r) <= StepsUp(l, q)

Target(l, e) ==
    LET taken == Taken(l, e)
    IN  IF taken = {} THEN l
        ELSE LET to == Innermost(l, taken).to IN IF to = "run" THEN lastRun ELSE to

(***************************************************************************)
(* The functions attached to transitions, run between leaving and          *)
(* entering.                                                               *)
(***************************************************************************)
\* Mutant of RampAfter: the flags are set and never cleared.
RampAfterSticky(l, k) ==
    CASE l = "run_both_empty" /\ k = "run_m_empty" -> [ramp EXCEPT !["S"] = TRUE]
      [] l = "run_both_empty" /\ k = "run_s_empty" -> [ramp EXCEPT !["M"] = TRUE]
      [] OTHER -> ramp

RampAfter(l, k) ==
    CASE l = "run_both_empty" /\ k = "run_m_empty" -> [ramp EXCEPT !["S"] = TRUE]
      [] l = "run_both_empty" /\ k = "run_s_empty" -> [ramp EXCEPT !["M"] = TRUE]
      [] l = "run_m_empty" /\ k = "run_both_empty" -> [ramp EXCEPT !["S"] = FALSE]
      [] l = "run_s_empty" /\ k = "run_both_empty" -> [ramp EXCEPT !["M"] = FALSE]
      [] OTHER -> ramp

OnTheWay(l, k) ==
    CASE l = "config_m1_running" /\ k = "config_m2_rdy" ->
             <<Command("M", "RESUME"), Command("S", "RESUME")>>
      [] l = "config_m2_rdy" /\ k = "config_m2_running" -> <<Command("M", "SUSPEND")>>
      [] l \in {"run_m_empty", "run_s_empty"} /\ k = "run_both_empty" ->
             <<Report("MASTER", "RAMP_FULL", "START")>>
      [] OTHER -> <<>>

\* Mutant of Announce: module 2 is not told.
AnnounceToM1(mode) == << Packet("M", "MASTER", "Base", mode, "START") >>

Announce(mode) == << Packet("M", "MASTER", "Base", mode, "START"),
                     Packet("S", "MASTER", "Base", mode, "START") >>

\* Mutant of Entered: run does not repeat the motor commands.
EnteredSilently(l, k) ==
    IF Mode(l) = Mode(k) \/ Mode(k) = "error" THEN <<>> ELSE Announce(Mode(k))

Entered(l, k) ==
    IF Mode(l) = Mode(k) \/ Mode(k) = "error" THEN <<>>
    ELSE Announce(Mode(k)) \o (IF k \in RunLeaf THEN Resend(net).out ELSE <<>>)

(***************************************************************************)
(* Master::evaluate: what the analyser decides about the item at the       *)
(* switch of module m.  An item that is not kept leaves through the ramp.  *)
(* evaluate() reports a full ramp at module 2 in the name of module 1.     *)
(***************************************************************************)
Action == {"KEEP", "TOSS", "TOSS_M", "TOSS_S"}

Resolved(a, m) == IF a = "TOSS" \/ (a = "TOSS_M" /\ m = "S")
                    THEN IF m = "M" THEN "TOSS_M" ELSE "TOSS_S"
                    ELSE a

Keep(m) == <<Command(m, "KEEP_NEXT")>>

Evaluate(a, m, full) ==
    LET b == Resolved(a, m)
    IN  CASE b = "KEEP" -> Keep(m)
          [] b = "TOSS_M" /\ full["M"] -> Keep(m)
          [] b = "TOSS_S" /\ full["S"] ->
                 IF m = "S" THEN <<Packet("MASTER", "M", "Run", "RAMP_FULL", "START")>> ELSE <<>>
          [] b = "TOSS_S" /\ ~full["S"] /\ m = "M" -> Keep(m)
          [] OTHER -> <<>>

(***************************************************************************)
(* Master::analyse may fail to identify the item: it reports that, in the  *)
(* name of module 1, and tosses an item nobody has identified before.      *)
(***************************************************************************)
Verdicts(m, full) ==
    {Evaluate(a, m, full) : a \in Action}
      \cup {<<Report("M", "ANALYSE", "START")>> \o Evaluate(a, m, full) :
              a \in IF m = "M" THEN {"TOSS"} ELSE Action}

(***************************************************************************)
(* hsm::Error::handle.                                                     *)
(***************************************************************************)
Other(m) == IF m = "M" THEN "S" ELSE "M"

Forward(p) ==
    IF p.kind # "Error" THEN <<>>
    ELSE IF p.msg \in {"CONFIG", "ESTOP", "RAMP_FULL"}
      THEN << Packet("M", "MASTER", "Error", p.msg, p.at), Packet("S", "MASTER", "Error", p.msg, p.at) >>
    ELSE << Packet(Other(p.src), "MASTER", "Error", "WARNING", "START"),
            Packet(p.src, "MASTER", "Error", p.msg, p.at) >>

(***************************************************************************)
(* What the packets do to a module that obeys them in order: a change of   *)
(* mode stops its motor (RunManager::leave, error::Base::enter).           *)
(***************************************************************************)
Last(S) == CHOOSE i \in S : \A j \in S : j <= i

TellsMode(p, m)  == p.to = m /\ p.kind # "Run"
TellsMotor(p, m) == p.to = m /\ (p.kind # "Run" \/ p.msg \in {"RESUME", "SUSPEND"})

Told(m, was, out) ==
    LET modes == {i \in DOMAIN out : TellsMode(out[i], m)}
    IN  IF modes = {} THEN was
        ELSE LET p == out[Last(modes)] IN IF p.kind = "Error" THEN "error" ELSE p.msg

Belt(m, was, out) ==
    LET moves == {i \in DOMAIN out : TellsMotor(out[i], m)}
    IN  IF moves = {} THEN was
        ELSE LET p == out[Last(moves)] IN IF p.kind = "Run" THEN p.msg ELSE "SUSPEND"

(***************************************************************************)
(* The packets the master sends to itself.  Nothing it does with them      *)
(* depends on their data, so the light barrier of an error is left out.    *)
(***************************************************************************)
\* Mutant of ToMaster: the master gets what it sends to the modules.
ToEverybody(out) == out

Nth(S, k) == CHOOSE i \in S : Cardinality({j \in S : j <= i}) = k

ToMaster(out) == LET own == {i \in DOMAIN out : out[i].to = "MASTER"}
                 IN  [k \in 1..Cardinality(own) |-> [out[Nth(own, k)] EXCEPT !.at = "START"]]

(***************************************************************************)
(* Master::accept.                                                         *)
(***************************************************************************)
EventOf(p) == IF p.kind = "Error" THEN Error ELSE On(p.src, p.kind, p.msg)

StopAnswer(p) ==
    IF p.kind = "Run" /\ p.msg = "REQUEST_STOP"
      THEN <<Packet("MASTER", p.src, "Master", IF IsEmpty(net) THEN "IDLE" ELSE "READY", "START")>>
      ELSE <<>>

Tracked(n, k, p, verdict) ==
    IF k \in RunLeaf THEN Handle(n, <<p.src, p.msg, p.at>>, verdict) ELSE [n EXCEPT !.out = <<>>]

Accept(p, n, rest) ==
    LET k == Target(leaf, EventOf(p))
    IN  \E verdict \in IF k \in RunLeaf /\ p.msg = "ANALYSE"
                         THEN Verdicts(p.src, RampAfter(leaf, k)) ELSE {<<>>} :
          LET after == Tracked(n, k, p, verdict)
              out   == StopAnswer(p) \o OnTheWay(leaf, k) \o Entered(leaf, k) \o after.out
                         \o (IF k = "error_both" THEN Forward(p) ELSE <<>>)
          IN  /\ leaf' = k
              /\ lastRun' = IF k \in RunLeaf THEN k ELSE lastRun
              /\ ramp' = RampAfter(leaf, k)
              /\ net' = [after EXCEPT !.out = <<>>]
              /\ loop' = rest \o ToMaster(out)
              /\ told' = [m \in Module |-> Told(m, told[m], out)]
              /\ belt' = [m \in Module |-> Belt(m, belt[m], out)]
              /\ fixed' = IF p.kind = "Error" THEN {}
                          ELSE IF leaf \in ErrorLeaf /\ p.msg = "FIXED" THEN fixed \cup {p.src}
                          ELSE fixed

(***************************************************************************)
(* The packets of the modules: mode requests, calibration, what the run    *)
(* managers report, and errors that a module raises itself.                *)
(***************************************************************************)
FromModule(m, kind, msg) == Packet("MASTER", m, kind, msg, "START")

Requests == { FromModule(m, "Master", msg) :
                m \in Module, msg \in {"CONFIG", "VALID", "RUN", "FIXED"} }
       \cup { FromModule(m, "Config", msg) : m \in Module, msg \in {"START", "DONE"} }
       \cup { FromModule(m, "Run", msg) : m \in Module, msg \in {"RAMP_FULL", "REQUEST_STOP"} }
       \cup { FromModule(m, "Error", msg) : m \in Module, msg \in {"ESTOP", "CONFIG"} }

Init == /\ leaf = "idle_either"
        /\ lastRun = "run_both_empty"
        /\ ramp = [m \in Module |-> FALSE]
        /\ net = Fresh
        /\ loop = <<>>
        /\ told = [m \in Module |-> "idle"]
        /\ belt = [m \in Module |-> "SUSPEND"]
        /\ fixed = {}
        /\ served = FALSE

ReceiveRequest ==
    /\ Len(loop) < MaxLoop
    /\ \E p \in Requests \cap Asked : Accept(p, net, loop)
    /\ UNCHANGED served

ReceiveItem ==
    /\ Len(loop) < MaxLoop
    /\ \E e \in Event \cap Reported :
         /\ e = <<"M", "NEW_ITEM", "START">> => net.tok["COUNT"] < MaxItems
         /\ e = HandOverLost => net.expecting > 0
         /\ Accept(Packet("MASTER", e[1], "Run", e[2], e[3]), Answered(net, e), loop)
    /\ UNCHANGED served

ReceiveOwn == /\ loop # <<>>
              /\ Accept(Head(loop), net, Tail(loop))
              /\ served' = ~served

Next == ReceiveRequest \/ ReceiveItem \/ ReceiveOwn

\* The processing thread takes what is in its queue.  Only ReceiveOwn changes
\* served, so its fairness is stated of that variable alone.
Served == loop # <<>> /\ served' = ~served

Spec == Init /\ [][Next]_vars /\ WF_served(Served)

-----------------------------------------------------------------------------
TypeOK == /\ leaf \in Leaf
          /\ lastRun \in RunLeaf
          /\ ramp \in [Module -> BOOLEAN]
          /\ Typed(net) /\ net.out = <<>> /\ net.buf = <<>>
          /\ \A i \in DOMAIN loop : loop[i].to = "MASTER"
          /\ told \in [Module -> {"idle", "valid", "ready", "config", "run", "error"}]
          /\ belt \in [Module -> {"RESUME", "SUSPEND"}]
          /\ fixed \subseteq Module

\* The two modules are always in the mode of the master: nobody configures
\* while the other one runs, and both know of every error.
ModulesFollowMaster == \A m \in Module : told[m] = Mode(leaf)

\* While the master runs, the motors are what the tracker calls for, however
\* often an error or a stop interrupted it: Run::enter resends what the
\* change of mode made the modules forget.  Outside run and config no belt
\* moves.
BeltsAgree ==
    /\ leaf \in RunLeaf => \A m \in Module : belt[m] = net.motor[m]
    /\ leaf \notin RunLeaf \cup ConfigLeaf => \A m \in Module : belt[m] = "SUSPEND"

\* The flags that evaluate() reads agree with the leaf that run remembers, in
\* every state of the master, and an item is only sent into a ramp that is
\* not known to be full, whatever the analyser wants: it is kept, or the full
\* ramp is reported.
RampFlagsMatchLeaf == /\ ramp["S"] <=> lastRun = "run_m_empty"
                      /\ ramp["M"] <=> lastRun = "run_s_empty"

NeverTossOntoFullRamp ==
    \A m \in Module, a \in Action : Evaluate(a, m, ramp) = <<>> => ~ramp[m]

RampsRespected == RampFlagsMatchLeaf /\ NeverTossOntoFullRamp

\* The master leaves an error only after both modules have reported it fixed
\* since the last error it heard of.
RecoveryNeedsBothFixed ==
    [][(leaf \in ErrorLeaf /\ leaf' \notin ErrorLeaf) => fixed' = Module]_vars

\* What the master has decided and sent to itself takes effect in the end,
\* whatever the modules send in between: an error stops the line, and the
\* answer to a stop request takes it out of run.
ErrorsTakeEffect ==
    (\E i \in DOMAIN loop : loop[i].kind = "Error") ~> leaf \in ErrorLeaf

StopTakesEffect ==
    (\E i \in DOMAIN loop : loop[i].kind = "Master") ~> leaf \notin RunLeaf

DecisionsTakeEffect == ErrorsTakeEffect /\ StopTakesEffect
=============================================================================
