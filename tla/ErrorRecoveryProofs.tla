------------------------ MODULE ErrorRecoveryProofs ------------------------
(***************************************************************************)
(* ModulesAgree of ErrorRecovery, for every set of errors and barriers and *)
(* without the bounds on how many there are.                               *)
(***************************************************************************)
EXTENDS ErrorRecovery, TLAPS

States == {"PENDING", "ACK", "GONE", "OK"}

Names == Kinds \cup BarriersM \cup BarriersS \cup
             {"ESTOP", "RAMP_FULL", "WARNING", "NONE", "FIXED", "RUN",
              "BTN_ESTOP", "BTN_RESET", "BTN_START"}

Modes == {"run", "ready", "error"}

Message == [type : {"ERROR", "EVENT"}, what : Names] \cup [type : {"MODE"}, what : {"run", "ready"}]

Packet == [src : Module, msg : Names]

Typing == /\ line \in ErrorLine \cup {"run", "ready"}
          /\ manager \in [Module -> Modes]
          /\ error \in [Module -> [kind : Names, priority : Int, state : States]]
          /\ mFixed \in [Module -> BOOLEAN]
          /\ inbox \in [Module -> Seq(Message)]
          /\ queue \in Seq(Packet) /\ serial \in Seq(Packet)

\* An error manager that is left has no error, so that the next one replaces it.
Fresh == \A m \in Module : manager[m] # "error" => error[m].priority = -2

\* The mode a message puts a handler in.
ModeOf(x) == IF x.type = "MODE" THEN x.what ELSE "error"

LineMode == IF line \in ErrorLine THEN "error" ELSE line

\* A handler in mode "now" that takes what is in its channel s ends in "mode".
Ends(s, now, mode) ==
    /\ (\A i \in 1..Len(s) : s[i].type = "EVENT") => now = mode
    /\ \A i \in 1..Len(s) :
          s[i].type # "EVENT" /\ (\A j \in 1..Len(s) : j > i => s[j].type = "EVENT")
              => ModeOf(s[i]) = mode

Inv == /\ Typing
       /\ Fresh
       /\ FixedMeansFixed
       /\ \A m \in Module : Ends(inbox[m], manager[m], LineMode)

-----------------------------------------------------------------------------
(***************************************************************************)
(* A channel that a message is put into, or taken from.                    *)
(***************************************************************************)
LEMMA EventPut ==
    ASSUME NEW s \in Seq(Message), NEW now, NEW mode, Ends(s, now, mode),
           NEW x \in Message, x.type = "EVENT"
    PROVE  Ends(Append(s, x), now, mode)
<1> DEFINE t == Append(s, x)
<1>1. Len(t) = Len(s) + 1 /\ Len(s) \in Nat /\ t[Len(s) + 1] = x
  OBVIOUS
<1>2. \A i \in 1..Len(s) : t[i] = s[i]
  OBVIOUS
<1> HIDE DEF t
<1> QED BY <1>1, <1>2 DEF Ends

\* A message that sets the mode decides where the channel leaves the
\* module.
LEMMA ModePut ==
    ASSUME NEW s \in Seq(Message), NEW now, NEW x \in Message, x.type # "EVENT"
    PROVE  Ends(Append(s, x), now, ModeOf(x))
<1> DEFINE t == Append(s, x)
<1>1. Len(t) = Len(s) + 1 /\ Len(s) \in Nat /\ t[Len(s) + 1] = x
  OBVIOUS
<1> HIDE DEF t
<1> QED BY <1>1 DEF Ends

\* What joins a channel together with nothing else is the last of it.
LEMMA Concatenated ==
    ASSUME NEW S, NEW s \in Seq(S), NEW x \in S
    PROVE  /\ s \o <<>> \o <<x>> = Append(s, x)
           /\ s \o <<x>> \o <<>> = Append(s, x)
<1>1. s \o <<>> = s /\ s \o <<x>> = Append(s, x) /\ Append(s, x) \in Seq(S)
  OBVIOUS
<1>2. Append(s, x) \o <<>> = Append(s, x)
  BY <1>1
<1> QED BY <1>1, <1>2

\* Nothing may join a channel.
LEMMA ConcatenatedNothing == ASSUME NEW S, NEW s \in Seq(S) PROVE s \o <<>> \o <<>> = s
OBVIOUS

\* Taking the first message off a channel leaves its end where it was.
LEMMA Taken ==
    ASSUME NEW s \in Seq(Message), NEW now, NEW mode, Ends(s, now, mode), s # <<>>
    PROVE  Ends(Tail(s), IF Head(s).type = "EVENT" THEN now ELSE ModeOf(Head(s)), mode)
<1> DEFINE t == Tail(s)
           u == IF Head(s).type = "EVENT" THEN now ELSE ModeOf(Head(s))
<1> SUFFICES Ends(t, u, mode) OBVIOUS
<1>1. Len(s) \in Nat /\ Len(s) > 0 /\ Len(t) = Len(s) - 1 /\ Head(s) = s[1]
  OBVIOUS
<1>2. \A i \in 1..Len(t) : t[i] = s[i + 1]
  OBVIOUS
<1>3. \A i \in 1..Len(s) : i = 1 \/ (i - 1 \in 1..Len(t) /\ s[i] = t[i - 1])
  BY <1>1, <1>2
<1> HIDE DEF t
<1>4. CASE \A i \in 1..Len(t) : t[i].type = "EVENT"
  <2>1. \A i \in 1..Len(s) : i > 1 => s[i].type = "EVENT"
    BY <1>3, <1>4
  <2>2. 1 \in 1..Len(s) BY <1>1
  <2> QED BY <1>1, <1>4, <2>1, <2>2 DEF Ends
<1>5. ASSUME NEW i \in 1..Len(t), t[i].type # "EVENT",
             \A j \in 1..Len(t) : j > i => t[j].type = "EVENT"
      PROVE  ModeOf(t[i]) = mode
  <2>1. i + 1 \in 1..Len(s) /\ s[i + 1] = t[i]
    BY <1>1, <1>2
  <2>2. \A j \in 1..Len(s) : j > i + 1 => s[j].type = "EVENT"
    BY <1>3, <1>5
  <2> QED BY <1>5, <2>1, <2>2 DEF Ends
<1> HIDE DEF u
<1>6. CASE ~\A i \in 1..Len(t) : t[i].type = "EVENT"
  BY <1>5, <1>6 DEF Ends
<1> QED BY <1>4, <1>6

(***************************************************************************)
(* An error that is over stays over.                                       *)
(***************************************************************************)
LEMMA HandledIsState ==
    ASSUME NEW s \in States, NEW k, NEW m, NEW e
    PROVE  Handled(s, k, m, e) \in States /\ (s = "OK" => Handled(s, k, m, e) = "OK")
<1>1. ASSUME NEW r \in States
      PROVE  /\ Solve(r) \in States /\ (r = "OK" => Solve(r) = "OK")
             /\ Acknowledge(r) \in States /\ (r = "OK" => Acknowledge(r) = "OK")
  BY DEF Solve, Acknowledge, States
<1> DEFINE r == IF Cleared(k, m, e) THEN Solve(s) ELSE s
<1>2. r \in States /\ (s = "OK" => r = "OK")
  BY <1>1
<1>3. Handled(s, k, m, e) = IF Confirmed(k, m, e) THEN Acknowledge(r) ELSE r
  BY DEF Handled
<1> HIDE DEF r
<1> QED BY <1>1, <1>2, <1>3

(***************************************************************************)
(* What a module tells the master.                                         *)
(***************************************************************************)
LEMMA TellTyped ==
    ASSUME Typing, NEW m \in Module, NEW msg \in Names, Tell(m, msg) \/ TellNothing
    PROVE  queue' \in Seq(Packet) /\ serial' \in Seq(Packet)
<1>1. From(m, msg) \in Packet BY DEF From, Packet
<1>2. CASE TellNothing
  BY <1>2 DEF TellNothing, Typing
<1>3. CASE Tell(m, msg) /\ m = "M"
  <2>1. queue' = Append(queue, From(m, msg)) /\ serial' = serial
    BY <1>3, Zenon DEF Tell
  <2> QED BY <1>1, <2>1 DEF Typing
<1>4. CASE Tell(m, msg) /\ m # "M"
  <2>1. serial' = Append(serial, From(m, msg)) /\ queue' = queue
    BY <1>4, Zenon DEF Tell
  <2> QED BY <1>1, <2>1 DEF Typing
<1> QED BY <1>2, <1>3, <1>4

(***************************************************************************)
(* A step of the handler of module m that takes a message.                 *)
(***************************************************************************)
LEMMA TakesOne ==
    ASSUME Inv, NEW m \in Module, Takes(m), UNCHANGED line,
           manager' = [manager EXCEPT ![m] = IF Head(inbox[m]).type = "EVENT" THEN @
                                             ELSE ModeOf(Head(inbox[m]))]
    PROVE  /\ inbox' \in [Module -> Seq(Message)] /\ manager' \in [Module -> Modes]
           /\ \A n \in Module : Ends(inbox[n], manager[n], LineMode)'
<1>1. inbox[m] \in Seq(Message) /\ inbox[m] # <<>> /\ inbox' = [inbox EXCEPT ![m] = Tail(@)]
  BY DEF Inv, Typing, Takes
<1>2. Head(inbox[m]) \in Message
  BY <1>1
<1>3. ModeOf(Head(inbox[m])) \in Modes
  BY <1>2 DEF ModeOf, Modes, Message
<1>4. Tail(inbox[m]) \in Seq(Message)
  BY <1>1
<1>5. Ends(Tail(inbox[m]), manager'[m], LineMode)
  BY <1>1, Taken DEF Inv, Typing
<1>6. LineMode' = LineMode
  BY DEF LineMode
<1>7. \A n \in Module : Ends(inbox'[n], manager'[n], LineMode)
  BY <1>1, <1>5 DEF Inv, Typing
<1> QED BY <1>1, <1>3, <1>4, <1>6, <1>7 DEF Inv, Typing, Ends

-----------------------------------------------------------------------------
\* ErrorManager::accept keeps the invariant, whatever error it holds.
LEMMA AcceptErrorKeeps == ASSUME Inv, NEW m \in Module, AcceptError(m) PROVE Inv'
<1> DEFINE x == Head(inbox[m])
           k == x.what
           p == Priority(k, m)
           replaces == p > error[m].priority
           new == [kind |-> k, priority |-> p, state |-> Entered(k, m)]
<1>1. /\ Takes(m) /\ x.type = "ERROR"
      /\ manager' = [manager EXCEPT ![m] = "error"]
      /\ error' = IF replaces THEN [error EXCEPT ![m] = new] ELSE error
      /\ mFixed' = IF replaces THEN [mFixed EXCEPT ![m] = new.state = "OK"] ELSE mFixed
      /\ Tell(m, "FIXED") \/ TellNothing
      /\ UNCHANGED <<line, plant, raised>>
  BY DEF AcceptError
<1>2. x \in Message /\ k \in Names
  BY <1>1 DEF Inv, Typing, Takes, Message
<1>3. p \in Int /\ p > -2
  BY DEF Priority
<1>4. Entered(k, m) \in States
  BY DEF Entered, States
<1>5. new \in [kind : Names, priority : Int, state : States]
  BY <1>2, <1>3, <1>4
<1>6. manager[m] # "error" => replaces
  BY <1>3 DEF Inv, Fresh
<1>7. ModeOf(x) = "error" BY <1>1 DEF ModeOf
<1>8. /\ inbox' \in [Module -> Seq(Message)] /\ manager' \in [Module -> Modes]
      /\ \A n \in Module : Ends(inbox[n], manager[n], LineMode)'
  BY <1>1, <1>7, TakesOne
<1>9. queue' \in Seq(Packet) /\ serial' \in Seq(Packet)
  BY <1>1, TellTyped DEF Inv, Names
<1>10. new.priority = p /\ new.state = Entered(k, m)
  OBVIOUS
<1> HIDE DEF x, k, p, replaces, new
<1>11. Typing'
  BY <1>1, <1>5, <1>8, <1>9 DEF Inv, Typing, ErrorLine
<1>12. Fresh'
  BY <1>1, <1>5 DEF Inv, Typing, Fresh
<1>13. FixedMeansFixed'
  <2>1. CASE replaces
    BY <1>1, <1>5, <2>1 DEF Inv, Typing, FixedMeansFixed
  <2>2. CASE ~replaces
    BY <1>1, <1>6, <2>2 DEF Inv, Typing, FixedMeansFixed
  <2> QED BY <2>1, <2>2
<1> QED BY <1>8, <1>11, <1>12, <1>13 DEF Inv

\* So does a change of mode in Handler::processBase,
LEMMA AcceptModeKeeps == ASSUME Inv, NEW m \in Module, AcceptMode(m) PROVE Inv'
<1> DEFINE x == Head(inbox[m])
<1>1. /\ Takes(m) /\ x.type = "MODE"
      /\ manager' = [manager EXCEPT ![m] = x.what]
      /\ error' = [error EXCEPT ![m] = NoError]
      /\ mFixed' = [mFixed EXCEPT ![m] = FALSE]
      /\ UNCHANGED <<line, queue, serial, plant, raised>>
  BY DEF AcceptMode, Leave
<1>2. x \in Message
  BY <1>1 DEF Inv, Typing, Takes
<1>3. x.what \in {"run", "ready"} /\ ModeOf(x) = x.what
  BY <1>1, <1>2 DEF Message, ModeOf
<1>4. /\ inbox' \in [Module -> Seq(Message)] /\ manager' \in [Module -> Modes]
      /\ \A n \in Module : Ends(inbox[n], manager[n], LineMode)'
  BY <1>1, <1>3, TakesOne
<1>5. NoError \in [kind : Names, priority : Int, state : States] /\ NoError.priority = -2
  BY DEF NoError, States, Names
<1> HIDE DEF x
<1>6. Typing'
  BY <1>1, <1>4, <1>5 DEF Inv, Typing, ErrorLine
<1>7. Fresh' /\ FixedMeansFixed'
  BY <1>1, <1>3, <1>5 DEF Inv, Typing, Fresh, FixedMeansFixed
<1> QED BY <1>4, <1>6, <1>7 DEF Inv

\* the emergency stop in Handler::processHAL,
LEMMA HandleStopKeeps == ASSUME Inv, NEW m \in Module, HandleStop(m) PROVE Inv'
<1>1. /\ Takes(m) /\ Head(inbox[m]).type = "EVENT"
      /\ UNCHANGED <<line, manager, error, mFixed>>
      /\ Tell(m, "ESTOP")
  BY DEF HandleStop, base
<1>2. manager' = [manager EXCEPT ![m] = @]
  BY <1>1 DEF Inv, Typing
<1>3. /\ inbox' \in [Module -> Seq(Message)] /\ manager' \in [Module -> Modes]
      /\ \A n \in Module : Ends(inbox[n], manager[n], LineMode)'
  BY <1>1, <1>2, TakesOne
<1>4. queue' \in Seq(Packet) /\ serial' \in Seq(Packet)
  BY <1>1, TellTyped DEF Inv, Names
<1> QED BY <1>1, <1>3, <1>4 DEF Inv, Typing, ErrorLine, Fresh, FixedMeansFixed

\* any other event of the hardware,
LEMMA HandleEventKeeps == ASSUME Inv, NEW m \in Module, HandleEvent(m) PROVE Inv'
<1> DEFINE e == Head(inbox[m]).what
           now == Handled(error[m].state, error[m].kind, m, e)
           fixed == error[m].state # "OK" /\ now = "OK"
<1>1. /\ Takes(m) /\ Head(inbox[m]).type = "EVENT"
      /\ UNCHANGED <<line, manager>>
  BY DEF HandleEvent
<1>2. manager' = [manager EXCEPT ![m] = @]
  BY <1>1 DEF Inv, Typing
<1>3. /\ inbox' \in [Module -> Seq(Message)] /\ manager' \in [Module -> Modes]
      /\ \A n \in Module : Ends(inbox[n], manager[n], LineMode)'
  BY <1>1, <1>2, TakesOne
<1>4. \/ /\ manager[m] = "error"
         /\ error' = [error EXCEPT ![m].state = now]
         /\ mFixed' = IF fixed THEN [mFixed EXCEPT ![m] = TRUE] ELSE mFixed
      \/ UNCHANGED <<error, mFixed>>
  BY DEF HandleEvent
<1>5. \/ Tell(m, "FIXED") \/ Tell(m, "RUN") \/ TellNothing
  BY DEF HandleEvent, TellNothing
<1>6. queue' \in Seq(Packet) /\ serial' \in Seq(Packet)
  BY <1>5, TellTyped DEF Inv, Names
<1>7. now \in States /\ (error[m].state = "OK" => now = "OK")
  BY HandledIsState DEF Inv, Typing
<1> HIDE DEF e, now
<1>8. Typing' /\ Fresh'
  BY <1>1, <1>3, <1>4, <1>6, <1>7 DEF Inv, Typing, ErrorLine, Fresh
<1>9. FixedMeansFixed'
  BY <1>1, <1>4, <1>7 DEF Inv, Typing, FixedMeansFixed
<1> QED BY <1>3, <1>8, <1>9 DEF Inv

(***************************************************************************)
(* The master changes its state, and tells the modules what mode it is in  *)
(* now: the last thing it sends is the error, or the mode it announces.    *)
(***************************************************************************)
LEMMA MasterAcceptKeeps == ASSUME Inv, MasterAccept PROVE Inv'
<1> DEFINE p == Head(queue)
           k == Target(line, p)
           news == Announce(line, k)
<1>1. /\ queue # <<>> /\ queue' = Tail(queue) /\ line' = k
      /\ inbox' = [m \in Module |-> inbox[m] \o news \o Forward(p, m)]
      /\ UNCHANGED <<base, serial, plant, raised>>
  BY DEF MasterAccept
<1>2. p \in Packet /\ queue' \in Seq(Packet)
  BY <1>1 DEF Inv, Typing
<1>3. k \in ErrorLine \cup {"run", "ready"}
  BY DEF Inv, Typing, Target, ErrorLine
<1>4. ASSUME NEW m \in Module
      PROVE  inbox'[m] \in Seq(Message) /\ Ends(inbox'[m], manager[m], LineMode')
  <2> DEFINE s == inbox[m]
  <2>1. s \in Seq(Message) /\ Ends(s, manager[m], LineMode)
    BY DEF Inv, Typing
  <2>2. inbox'[m] = s \o news \o Forward(p, m)
    BY <1>1
  <2>3. LineMode' = IF k \in ErrorLine THEN "error" ELSE k
    BY <1>1 DEF LineMode
  <2>4. CASE p.msg \notin {"FIXED", "RUN"}
    <3>1. k = "error_both" BY <2>4 DEF Target, From
    <3>2. news = <<>> BY <3>1 DEF Announce
    <3>3. PICK x \in Message : x.type = "ERROR" /\ Forward(p, m) = <<x>>
      BY <1>2, <2>4 DEF Forward, Warns, Message, Packet, Names
    <3>4. inbox'[m] = Append(s, x)
      BY <2>1, <2>2, <3>2, <3>3, Concatenated
    <3>5. ModeOf(x) = LineMode'
      BY <2>3, <3>1, <3>3 DEF ModeOf, ErrorLine
    <3> QED BY <2>1, <3>3, <3>4, <3>5, ModePut
  <2>5. CASE p.msg \in {"FIXED", "RUN"} /\ k # line /\ k \in {"ready", "run"}
    <3> DEFINE x == [type |-> "MODE", what |-> k]
    <3>1. Forward(p, m) = <<>> BY <2>5 DEF Forward
    <3>2. news = <<x>> BY <2>5 DEF Announce
    <3>3. x \in Message /\ x.type = "MODE" /\ ModeOf(x) = k
      BY <2>5 DEF Message, ModeOf
    <3>4. inbox'[m] = Append(s, x)
      <4> HIDE DEF x, s, news, k, p
      <4> QED BY <2>1, <2>2, <3>1, <3>2, <3>3, Concatenated
    <3>5. LineMode' = k
      BY <2>3, <2>5 DEF ErrorLine
    <3> QED BY <2>1, <3>3, <3>4, <3>5, ModePut
  <2>6. CASE p.msg \in {"FIXED", "RUN"} /\ (k = line \/ k \notin {"ready", "run"})
    <3>1. Forward(p, m) = <<>> /\ news = <<>>
      BY <2>6 DEF Forward, Announce
    <3>2. inbox'[m] = s
      BY <2>1, <2>2, <3>1, ConcatenatedNothing
    <3>3. LineMode' = LineMode
      BY <2>3, <2>6, <1>3 DEF LineMode, Target, ErrorLine
    <3> QED BY <2>1, <3>2, <3>3
  <2> QED BY <2>4, <2>5, <2>6
<1>5. UNCHANGED <<manager, error, mFixed, serial>>
  BY <1>1 DEF base
<1>6. inbox' \in [Module -> Seq(Message)]
  <2>1. inbox' = [m \in Module |-> inbox'[m]] BY <1>1
  <2> QED BY <2>1, <1>4
<1> HIDE DEF p, k, news
<1>7. Typing'
  BY <1>1, <1>2, <1>3, <1>5, <1>6 DEF Inv, Typing, ErrorLine
<1>8. Fresh' /\ FixedMeansFixed'
  BY <1>5 DEF Inv, Fresh, FixedMeansFixed
<1> QED BY <1>4, <1>5, <1>7, <1>8 DEF Inv

\* and an error that happens on the belt.
LEMMA HappensKeeps ==
    ASSUME Inv, NEW m \in Module, NEW e \in Names, Happens(m, e)
    PROVE  Inv'
<1> DEFINE x == [type |-> "EVENT", what |-> e]
<1>1. x \in Message /\ x.type = "EVENT"
  BY DEF Message
<1>2. inbox' = [inbox EXCEPT ![m] = Append(@, x)] /\ UNCHANGED <<line, base, queue, serial>>
  BY DEF Happens
<1> HIDE DEF x
<1>3. Ends(Append(inbox[m], x), manager[m], LineMode)
  BY <1>1, EventPut DEF Inv, Typing
<1>4. \A n \in Module : inbox'[n] = IF n = m THEN Append(inbox[m], x) ELSE inbox[n]
  BY <1>2 DEF Inv, Typing
<1>5. LineMode' = LineMode /\ UNCHANGED <<manager, error, mFixed>>
  BY <1>2 DEF LineMode, base
<1>6. Typing'
  BY <1>1, <1>2, <1>5 DEF Inv, Typing
<1>7. \A n \in Module : Ends(inbox'[n], manager'[n], LineMode')
  BY <1>3, <1>4, <1>5 DEF Inv
<1> QED BY <1>5, <1>6, <1>7 DEF Inv, Fresh, FixedMeansFixed

-----------------------------------------------------------------------------
\* Whatever errors come and go, the modules' flags and managers are those
\* of Inv: this is the inductive invariant of error recovery.
THEOREM Invariance == Spec => []Inv
<1>1. Init => Inv
  BY DEF Init, Inv, Typing, Fresh, FixedMeansFixed, Ends, LineMode, NoError, ErrorLine,
         Modes, States, Names
<1>2. Inv /\ [Next]_vars => Inv'
  <2> SUFFICES ASSUME Inv, [Next]_vars PROVE Inv'
    OBVIOUS
  <2>1. ASSUME NEW m \in Module, Handle(m) PROVE Inv'
    BY <2>1, AcceptErrorKeeps, AcceptModeKeeps, HandleStopKeeps, HandleEventKeeps DEF Handle
  <2>2. ASSUME NEW m \in Module,
               Press(m) \/ Release(m) \/ PushReset(m) \/ PushStart(m)
        PROVE  Inv'
    BY <2>2, HappensKeeps DEF Press, Release, PushReset, PushStart, Names
  <2>3. ASSUME NEW m \in Module, NEW b \in Barriers(m), Block(m, b) \/ Clear(m, b) PROVE Inv'
    <3>1. b \in Names BY DEF Names, Barriers
    <3> QED BY <2>3, <3>1, HappensKeeps DEF Block, Clear
  <2>4. CASE Arrive
    <3>1. queue' \in Seq(Packet) /\ serial' \in Seq(Packet)
      BY <2>4 DEF Arrive, Inv, Typing
    <3> QED BY <2>4, <3>1 DEF Arrive, base, Inv, Typing, ErrorLine, Fresh, FixedMeansFixed, Ends, LineMode
  <2>5. CASE MasterAccept
    BY <2>5, MasterAcceptKeeps
  <2>6. CASE RaiseError
    <3>1. PICK k \in Kinds, m \in Module : queue' = Append(queue, From(m, k))
      BY <2>6 DEF RaiseError
    <3>2. From(m, k) \in Packet
      BY DEF Names, From, Packet
    <3>3. queue' \in Seq(Packet)
      BY <3>1, <3>2 DEF Inv, Typing
    <3>4. UNCHANGED <<line, manager, error, mFixed, inbox, serial>>
      BY <2>6 DEF RaiseError, base
    <3>5. Typing'
      BY <3>3, <3>4 DEF Inv, Typing, ErrorLine
    <3>6. Fresh' /\ FixedMeansFixed' /\ \A n \in Module : Ends(inbox'[n], manager'[n], LineMode')
      BY <3>4 DEF Inv, Fresh, FixedMeansFixed, LineMode
    <3> QED BY <3>5, <3>6 DEF Inv
  <2>7. CASE UNCHANGED vars
    BY <2>7 DEF vars, base, Inv, Typing, ErrorLine, Fresh, FixedMeansFixed, Ends, LineMode
  <2> QED BY <2>1, <2>2, <2>3, <2>4, <2>5, <2>6, <2>7 DEF Next
<1> QED BY <1>1, <1>2, PTL DEF Spec

(***************************************************************************)
(* ModulesAgree of ErrorRecovery: a module reports what is true when it    *)
(* repeats that its error is fixed, and is in the mode of the master when  *)
(* it has handled what the master sent it.                                 *)
(***************************************************************************)
THEOREM ModulesAlwaysAgree == Spec => []ModulesAgree
<1>1. Inv => ModulesAgree
  <2> SUFFICES ASSUME Inv, NEW m \in Module, Waiting(m) \subseteq {"EVENT"}
               PROVE  manager[m] = LineMode
    BY DEF Inv, ModulesAgree, ModesAgree, LineMode
  <2>1. inbox[m] \in Seq(Message)
    BY DEF Inv, Typing
  <2>2. \A i \in 1..Len(inbox[m]) : inbox[m][i].type = "EVENT"
    <3>1. DOMAIN inbox[m] = 1..Len(inbox[m]) BY <2>1
    <3> QED BY <3>1 DEF Waiting
  <2> QED BY <2>2 DEF Inv, Ends
<1> QED BY <1>1, Invariance, PTL

(***************************************************************************)
(* The rest of the type invariant: what the people at the line change.     *)
(***************************************************************************)
Outside == /\ pressed \in [Module -> BOOLEAN]
           /\ blocked \in [Module -> SUBSET {"RAMP", "ITEM"}]
           /\ \A m \in Module : blocked[m] \subseteq Barriers(m)
           /\ raised \in 0..MaxErrors

\* Every variable keeps to its type.
THEOREM TypeCorrect == Spec => []TypeOK
<1>1. Init => Outside
  BY BoundsAssumption DEF Init, Outside
<1>2. Outside /\ [Next]_vars => Outside'
  <2> SUFFICES ASSUME Outside, [Next]_vars PROVE Outside'
    OBVIOUS
  <2>1. ASSUME UNCHANGED <<pressed, blocked, raised>> PROVE Outside'
    BY <2>1 DEF Outside
  <2>2. ASSUME raised < MaxErrors, raised' = raised + 1 PROVE raised' \in 0..MaxErrors
    BY <2>2, BoundsAssumption DEF Outside
  <2>3. ASSUME NEW m \in Module, Handle(m) \/ PushReset(m) \/ PushStart(m) PROVE Outside'
    BY <2>1, <2>3 DEF Handle, AcceptError, AcceptMode, HandleStop, HandleEvent, PushReset, PushStart, plant
  <2>4. ASSUME NEW m \in Module, Press(m) PROVE Outside'
    BY <2>2, <2>4 DEF Press, Outside
  <2>5. ASSUME NEW m \in Module, Release(m) PROVE Outside'
    BY <2>5 DEF Release, Outside
  <2>6. ASSUME NEW m \in Module, NEW b \in Barriers(m), Block(m, b) \/ Clear(m, b) PROVE Outside'
    BY <2>6, BarriersAssumption DEF Block, Clear, Outside, Barriers
  <2>7. CASE Arrive \/ MasterAccept
    BY <2>1, <2>7 DEF Arrive, MasterAccept, plant
  <2>8. CASE RaiseError
    BY <2>2, <2>8 DEF RaiseError, plant, Outside
  <2>9. CASE UNCHANGED vars
    BY <2>1, <2>9 DEF vars, plant
  <2> QED BY <2>3, <2>4, <2>5, <2>6, <2>7, <2>8, <2>9 DEF Next
<1>3. Inv /\ Outside => TypeOK
  BY DEF Inv, Typing, Modes, States, Outside, TypeOK
<1> QED BY <1>1, <1>2, <1>3, Invariance, PTL DEF Spec
=============================================================================
