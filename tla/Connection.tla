----------------------------- MODULE Connection -----------------------------
(***************************************************************************)
(* The communication layer of one module from its start to its shutdown:   *)
(* communication::Base with its two threads on top of the watchdog client  *)
(* with its reader thread and its timer callback.                          *)
(*   ST  the serial thread of Base, from Watchdog::read to mBuffer         *)
(*   PT  its processing thread, from mBuffer to the master or the base     *)
(*   WR  the reader thread of Watchdog, from the BSP client to mReadBuf    *)
(*   CB  the timer callback of Watchdog, on a thread of its own            *)
(*   MT  the main thread in shutdown().                                    *)
(* Each step is what a thread does between two points at which another can *)
(* come in.  A pointer that is used after its object is gone crashes the   *)
(* program, or, for memory that is freed but still there, may.             *)
(***************************************************************************)
EXTENDS Naturals, Sequences

CONSTANTS FromLine,   \* what the other module sends: "DATA" and "WATCHDOG"
          MaxPosts,   \* bound: packets this module accepts itself
          Role        \* "master" or "slave": the class of the layer

ConnectionAssumption ==
    /\ FromLine \in Seq({"DATA", "WATCHDOG"})
    /\ MaxPosts \in Nat
    /\ Role \in {"master", "slave"}

VARIABLES line,       \* packets the BSP client has not handed over yet
          open,       \* mSerial and mClient: "open", "closing", or "gone"
          timer,      \* mTimer of the watchdog: "off" or "armed"
          running,    \* mRunning of Base
          timedOut,   \* mTimedOut
          pc,         \* where each thread is
          hand,       \* the packet a thread has taken and not passed on
          rbContent, rbInterrupted, rbAt,   \* mReadBuf of the watchdog
          mbContent, mbInterrupted, mbAt,   \* mBuffer of Base
          posts,      \* packets accepted from this module
          got,        \* packets processed
          late        \* threads an interrupt() has missed or disturbed

rb == <<rbContent, rbInterrupted, rbAt>>
mb == <<mbContent, mbInterrupted, mbAt>>
vars == <<line, open, timer, running, timedOut, pc, hand, rb, mb, posts, got, late>>

ReadBuf == INSTANCE Container WITH Reader <- {"ST"}, content <- rbContent,
                                   interrupted <- rbInterrupted, at <- rbAt
Buffer  == INSTANCE Container WITH Reader <- {"PT"}, content <- mbContent,
                                   interrupted <- mbInterrupted, at <- mbAt

Thread == {"ST", "PT", "WR", "CB", "MT"}

Init == /\ line = FromLine
        /\ open = "open" /\ timer = "off"
        /\ running = FALSE /\ timedOut = FALSE
        /\ pc = [t \in Thread |-> IF t = "MT" THEN "up" ELSE IF t = "CB" THEN "idle" ELSE "top"]
        /\ hand = [t \in Thread |-> <<>>]
        /\ ReadBuf!Init /\ Buffer!Init
        /\ posts = 0 /\ got = <<>> /\ late = {}

Crashed == \E t \in Thread : pc[t] = "crashed"

At(t, here) == ~Crashed /\ pc[t] = here
Goto(t, there) == pc' = [pc EXCEPT ![t] = there]
Stay == UNCHANGED pc

-----------------------------------------------------------------------------
(***************************************************************************)
(* accept() of the two layers: what a packet <<source, target, number>> is *)
(* in the own queue.  What goes to the other module leaves through send(), *)
(* which gives up in silence when the connection is down.                  *)
(***************************************************************************)
Nowhere == <<>>

Route(p) ==
    CASE Role = "master" /\ p[2] = "MASTER" -> [p EXCEPT ![1] = IF p[1] = "BASE" THEN "BASE_M" ELSE p[1]]
      [] Role = "master" /\ p[2] = "BASE_M" -> [p EXCEPT ![2] = "BASE"]
      [] p[2] = "BASE" -> p
      [] OTHER -> Nowhere

Accept(p) == IF Route(p) = Nowhere THEN UNCHANGED mb ELSE Buffer!Insert(Route(p))

Targets == IF Role = "master" THEN {"MASTER", "BASE_M", "BASE_S", "BASE"} ELSE {"MASTER", "BASE"}

\* The handler is gone before the layer shuts down.
Post == /\ At("MT", "up") /\ posts < MaxPosts
        /\ posts' = posts + 1
        /\ \E to \in Targets : Accept(<<IF to = "MASTER" THEN "BASE" ELSE "MASTER", to, <<"post", posts + 1>>>>)
        /\ UNCHANGED <<line, open, timer, running, timedOut, pc, hand, rb, got, late>>

-----------------------------------------------------------------------------
(***************************************************************************)
(* The processing thread.  Its indicator sets mRunning, which the serial   *)
(* thread tests, when it starts, and clears it when it ends.               *)
(***************************************************************************)
ProcessingThread ==
    /\ \/ /\ At("PT", "top") /\ Goto("PT", "loop")
          /\ running' = TRUE
          /\ UNCHANGED <<mb, hand, got, late>>
       \/ /\ At("PT", "loop") /\ Goto("PT", "remove")
          /\ Buffer!Enter("PT")
          /\ late' = IF pc["MT"] \in {"up", "interrupt", "notify"} THEN late ELSE late \cup {"PT"}
          /\ UNCHANGED <<running, hand, got>>
       \/ /\ At("PT", "remove") /\ Stay
          /\ Buffer!Wait("PT")
          /\ UNCHANGED <<running, hand, got, late>>
       \/ /\ At("PT", "remove") /\ running /\ Goto("PT", "process")
          /\ Buffer!Take("PT")
          /\ hand' = [hand EXCEPT !["PT"] = Head(mbContent)]
          /\ UNCHANGED <<running, got, late>>
       \/ /\ At("PT", "remove") /\ ~running /\ Goto("PT", "done")
          /\ Buffer!Take("PT")
          /\ UNCHANGED <<running, hand, got, late>>
       \/ /\ At("PT", "remove") /\ Goto("PT", "done")
          /\ Buffer!Throw("PT")
          /\ running' = FALSE
          /\ UNCHANGED <<hand, got, late>>
       \/ /\ At("PT", "process") /\ Goto("PT", "loop")
          /\ got' = Append(got, hand["PT"])
          /\ hand' = [hand EXCEPT !["PT"] = <<>>]
          /\ UNCHANGED <<running, mb, late>>
    /\ UNCHANGED <<line, open, timer, timedOut, rb, posts>>

(***************************************************************************)
(* The serial thread.  Between the test of mTimedOut and the moment        *)
(* remove() counts it as a reader an interrupt() does not see it.          *)
(***************************************************************************)
SerialError == <<"MASTER", "BASE", <<"serial", 0>>>>

SerialReads ==
    /\ \/ /\ At("ST", "top")
          /\ Goto("ST", IF running THEN "call" ELSE IF pc["PT"] = "top" THEN "deaf" ELSE "done")
          /\ UNCHANGED <<rb, hand, late>>
       \/ /\ At("ST", "call")
          /\ Goto("ST", IF open # "open" THEN "crashed" ELSE IF timedOut THEN "closed" ELSE "tested")
          /\ UNCHANGED <<rb, hand, late>>
       \/ /\ At("ST", "tested") /\ open = "gone" /\ Goto("ST", "crashed")
          /\ UNCHANGED <<rb, hand, late>>
       \/ /\ At("ST", "tested") /\ open # "gone" /\ Goto("ST", "remove")
          /\ ReadBuf!Enter("ST")
          /\ late' = IF timedOut /\ ~rbInterrupted THEN late \cup {"ST"} ELSE late
          /\ UNCHANGED hand
       \/ /\ At("ST", "remove") /\ Stay
          /\ ReadBuf!Wait("ST")
          /\ UNCHANGED <<hand, late>>
       \/ /\ At("ST", "remove") /\ Goto("ST", "insert")
          /\ ReadBuf!Take("ST")
          /\ hand' = [hand EXCEPT !["ST"] = Head(rbContent)]
          /\ UNCHANGED late
       \/ /\ At("ST", "remove") /\ Goto("ST", "closed")
          /\ ReadBuf!Throw("ST")
          /\ UNCHANGED <<hand, late>>
    /\ UNCHANGED <<line, open, timer, running, timedOut, mb, posts, got>>

SerialInserts ==
    /\ \/ /\ At("ST", "insert") /\ Goto("ST", "top")
          /\ Buffer!Insert(hand["ST"])
          /\ hand' = [hand EXCEPT !["ST"] = <<>>]
       \/ /\ At("ST", "closed") /\ running /\ Goto("ST", "done")
          /\ Accept(SerialError)
          /\ UNCHANGED hand
       \/ /\ \/ At("ST", "closed") /\ (~running \/ mbInterrupted)
             \/ At("ST", "insert") /\ mbInterrupted
          /\ Goto("ST", "done")
          /\ UNCHANGED <<mb, hand>>
    /\ UNCHANGED <<line, open, timer, running, timedOut, rb, posts, got, late>>

SerialThread == SerialReads \/ SerialInserts

(***************************************************************************)
(* The watchdog's reader.  What it reads shows that the other end is       *)
(* alive, so the first packet starts the timer.                            *)
(***************************************************************************)
IsData(kind) == kind = "DATA"

WatchdogReader ==
    /\ \/ /\ At("WR", "top") /\ Goto("WR", IF open = "open" THEN "call" ELSE "done")
          /\ UNCHANGED <<line, timer, timedOut, hand, rb>>
       \/ /\ At("WR", "call") /\ Goto("WR", IF open = "open" THEN "read" ELSE "crashed")
          /\ UNCHANGED <<line, timer, timedOut, hand, rb>>
       \/ /\ At("WR", "read") /\ open = "open" /\ line # <<>>
          /\ line' = Tail(line)
          /\ timer' = IF line = FromLine THEN "armed" ELSE timer
          /\ IF IsData(Head(line))
               THEN /\ Goto("WR", "insert")
                    /\ hand' = [hand EXCEPT !["WR"] =
                                  <<IF Role = "master" THEN "BASE_S" ELSE "MASTER",
                                    IF Role = "master" THEN "MASTER" ELSE "BASE", <<"line", Len(line)>>>>]
               ELSE Goto("WR", "top") /\ UNCHANGED hand
          /\ UNCHANGED <<timedOut, rb>>
       \/ /\ At("WR", "read") /\ open # "open" /\ Goto("WR", "done")
          /\ timedOut' = TRUE
          /\ UNCHANGED <<line, timer, hand, rb>>
       \/ /\ At("WR", "insert") /\ Goto("WR", "top")
          /\ ReadBuf!Insert(hand["WR"])
          /\ hand' = [hand EXCEPT !["WR"] = <<>>]
          /\ UNCHANGED <<line, timer, timedOut>>
       \/ /\ At("WR", "insert") /\ rbInterrupted /\ Goto("WR", "done")
          /\ timedOut' = TRUE
          /\ UNCHANGED <<line, timer, hand, rb>>
    /\ UNCHANGED <<open, running, mb, posts, got, late>>

(***************************************************************************)
(* The watchdog's callback finds the last read too long ago, which may     *)
(* also be because the threads are late, at any time while it is armed.    *)
(***************************************************************************)
TimesOut ==
    /\ At("CB", "idle") /\ timer = "armed" /\ Goto("CB", "notify")
    /\ timedOut' = TRUE
    /\ ReadBuf!BeginInterrupt
    /\ UNCHANGED <<line, open, timer, running, hand, mb, posts, got, late>>

Callback ==
    /\ At("CB", "notify")
    /\ \/ Stay /\ ReadBuf!NotifyAll /\ UNCHANGED timer
       \/ Goto("CB", "idle") /\ ReadBuf!EndInterrupt(FALSE) /\ timer' = "off"
    /\ UNCHANGED <<line, open, running, timedOut, hand, mb, posts, got, late>>

(***************************************************************************)
(* shutdown(), which the destructors of both layers call, with the         *)
(* destructor of the watchdog in the middle: mTimer.reset() does not wait  *)
(* for a callback that is running.                                         *)
(***************************************************************************)
Shutdown ==
    /\ At("MT", "up") /\ Goto("MT", "interrupt")
    /\ running' = FALSE
    /\ UNCHANGED <<line, open, timer, timedOut, hand, rb, mb, posts, got, late>>

ShutsDown ==
    /\ \/ /\ At("MT", "interrupt") /\ Goto("MT", "notify")
          /\ Buffer!BeginInterrupt
          /\ UNCHANGED <<open, timer, rb, late>>
       \/ /\ At("MT", "notify") /\ Stay
          /\ Buffer!NotifyAll
          /\ UNCHANGED <<open, timer, rb, late>>
       \/ /\ At("MT", "notify") /\ Goto("MT", "serial")
          /\ Buffer!EndInterrupt(TRUE)
          /\ UNCHANGED <<open, timer, rb, late>>
       \/ /\ At("MT", "serial") /\ Goto("MT", "reader")
          /\ open' = "closing" /\ timer' = "off"
          /\ UNCHANGED <<rb, mb, late>>
       \/ /\ At("MT", "reader") /\ pc["WR"] = "done" /\ Goto("MT", "release")
          /\ ReadBuf!BeginInterrupt
          /\ late' = IF pc["CB"] = "idle" THEN late ELSE late \cup {"CB"}
          /\ UNCHANGED <<open, timer, mb>>
       \/ /\ At("MT", "release") /\ Stay
          /\ ReadBuf!NotifyAll
          /\ UNCHANGED <<open, timer, mb, late>>
       \/ /\ At("MT", "release")
          /\ ReadBuf!EndInterrupt(TRUE)
          /\ open' = "gone"
          /\ \/ Goto("MT", "join")
             \/ pc["CB"] # "idle" /\ Goto("MT", "crashed")
          /\ UNCHANGED <<timer, mb, late>>
       \/ /\ At("MT", "join") /\ pc["PT"] = "done" /\ pc["ST"] \in {"done", "deaf"}
          /\ Goto("MT", "down")
          /\ UNCHANGED <<open, timer, rb, mb, late>>
    /\ UNCHANGED <<line, running, timedOut, hand, posts, got>>

Next == Post \/ ProcessingThread \/ SerialThread \/ WatchdogReader \/ TimesOut \/ Callback
          \/ Shutdown \/ ShutsDown

(***************************************************************************)
(* Threads that can run do; nothing makes the main program end or the      *)
(* other module die.                                                       *)
(***************************************************************************)
Fairness == /\ WF_vars(ProcessingThread) /\ WF_vars(SerialThread) /\ WF_vars(WatchdogReader)
            /\ WF_vars(Callback) /\ WF_vars(ShutsDown)

Spec == Init /\ [][Next]_vars /\ Fairness

-----------------------------------------------------------------------------
TypeOK == /\ open \in {"open", "closing", "gone"}
          /\ timer \in {"off", "armed"} /\ running \in BOOLEAN /\ timedOut \in BOOLEAN
          /\ posts \in 0..MaxPosts /\ late \subseteq {"ST", "PT", "CB"}
          /\ rbInterrupted \in BOOLEAN /\ mbInterrupted \in BOOLEAN
          /\ \A i \in DOMAIN mbContent : mbContent[i][2] \in {"MASTER", "BASE"}
          /\ Role = "slave" => \A i \in DOMAIN mbContent : mbContent[i][2] = "BASE"

FromTheLine(p) == p[3][1] = "line"
Number(p) == p[3][2]

\* the packets of the other module that are not heartbeats, numbered down
DataNumbers == { n \in 1..Len(FromLine) : FromLine[Len(FromLine) + 1 - n] = "DATA" }

\* What the other module sends is processed in the order in which it was
\* sent, each packet once, whatever interrupts the two queues in between: the
\* data sent before a packet is what was processed before it.
ProcessedInOrder ==
    \A i \in DOMAIN got : FromTheLine(got[i]) =>
        /\ Number(got[i]) \in DataNumbers
        /\ \A n \in DataNumbers :
              n > Number(got[i]) <=> \E j \in 1..i - 1 : FromTheLine(got[j]) /\ Number(got[j]) = n

\* After the watchdog's time-out the base gets a SERIAL error, whatever the
\* serial thread was doing then, unless it had just tested mTimedOut and enters
\* remove() after the one interrupt(), or never ran.
Dead == timedOut
BaseIsTold == \E i \in DOMAIN got : got[i] = SerialError
NobodyToTell == pc["MT"] # "up" \/ Crashed \/ pc["ST"] = "deaf"

DeathNoticed == BaseIsTold \/ NobodyToTell \/ "ST" \in late

DeathIsNoticed == Dead ~> DeathNoticed

\* shutdown() releases and joins all threads, wherever they are, unless one
\* uses a pointer that is gone, the processing thread was busy while its
\* queue was interrupted for good, or the time-out's interrupt() ends inside
\* the destructor's and clears its flag.
ShutdownBegan == pc["MT"] = "interrupt"
ShutdownEnded == pc["MT"] = "down" \/ Crashed \/ late \cap {"PT", "CB"} # {}

ShutdownEnds == ShutdownBegan ~> ShutdownEnded

\* test/ut/communication_layer.cpp "can route from base_s to master": a
\* packet the other module has sent leaves the read buffer while the
\* connection is up.
LineIsHeard == rbContent # <<>> ~> rbContent = <<>> \/ timedOut \/ pc["MT"] # "up"
=============================================================================
