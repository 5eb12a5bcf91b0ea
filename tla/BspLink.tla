------------------------------- MODULE BspLink -------------------------------
(***************************************************************************)
(* The serial line between the two modules: two BSP clients (serial/client *)
(* and serial/bsp_client.cpp) with a wire in each direction that damages   *)
(* packets.                                                                *)
(*                                                                         *)
(* Each end has a writer with one packet on its way at a time and a timer  *)
(* for it, a reader that answers every data packet, remembers the packets  *)
(* it has seen and puts chained packets together again, and a handshake    *)
(* that both ends go through when one of them no longer knows where a      *)
(* packet starts.  Three threads meet at an end: the one that writes, the  *)
(* reader thread, and the threads of the timers; the writer's mutex makes  *)
(* each call one step, and a callback that has already started when its    *)
(* timer is cancelled runs after that (lib/timer/async.cpp).  The pattern  *)
(* of the handshake is sent byte by byte and without that mutex, so that   *)
(* another thread's packet can fall into it and tears it.                  *)
(***************************************************************************)
EXTENDS Integers, Sequences, FiniteSets, SequencesExt

CONSTANTS IdMod,       \* packet ids wrap around (256)
          HistoryLen,  \* ids a reader remembers (Reader::N, 10)
          Damages,     \* what can happen to a packet between the two ends
          MaxDamage,   \* bound: packets it happens to in a behaviour
          MaxWrites,   \* bound: messages written at each end
          MaxPackets,  \* bound: packets a message is cut into
          MaxWire,     \* bound: packets on the two wires when a timer expires
          MaxLate      \* bound: callbacks of cancelled timers still to come

ASSUME IdAssumption == /\ HistoryLen \in Nat \ {0}
                       /\ IdMod \in Nat /\ IdMod > HistoryLen

ASSUME DamagesAssumption == Damages \subseteq {"payload", "header", "type", "lost", "torn"}

VARIABLES queue,     \* Writer::mSendingBuffer, the first one is on its way
          nextId,    \* Writer::mNextID
          armed,     \* Writer::mTimer is running
          late,      \* timer callbacks waiting for the writer's mutex
          history,   \* Reader::mHistory, oldest first
          chain,     \* Reader::mChain
          lastAck,   \* Reader::mLastAck
          inbox,     \* Reader::mStorage
          resetting, \* the reader thread is in Resetter::handle
          sending,   \* it is in Resetter::send there
          wire,      \* the bytes on their way to each end, packet by packet
          damaged,   \* packets damaged so far
          torn,      \* whether a packet has fallen into a reset pattern
          sent, received

writer == <<queue, nextId, armed, late>>
reader == <<history, chain, lastAck, inbox, resetting, sending>>
vars == <<writer, reader, wire, damaged, torn, sent, received>>

End == {"A", "B"}

ASSUME BoundsAssumption == /\ MaxWrites \in [End -> Nat]
                           /\ {MaxDamage, MaxPackets, MaxWire, MaxLate} \subseteq Nat

Peer(e) == IF e = "A" THEN "B" ELSE "A"

(***************************************************************************)
(* The n-th message an end writes, cut into k packets.                     *)
(***************************************************************************)
MessageOf(n, k) == [i \in 1..k |-> <<n, i>>]
Message == {MessageOf(n, k) : n \in 1..MaxWrites["A"] + MaxWrites["B"], k \in 1..MaxPackets}

(***************************************************************************)
(* On the wire: type is DATA, AP_OK, AP_ERR or RESET, id the packet id,    *)
(* last is false for a chained packet, and state says what the line has    *)
(* done to it.                                                             *)
(***************************************************************************)
Data(id, part, last) == [type |-> "DATA", id |-> id, part |-> part, last |-> last, state |-> "good"]
Answer(type, id) == [type |-> type, id |-> id, part |-> <<0, 0>>, last |-> TRUE, state |-> "good"]
None  == Answer("NONE", 0)
Reset == Answer("RESET", 0)

(***************************************************************************)
(* What one call does at end e is described by the packets it puts on the  *)
(* wire, in order, and the writer's and reader's new state.                *)
(***************************************************************************)
First(q) == IF q = <<>> THEN <<>> ELSE <<q[1]>>
LastAnswer(e) == IF lastAck[e] = None THEN <<>> ELSE <<lastAck[e]>>

(***************************************************************************)
(* Packets that a thread other than the reader puts on the wire: they go   *)
(* behind what is there or, while the reader sends its pattern, into the   *)
(* pattern, where the other end takes them for a part of it.               *)
(***************************************************************************)
Tears(e, out) == sending[e] /\ out # <<>>

Torn(w) == [w EXCEPT ![Len(w)].state = IF @ = "good" THEN "torn" ELSE "shredded"]

Meanwhile(e, out) ==
    /\ Tears(e, out) => "torn" \in Damages /\ damaged < MaxDamage
    /\ damaged' = IF Tears(e, out) THEN damaged + 1 ELSE damaged
    /\ torn' = (torn \/ Tears(e, out))
    /\ wire' = [wire EXCEPT ![Peer(e)] = IF Tears(e, out) THEN Torn(@) ELSE @ \o out]

(***************************************************************************)
(* Writer::put.  Only the packet that finds the buffer empty is sent; the  *)
(* others wait for its answer.                                             *)
(***************************************************************************)
Write(e) ==
    /\ Len(sent[e]) < MaxWrites[e]
    /\ \E k \in 1..MaxPackets :
         LET m    == MessageOf(Len(sent[e]) + 1, k)
             cut  == [i \in 1..k |-> Data((nextId[e] + i - 1) % IdMod, m[i], i = k)]
         IN  /\ queue' = [queue EXCEPT ![e] = @ \o cut]
             /\ nextId' = [nextId EXCEPT ![e] = (@ + k) % IdMod]
             /\ sent' = [sent EXCEPT ![e] = Append(@, m)]
             /\ armed' = [armed EXCEPT ![e] = @ \/ queue[e] = <<>>]
             /\ Meanwhile(e, IF queue[e] = <<>> THEN <<cut[1]>> ELSE <<>>)
    /\ UNCHANGED <<late, reader, received>>

(***************************************************************************)
(* Client::read: Reader::get on Container::remove.                         *)
(***************************************************************************)
Read(e) ==
    /\ inbox[e] # <<>>
    /\ received' = [received EXCEPT ![e] = Append(@, Head(inbox[e]))]
    /\ inbox' = [inbox EXCEPT ![e] = Tail(@)]
    /\ UNCHANGED <<writer, history, chain, lastAck, resetting, sending, wire, damaged, torn, sent>>

(***************************************************************************)
(* The timer of sendAndCheck: it expires, and its own thread calls         *)
(* acknowledge(0, AP_ERR), which sends the first packet again.             *)
(***************************************************************************)
Expire(e) ==
    /\ armed[e] /\ late[e] < MaxLate /\ Len(wire["A"]) + Len(wire["B"]) < MaxWire
    /\ armed' = [armed EXCEPT ![e] = FALSE]
    /\ late' = [late EXCEPT ![e] = @ + 1]
    /\ UNCHANGED <<queue, nextId, reader, wire, damaged, torn, sent, received>>

Timeout(e) ==
    /\ late[e] > 0
    /\ late' = [late EXCEPT ![e] = @ - 1]
    /\ armed' = [armed EXCEPT ![e] = queue[e] # <<>>]
    /\ Meanwhile(e, First(queue[e]))
    /\ UNCHANGED <<queue, nextId, reader, sent, received>>

(***************************************************************************)
(* The reader thread at end e takes the first packet off its wire, unless  *)
(* it is a pattern that is still being sent, and puts out on the other.    *)
(***************************************************************************)
Incoming(e) == IF \/ sending[e] \/ wire[e] = <<>>
                  \/ sending[Peer(e)] /\ Len(wire[e]) = 1
               THEN {}
               ELSE {Head(wire[e])}

Puts(e, out) == wire' = [wire EXCEPT ![e] = Tail(@), ![Peer(e)] = @ \o out]

(***************************************************************************)
(* Reader::processDataPacket and recordPacket.  A packet that fails its    *)
(* CRC is asked for again, one that is in the history is only answered.    *)
(***************************************************************************)
\* Mutant of Recorded: old entries are not overwritten.
RecordedForEver(h, id) == Append(h, id)

Recorded(h, id) == LET g == Append(h, id) IN IF Len(g) > HistoryLen THEN Tail(g) ELSE g

\* Mutant of IsNew: duplicates are not recognised.
IsAlwaysNew(h, id) == TRUE

IsNew(h, id) == ~Contains(h, id)

ReceiveData(e) ==
    \E p \in Incoming(e) :
      /\ ~resetting[e] /\ p.type = "DATA" /\ p.state \in {"good", "payload"}
      /\ LET ok    == p.state = "good"
             fresh == ok /\ IsNew(history[e], p.id)
             ack   == Answer(IF ok THEN "AP_OK" ELSE "AP_ERR", p.id)
             whole == Append(chain[e], p.part)
         IN  /\ lastAck' = [lastAck EXCEPT ![e] = ack]
             /\ history' = [history EXCEPT ![e] = IF fresh THEN Recorded(@, p.id) ELSE @]
             /\ chain' = [chain EXCEPT ![e] = IF ~fresh THEN @ ELSE IF p.last THEN <<>> ELSE whole]
             /\ inbox' = [inbox EXCEPT ![e] = IF fresh /\ p.last THEN Append(@, whole) ELSE @]
             /\ Puts(e, <<ack>>)
      /\ UNCHANGED <<writer, resetting, sending, damaged, torn, sent, received>>

(***************************************************************************)
(* Writer::acknowledge.  Every answer stops the timer; one that is not for *)
(* the first packet does nothing else.                                     *)
(***************************************************************************)
\* Mutant of Acknowledged: any answer is taken for that of the first packet.
AnyAcknowledged(e, p) == queue[e] # <<>>

Acknowledged(e, p) == queue[e] # <<>> /\ p.id = queue[e][1].id

\* Mutant of SendsNext: a negative answer is not answered.
SendsNextOnly(e, p) == p.type = "AP_OK" /\ Acknowledged(e, p)

SendsNext(e, p) == p.type = "AP_ERR" \/ Acknowledged(e, p)

ReceiveAnswer(e) ==
    \E p \in Incoming(e) :
      /\ ~resetting[e] /\ p.type \in {"AP_OK", "AP_ERR"} /\ p.state = "good"
      /\ LET rest == IF p.type = "AP_OK" /\ Acknowledged(e, p) THEN Tail(queue[e]) ELSE queue[e]
             next == IF SendsNext(e, p) THEN First(rest) ELSE <<>>
         IN  /\ queue' = [queue EXCEPT ![e] = rest]
             /\ armed' = [armed EXCEPT ![e] = next # <<>>]
             /\ Puts(e, next)
      /\ UNCHANGED <<nextId, late, reader, damaged, torn, sent, received>>

(***************************************************************************)
(* FailedPacketException: nothing in the header can be trusted, so this    *)
(* end repeats both its first packet and its last answer.                  *)
(***************************************************************************)
ReceiveFailed(e) ==
    \E p \in Incoming(e) :
      /\ ~resetting[e] /\ p.type # "RESET" /\ p.state = "header"
      /\ armed' = [armed EXCEPT ![e] = queue[e] # <<>>]
      /\ Puts(e, First(queue[e]) \o LastAnswer(e))
      /\ UNCHANGED <<queue, nextId, late, reader, damaged, torn, sent, received>>

(***************************************************************************)
(* BadPacketException: no packet has this type.  Resetter::handle sends    *)
(* the reset pattern, sixteen pairs of bytes and a last one, and reads     *)
(* until eight pairs and the rest of the other end's pattern have passed.  *)
(* A pattern that arrives at an end that awaits none is a bad packet too,  *)
(* and the rest of it is what that end reads then.                         *)
(***************************************************************************)
\* Mutant of Pattern: starting over does not send the pattern again.
FirstPattern(e) == IF resetting[e] THEN <<>> ELSE <<Reset>>

Pattern(e) == <<Reset>>

\* The first packet is read, rest is left of it, and a pattern is being sent.
SendsPattern(e, rest) ==
    /\ sending' = [sending EXCEPT ![e] = TRUE]
    /\ wire' = [wire EXCEPT ![e] = rest \o Tail(@), ![Peer(e)] = @ \o Pattern(e)]

\* What may be left of pattern p when end e sends its own: of one in a piece, all
\* that counts when its first pair was the bad packet, and nothing when its last
\* byte was wrong; of one that is torn, less than eight pairs, or enough for
\* another handshake, or, at an end that has read but one pair of it, enough for
\* one that does not end as it should.
Damaged(p) == [p EXCEPT !.state = "type"]

Rest(e, p) ==
    CASE p.state \in {"good", "type"} -> IF resetting[e] THEN {<<>>} ELSE {<<p>>}
      [] p.state = "torn" /\ resetting[e] -> {<<>>, <<Reset>>}
      [] OTHER -> {<<>>, <<Reset>>, <<Damaged(Reset)>>}

BeginReset(e) ==
    \E p \in Incoming(e) :
      /\ ~resetting[e] /\ p.type # "RESET" /\ p.state = "type"
      /\ resetting' = [resetting EXCEPT ![e] = TRUE]
      /\ SendsPattern(e, <<>>)
      /\ UNCHANGED <<writer, history, chain, lastAck, inbox, damaged, torn, sent, received>>

AnswerReset(e) ==
    \E p \in Incoming(e) :
      /\ ~resetting[e] /\ p.type = "RESET"
      /\ resetting' = [resetting EXCEPT ![e] = TRUE]
      /\ \E rest \in Rest(e, p) : SendsPattern(e, rest)
      /\ UNCHANGED <<writer, history, chain, lastAck, inbox, damaged, torn, sent, received>>

PatternSent(e) ==
    /\ sending[e]
    /\ sending' = [sending EXCEPT ![e] = FALSE]
    /\ UNCHANGED <<writer, history, chain, lastAck, inbox, resetting, wire, damaged, torn, sent,
                   received>>

EndReset(e) ==
    \E p \in Incoming(e) :
      /\ resetting[e] /\ p.type = "RESET" /\ p.state # "type"
      /\ resetting' = [resetting EXCEPT ![e] = FALSE]
      /\ armed' = [armed EXCEPT ![e] = @ \/ queue[e] # <<>>]
      /\ Puts(e, First(queue[e]) \o LastAnswer(e))
      /\ UNCHANGED <<queue, nextId, late, history, chain, lastAck, inbox, sending, damaged, torn,
                     sent, received>>

\* Something else than a pair or the last byte comes after eight pairs.
StartOver(e) ==
    \E p \in Incoming(e) :
      /\ resetting[e] /\ p.type = "RESET" /\ p.state # "good"
      /\ \E rest \in Rest(e, p) : SendsPattern(e, rest)
      /\ UNCHANGED <<writer, history, chain, lastAck, inbox, resetting, damaged, torn, sent,
                     received>>

Discard(e) ==
    \E p \in Incoming(e) :
      /\ resetting[e] /\ (p.type = "RESET" => p.state = "shredded")
      /\ Puts(e, <<>>)
      /\ UNCHANGED <<writer, reader, damaged, torn, sent, received>>

Receive(e) == \/ ReceiveData(e) \/ ReceiveAnswer(e) \/ ReceiveFailed(e)
              \/ BeginReset(e)  \/ AnswerReset(e)   \/ PatternSent(e)
              \/ EndReset(e)    \/ StartOver(e)     \/ Discard(e)

(***************************************************************************)
(* The line damages a packet: its payload, its header, its first two bytes *)
(* or all of it.  Nobody sees that before the packet is read, so it happens *)
(* to the first packet of a wire.  The pattern of a reset is sent sixteen  *)
(* times and half of that is enough, so only its end can be damaged.       *)
(***************************************************************************)
Applies(d, p) == CASE d = "payload" -> p.type = "DATA"
                   [] d = "lost"    -> p.type # "RESET"
                   [] d = "header"  -> p.type # "RESET"
                   [] d = "type"    -> TRUE

Damage(e) ==
    /\ damaged < MaxDamage /\ wire[e] # <<>>
    /\ \E d \in Damages \ {"torn"} :
         /\ Head(wire[e]).state = "good" /\ Applies(d, Head(wire[e]))
         /\ wire' = [wire EXCEPT ![e] = IF d = "lost" THEN Tail(@) ELSE [@ EXCEPT ![1].state = d]]
    /\ damaged' = damaged + 1
    /\ UNCHANGED <<writer, reader, torn, sent, received>>

Init == /\ queue = [e \in End |-> <<>>]
        /\ nextId = [e \in End |-> 0]
        /\ armed = [e \in End |-> FALSE]
        /\ late = [e \in End |-> 0]
        /\ history = [e \in End |-> <<>>]
        /\ chain = [e \in End |-> <<>>]
        /\ lastAck = [e \in End |-> None]
        /\ inbox = [e \in End |-> <<>>]
        /\ resetting = [e \in End |-> FALSE]
        /\ sending = [e \in End |-> FALSE]
        /\ wire = [e \in End |-> <<>>]
        /\ damaged = 0 /\ torn = FALSE
        /\ sent = [e \in End |-> <<>>]
        /\ received = [e \in End |-> <<>>]

Next == \E e \in End : Write(e) \/ Read(e) \/ Expire(e) \/ Timeout(e) \/ Receive(e) \/ Damage(e)

(***************************************************************************)
(* The threads of the two ends run, and the line carries what it is given. *)
(***************************************************************************)
Fairness == \A e \in End : /\ WF_vars(Read(e))    /\ WF_vars(Receive(e))
                           /\ WF_vars(Expire(e))  /\ WF_vars(Timeout(e))

Spec == Init /\ [][Next]_vars /\ Fairness
-----------------------------------------------------------------------------
Packets == [type : {"DATA"}, id : 0..IdMod-1, part : Nat \X Nat, last : BOOLEAN, state : {"good"}]

TypeOK == /\ queue \in [End -> Seq(Packets)]
          /\ nextId \in [End -> 0..IdMod-1]
          /\ armed \in [End -> BOOLEAN] /\ resetting \in [End -> BOOLEAN]
          /\ sending \in [End -> BOOLEAN]
          /\ late \in [End -> 0..MaxLate]
          /\ history \in [End -> Seq(0..IdMod-1)]
          /\ \A e \in End : Len(history[e]) <= HistoryLen
          /\ damaged \in 0..MaxDamage /\ torn \in BOOLEAN

\* Each end reads what the other end wrote, in order, complete and once:
\* serial/client.h on top of all that the line and the timers do.
Promise == INSTANCE ReliableLink WITH sent <- sent, received <- received
ReliablyInOrder == Promise!Spec

\* Every reset pattern on its way is awaited, so that the handshakes of the two
\* ends neither wait for ever for a pattern nobody sends nor answer each other
\* for ever, until another thread's packet falls into a pattern.
Resets(e) == Cardinality({i \in DOMAIN wire[e] : wire[e][i].type = "RESET"})
Waits(e)  == IF resetting[e] THEN 1 ELSE 0

ResetsBalanced == torn \/ Resets("A") + Resets("B") = Waits("A") + Waits("B")

\* An answer never removes a packet that has not been stored: the part that an
\* end has to store next is that of the first packet in the other one's buffer,
\* or, when only its answer is still to come, the part after that.
Due(e) == <<Len(received[e]) + Len(inbox[e]) + 1, Len(chain[e]) + 1>>

Following(p) == IF p.last THEN <<p.part[1] + 1, 1>> ELSE <<p.part[1], p.part[2] + 1>>

NothingDroppedEarly ==
    \A e \in End : Due(Peer(e)) \in
        IF queue[e] = <<>> THEN {<<Len(sent[e]) + 1, 1>>}
                           ELSE {queue[e][1].part, Following(queue[e][1])}

\* serial_client.cpp "can handle an unreliable connection": what is written
\* is read at the other end in the end.
Sent(e, n) == Len(sent[e]) >= n
Got(e, n)  == Len(received[e]) >= n

EverythingArrives ==
    \A e \in End : \A n \in 1..MaxWrites[e] : Sent(e, n) ~> Got(Peer(e), n)
=============================================================================
