---------------------------- MODULE BspLinkProofs ----------------------------
(***************************************************************************)
(* Proofs about the BSP link, for every number of messages and packets,    *)
(* every length of the history and every kind and number of damages: each  *)
(* end reads what the other wrote, and the handshakes are balanced.        *)
(***************************************************************************)
EXTENDS BspLink, FiniteSetTheorems, TLAPS

(***************************************************************************)
(* What travels on the wires.                                              *)
(***************************************************************************)
OnWire == [type : {"DATA", "AP_OK", "AP_ERR", "RESET"}, id : 0..IdMod-1, part : Nat \X Nat,
           last : BOOLEAN, state : {"good", "payload", "header", "type", "torn", "shredded"}]

Answers == [type : {"NONE", "AP_OK", "AP_ERR"}, id : 0..IdMod-1, part : Nat \X Nat,
            last : BOOLEAN, state : {"good"}]

Types == /\ TypeOK
         /\ chain \in [End -> Seq(Nat \X Nat)]
         /\ lastAck \in [End -> Answers]
         /\ \A e \in End : lastAck[e].type = "NONE" => lastAck[e] = None
         /\ inbox \in [End -> Seq(Seq(Nat \X Nat))]
         /\ wire \in [End -> Seq(OnWire)]
         /\ sent \in [End -> Seq(Seq(Nat \X Nat))]
         /\ received \in [End -> Seq(Seq(Nat \X Nat))]

(***************************************************************************)
(* The ids run around a circle.                                            *)
(***************************************************************************)
Succ(x)    == IF x = IdMod - 1 THEN 0 ELSE x + 1
Back(x, d) == IF d <= x THEN x - d ELSE x - d + IdMod

(***************************************************************************)
(* The packets of one direction, from the writer with buffer q to the      *)
(* reader with history h.  The first packet of q may have been stored      *)
(* already, when its answer is still to come.                              *)
(***************************************************************************)
Latest(h)  == h[Len(h)]
Seen(h, p) == h # <<>> /\ p.id = Latest(h)
Stored(q, h) == q # <<>> /\ Seen(h, q[1])
Skip(q, h) == IF Stored(q, h) THEN 1 ELSE 0

\* the id of the packet that is to be stored next
Expected(q, n, h) == IF Skip(q, h) < Len(q) THEN q[Skip(q, h) + 1].id ELSE n

\* The ids and parts of the packets in the buffer follow each other, to the
\* end of the last message written.
Consecutive(q, n, s) ==
    /\ \A i \in 1..Len(q) :
         /\ q[i].part[1] \in 1..Len(s) /\ q[i].part[2] \in 1..Len(s[q[i].part[1]])
         /\ q[i].last <=> q[i].part[2] = Len(s[q[i].part[1]])
    /\ \A i \in 1..Len(q)-1 : q[i+1].id = Succ(q[i].id) /\ q[i+1].part = Following(q[i])
    /\ q # <<>> => /\ n = Succ(q[Len(q)].id)
                   /\ q[Len(q)].last /\ q[Len(q)].part[1] = Len(s)

Cut(s) == \A n \in 1..Len(s) : /\ Len(s[n]) > 0
                               /\ \A i \in 1..Len(s[n]) : s[n][i] = <<n, i>>

\* What has been read and what waits to be read is what has been written; the
\* next packet to be stored goes on where that and the chain end.
Delivered(s, rc, ib) ==
    /\ Len(rc) + Len(ib) <= Len(s)
    /\ \A i \in 1..Len(rc) : rc[i] = s[i]
    /\ \A i \in 1..Len(ib) : ib[i] = s[Len(rc) + i]

Continues(q, s, h, c, k) ==
    /\ IF Skip(q, h) < Len(q) THEN q[Skip(q, h) + 1].part = <<k + 1, Len(c) + 1>>
                              ELSE c = <<>> /\ k = Len(s)
    /\ \A i \in 1..Len(c) : c[i] = <<k + 1, i>>

\* The history is the ids before the expected one.
Window(q, n, h) ==
    \A i \in 1..Len(h) : h[i] = Back(Expected(q, n, h), Len(h) + 1 - i)

Stream(q, n, s, h, c, ib, rc) ==
    /\ Consecutive(q, n, s) /\ Cut(s)
    /\ Delivered(s, rc, ib)
    /\ Continues(q, s, h, c, Len(rc) + Len(ib))
    /\ Window(q, n, h)

\* On the wire to the reader are copies of the packet it has stored last, and
\* behind them copies of the one it has to store next.
Same(p, o) == p.id = o.id /\ p.part = o.part /\ p.last = o.last

DataLine(q, h, w) ==
    /\ \A i \in 1..Len(w) : w[i].type = "DATA" =>
         Seen(h, w[i]) \/ (q # <<>> /\ ~Stored(q, h) /\ Same(w[i], q[1]))
    /\ \A i, j \in 1..Len(w) :
         i < j /\ w[i].type = "DATA" /\ w[j].type = "DATA" /\ Seen(h, w[j]) => Seen(h, w[i])

\* On the wire to the writer are answers to the packet before the first one in
\* the buffer, and behind them answers to that one, if it has been stored.
First1(q, n) == IF q = <<>> THEN n ELSE q[1].id

AckLine(q, n, h, w) ==
    /\ \A i \in 1..Len(w) : w[i].type = "AP_OK" =>
         w[i].id = Back(First1(q, n), 1) \/ (Stored(q, h) /\ w[i].id = First1(q, n))
    /\ \A i, j \in 1..Len(w) :
         i < j /\ w[i].type = "AP_OK" /\ w[j].type = "AP_OK" /\ w[i].id = First1(q, n)
           => w[j].id = First1(q, n)

Way(q, n, s, h, c, ib, rc, a, wd, wa) ==
    /\ Stream(q, n, s, h, c, ib, rc)
    /\ DataLine(q, h, wd) /\ AckLine(q, n, h, wa)
    /\ a.type = "AP_OK" => Seen(h, a)

\* The way from the writer at e to the reader at the other end.
Direction(e) ==
    LET f == Peer(e)
    IN  Way(queue[e], nextId[e], sent[e], history[f], chain[f], inbox[f], received[f],
            lastAck[f], wire[f], wire[e])

Inv == Types /\ \A e \in End : Direction(e)
-----------------------------------------------------------------------------
(***************************************************************************)
(* Arithmetic: a packet id is one more than the one before, around the     *)
(* circle.                                                                 *)
(***************************************************************************)
LEMMA Division ==
    ASSUME NEW a \in Nat, NEW M \in Nat \ {0}
    PROVE  a = M * (a \div M) + (a % M) /\ a \div M \in Nat /\ a % M \in 0..M-1
  OBVIOUS

\* A greater number has a greater multiple.
LEMMA Multiples ==
    ASSUME NEW p \in Nat, NEW q \in Nat, p < q, NEW M \in Nat \ {0}
    PROVE  M * p + M <= M * q
<1>1. q - p - 1 \in Nat /\ q = p + 1 + (q - p - 1)
  OBVIOUS
<1>2. M * q = M * p + M + M * (q - p - 1)
  BY <1>1
<1>3. M * (q - p - 1) >= 0
  BY <1>1
<1> QED BY <1>2, <1>3

\* A remainder is determined by the number it is left of.
LEMMA Remainder ==
    ASSUME NEW M \in Nat \ {0}, NEW p \in Nat, NEW q \in Nat,
           NEW r \in 0..M-1, NEW s \in 0..M-1, M * p + r = M * q + s
    PROVE  r = s
<1>1. M * p \in Nat /\ M * q \in Nat
  OBVIOUS
<1>2. ~(p < q) /\ ~(q < p)
  BY <1>1, Multiples
<1> QED BY <1>1, <1>2

\* Counting on from an id is the successor on the circle.
LEMMA ModIsSucc ==
    ASSUME NEW a \in Nat, IdMod \in Nat \ {0}
    PROVE  (a + 1) % IdMod = Succ(a % IdMod)
<1> DEFINE q == a \div IdMod
           r == a % IdMod
           p == (a + 1) \div IdMod
           s == (a + 1) % IdMod
<1>1. a = IdMod * q + r /\ q \in Nat /\ r \in 0..IdMod-1
  BY Division
<1>2. a + 1 \in Nat
  OBVIOUS
<1>3. a + 1 = IdMod * p + s /\ p \in Nat /\ s \in 0..IdMod-1
  BY <1>2, Division
<1> HIDE DEF q, r, p, s
<1>4. CASE r = IdMod - 1
  <2>1. IdMod * (q + 1) = IdMod * q + IdMod
    BY <1>1
  <2>2. IdMod * (q + 1) + 0 = IdMod * p + s
    BY <1>1, <1>3, <1>4, <2>1
  <2>3. s = 0
    BY <2>2, <1>1, <1>3, Remainder
  <2> QED BY <2>3, <1>4 DEF r, s, Succ
<1>5. CASE r # IdMod - 1
  <2>1. IdMod * q + (r + 1) = IdMod * p + s
    BY <1>1, <1>3
  <2>2. s = r + 1
    BY <2>1, <1>1, <1>3, <1>5, Remainder
  <2> QED BY <2>2, <1>5 DEF r, s, Succ
<1> QED BY <1>4, <1>5

\* An id is its own remainder.
LEMMA ModOfSmall ==
    ASSUME NEW a \in 0..IdMod-1, IdMod \in Nat \ {0}
    PROVE  a % IdMod = a
  OBVIOUS

\* A sequence that is not of length one has a first element before its
\* last.
LEMMA OneOfMore ==
    ASSUME NEW l \in Nat, l >= 1
    PROVE  l # 1 => 1 \in 1..l-1 /\ 1 < l
  OBVIOUS

\* Sequences with the same elements are the same.
LEMMA SameSeq ==
    ASSUME NEW S, NEW v \in Seq(S), NEW w \in Seq(S), Len(v) = Len(w),
           \A i \in 1..Len(v) : v[i] = w[i]
    PROVE  v = w
  OBVIOUS

\* No id is the one before it or the one after it.
LEMMA Circle ==
    ASSUME NEW x \in 0..IdMod-1
    PROVE  /\ Succ(x) \in 0..IdMod-1 /\ Succ(x) # x
           /\ Back(x, 1) \in 0..IdMod-1 /\ Back(x, 1) # x /\ Back(Succ(x), 1) = x
  BY IdAssumption DEF Succ, Back

\* Going back less than once round the circle leads elsewhere.
LEMMA BackElsewhere ==
    ASSUME NEW x \in 0..IdMod-1, NEW d \in 1..IdMod-1
    PROVE  Back(x, d) # x
  BY IdAssumption DEF Back

-----------------------------------------------------------------------------
(***************************************************************************)
(* The wires.                                                              *)
(***************************************************************************)
LEMMA ConcatLength ==
    ASSUME NEW S, NEW v \in Seq(S), NEW w \in Seq(S)
    PROVE  v \o w \in Seq(S) /\ Len(v \o w) = Len(v) + Len(w)
  OBVIOUS

\* The elements of a concatenation.
LEMMA Concat ==
    ASSUME NEW S, NEW v \in Seq(S), NEW w \in Seq(S), NEW i \in 1..Len(v \o w)
    PROVE  /\ Len(v \o w) = Len(v) + Len(w)
           /\ i <= Len(v) => i \in 1..Len(v) /\ (v \o w)[i] = v[i]
           /\ i > Len(v) => i - Len(v) \in 1..Len(w) /\ (v \o w)[i] = w[i - Len(v)]
  OBVIOUS

\* Copies of the first packet in the buffer may join the line to the
\* reader.
LEMMA DataLinePuts ==
    ASSUME NEW q, NEW h, NEW w \in Seq(OnWire), NEW out \in Seq(OnWire), DataLine(q, h, w),
           \A i \in 1..Len(out) : out[i].type = "DATA" => q # <<>> /\ Same(out[i], q[1])
    PROVE  DataLine(q, h, w \o out)
<1> DEFINE v == w \o out
<1>1. ASSUME NEW i \in 1..Len(v), v[i].type = "DATA", i > Len(w)
      PROVE  /\ q # <<>> /\ Same(v[i], q[1])
             /\ Seen(h, v[i]) <=> Stored(q, h)
  BY <1>1, Concat DEF Same, Seen, Stored
<1>2. ASSUME NEW i \in 1..Len(v), i <= Len(w)
      PROVE  i \in 1..Len(w) /\ v[i] = w[i]
  BY <1>2, Concat
<1>3. ASSUME NEW i \in 1..Len(v), v[i].type = "DATA"
      PROVE  Seen(h, v[i]) \/ (q # <<>> /\ ~Stored(q, h) /\ Same(v[i], q[1]))
  <2>1. CASE i > Len(w)
    BY <1>1, <1>3, <2>1
  <2>2. CASE i <= Len(w)
    BY <1>2, <1>3, <2>2 DEF DataLine
  <2> QED BY <2>1, <2>2
<1>4. ASSUME NEW i \in 1..Len(v), NEW j \in 1..Len(v), i < j,
             v[i].type = "DATA", v[j].type = "DATA", Seen(h, v[j])
      PROVE  Seen(h, v[i])
  <2>1. CASE j > Len(w)
    BY <1>1, <1>3, <1>4, <2>1
  <2>2. CASE j <= Len(w)
    BY <1>2, <1>4, <2>2 DEF DataLine
  <2> QED BY <2>1, <2>2
<1> QED BY <1>3, <1>4 DEF DataLine

\* Answers to the packet stored last may join the line to the writer.
LEMMA AckLinePuts ==
    ASSUME NEW q, NEW n, NEW h, NEW w \in Seq(OnWire), NEW out \in Seq(OnWire),
           AckLine(q, n, h, w),
           First1(q, n) \in 0..IdMod-1,
           ~Stored(q, h) => (h # <<>> => Latest(h) = Back(First1(q, n), 1)),
           \A i \in 1..Len(out) : out[i].type = "AP_OK" => Seen(h, out[i])
    PROVE  AckLine(q, n, h, w \o out)
<1> DEFINE v == w \o out
           x == First1(q, n)
<1>1. ASSUME NEW i \in 1..Len(v), v[i].type = "AP_OK", i > Len(w)
      PROVE  IF Stored(q, h) THEN v[i].id = x ELSE v[i].id = Back(x, 1)
  BY <1>1, Concat DEF Seen, Stored, First1
<1>2. ASSUME NEW i \in 1..Len(v), i <= Len(w)
      PROVE  i \in 1..Len(w) /\ v[i] = w[i]
  BY <1>2, Concat
<1>3. ASSUME NEW i \in 1..Len(v), v[i].type = "AP_OK"
      PROVE  v[i].id = Back(x, 1) \/ (Stored(q, h) /\ v[i].id = x)
  <2>1. CASE i > Len(w)
    BY <1>1, <1>3, <2>1
  <2>2. CASE i <= Len(w)
    BY <1>2, <1>3, <2>2 DEF AckLine
  <2> QED BY <2>1, <2>2
<1>4. Back(x, 1) # x
  BY Circle
<1>5. ASSUME NEW i \in 1..Len(v), NEW j \in 1..Len(v), i < j,
             v[i].type = "AP_OK", v[j].type = "AP_OK", v[i].id = x
      PROVE  v[j].id = x
  <2>1. CASE j > Len(w)
    BY <1>1, <1>3, <1>4, <1>5, <2>1
  <2>2. CASE j <= Len(w)
    BY <1>2, <1>5, <2>2 DEF AckLine
  <2> QED BY <2>1, <2>2
<1> QED BY <1>3, <1>5 DEF AckLine

\* Both lines stay as they were when their first packet is taken off.
LEMMA LinesTail ==
    ASSUME NEW q, NEW n, NEW h, NEW w \in Seq(OnWire), w # <<>>
    PROVE  /\ DataLine(q, h, w) => DataLine(q, h, Tail(w))
           /\ AckLine(q, n, h, w) => AckLine(q, n, h, Tail(w))
<1>1. \A i \in 1..Len(Tail(w)) : i + 1 \in 1..Len(w) /\ Tail(w)[i] = w[i + 1]
  OBVIOUS
<1>2. ASSUME DataLine(q, h, w)
      PROVE  DataLine(q, h, Tail(w))
  BY SMTT(30), <1>1, <1>2 DEF DataLine
<1>3. ASSUME AckLine(q, n, h, w)
      PROVE  AckLine(q, n, h, Tail(w))
  BY <1>1, <1>3 DEF AckLine
<1> QED BY <1>2, <1>3

\* Packets that are neither data nor answers may come before both lines.
LEMMA LinesBehind ==
    ASSUME NEW q, NEW n, NEW h, NEW w \in Seq(OnWire), NEW r \in Seq(OnWire),
           \A i \in 1..Len(r) : r[i].type = "RESET"
    PROVE  /\ DataLine(q, h, w) => DataLine(q, h, r \o w)
           /\ AckLine(q, n, h, w) => AckLine(q, n, h, r \o w)
<1> DEFINE v == r \o w
<1>1. ASSUME NEW i \in 1..Len(v), v[i].type # "RESET"
      PROVE  i - Len(r) \in 1..Len(w) /\ v[i] = w[i - Len(r)]
  BY <1>1, Concat
<1>2. Len(r) \in Nat /\ Len(v) \in Nat
  BY ConcatLength
<1> HIDE DEF v
<1>3. ASSUME DataLine(q, h, w)
      PROVE  DataLine(q, h, v)
  <2>1. ASSUME NEW i \in 1..Len(v), v[i].type = "DATA"
        PROVE  Seen(h, v[i]) \/ (q # <<>> /\ ~Stored(q, h) /\ Same(v[i], q[1]))
    BY <1>1, <1>3, <2>1 DEF DataLine
  <2>2. ASSUME NEW i \in 1..Len(v), NEW j \in 1..Len(v), i < j,
               v[i].type = "DATA", v[j].type = "DATA", Seen(h, v[j])
        PROVE  Seen(h, v[i])
    <3>0. i - Len(r) \in 1..Len(w) /\ j - Len(r) \in 1..Len(w)
      BY <1>1, <2>2
    <3>1. i - Len(r) \in 1..Len(w) /\ j - Len(r) \in 1..Len(w) /\ i - Len(r) < j - Len(r)
      BY <1>2, <2>2, <3>0
    <3>2. v[i] = w[i - Len(r)] /\ v[j] = w[j - Len(r)]
      BY <1>1, <2>2
    <3> QED BY <1>3, <2>2, <3>1, <3>2 DEF DataLine
  <2> QED BY <2>1, <2>2 DEF DataLine
<1>4. ASSUME AckLine(q, n, h, w)
      PROVE  AckLine(q, n, h, v)
  <2>1. ASSUME NEW i \in 1..Len(v), v[i].type = "AP_OK"
        PROVE  v[i].id = Back(First1(q, n), 1) \/ (Stored(q, h) /\ v[i].id = First1(q, n))
    BY <1>1, <1>4, <2>1 DEF AckLine
  <2>2. ASSUME NEW i \in 1..Len(v), NEW j \in 1..Len(v), i < j,
               v[i].type = "AP_OK", v[j].type = "AP_OK", v[i].id = First1(q, n)
        PROVE  v[j].id = First1(q, n)
    <3>0. i - Len(r) \in 1..Len(w) /\ j - Len(r) \in 1..Len(w)
      BY <1>1, <2>2
    <3>1. i - Len(r) \in 1..Len(w) /\ j - Len(r) \in 1..Len(w) /\ i - Len(r) < j - Len(r)
      BY <1>2, <2>2, <3>0
    <3>2. v[i] = w[i - Len(r)] /\ v[j] = w[j - Len(r)]
      BY <1>1, <2>2
    <3> QED BY <1>4, <2>2, <3>1, <3>2 DEF AckLine
  <2> QED BY <2>1, <2>2 DEF AckLine
<1> QED BY <1>3, <1>4 DEF v

\* Damage of a packet leaves what it is a copy of.
LEMMA SameLines ==
    ASSUME NEW q, NEW n, NEW h, NEW w \in Seq(OnWire), NEW v, Len(v) = Len(w),
           \A i \in 1..Len(w) : /\ v[i].type = w[i].type /\ v[i].id = w[i].id
                                 /\ v[i].part = w[i].part /\ v[i].last = w[i].last
    PROVE  /\ DataLine(q, h, w) => DataLine(q, h, v)
           /\ AckLine(q, n, h, w) => AckLine(q, n, h, v)
<1>2. ASSUME DataLine(q, h, w)
      PROVE  DataLine(q, h, v)
  BY <1>2 DEF DataLine, Seen, Same
<1>3. ASSUME AckLine(q, n, h, w)
      PROVE  AckLine(q, n, h, v)
  BY <1>3 DEF AckLine
<1> QED BY <1>2, <1>3

\* The first packet is damaged and stays on the wire.
LEMMA DamageKeeps ==
    ASSUME NEW w \in Seq(OnWire), w # <<>>, NEW d
    PROVE  LET v == [w EXCEPT ![1].state = d]
           IN  /\ Len(v) = Len(w)
               /\ \A i \in 1..Len(w) : /\ v[i].type = w[i].type /\ v[i].id = w[i].id
                                       /\ v[i].part = w[i].part /\ v[i].last = w[i].last
  BY DEF OnWire

LEMMA LinesDamaged ==
    ASSUME NEW q, NEW n, NEW h, NEW w \in Seq(OnWire), w # <<>>, NEW d
    PROVE  /\ DataLine(q, h, w) => DataLine(q, h, [w EXCEPT ![1].state = d])
           /\ AckLine(q, n, h, w) => AckLine(q, n, h, [w EXCEPT ![1].state = d])
<1> DEFINE v == [w EXCEPT ![1].state = d]
<1>1. /\ Len(v) = Len(w)
      /\ \A i \in 1..Len(w) : /\ v[i].type = w[i].type /\ v[i].id = w[i].id
                              /\ v[i].part = w[i].part /\ v[i].last = w[i].last
  BY DamageKeeps
<1> HIDE DEF v
<1>2. /\ DataLine(q, h, w) => DataLine(q, h, v)
      /\ AckLine(q, n, h, w) => AckLine(q, n, h, v)
  BY <1>1, SameLines
<1> QED BY <1>2 DEF v

\* The last one is torn.
LEMMA TornKeeps ==
    ASSUME NEW w \in Seq(OnWire)
    PROVE  /\ Torn(w) \in Seq(OnWire) /\ Len(Torn(w)) = Len(w)
           /\ \A i \in 1..Len(w) : /\ Torn(w)[i].type = w[i].type /\ Torn(w)[i].id = w[i].id
                                   /\ Torn(w)[i].part = w[i].part /\ Torn(w)[i].last = w[i].last
<1> DEFINE n == Len(w)
           s == IF w[n].state = "good" THEN "torn" ELSE "shredded"
           v == [i \in 1..n |-> IF i = n THEN [w[n] EXCEPT !.state = s] ELSE w[i]]
<1>1. Torn(w) = v
  BY DEF Torn
<1>2. ASSUME NEW i \in 1..n
      PROVE  /\ v[i] \in OnWire
             /\ v[i].type = w[i].type /\ v[i].id = w[i].id
             /\ v[i].part = w[i].part /\ v[i].last = w[i].last
  <2>1. w[i] \in OnWire
    OBVIOUS
  <2>2. v[i] = IF i = n THEN [w[i] EXCEPT !.state = s] ELSE w[i]
    OBVIOUS
  <2>3. s \in {"torn", "shredded"}
    OBVIOUS
  <2> HIDE DEF s, v
  <2> QED BY <2>1, <2>2, <2>3 DEF OnWire
<1>3. v \in Seq(OnWire) /\ Len(v) = n
  <2>1. n \in Nat /\ v = [i \in 1..n |-> v[i]]
    OBVIOUS
  <2> HIDE DEF v
  <2> QED BY <1>2, <2>1
<1> QED BY <1>1, <1>2, <1>3

-----------------------------------------------------------------------------
(***************************************************************************)
(* One direction of the link: what the calls do to its stream.             *)
(***************************************************************************)
Parts == Seq(Nat \X Nat)

Typed(q, n, s, h, c, ib, rc) ==
    /\ q \in Seq(Packets) /\ n \in 0..IdMod-1 /\ s \in Seq(Parts)
    /\ h \in Seq(0..IdMod-1) /\ Len(h) <= HistoryLen
    /\ c \in Parts /\ ib \in Seq(Parts) /\ rc \in Seq(Parts)

\* What is in the buffer is a packet.
LEMMA PacketTyped ==
    ASSUME NEW q \in Seq(Packets), NEW i \in 1..Len(q)
    PROVE  /\ q[i].type = "DATA" /\ q[i].id \in 0..IdMod-1 /\ q[i].last \in BOOLEAN
           /\ q[i].part \in Nat \X Nat /\ q[i].state = "good"
<1>1. q[i] \in Packets
  OBVIOUS
<1> QED BY <1>1 DEF Packets

\* The first id the writer waits for is an id.
LEMMA FirstIdTyped ==
    ASSUME NEW q \in Seq(Packets), NEW n \in 0..IdMod-1
    PROVE  First1(q, n) \in 0..IdMod-1
<1>1. q # <<>> => 1 \in 1..Len(q)
  OBVIOUS
<1> QED BY <1>1, PacketTyped DEF First1

\* The packet stored last is the one before the next to be stored.
LEMMA LatestIsBack ==
    ASSUME NEW q \in Seq(Packets), NEW n, NEW h \in Seq(0..IdMod-1), Window(q, n, h), ~Stored(q, h), h # <<>>
    PROVE  Latest(h) = Back(First1(q, n), 1)
<1>1. Expected(q, n, h) = First1(q, n)
  BY DEF Expected, Skip, First1
<1> QED BY <1>1 DEF Window, Latest

\* The history of the reader takes the first packet of the buffer for new
\* just as long as it has not been stored: the window is shorter than the
\* circle.
LEMMA DueIsNew ==
    ASSUME NEW q, NEW n, NEW s, NEW h, NEW c, NEW ib, NEW rc,
           Typed(q, n, s, h, c, ib, rc), Stream(q, n, s, h, c, ib, rc), q # <<>>
    PROVE  IsNew(h, q[1].id) <=> ~Stored(q, h)
<1> USE DEF Typed
<1>0. 1 \in 1..Len(q) /\ Len(h) \in Nat
  OBVIOUS
<1>1. q[1].id \in 0..IdMod-1
  BY <1>0, PacketTyped
<1>2. ASSUME Stored(q, h)
      PROVE  ~IsNew(h, q[1].id)
  BY <1>2 DEF Stored, Seen, Latest, IsNew, Contains
<1>3. ASSUME ~Stored(q, h)
      PROVE  IsNew(h, q[1].id)
  <2>1. Expected(q, n, h) = q[1].id
    BY <1>3 DEF Expected, Skip
  <2>2. ASSUME NEW i \in 1..Len(h)
        PROVE  h[i] # q[1].id
    <3>1. h[i] = Back(q[1].id, Len(h) + 1 - i)
      BY <2>1 DEF Stream, Window
    <3>2. Len(h) + 1 - i \in 1..IdMod-1
      BY <1>0, IdAssumption
    <3> QED BY <1>1, <3>1, <3>2, BackElsewhere
  <2> QED BY <2>2 DEF IsNew, Contains
<1> QED BY <1>2, <1>3

\* An answer to the first packet comes only when that has been stored; then
\* the next one is due.
LEMMA StreamPop ==
    ASSUME NEW q, NEW n, NEW s, NEW h, NEW c, NEW ib, NEW rc,
           Typed(q, n, s, h, c, ib, rc), Stream(q, n, s, h, c, ib, rc), Stored(q, h)
    PROVE  /\ Stream(Tail(q), n, s, h, c, ib, rc)
           /\ ~Stored(Tail(q), h)
           /\ First1(Tail(q), n) = Succ(q[1].id)
<1> DEFINE r == Tail(q)
<1>1. q \in Seq(Packets) /\ q # <<>>
  BY DEF Typed, Stored
<1>2. r \in Seq(Packets) /\ Len(q) \in Nat /\ Len(q) > 0 /\ Len(r) = Len(q) - 1
  BY <1>1
<1>3. \A i \in 1..Len(r) : i + 1 \in 1..Len(q) /\ r[i] = q[i + 1]
  BY <1>1
<1>4. \A i \in 1..Len(q) : q[i].id \in 0..IdMod-1
  BY <1>1, PacketTyped
<1> HIDE DEF r
<1>5. Consecutive(q, n, s) /\ (r = <<>> <=> Len(q) = 1)
  BY SMTT(30), <1>2 DEF Stream
<1>6. First1(r, n) = Succ(q[1].id)
  <2>1. CASE Len(q) = 1
    BY <2>1, <1>1, <1>2, <1>5 DEF First1, Consecutive
  <2>2. CASE Len(q) # 1
    <3>1. 1 \in 1..Len(q)-1 /\ 1 \in 1..Len(r)
      BY <2>2, <1>2
    <3> QED BY <3>1, <2>2, <1>2, <1>3, <1>5 DEF First1, Consecutive
  <2> QED BY <2>1, <2>2
<1>7. Latest(h) = q[1].id /\ q[1].id # Succ(q[1].id)
  BY <1>2, <1>4, Circle DEF Stored, Seen
<1>8. ~Stored(r, h)
  BY <1>6, <1>7 DEF Stored, Seen, First1
<1>9. Skip(r, h) = 0 /\ Skip(q, h) = 1
  BY <1>8 DEF Skip
<1>10. /\ Skip(r, h) < Len(r) <=> Skip(q, h) < Len(q)
       /\ Skip(r, h) < Len(r) => r[Skip(r, h) + 1] = q[Skip(q, h) + 1]
  BY <1>2, <1>3, <1>9
<1>11. Consecutive(r, n, s)
  <2>1. ASSUME NEW i \in 1..Len(r)
        PROVE  /\ r[i].part[1] \in 1..Len(s) /\ r[i].part[2] \in 1..Len(s[r[i].part[1]])
               /\ r[i].last <=> r[i].part[2] = Len(s[r[i].part[1]])
    BY <1>3, <1>5 DEF Consecutive
  <2>2. ASSUME NEW i \in 1..Len(r)-1
        PROVE  r[i+1].id = Succ(r[i].id) /\ r[i+1].part = Following(r[i])
    <3>1. i \in 1..Len(r) /\ i + 1 \in 1..Len(r) /\ i + 1 \in 1..Len(q)-1
      BY <1>2
    <3> QED BY <3>1, <1>3, <1>5 DEF Consecutive
  <2>3. r # <<>> => Len(r) \in 1..Len(r) /\ r[Len(r)] = q[Len(q)]
    BY <1>2, <1>3
  <2> QED BY <2>1, <2>2, <2>3, <1>1, <1>5 DEF Consecutive
<1>12. Continues(r, s, h, c, Len(rc) + Len(ib))
  BY <1>10 DEF Stream, Continues
<1>13. Window(r, n, h)
  BY <1>10 DEF Stream, Window, Expected
<1> QED BY <1>6, <1>8, <1>11, <1>12, <1>13 DEF Stream, r

\* Client::read returns the next message that was written.
LEMMA StreamRead ==
    ASSUME NEW q, NEW n, NEW s, NEW h, NEW c, NEW ib, NEW rc,
           Typed(q, n, s, h, c, ib, rc), Stream(q, n, s, h, c, ib, rc), ib # <<>>
    PROVE  /\ Stream(q, n, s, h, c, Tail(ib), Append(rc, Head(ib)))
           /\ Len(rc) + 1 <= Len(s) /\ Head(ib) = s[Len(rc) + 1]
<1> USE DEF Typed
<1> DEFINE v == Tail(ib)
           w == Append(rc, Head(ib))
<1>1. /\ Len(v) = Len(ib) - 1 /\ Len(w) = Len(rc) + 1 /\ Len(ib) > 0
      /\ Len(ib) \in Nat /\ Len(rc) \in Nat
      /\ \A i \in 1..Len(v) : v[i] = ib[i + 1] /\ i + 1 \in 1..Len(ib)
      /\ \A i \in 1..Len(rc) : w[i] = rc[i]
      /\ w[Len(rc) + 1] = ib[1] /\ Head(ib) = ib[1]
  OBVIOUS
<1>2. Len(w) + Len(v) = Len(rc) + Len(ib)
  BY <1>1
<1> HIDE DEF v, w
<1>3. Delivered(s, rc, ib)
  BY DEF Stream
<1>4. ib[1] = s[Len(rc) + 1] /\ Len(rc) + 1 <= Len(s)
  BY <1>1, <1>3 DEF Delivered
<1>5. \A i \in 1..Len(w) : w[i] = s[i]
  BY SMTT(30), <1>1, <1>3, <1>4 DEF Delivered
<1>6. \A i \in 1..Len(v) : v[i] = s[Len(w) + i]
  <2> TAKE i \in 1..Len(v)
  <2>1. v[i] = ib[i + 1] /\ i + 1 \in 1..Len(ib)
    BY <1>1
  <2>2. ib[i + 1] = s[Len(rc) + (i + 1)]
    BY <2>1, <1>3 DEF Delivered
  <2>3. Len(rc) + (i + 1) = Len(w) + i
    BY <1>1
  <2> QED BY <2>1, <2>2, <2>3
<1>7. Delivered(s, w, v)
  BY <1>2, <1>3, <1>5, <1>6 DEF Delivered
<1> QED BY <1>1, <1>2, <1>4, <1>7 DEF Stream, v, w

\* What is left of a sequence without its first element.
LEMMA TailOf ==
    ASSUME NEW S, NEW s \in Seq(S), s # <<>>
    PROVE  /\ Tail(s) \in Seq(S) /\ Len(Tail(s)) = Len(s) - 1
           /\ \A i \in 1..Len(Tail(s)) : i + 1 \in 1..Len(s) /\ Tail(s)[i] = s[i + 1]
OBVIOUS

\* The first packet, not stored before, is recorded and added to the chain.
LEMMA WindowMoves ==
    ASSUME NEW x \in 0..IdMod-1, NEW h \in Seq(0..IdMod-1), Len(h) <= HistoryLen,
           \A i \in 1..Len(h) : h[i] = Back(x, Len(h) + 1 - i)
    PROVE  LET g == Recorded(h, x)
           IN  /\ g \in Seq(0..IdMod-1) /\ Len(g) <= HistoryLen /\ g # <<>> /\ Latest(g) = x
               /\ \A i \in 1..Len(g) : g[i] = Back(Succ(x), Len(g) + 1 - i)
<1> DEFINE a == Append(h, x)
           g == Recorded(h, x)
<1>1. /\ Len(a) = Len(h) + 1 /\ a[Len(a)] = x /\ a \in Seq(0..IdMod-1)
      /\ \A i \in 1..Len(h) : a[i] = h[i]
      /\ Len(h) \in Nat
  OBVIOUS
<1>2. \A i \in 1..Len(a) : Len(a) + 1 - i < IdMod => a[i] = Back(Succ(x), Len(a) + 1 - i)
  <2> TAKE i \in 1..Len(a)
  <2>1. CASE i = Len(a)
    BY <2>1, <1>1, Circle
  <2>2. CASE i # Len(a)
    <3>1. i \in 1..Len(h) /\ a[i] = Back(x, Len(h) + 1 - i)
      BY <2>2, <1>1
    <3> QED BY <3>1, <1>1, IdAssumption DEF Back, Succ
  <2> QED BY <2>1, <2>2
<1>3. CASE Len(a) > HistoryLen
  <2>1. g = Tail(a) /\ a # <<>>
    BY <1>1, <1>3 DEF Recorded
  <2>2. /\ Len(g) = Len(a) - 1 /\ g \in Seq(0..IdMod-1) /\ Len(g) = HistoryLen
        /\ \A i \in 1..Len(g) : i + 1 \in 1..Len(a) /\ g[i] = a[i + 1]
    <3> HIDE DEF g, a
    <3>1. /\ g \in Seq(0..IdMod-1) /\ Len(g) = Len(a) - 1
          /\ \A i \in 1..Len(g) : i + 1 \in 1..Len(a) /\ g[i] = a[i + 1]
      BY <1>1, <2>1, TailOf
    <3>2. Len(a) - 1 = HistoryLen
      BY <1>1, <1>3, IdAssumption
    <3> QED BY <3>1, <3>2
  <2> HIDE DEF g, a
  <2>3. g # <<>> /\ Latest(g) = x
    BY <1>1, <2>2, IdAssumption DEF Latest
  <2>4. ASSUME NEW i \in 1..Len(g)
        PROVE  g[i] = Back(Succ(x), Len(g) + 1 - i)
    <3>1. i + 1 \in 1..Len(a) /\ g[i] = a[i + 1] /\ Len(a) + 1 - (i + 1) = Len(g) + 1 - i
      BY <2>2, <1>1
    <3>2. Len(g) + 1 - i < IdMod
      BY <2>2, IdAssumption
    <3> QED BY <3>1, <3>2, <1>2
  <2> QED BY <2>2, <2>3, <2>4 DEF g
<1>4. CASE ~(Len(a) > HistoryLen)
  <2>1. g = a
    BY <1>4 DEF Recorded
  <2> HIDE DEF g
  <2>2. g # <<>> /\ Latest(g) = x /\ Len(g) <= HistoryLen
    BY <1>1, <1>4, <2>1, IdAssumption DEF Latest
  <2>3. \A i \in 1..Len(g) : g[i] = Back(Succ(x), Len(g) + 1 - i)
    <3> SUFFICES ASSUME NEW i \in 1..Len(a)
                 PROVE  a[i] = Back(Succ(x), Len(a) + 1 - i)
      BY <2>1
    <3> HIDE DEF a
    <3>1. Len(a) + 1 - i < IdMod
      BY <1>1, <1>4, IdAssumption
    <3> QED BY <3>1, <1>2
  <2> QED BY <1>1, <2>1, <2>2, <2>3 DEF g
<1> QED BY <1>3, <1>4

\* Reader stores the packet that is due: it joins the chain, or closes it.
LEMMA StreamStore ==
    ASSUME NEW q, NEW n, NEW s, NEW h, NEW c, NEW ib, NEW rc,
           Typed(q, n, s, h, c, ib, rc), Stream(q, n, s, h, c, ib, rc),
           q # <<>>, ~Stored(q, h)
    PROVE  LET g     == Recorded(h, q[1].id)
               whole == Append(c, q[1].part)
           IN  /\ Stream(q, n, s, g, IF q[1].last THEN <<>> ELSE whole,
                         IF q[1].last THEN Append(ib, whole) ELSE ib, rc)
               /\ Stored(q, g) /\ g \in Seq(0..IdMod-1) /\ Len(g) <= HistoryLen
<1> DEFINE g     == Recorded(h, q[1].id)
           whole == Append(c, q[1].part)
           k     == Len(rc) + Len(ib)
           d     == IF q[1].last THEN <<>> ELSE whole
           jb    == IF q[1].last THEN Append(ib, whole) ELSE ib
           m     == Len(rc) + Len(jb)
<1>1. /\ q \in Seq(Packets) /\ h \in Seq(0..IdMod-1) /\ Len(h) <= HistoryLen
      /\ c \in Parts /\ ib \in Seq(Parts) /\ rc \in Seq(Parts) /\ s \in Seq(Parts)
  BY DEF Typed
<1>2. /\ Len(q) \in Nat /\ Len(q) >= 1 /\ 1 \in 1..Len(q)
      /\ Len(c) \in Nat /\ Len(ib) \in Nat /\ Len(rc) \in Nat /\ Len(s) \in Nat
  BY <1>1 DEF Parts
<1>a. k \in Nat
  BY <1>2
<1>b. Len(q) # 1 => 1 \in 1..Len(q)-1
  BY <1>2, OneOfMore
<1>3. q[1].id \in 0..IdMod-1 /\ q[1].last \in BOOLEAN /\ q[1].part \in Nat \X Nat
  BY <1>1, <1>2, PacketTyped
<1>4. /\ Consecutive(q, n, s) /\ Cut(s) /\ Delivered(s, rc, ib) /\ Continues(q, s, h, c, k)
      /\ Window(q, n, h)
  BY DEF Stream
<1>5. Skip(q, h) = 0 /\ Expected(q, n, h) = q[1].id /\ q[1].part = <<k + 1, Len(c) + 1>>
      /\ \A i \in 1..Len(c) : c[i] = <<k + 1, i>>
  BY <1>2, <1>4 DEF Skip, Expected, Continues
<1>6. /\ g \in Seq(0..IdMod-1) /\ Len(g) <= HistoryLen /\ g # <<>> /\ Latest(g) = q[1].id
      /\ \A i \in 1..Len(g) : g[i] = Back(Succ(q[1].id), Len(g) + 1 - i)
  BY SMTT(30), <1>1, <1>3, <1>4, <1>5, WindowMoves DEF Window
<1> HIDE DEF g
<1>7. Stored(q, g) /\ Skip(q, g) = 1
  BY <1>6 DEF Stored, Seen, Skip
<1>8. /\ k + 1 \in 1..Len(s) /\ Len(c) + 1 \in 1..Len(s[k + 1])
      /\ q[1].last <=> Len(c) + 1 = Len(s[k + 1])
  BY <1>2, <1>4, <1>5 DEF Consecutive
<1>9. Len(whole) = Len(c) + 1 /\ \A i \in 1..Len(whole) : whole[i] = <<k + 1, i>>
  BY <1>1, <1>2, <1>3, <1>5 DEF Parts
<1>10. whole \in Parts
  BY <1>1, <1>3 DEF Parts
<1> HIDE DEF whole
<1>11. q[1].last => whole = s[k + 1]
  <2> SUFFICES ASSUME q[1].last
               PROVE  whole = s[k + 1]
    OBVIOUS
  <2>1. s[k + 1] \in Parts /\ Len(s[k + 1]) = Len(whole)
    BY <1>1, <1>8, <1>9
  <2>2. \A i \in 1..Len(whole) : whole[i] = s[k + 1][i]
    BY <1>4, <1>8, <1>9, <2>1 DEF Cut
  <2> QED BY <1>10, <2>1, <2>2, SameSeq DEF Parts
<1>12. Delivered(s, rc, jb)
  <2>1. CASE q[1].last
    <3>1. /\ Len(jb) = Len(ib) + 1 /\ jb[Len(ib) + 1] = whole
          /\ \A i \in 1..Len(ib) : jb[i] = ib[i]
      BY <1>1, <1>10, <2>1 DEF Parts
    <3> HIDE DEF jb
    <3>2. Len(rc) + Len(jb) <= Len(s) /\ jb[Len(ib) + 1] = s[Len(rc) + (Len(ib) + 1)]
      <4>1. Len(rc) + (Len(ib) + 1) = k + 1
        BY <1>2
      <4> QED BY <1>2, <1>8, <1>11, <2>1, <3>1, <4>1
    <3>3. \A i \in 1..Len(jb) : i = Len(ib) + 1 \/ i \in 1..Len(ib)
      BY <1>2, <3>1
    <3> QED BY <1>4, <3>1, <3>2, <3>3 DEF Delivered
  <2>2. CASE ~q[1].last
    BY <1>4, <2>2
  <2> QED BY <2>1, <2>2
<1>13. Continues(q, s, g, d, m)
  <2>1. CASE q[1].last
    <3>1. m = k + 1 /\ d = <<>> /\ Len(d) = 0
      BY <1>1, <1>2, <1>10, <2>1 DEF Parts
    <3>2. CASE Len(q) = 1
      <4>1. k + 1 = Len(s)
        BY <1>5, <1>4, <3>2 DEF Consecutive
      <4> HIDE DEF m, d
      <4> QED BY <1>7, <3>1, <3>2, <4>1, <1>2 DEF Continues
    <3>3. CASE Len(q) # 1
      <4>1. 1 \in 1..Len(q)-1
        BY <1>b, <3>3
      <4>2. q[2].part = <<k + 2, 1>>
        <5>1. q[1 + 1].part = Following(q[1])
          BY <4>1, <1>4 DEF Consecutive
        <5> QED BY <5>1, <1>a, <1>2, <1>5, <2>1 DEF Following
      <4> HIDE DEF m, d
      <4> QED BY <1>7, <3>1, <4>1, <4>2, <1>2 DEF Continues
    <3> QED BY <3>2, <3>3
  <2>2. CASE ~q[1].last
    <3>1. m = k /\ d = whole
      BY <2>2
    <3>2. 1 \in 1..Len(q)-1
      BY <1>2, <1>4, <2>2 DEF Consecutive
    <3>3. q[2].part = <<k + 1, Len(c) + 2>>
      <4>1. q[1 + 1].part = Following(q[1])
        BY <3>2, <1>4 DEF Consecutive
      <4> QED BY <4>1, <1>a, <1>2, <1>5, <2>2 DEF Following
    <3> HIDE DEF m, d
    <3> QED BY <1>7, <1>9, <3>1, <3>2, <3>3, <1>2 DEF Continues
  <2> QED BY <2>1, <2>2
<1>14. Expected(q, n, g) = Succ(q[1].id)
  <2>1. CASE Len(q) = 1
    BY <1>4, <1>7, <2>1 DEF Expected, Consecutive
  <2>2. CASE Len(q) # 1
    <3>1. 1 \in 1..Len(q)-1
      BY <1>b, <2>2
    <3> QED BY <1>2, <1>4, <1>7, <3>1 DEF Expected, Consecutive
  <2> QED BY <2>1, <2>2
<1>15. Window(q, n, g)
  BY <1>6, <1>14 DEF Window
<1> QED BY <1>4, <1>6, <1>7, <1>12, <1>13, <1>15 DEF Stream, whole, g

\* A message is written: its packets go behind those in the buffer.
CutOf(n, m, k) == [i \in 1..k |-> Data((n + i - 1) % IdMod, m[i], i = k)]

IsCut(n, l, k, m, u) ==
    /\ m \in Parts /\ Len(m) = k /\ \A i \in 1..k : m[i] = <<l, i>>
    /\ u \in Seq(Packets) /\ Len(u) = k /\ u[1].id = n
    /\ \A i \in 1..k : u[i].part = <<l, i>> /\ (u[i].last <=> i = k)
    /\ \A i \in 1..k-1 : u[i+1].id = Succ(u[i].id)
    /\ (n + k) % IdMod = Succ(u[k].id) /\ (n + k) % IdMod \in 0..IdMod-1

\* Writer::write cuts a message into packets whose ids follow each other.
LEMMA CutIsConsecutive ==
    ASSUME NEW n \in 0..IdMod-1, NEW l \in Nat, NEW k \in Nat \ {0}
    PROVE  IsCut(n, l, k, MessageOf(l, k), CutOf(n, MessageOf(l, k), k))
<1> DEFINE m == MessageOf(l, k)
           u == CutOf(n, m, k)
<1>1. m \in Parts /\ Len(m) = k /\ \A i \in 1..k : m[i] = <<l, i>>
  <2>1. m = [i \in 1..k |-> <<l, i>>]
    BY DEF MessageOf
  <2>2. \A i \in 1..k : <<l, i>> \in Nat \X Nat
    OBVIOUS
  <2> HIDE DEF m
  <2> QED BY <2>1, <2>2 DEF Parts
<1> HIDE DEF m
<1>2. \A i \in 1..k : n + i - 1 \in Nat /\ (n + i - 1) + 1 = n + (i + 1) - 1
  OBVIOUS
<1>3. IdMod \in Nat \ {0} /\ n % IdMod = n
  BY IdAssumption, ModOfSmall
<1>4. \A a \in Nat : a % IdMod \in 0..IdMod-1
  BY <1>3, Division
<1>5. \A i \in 1..k : u[i] = Data((n + i - 1) % IdMod, m[i], i = k)
  BY DEF CutOf
<1>6. \A i \in 1..k : /\ u[i] \in Packets /\ u[i].id = (n + i - 1) % IdMod
                      /\ u[i].part = <<l, i>> /\ (u[i].last <=> i = k)
  <2> TAKE i \in 1..k
  <2> DEFINE x == (n + i - 1) % IdMod
             z == i = k
  <2>1. x \in 0..IdMod-1 /\ z \in BOOLEAN /\ <<l, i>> \in Nat \X Nat
    BY <1>2, <1>4
  <2>2. u[i] = Data(x, <<l, i>>, z)
    BY <1>1, <1>5
  <2> HIDE DEF x, z, u
  <2>3. u[i].id = x /\ u[i].part = <<l, i>> /\ u[i].last = z /\ u[i] \in Packets
    BY <2>1, <2>2 DEF Data, Packets
  <2> QED BY <2>3 DEF x, z
<1>7. u \in Seq(Packets) /\ Len(u) = k
  <2>1. u = [i \in 1..k |-> u[i]]
    BY DEF CutOf
  <2> HIDE DEF u
  <2> QED BY <2>1, <1>6
<1>8. u[1].id = n
  <2>1. n + 1 - 1 = n /\ 1 \in 1..k
    OBVIOUS
  <2> QED BY <2>1, <1>3, <1>6
<1>9. \A i \in 1..k : (n + i) % IdMod = Succ(u[i].id)
  <2> TAKE i \in 1..k
  <2>1. (n + i - 1) + 1 = n + i /\ n + i - 1 \in Nat
    OBVIOUS
  <2>2. ((n + i - 1) + 1) % IdMod = Succ((n + i - 1) % IdMod)
    BY <1>3, <2>1, ModIsSucc
  <2> QED BY <2>1, <2>2, <1>6
<1>10. \A i \in 1..k-1 : u[i+1].id = Succ(u[i].id)
  <2> TAKE i \in 1..k-1
  <2>1. i \in 1..k /\ i + 1 \in 1..k /\ n + (i + 1) - 1 = n + i
    OBVIOUS
  <2> QED BY <2>1, <1>6, <1>9
<1>11. k \in 1..k /\ n + k \in Nat
  OBVIOUS
<1> QED BY <1>1, <1>4, <1>6, <1>7, <1>8, <1>9, <1>10, <1>11 DEF IsCut, m

\* A message that is written goes on where the buffer ends.
LEMMA StreamWrite ==
    ASSUME NEW q, NEW n, NEW s, NEW h, NEW c, NEW ib, NEW rc, NEW k \in Nat \ {0},
           Typed(q, n, s, h, c, ib, rc), Stream(q, n, s, h, c, ib, rc)
    PROVE  LET m == MessageOf(Len(s) + 1, k)
               u == CutOf(n, m, k)
               r == q \o u
           IN  /\ Stream(r, (n + k) % IdMod, Append(s, m), h, c, ib, rc)
               /\ r \in Seq(Packets) /\ (n + k) % IdMod \in 0..IdMod-1
               /\ Append(s, m) \in Seq(Parts) /\ u[1] \in Packets
               /\ r # <<>> /\ r[1] = IF q = <<>> THEN u[1] ELSE q[1]
               /\ Stored(r, h) <=> Stored(q, h)
               /\ First1(r, (n + k) % IdMod) = First1(q, n)
<1> DEFINE l == Len(s) + 1
           m == MessageOf(l, k)
           u == CutOf(n, m, k)
           r == q \o u
           o == (n + k) % IdMod
           t == Append(s, m)
<1>1. /\ q \in Seq(Packets) /\ n \in 0..IdMod-1 /\ s \in Seq(Parts) /\ h \in Seq(0..IdMod-1)
      /\ Len(q) \in Nat /\ Len(s) \in Nat
  BY DEF Typed
<1>a. l \in Nat /\ l = Len(s) + 1
  BY <1>1
<1> HIDE DEF l
<1>2. /\ Consecutive(q, n, s) /\ Cut(s) /\ Delivered(s, rc, ib)
      /\ Continues(q, s, h, c, Len(rc) + Len(ib)) /\ Window(q, n, h)
  BY DEF Stream
<1>3. /\ m \in Parts /\ Len(m) = k /\ \A i \in 1..k : m[i] = <<l, i>>
      /\ u \in Seq(Packets) /\ Len(u) = k /\ u[1].id = n
      /\ \A i \in 1..k : u[i].part = <<l, i>> /\ (u[i].last <=> i = k)
      /\ \A i \in 1..k-1 : u[i+1].id = Succ(u[i].id)
      /\ o = Succ(u[k].id) /\ o \in 0..IdMod-1
  <2>1. IsCut(n, l, k, m, u)
    BY <1>1, <1>a, CutIsConsecutive
  <2> HIDE DEF m, u
  <2> QED BY <2>1 DEF IsCut
<1> HIDE DEF m, u, o
<1>4. /\ t \in Seq(Parts) /\ Len(t) = l /\ t[l] = m /\ l \in 1..Len(t)
      /\ \A i \in 1..Len(s) : t[i] = s[i] /\ i \in 1..Len(t)
  <2>1. t \in Seq(Parts) /\ Len(t) = Len(s) + 1
    BY <1>1, <1>3
  <2>2. t[Len(s) + 1] = m /\ \A i \in 1..Len(s) : t[i] = s[i]
    BY <1>1, <1>3
  <2> HIDE DEF t
  <2>3. l \in 1..l /\ \A i \in 1..Len(s) : i \in 1..l
    BY <1>1, <1>a
  <2>4. Len(t) = l /\ t[l] = m
    BY <2>1, <2>2, <1>a
  <2>5. \A i \in 1..Len(s) : t[i] = s[i] /\ i \in 1..Len(t)
    BY <2>2, <2>3, <2>4
  <2>6. l \in 1..Len(t)
    BY <2>3, <2>4
  <2> QED BY <2>1, <2>4, <2>5, <2>6
<1>b. r \in Seq(Packets) /\ Len(r) = Len(q) + k
  <2>1. u \in Seq(Packets) /\ Len(u) = k
    BY <1>3
  <2> HIDE DEF u
  <2>2. q \o u \in Seq(Packets) /\ Len(q \o u) = Len(q) + Len(u)
    BY <2>1, <1>1, ConcatLength
  <2> QED BY <2>1, <2>2
<1>5. /\ r \in Seq(Packets) /\ Len(r) = Len(q) + k
      /\ \A i \in 1..Len(q) : r[i] = q[i]
      /\ \A i \in 1..k : r[Len(q) + i] = u[i]
  <2>1. ASSUME NEW i \in 1..Len(q)
        PROVE  r[i] = q[i]
    <3>1. i \in 1..Len(q \o u) /\ i <= Len(q)
      BY <1>1, <1>b
    <3> QED BY <3>1, <1>1, <1>3, Concat
  <2>2. ASSUME NEW i \in 1..k
        PROVE  r[Len(q) + i] = u[i]
    <3>1. Len(q) + i \in 1..Len(q \o u) /\ Len(q) + i > Len(q) /\ (Len(q) + i) - Len(q) = i
      BY <1>1, <1>b
    <3> QED BY <3>1, <1>1, <1>3, Concat
  <2> QED BY <1>b, <2>1, <2>2
<1>6. r # <<>> /\ r[1] = IF q = <<>> THEN u[1] ELSE q[1]
  BY <1>1, <1>3, <1>5
<1>7. 1 \in 1..k /\ k \in 1..k
  OBVIOUS
<1> HIDE DEF r, t
<1>8. u[1] \in Packets
  BY <1>3, <1>7
<1>9. \A i \in 1..Len(r) : i \in 1..Len(q) \/ \E j \in 1..k : i = Len(q) + j
  <2> SUFFICES ASSUME NEW i \in 1..Len(r), i \notin 1..Len(q)
               PROVE  \E j \in 1..k : i = Len(q) + j
    OBVIOUS
  <2>1. i - Len(q) \in 1..k /\ i = Len(q) + (i - Len(q))
    BY <1>1, <1>5
  <2> QED BY <2>1
<1>10. Consecutive(r, o, t)
  <2>1. ASSUME NEW i \in 1..Len(r)
        PROVE  /\ r[i].part[1] \in 1..Len(t) /\ r[i].part[2] \in 1..Len(t[r[i].part[1]])
               /\ r[i].last <=> r[i].part[2] = Len(t[r[i].part[1]])
    <3>1. CASE i \in 1..Len(q)
      <4>1. /\ r[i] = q[i] /\ q[i].part[1] \in 1..Len(s)
            /\ q[i].part[2] \in 1..Len(s[q[i].part[1]])
            /\ q[i].last <=> q[i].part[2] = Len(s[q[i].part[1]])
        BY <3>1, <1>2, <1>5 DEF Consecutive
      <4> QED BY <4>1, <1>4
    <3>2. ASSUME NEW j \in 1..k, i = Len(q) + j
          PROVE  r[i].part[1] = l /\ r[i].part[2] = j /\ (r[i].last <=> j = k) /\ Len(t[l]) = k
      BY SMTT(30), <3>2, <1>3, <1>4, <1>5
    <3>3. CASE i \notin 1..Len(q)
      <4>1. PICK j \in 1..k : i = Len(q) + j
        BY <3>3, <1>9
      <4>2. r[i].part[1] = l /\ r[i].part[2] = j /\ (r[i].last <=> j = k) /\ Len(t[l]) = k
        BY <4>1, <3>2
      <4> QED BY <4>2, <1>4
    <3> QED BY <3>1, <3>3
  <2>2. ASSUME NEW i \in 1..Len(r)-1
        PROVE  r[i+1].id = Succ(r[i].id) /\ r[i+1].part = Following(r[i])
    <3>1. CASE i \in 1..Len(q)-1
      <4>1. i \in 1..Len(q) /\ i + 1 \in 1..Len(q)
        BY <3>1, <1>1
      <4> QED BY <3>1, <4>1, <1>2, <1>5 DEF Consecutive
    <3>2. CASE i = Len(q)
      <4>1. r[i] = q[Len(q)] /\ r[i + 1] = u[1] /\ q # <<>>
        BY <3>2, <1>1, <1>5, <1>7
      <4>2. q[Len(q)].last /\ q[Len(q)].part[1] = Len(s) /\ n = Succ(q[Len(q)].id)
        BY <4>1, <1>2 DEF Consecutive
      <4> QED BY <4>1, <4>2, <1>a, <1>3, <1>7 DEF Following
    <3>3. CASE i > Len(q)
      <4> DEFINE j == i - Len(q)
      <4>1. j \in 1..k-1 /\ j \in 1..k /\ j + 1 \in 1..k /\ i = Len(q) + j /\ i + 1 = Len(q) + (j + 1)
        BY <3>3, <1>1, <1>5
      <4> HIDE DEF j
      <4>2. r[i] = u[j] /\ r[i + 1] = u[j + 1]
        BY <4>1, <1>5
      <4>3. ~u[j].last /\ u[j].part = <<l, j>> /\ u[j + 1].part = <<l, j + 1>>
        BY <4>1, <1>3
      <4> QED BY <4>1, <4>2, <4>3, <1>3 DEF Following
    <3> QED BY <3>1, <3>2, <3>3, <1>1, <1>5
  <2>3. o = Succ(r[Len(r)].id) /\ r[Len(r)].last /\ r[Len(r)].part[1] = Len(t)
    <3>1. r[Len(r)] = u[k]
      BY <1>5, <1>7
    <3> QED BY <3>1, <1>3, <1>4, <1>7
  <2> QED BY <2>1, <2>2, <2>3 DEF Consecutive
<1>11. Cut(t)
  <2> SUFFICES ASSUME NEW i \in 1..Len(t)
               PROVE  Len(t[i]) > 0 /\ \A j \in 1..Len(t[i]) : t[i][j] = <<i, j>>
    BY DEF Cut
  <2>1. CASE i = l
    BY <2>1, <1>3, <1>4
  <2>2. CASE i # l
    <3>1. i \in 1..Len(s)
      BY <2>2, <1>1, <1>a, <1>4
    <3> QED BY <3>1, <1>2, <1>4 DEF Cut
  <2> QED BY <2>1, <2>2
<1>12. Delivered(t, rc, ib)
  <2>1. Len(rc) \in Nat /\ Len(ib) \in Nat
    BY DEF Typed
  <2>2. \A i \in 1..Len(rc) : i \in 1..Len(s)
    BY <2>1, <1>1, <1>2 DEF Delivered
  <2>3. \A i \in 1..Len(ib) : Len(rc) + i \in 1..Len(s)
    BY <2>1, <1>1, <1>2 DEF Delivered
  <2> QED BY <2>1, <2>2, <2>3, <1>1, <1>2, <1>4 DEF Delivered
<1>13. Stored(r, h) <=> Stored(q, h)
  <2>1. CASE q # <<>>
    BY <2>1, <1>6 DEF Stored, Seen
  <2>2. CASE q = <<>>
    <3>1. ~Stored(q, h)
      BY <2>2 DEF Stored
    <3>2. h # <<>> => Latest(h) = Back(n, 1)
      BY <2>2, <3>1, <1>1, <1>2, LatestIsBack DEF First1
    <3>3. Back(n, 1) # n
      BY <1>1, Circle
    <3> QED BY <2>2, <3>1, <3>2, <3>3, <1>3, <1>6 DEF Stored, Seen
  <2> QED BY <2>1, <2>2
<1>14. Skip(r, h) = Skip(q, h) /\ Skip(q, h) \in {0, 1} /\ Skip(q, h) <= Len(q)
  BY <1>1, <1>13 DEF Skip, Stored
<1>15. First1(r, o) = First1(q, n)
  BY <1>3, <1>6 DEF First1
<1>16. /\ Skip(r, h) < Len(r)
       /\ r[Skip(r, h) + 1] = IF Skip(q, h) < Len(q) THEN q[Skip(q, h) + 1] ELSE u[1]
  <2>1. CASE Skip(q, h) < Len(q)
    <3>1. Skip(q, h) + 1 \in 1..Len(q) /\ Len(q) < Len(r)
      BY <2>1, <1>1, <1>5, <1>14
    <3> QED BY <2>1, <3>1, <1>1, <1>5, <1>14
  <2>2. CASE ~(Skip(q, h) < Len(q))
    BY <2>2, <1>1, <1>5, <1>7, <1>14
  <2> QED BY <2>1, <2>2
<1>17. Expected(r, o, h) = Expected(q, n, h)
  BY <1>3, <1>16 DEF Expected
<1>18. Window(r, o, h)
  BY <1>2, <1>17 DEF Window
<1>19. Continues(r, t, h, c, Len(rc) + Len(ib))
  <2>1. CASE Skip(q, h) < Len(q)
    BY <2>1, <1>2, <1>16 DEF Continues
  <2>2. CASE ~(Skip(q, h) < Len(q))
    <3>1. c = <<>> /\ Len(rc) + Len(ib) = Len(s)
      BY <2>2, <1>2 DEF Continues
    <3>2. u[1].part = <<l, 1>> /\ Len(c) + 1 = 1
      BY <3>1, <1>3, <1>7
    <3> QED BY <2>2, <3>1, <3>2, <1>a, <1>16, <1>2 DEF Continues
  <2> QED BY <2>1, <2>2
<1>20. Stream(r, o, t, h, c, ib, rc)
  BY <1>10, <1>11, <1>12, <1>18, <1>19 DEF Stream
<1> QED BY <1>3, <1>4, <1>5, <1>6, <1>8, <1>13, <1>15, <1>20 DEF r, t, m, u, o, l

-----------------------------------------------------------------------------
(***************************************************************************)
(* The same for the stream together with its two wires.                    *)
(***************************************************************************)
LEMMA WayPuts ==
    ASSUME NEW q, NEW n, NEW s, NEW h, NEW c, NEW ib, NEW rc, NEW a,
           NEW wd \in Seq(OnWire), NEW wa \in Seq(OnWire), NEW out \in Seq(OnWire),
           Typed(q, n, s, h, c, ib, rc), Way(q, n, s, h, c, ib, rc, a, wd, wa)
    PROVE  /\ (\A i \in 1..Len(out) : out[i].type = "DATA" => q # <<>> /\ Same(out[i], q[1]))
                => Way(q, n, s, h, c, ib, rc, a, wd \o out, wa)
           /\ (\A i \in 1..Len(out) : out[i].type = "AP_OK" => Seen(h, out[i]))
                => Way(q, n, s, h, c, ib, rc, a, wd, wa \o out)
<1>1. q \in Seq(Packets) /\ n \in 0..IdMod-1 /\ h \in Seq(0..IdMod-1)
  BY DEF Typed
<1>2. DataLine(q, h, wd) /\ AckLine(q, n, h, wa) /\ Window(q, n, h)
  BY DEF Way, Stream
<1>3. ASSUME \A i \in 1..Len(out) : out[i].type = "DATA" => q # <<>> /\ Same(out[i], q[1])
      PROVE  DataLine(q, h, wd \o out)
  BY <1>2, <1>3, DataLinePuts
<1>4. ASSUME \A i \in 1..Len(out) : out[i].type = "AP_OK" => Seen(h, out[i])
      PROVE  AckLine(q, n, h, wa \o out)
  <2>1. First1(q, n) \in 0..IdMod-1
    BY <1>1, FirstIdTyped
  <2>2. ~Stored(q, h) => (h # <<>> => Latest(h) = Back(First1(q, n), 1))
    BY <1>1, <1>2, LatestIsBack
  <2> QED BY <1>2, <1>4, <2>1, <2>2, AckLinePuts
<1> QED BY <1>3, <1>4 DEF Way

\* A direction stays in order when the first packet is taken off a line,
LEMMA WayTail ==
    ASSUME NEW q, NEW n, NEW s, NEW h, NEW c, NEW ib, NEW rc, NEW a,
           NEW wd \in Seq(OnWire), NEW wa \in Seq(OnWire),
           Way(q, n, s, h, c, ib, rc, a, wd, wa)
    PROVE  /\ wd # <<>> => Way(q, n, s, h, c, ib, rc, a, Tail(wd), wa)
           /\ wa # <<>> => Way(q, n, s, h, c, ib, rc, a, wd, Tail(wa))
  BY LinesTail DEF Way

\* or damaged,
LEMMA WayDamaged ==
    ASSUME NEW q, NEW n, NEW s, NEW h, NEW c, NEW ib, NEW rc, NEW a, NEW d,
           NEW wd \in Seq(OnWire), NEW wa \in Seq(OnWire),
           Way(q, n, s, h, c, ib, rc, a, wd, wa)
    PROVE  /\ wd # <<>> => Way(q, n, s, h, c, ib, rc, a, [wd EXCEPT ![1].state = d], wa)
           /\ wa # <<>> => Way(q, n, s, h, c, ib, rc, a, wd, [wa EXCEPT ![1].state = d])
  BY LinesDamaged DEF Way

\* or its last one is torn, or a pattern comes before it.
LEMMA WayTorn ==
    ASSUME NEW q, NEW n, NEW s, NEW h, NEW c, NEW ib, NEW rc, NEW a,
           NEW wd \in Seq(OnWire), NEW wa \in Seq(OnWire),
           Way(q, n, s, h, c, ib, rc, a, wd, wa)
    PROVE  /\ Way(q, n, s, h, c, ib, rc, a, Torn(wd), wa)
           /\ Way(q, n, s, h, c, ib, rc, a, wd, Torn(wa))
  BY TornKeeps, SameLines DEF Way

LEMMA WayBehind ==
    ASSUME NEW q, NEW n, NEW s, NEW h, NEW c, NEW ib, NEW rc, NEW a,
           NEW wd \in Seq(OnWire), NEW wa \in Seq(OnWire), NEW r \in Seq(OnWire),
           \A i \in 1..Len(r) : r[i].type = "RESET",
           Way(q, n, s, h, c, ib, rc, a, wd, wa)
    PROVE  /\ Way(q, n, s, h, c, ib, rc, a, r \o wd, wa)
           /\ Way(q, n, s, h, c, ib, rc, a, wd, r \o wa)
  BY LinesBehind DEF Way

\* An answer to the first packet arrives.
LEMMA WayPop ==
    ASSUME NEW q, NEW n, NEW s, NEW h, NEW c, NEW ib, NEW rc, NEW a,
           NEW wd \in Seq(OnWire), NEW wa \in Seq(OnWire),
           Typed(q, n, s, h, c, ib, rc), Way(q, n, s, h, c, ib, rc, a, wd, wa),
           wa # <<>>, wa[1].type = "AP_OK", q # <<>>, wa[1].id = q[1].id
    PROVE  Way(Tail(q), n, s, h, c, ib, rc, a, wd, Tail(wa))
<1> DEFINE x == q[1].id
           r == Tail(q)
           v == Tail(wa)
<1>1. q \in Seq(Packets) /\ n \in 0..IdMod-1 /\ x \in 0..IdMod-1 /\ First1(q, n) = x
  BY FirstIdTyped DEF Typed, First1
<1>2. /\ Stream(q, n, s, h, c, ib, rc) /\ DataLine(q, h, wd) /\ AckLine(q, n, h, wa)
      /\ a.type = "AP_OK" => Seen(h, a)
  BY DEF Way
<1>3. 1 \in 1..Len(wa) /\ \A i \in 1..Len(v) : i + 1 \in 1..Len(wa) /\ v[i] = wa[i + 1] /\ 1 < i + 1
  OBVIOUS
<1>4. Stored(q, h)
  BY <1>1, <1>2, <1>3, Circle DEF AckLine
<1>5. Stream(r, n, s, h, c, ib, rc) /\ ~Stored(r, h) /\ First1(r, n) = Succ(x)
  BY <1>2, <1>4, StreamPop
<1> HIDE DEF r, v
<1>6. DataLine(r, h, wd)
  BY <1>2, <1>4 DEF DataLine
<1>7. AckLine(r, n, h, v)
  <2>1. \A i \in 1..Len(v) : v[i].type = "AP_OK" => v[i].id = x
    BY <1>1, <1>2, <1>3 DEF AckLine
  <2>2. Back(Succ(x), 1) = x /\ Succ(x) # x
    BY <1>1, Circle
  <2> HIDE DEF x
  <2> QED BY <1>5, <2>1, <2>2 DEF AckLine
<1> QED BY <1>2, <1>5, <1>6, <1>7 DEF Way, r, v

\* A data packet arrives that is not in the history: it is the one due.
LEMMA WayStore ==
    ASSUME NEW q, NEW n, NEW s, NEW h, NEW c, NEW ib, NEW rc, NEW a, NEW b,
           NEW wd \in Seq(OnWire), NEW wa \in Seq(OnWire),
           Typed(q, n, s, h, c, ib, rc), Way(q, n, s, h, c, ib, rc, a, wd, wa),
           wd # <<>>, wd[1].type = "DATA", IsNew(h, wd[1].id), b.id = wd[1].id
    PROVE  LET g     == Recorded(h, wd[1].id)
               whole == Append(c, wd[1].part)
           IN  /\ Way(q, n, s, g, IF wd[1].last THEN <<>> ELSE whole,
                      IF wd[1].last THEN Append(ib, whole) ELSE ib, rc, b, Tail(wd), wa)
               /\ g \in Seq(0..IdMod-1) /\ Len(g) <= HistoryLen /\ Seen(g, b)
<1> DEFINE p     == wd[1]
           g     == Recorded(h, p.id)
           whole == Append(c, p.part)
           d     == IF p.last THEN <<>> ELSE whole
           jb    == IF p.last THEN Append(ib, whole) ELSE ib
           v     == Tail(wd)
<1>1. q \in Seq(Packets) /\ n \in 0..IdMod-1 /\ h \in Seq(0..IdMod-1)
  BY DEF Typed
<1>2. Stream(q, n, s, h, c, ib, rc) /\ DataLine(q, h, wd) /\ AckLine(q, n, h, wa)
  BY DEF Way
<1>3. 1 \in 1..Len(wd) /\ \A i \in 1..Len(v) : i + 1 \in 1..Len(wd) /\ v[i] = wd[i + 1] /\ 1 < i + 1
  OBVIOUS
<1>4. ~Seen(h, p)
  <2>1. h # <<>> => Len(h) \in 1..Len(h)
    BY <1>1
  <2> QED BY <2>1 DEF IsNew, Contains, Seen, Latest
<1>5. q # <<>> /\ ~Stored(q, h) /\ Same(p, q[1])
  BY <1>2, <1>3, <1>4 DEF DataLine
<1>6. p.id = q[1].id /\ p.part = q[1].part /\ p.last = q[1].last
  BY <1>5 DEF Same
<1>7. /\ Stream(q, n, s, g, d, jb, rc) /\ Stored(q, g)
      /\ g \in Seq(0..IdMod-1) /\ Len(g) <= HistoryLen
  BY <1>2, <1>5, <1>6, StreamStore
<1> HIDE DEF g, d, jb, v
<1>8. g # <<>> /\ Latest(g) = p.id
  BY <1>7, <1>6 DEF Stored, Seen
<1>9. DataLine(q, g, v)
  <2>1. \A i \in 1..Len(v) : v[i].type = "DATA" => ~Seen(h, v[i])
    BY <1>2, <1>3, <1>4 DEF DataLine
  <2>2. \A i \in 1..Len(v) : v[i].type = "DATA" => Same(v[i], q[1])
    BY <2>1, <1>2, <1>3 DEF DataLine
  <2>3. \A i \in 1..Len(v) : v[i].type = "DATA" => Seen(g, v[i])
    BY <2>2, <1>6, <1>8 DEF Same, Seen
  <2> QED BY <2>3 DEF DataLine
<1>10. AckLine(q, n, g, wa)
  <2>1. First1(q, n) \in 0..IdMod-1
    BY <1>1, FirstIdTyped
  <2>2. Back(First1(q, n), 1) # First1(q, n)
    BY <2>1, Circle
  <2>3. \A i \in 1..Len(wa) : wa[i].type = "AP_OK" => wa[i].id = Back(First1(q, n), 1)
    BY <1>2, <1>5 DEF AckLine
  <2> QED BY <2>2, <2>3 DEF AckLine
<1>11. Seen(g, b)
  BY <1>8 DEF Seen
<1>12. Way(q, n, s, g, d, jb, rc, b, v, wa)
  BY <1>7, <1>9, <1>10, <1>11 DEF Way
<1> QED BY <1>7, <1>11, <1>12 DEF g, d, jb, v

\* A data packet arrives that is in the history: it is the one stored last.
LEMMA WaySeen ==
    ASSUME NEW q, NEW n, NEW s, NEW h, NEW c, NEW ib, NEW rc, NEW a,
           NEW wd \in Seq(OnWire), NEW wa \in Seq(OnWire),
           Typed(q, n, s, h, c, ib, rc), Way(q, n, s, h, c, ib, rc, a, wd, wa),
           wd # <<>>, wd[1].type = "DATA", ~IsNew(h, wd[1].id)
    PROVE  Seen(h, wd[1])
<1>1. 1 \in 1..Len(wd)
  OBVIOUS
<1>2. Stream(q, n, s, h, c, ib, rc) /\ DataLine(q, h, wd)
  BY DEF Way
<1>3. Seen(h, wd[1]) \/ (q # <<>> /\ ~Stored(q, h) /\ Same(wd[1], q[1]))
  BY <1>1, <1>2 DEF DataLine
<1>4. CASE q # <<>> /\ ~Stored(q, h) /\ Same(wd[1], q[1])
  BY <1>2, <1>4, DueIsNew DEF Same
<1> QED BY <1>3, <1>4

\* when a message is written,
LEMMA WayWrite ==
    ASSUME NEW q, NEW n, NEW s, NEW h, NEW c, NEW ib, NEW rc, NEW a, NEW k \in Nat \ {0},
           NEW wd \in Seq(OnWire), NEW wa \in Seq(OnWire),
           Typed(q, n, s, h, c, ib, rc), Way(q, n, s, h, c, ib, rc, a, wd, wa)
    PROVE  LET m == MessageOf(Len(s) + 1, k)
               u == CutOf(n, m, k)
               r == q \o u
           IN  /\ Way(r, (n + k) % IdMod, Append(s, m), h, c, ib, rc, a, wd, wa)
               /\ q = <<>> => Way(r, (n + k) % IdMod, Append(s, m), h, c, ib, rc, a,
                                  Append(wd, u[1]), wa)
               /\ r \in Seq(Packets) /\ (n + k) % IdMod \in 0..IdMod-1
               /\ Append(s, m) \in Seq(Parts) /\ u[1] \in Packets
<1> DEFINE m == MessageOf(Len(s) + 1, k)
           u == CutOf(n, m, k)
           r == q \o u
           o == (n + k) % IdMod
           t == Append(s, m)
<1>1. /\ Stream(q, n, s, h, c, ib, rc) /\ DataLine(q, h, wd) /\ AckLine(q, n, h, wa)
      /\ a.type = "AP_OK" => Seen(h, a)
  BY DEF Way
<1>2. /\ Stream(r, o, t, h, c, ib, rc)
      /\ r \in Seq(Packets) /\ o \in 0..IdMod-1
      /\ t \in Seq(Parts) /\ u[1] \in Packets
      /\ r # <<>> /\ r[1] = IF q = <<>> THEN u[1] ELSE q[1]
      /\ Stored(r, h) <=> Stored(q, h)
      /\ First1(r, o) = First1(q, n)
  BY <1>1, StreamWrite
<1> HIDE DEF m, u, r, o, t
<1>3. DataLine(r, h, wd)
  <2>1. CASE q = <<>>
    BY <2>1, <1>1 DEF DataLine
  <2>2. CASE q # <<>>
    BY <2>2, <1>1, <1>2 DEF DataLine
  <2> QED BY <2>1, <2>2
<1>4. AckLine(r, o, h, wa)
  BY <1>1, <1>2 DEF AckLine
<1>5. Way(r, o, t, h, c, ib, rc, a, wd, wa)
  BY <1>1, <1>2, <1>3, <1>4 DEF Way
<1>6. q = <<>> => Way(r, o, t, h, c, ib, rc, a, Append(wd, u[1]), wa)
  <2> SUFFICES ASSUME q = <<>>
               PROVE  Way(r, o, t, h, c, ib, rc, a, Append(wd, u[1]), wa)
    OBVIOUS
  <2>1. Typed(r, o, t, h, c, ib, rc)
    BY <1>2 DEF Typed
  <2>2. u[1] \in OnWire
    BY <1>2 DEF Packets, OnWire
  <2>3. <<u[1]>> \in Seq(OnWire) /\ Append(wd, u[1]) = wd \o <<u[1]>>
    BY <2>2
  <2>4. \A i \in 1..Len(<<u[1]>>) : r # <<>> /\ Same(<<u[1]>>[i], r[1])
    BY <1>2 DEF Same
  <2> QED BY <1>5, <2>1, <2>3, <2>4, WayPuts
<1> QED BY <1>2, <1>5, <1>6 DEF m, u, r, o, t

\* and when one is read.
LEMMA WayRead ==
    ASSUME NEW q, NEW n, NEW s, NEW h, NEW c, NEW ib, NEW rc, NEW a, NEW wd, NEW wa,
           Typed(q, n, s, h, c, ib, rc), Way(q, n, s, h, c, ib, rc, a, wd, wa), ib # <<>>
    PROVE  Way(q, n, s, h, c, Tail(ib), Append(rc, Head(ib)), a, wd, wa)
  BY StreamRead DEF Way

-----------------------------------------------------------------------------
(***************************************************************************)
(* Each call keeps the invariant.                                          *)
(***************************************************************************)
LEMMA Ends ==
    ASSUME NEW e \in End
    PROVE  /\ Peer(e) \in End /\ Peer(e) # e /\ Peer(Peer(e)) = e
           /\ \A d \in End : d = e \/ d = Peer(e)
  BY DEF End, Peer

\* The types of the variables, as one direction uses them.
LEMMA DirectionTyped ==
    ASSUME Types, NEW e \in End
    PROVE  LET f == Peer(e)
           IN  Typed(queue[e], nextId[e], sent[e], history[f], chain[f], inbox[f], received[f])
<1>1. Peer(e) \in End
  BY Ends
<1>2. /\ queue[e] \in Seq(Packets) /\ nextId[e] \in 0..IdMod-1 /\ sent[e] \in Seq(Parts)
      /\ history[Peer(e)] \in Seq(0..IdMod-1) /\ Len(history[Peer(e)]) <= HistoryLen
      /\ chain[Peer(e)] \in Parts /\ inbox[Peer(e)] \in Seq(Parts) /\ received[Peer(e)] \in Seq(Parts)
  BY <1>1 DEF Types, TypeOK, Parts
<1> QED BY <1>2 DEF Typed

\* In the beginning nothing is on the way.
LEMMA InitInv == Init => Inv
<1> SUFFICES ASSUME Init
             PROVE  Inv
  OBVIOUS
<1> USE DEF Init
<1>1. 0 \in 0..IdMod-1 /\ 0 \in 0..MaxLate /\ 0 \in 0..MaxDamage /\ 0 <= HistoryLen
  BY IdAssumption, BoundsAssumption
<1>2. None \in Answers
  BY <1>1 DEF None, Answer, Answers
<1>3. TypeOK
  <2>1. /\ queue \in [End -> Seq(Packets)] /\ nextId \in [End -> 0..IdMod-1]
        /\ late \in [End -> 0..MaxLate] /\ history \in [End -> Seq(0..IdMod-1)]
        /\ \A e \in End : Len(history[e]) <= HistoryLen
    BY <1>1
  <2>2. /\ armed \in [End -> BOOLEAN] /\ resetting \in [End -> BOOLEAN]
        /\ sending \in [End -> BOOLEAN] /\ damaged \in 0..MaxDamage /\ torn \in BOOLEAN
    BY <1>1
  <2> QED BY <2>1, <2>2 DEF TypeOK
<1>4. Types
  BY <1>2, <1>3 DEF Types
<1>5. ASSUME NEW e \in End
      PROVE  Direction(e)
  <2> DEFINE f == Peer(e)
  <2>1. f \in End
    BY Ends
  <2>2. /\ queue[e] = <<>> /\ sent[e] = <<>> /\ history[f] = <<>> /\ chain[f] = <<>> /\ inbox[f] = <<>>
        /\ received[f] = <<>> /\ wire[e] = <<>> /\ wire[f] = <<>> /\ lastAck[f] = None /\ nextId[e] = 0
    BY <2>1
  <2>3. Stream(<<>>, 0, <<>>, <<>>, <<>>, <<>>, <<>>)
    BY DEF Stream, Consecutive, Cut, Delivered, Continues, Window, Skip, Stored
  <2>4. None.type # "AP_OK"
    BY DEF None, Answer
  <2>5. DataLine(<<>>, <<>>, <<>>) /\ AckLine(<<>>, 0, <<>>, <<>>)
    BY DEF DataLine, AckLine
  <2> QED BY <2>2, <2>3, <2>4, <2>5 DEF Direction, Way
<1> QED BY <1>4, <1>5 DEF Inv

\* What another thread than the reader puts out goes behind the wire or into the
\* pattern at its end.
LEMMA MeanwhileMoves ==
    ASSUME Types, NEW e \in End, NEW out \in Seq(OnWire), Meanwhile(e, out)
    PROVE  /\ wire' \in [End -> Seq(OnWire)] /\ wire'[e] = wire[e]
           /\ wire'[Peer(e)] = wire[Peer(e)] \o out \/ wire'[Peer(e)] = Torn(wire[Peer(e)])
           /\ wire[e] \in Seq(OnWire) /\ wire[Peer(e)] \in Seq(OnWire)
           /\ damaged' \in 0..MaxDamage /\ torn' \in BOOLEAN
<1> DEFINE f == Peer(e)
           w == IF Tears(e, out) THEN Torn(wire[f]) ELSE wire[f] \o out
<1>1. f \in End /\ f # e /\ wire \in [End -> Seq(OnWire)] /\ wire[f] \in Seq(OnWire)
  BY Ends DEF Types
<1>2. w \in Seq(OnWire)
  BY <1>1, TornKeeps, ConcatLength
<1>3. wire' = [wire EXCEPT ![f] = w]
  BY <1>1 DEF Meanwhile
<1>4. damaged' \in 0..MaxDamage /\ torn' \in BOOLEAN
  BY BoundsAssumption DEF Meanwhile, Types, TypeOK, Tears
<1>5. w = wire[f] \o out \/ w = Torn(wire[f])
  OBVIOUS
<1> HIDE DEF w
<1> QED BY <1>1, <1>2, <1>3, <1>4, <1>5

\* Client::write keeps both directions in order.
LEMMA WriteInv ==
    ASSUME Inv, NEW e \in End, Write(e)
    PROVE  Inv'
<1> DEFINE f == Peer(e)
<1>1. f \in End /\ f # e /\ Peer(f) = e /\ \A d \in End : d = e \/ d = f
  BY Ends
<1>2. PICK k \in 1..MaxPackets :
         LET m    == MessageOf(Len(sent[e]) + 1, k)
             cut  == [i \in 1..k |-> Data((nextId[e] + i - 1) % IdMod, m[i], i = k)]
         IN  /\ queue' = [queue EXCEPT ![e] = @ \o cut]
             /\ nextId' = [nextId EXCEPT ![e] = (@ + k) % IdMod]
             /\ sent' = [sent EXCEPT ![e] = Append(@, m)]
             /\ armed' = [armed EXCEPT ![e] = @ \/ queue[e] = <<>>]
             /\ Meanwhile(e, IF queue[e] = <<>> THEN <<cut[1]>> ELSE <<>>)
  BY DEF Write
<1>3. UNCHANGED <<late, history, chain, lastAck, inbox, resetting, sending, received>>
  BY DEF Write, reader
<1>4. k \in Nat \ {0}
  BY BoundsAssumption
<1> DEFINE m   == MessageOf(Len(sent[e]) + 1, k)
           u   == CutOf(nextId[e], m, k)
           out == IF queue[e] = <<>> THEN <<u[1]>> ELSE <<>>
<1>5. /\ queue' = [queue EXCEPT ![e] = @ \o u]
      /\ nextId' = [nextId EXCEPT ![e] = (@ + k) % IdMod]
      /\ sent' = [sent EXCEPT ![e] = Append(@, m)]
      /\ armed' = [armed EXCEPT ![e] = @ \/ queue[e] = <<>>]
      /\ Meanwhile(e, out)
  BY <1>2 DEF CutOf
<1>6. Types /\ Direction(e) /\ Direction(f)
  BY <1>1 DEF Inv
<1>7. wire[e] \in Seq(OnWire) /\ wire[f] \in Seq(OnWire)
  BY <1>1, <1>6 DEF Types
<1> HIDE DEF m, u
<1> DEFINE To(w) == Way(queue[e] \o u, (nextId[e] + k) % IdMod, Append(sent[e], m), history[f],
                        chain[f], inbox[f], received[f], lastAck[f], w, wire[e])
           From(w) == Way(queue[f], nextId[f], sent[f], history[e], chain[e], inbox[e],
                          received[e], lastAck[e], wire[e], w)
<1>8. /\ To(wire[f]) /\ (queue[e] = <<>> => To(Append(wire[f], u[1])))
      /\ queue[e] \o u \in Seq(Packets) /\ (nextId[e] + k) % IdMod \in 0..IdMod-1
      /\ Append(sent[e], m) \in Seq(Parts) /\ u[1] \in Packets
  BY <1>4, <1>6, <1>7, DirectionTyped, WayWrite DEF Direction, m, u
<1>9. u[1] \in OnWire /\ u[1].type # "AP_OK"
  BY <1>8 DEF Packets, OnWire
<1>a. /\ out \in Seq(OnWire) /\ \A i \in 1..Len(out) : out[i].type # "AP_OK"
      /\ wire[f] \o out = IF queue[e] = <<>> THEN Append(wire[f], u[1]) ELSE wire[f]
  <2>1. CASE queue[e] = <<>>
    BY <1>7, <1>9, <2>1
  <2>2. CASE queue[e] # <<>>
    BY <1>7, <2>2
  <2> QED BY <2>1, <2>2
<1> HIDE DEF out
<1>b. /\ wire' \in [End -> Seq(OnWire)] /\ wire'[e] = wire[e]
      /\ wire'[f] = wire[f] \o out \/ wire'[f] = Torn(wire[f])
      /\ damaged' \in 0..MaxDamage /\ torn' \in BOOLEAN
  BY <1>5, <1>6, <1>a, MeanwhileMoves
<1>10. queue' \in [End -> Seq(Packets)] /\ nextId' \in [End -> 0..IdMod-1]
  BY <1>5, <1>6, <1>8 DEF Types, TypeOK
<1>11. sent' \in [End -> Seq(Parts)]
  BY <1>5, <1>6, <1>8 DEF Types, Parts
<1>13. armed' \in [End -> BOOLEAN]
  <2>1. armed \in [End -> BOOLEAN]
    BY <1>6 DEF Types, TypeOK
  <2>2. (armed[e] \/ queue[e] = <<>>) \in BOOLEAN
    OBVIOUS
  <2> QED BY <1>5, <2>1, <2>2, Zenon
<1>14. Types'
  BY <1>3, <1>6, <1>10, <1>11, <1>13, <1>b DEF Types, TypeOK, Parts
<1>15. /\ queue'[e] = queue[e] \o u /\ nextId'[e] = (nextId[e] + k) % IdMod
       /\ sent'[e] = Append(sent[e], m)
       /\ queue'[f] = queue[f] /\ nextId'[f] = nextId[f] /\ sent'[f] = sent[f]
  BY <1>1, <1>5, <1>6 DEF Types, TypeOK
<1>16. To(wire'[f])
  <2>1. To(wire[f] \o out)
    BY <1>8, <1>a
  <2>2. To(Torn(wire[f]))
    BY <1>7, <1>8, WayTorn
  <2> HIDE DEF To
  <2> QED BY <1>b, <2>1, <2>2
<1>17. From(wire'[f])
  <2>0. From(wire[f])
    BY <1>1, <1>6 DEF Direction
  <2>1. From(wire[f] \o out)
    BY <1>1, <1>6, <1>7, <1>a, <2>0, DirectionTyped, WayPuts
  <2>2. From(Torn(wire[f]))
    BY <1>7, <2>0, WayTorn
  <2> HIDE DEF From
  <2> QED BY <1>b, <2>1, <2>2
<1>18. Direction(e)'
  BY <1>3, <1>15, <1>16, <1>b DEF Direction
<1>19. Direction(f)'
  BY <1>1, <1>3, <1>15, <1>17, <1>b DEF Direction
<1> QED BY <1>1, <1>14, <1>18, <1>19 DEF Inv

\* So does Client::read,
LEMMA ReadInv ==
    ASSUME Inv, NEW e \in End, Read(e)
    PROVE  Inv'
<1> DEFINE f == Peer(e)
<1>1. f \in End /\ f # e /\ Peer(f) = e /\ \A d \in End : d = e \/ d = f
  BY Ends
<1>2. /\ inbox[e] # <<>>
      /\ received' = [received EXCEPT ![e] = Append(@, Head(inbox[e]))]
      /\ inbox' = [inbox EXCEPT ![e] = Tail(@)]
      /\ UNCHANGED <<queue, nextId, armed, late, history, chain, lastAck, resetting, sending, wire, damaged, torn, sent>>
  BY DEF Read, writer
<1>3. Types /\ Direction(e) /\ Direction(f)
  BY <1>1 DEF Inv
<1>4. inbox \in [End -> Seq(Parts)] /\ received \in [End -> Seq(Parts)]
  BY <1>3 DEF Types, Parts
<1>5. /\ inbox[e] \in Seq(Parts) /\ received[e] \in Seq(Parts)
      /\ Tail(inbox[e]) \in Seq(Parts) /\ Append(received[e], Head(inbox[e])) \in Seq(Parts)
  BY <1>2, <1>4
<1>6. Types'
  BY <1>2, <1>3, <1>4, <1>5 DEF Types, TypeOK, Parts
<1>7. /\ inbox'[e] = Tail(inbox[e]) /\ received'[e] = Append(received[e], Head(inbox[e]))
      /\ inbox'[f] = inbox[f] /\ received'[f] = received[f]
  BY <1>1, <1>2, <1>4
<1>8. Direction(e)'
  BY <1>1, <1>2, <1>3, <1>7 DEF Direction
<1>9. Way(queue[f], nextId[f], sent[f], history[e], chain[e], Tail(inbox[e]),
          Append(received[e], Head(inbox[e])), lastAck[e], wire[e], wire[f])
  BY <1>1, <1>2, <1>3, DirectionTyped, WayRead DEF Direction
<1>10. Direction(f)'
  BY <1>1, <1>2, <1>7, <1>9 DEF Direction
<1> QED BY <1>1, <1>6, <1>8, <1>10 DEF Inv

\* and a timer that expires: its callback only becomes due.
LEMMA ExpireInv ==
    ASSUME Inv, NEW e \in End, Expire(e)
    PROVE  Inv'
<1>1. /\ late[e] < MaxLate
      /\ armed' = [armed EXCEPT ![e] = FALSE]
      /\ late' = [late EXCEPT ![e] = @ + 1]
      /\ UNCHANGED <<queue, nextId, history, chain, lastAck, inbox, resetting, sending, wire, damaged, torn, sent, received>>
  BY DEF Expire, reader
<1>2. Types
  BY DEF Inv
<1>3. armed' \in [End -> BOOLEAN] /\ late' \in [End -> 0..MaxLate]
  BY <1>1, <1>2, BoundsAssumption DEF Types, TypeOK
<1>4. Types'
  BY <1>1, <1>2, <1>3 DEF Types, TypeOK
<1>5. \A d \in End : Direction(d)'
  BY <1>1 DEF Inv, Direction
<1> QED BY <1>4, <1>5 DEF Inv

\* What an end may put on its wire: copies of the first packet of its buffer,
\* and answers to the packet stored last.
Repeats(q, out) == \A i \in 1..Len(out) : out[i].type = "DATA" => q # <<>> /\ Same(out[i], q[1])
Vouches(h, out) == \A i \in 1..Len(out) : out[i].type = "AP_OK" => Seen(h, out[i])

\* What the writer sends is the first packet of its buffer ...
LEMMA FirstPuts ==
    ASSUME NEW q \in Seq(Packets), NEW h
    PROVE  First(q) \in Seq(OnWire) /\ Repeats(q, First(q)) /\ Vouches(h, First(q))
<1>1. CASE q = <<>>
  BY <1>1 DEF First, Repeats, Vouches
<1>2. CASE q # <<>>
  <2>1. q[1] \in Packets
    BY <1>2
  <2>2. q[1] \in OnWire /\ q[1].type = "DATA"
    BY <2>1 DEF Packets, OnWire
  <2> QED BY <1>2, <2>2 DEF First, Repeats, Vouches, Same
<1> QED BY <1>1, <1>2

\* ... what the reader repeats is its last answer ...
LEMMA LastPuts ==
    ASSUME Types, NEW e \in End, lastAck[e].type = "AP_OK" => Seen(history[e], lastAck[e]), NEW q
    PROVE  /\ LastAnswer(e) \in Seq(OnWire) /\ Repeats(q, LastAnswer(e))
           /\ Vouches(history[e], LastAnswer(e))
<1>1. lastAck[e] \in Answers /\ (lastAck[e].type = "NONE" => lastAck[e] = None)
  BY DEF Types
<1>2. CASE lastAck[e] = None
  BY <1>2 DEF LastAnswer, Repeats, Vouches
<1>3. CASE lastAck[e] # None
  <2>1. lastAck[e] \in OnWire /\ lastAck[e].type # "DATA"
    BY <1>1, <1>3 DEF Answers, OnWire
  <2> QED BY <1>3, <2>1 DEF LastAnswer, Repeats, Vouches
<1> QED BY <1>2, <1>3

\* ... both together are still only that ...
LEMMA BothPut ==
    ASSUME NEW v \in Seq(OnWire), NEW w \in Seq(OnWire), NEW q, NEW h,
           Repeats(q, v), Vouches(h, v), Repeats(q, w), Vouches(h, w)
    PROVE  v \o w \in Seq(OnWire) /\ Repeats(q, v \o w) /\ Vouches(h, v \o w)
<1>1. \A i \in 1..Len(v \o w) : \/ i \in 1..Len(v) /\ (v \o w)[i] = v[i]
                                \/ i - Len(v) \in 1..Len(w) /\ (v \o w)[i] = w[i - Len(v)]
  <2> TAKE i \in 1..Len(v \o w)
  <2> QED BY Concat
<1> QED BY <1>1, ConcatLength DEF Repeats, Vouches

\* ... and the pattern of a reset is neither a packet nor an answer.
LEMMA ResetPuts ==
    ASSUME NEW q, NEW h
    PROVE  /\ <<Reset>> \in Seq(OnWire) /\ Repeats(q, <<Reset>>) /\ Vouches(h, <<Reset>>)
           /\ <<>> \in Seq(OnWire) /\ Repeats(q, <<>>) /\ Vouches(h, <<>>)
<1>1. Reset \in OnWire /\ Reset.type = "RESET"
  BY IdAssumption DEF Reset, Answer, OnWire
<1> QED BY <1>1 DEF Repeats, Vouches

\* What is left of a pattern is a pattern.
LEMMA RestIsReset ==
    ASSUME NEW e \in End, NEW p \in OnWire, p.type = "RESET", NEW rest \in Rest(e, p)
    PROVE  rest \in Seq(OnWire) /\ \A i \in 1..Len(rest) : rest[i].type = "RESET"
<1>1. Reset \in OnWire /\ Reset.type = "RESET"
  BY IdAssumption DEF Reset, Answer, OnWire
<1>2. Damaged(Reset) \in OnWire /\ Damaged(Reset).type = "RESET"
  BY <1>1 DEF Damaged, OnWire
<1>3. rest \in {<<>>, <<p>>, <<Reset>>, <<Damaged(Reset)>>}
  <2> DEFINE old == p.state \in {"good", "type"}
             one == p.state = "torn" /\ resetting[e]
  <2>1. Rest(e, p) = CASE old -> (IF resetting[e] THEN {<<>>} ELSE {<<p>>})
                       [] one -> {<<>>, <<Reset>>}
                       [] OTHER -> {<<>>, <<Reset>>, <<Damaged(Reset)>>}
    BY DEF Rest
  <2>2. ~(old /\ one)
    OBVIOUS
  <2> HIDE DEF old, one
  <2> QED BY <2>1, <2>2
<1>4. ASSUME NEW x \in OnWire, x.type = "RESET"
      PROVE  <<x>> \in Seq(OnWire) /\ \A i \in 1..Len(<<x>>) : <<x>>[i].type = "RESET"
  BY <1>4
<1>5. <<>> \in Seq(OnWire) /\ \A i \in 1..Len(<<>>) : <<>>[i].type = "RESET"
  OBVIOUS
<1>6. CASE rest = <<>>
  BY <1>5, <1>6
<1>7. ASSUME NEW x \in {p, Reset, Damaged(Reset)}, rest = <<x>>
      PROVE  rest \in Seq(OnWire) /\ \A i \in 1..Len(rest) : rest[i].type = "RESET"
  <2>1. x \in OnWire /\ x.type = "RESET"
    BY <1>1, <1>2, <1>7
  <2> QED BY <1>4, <1>7, <2>1
<1> QED BY <1>3, <1>6, <1>7

\* Where a received packet and what is sent in return leave the two lines,
\* when rest is left of the packet.
Moves(e, rest, out) == wire' = [wire EXCEPT ![e] = rest \o Tail(@), ![Peer(e)] = @ \o out]

LEMMA RestMoves ==
    ASSUME Types, NEW e \in End, wire[e] # <<>>, NEW rest \in Seq(OnWire), NEW out \in Seq(OnWire),
           Moves(e, rest, out)
    PROVE  /\ wire' \in [End -> Seq(OnWire)]
           /\ wire'[e] = rest \o Tail(wire[e]) /\ wire'[Peer(e)] = wire[Peer(e)] \o out
           /\ wire[e] \in Seq(OnWire) /\ Tail(wire[e]) \in Seq(OnWire)
           /\ wire[Peer(e)] \in Seq(OnWire) /\ Head(wire[e]) \in OnWire /\ Head(wire[e]) = wire[e][1]
<1>1. wire \in [End -> Seq(OnWire)] /\ Peer(e) \in End /\ Peer(e) # e
  BY Ends DEF Types
<1>2. /\ wire[e] \in Seq(OnWire) /\ wire[Peer(e)] \in Seq(OnWire)
      /\ Tail(wire[e]) \in Seq(OnWire) /\ Head(wire[e]) \in OnWire /\ Head(wire[e]) = wire[e][1]
  BY <1>1
<1>3. wire[Peer(e)] \o out \in Seq(OnWire) /\ rest \o Tail(wire[e]) \in Seq(OnWire)
  BY <1>2, ConcatLength
<1>4. wire' = [wire EXCEPT ![e] = rest \o Tail(@), ![Peer(e)] = @ \o out]
  BY DEF Moves
<1> QED BY <1>1, <1>2, <1>3, <1>4

\* Nothing is left of most packets.
LEMMA PutsMoves ==
    ASSUME Types, NEW e \in End, wire[e] # <<>>, NEW out, Puts(e, out)
    PROVE  Moves(e, <<>>, out)
<1>1. wire \in [End -> Seq(OnWire)] /\ wire[e] \in Seq(OnWire) /\ Tail(wire[e]) \in Seq(OnWire)
  BY DEF Types
<1>2. <<>> \o Tail(wire[e]) = Tail(wire[e])
  BY <1>1
<1> QED BY <1>1, <1>2 DEF Puts, Moves

LEMMA WiresMove ==
    ASSUME Types, NEW e \in End, wire[e] # <<>>, NEW out \in Seq(OnWire), Puts(e, out)
    PROVE  /\ wire' \in [End -> Seq(OnWire)]
           /\ wire'[e] = Tail(wire[e]) /\ wire'[Peer(e)] = wire[Peer(e)] \o out
           /\ wire[e] \in Seq(OnWire) /\ Tail(wire[e]) \in Seq(OnWire)
           /\ wire[Peer(e)] \in Seq(OnWire) /\ Head(wire[e]) \in OnWire /\ Head(wire[e]) = wire[e][1]
<1>1. Moves(e, <<>>, out) /\ <<>> \in Seq(OnWire)
  BY PutsMoves
<1>2. wire[e] \in Seq(OnWire) /\ Tail(wire[e]) \in Seq(OnWire)
  BY <1>1, RestMoves
<1>3. <<>> \o Tail(wire[e]) = Tail(wire[e])
  BY <1>2
<1> QED BY <1>1, <1>3, RestMoves

\* A step of the reader thread that neither stores a packet nor removes one.
LEMMA ReaderMoves ==
    ASSUME Inv, NEW e \in End, wire[e] # <<>>, NEW rest \in Seq(OnWire), NEW out \in Seq(OnWire),
           Moves(e, rest, out), \A i \in 1..Len(rest) : rest[i].type = "RESET",
           Repeats(queue[e], out), Vouches(history[e], out),
           UNCHANGED <<queue, nextId, sent, history, chain, inbox, received>>,
           lastAck'[Peer(e)] = lastAck[Peer(e)],
           lastAck'[e].type = "AP_OK" => Seen(history[e], lastAck'[e])
    PROVE  \A d \in End : Direction(d)'
<1> DEFINE f == Peer(e)
           t == rest \o Tail(wire[e])
<1>1. f \in End /\ f # e /\ Peer(f) = e /\ \A d \in End : d = e \/ d = f
  BY Ends
<1>2. Types /\ Direction(e) /\ Direction(f)
  BY <1>1 DEF Inv
<1>3. /\ wire'[e] = t /\ wire'[f] = wire[f] \o out /\ t \in Seq(OnWire)
      /\ wire[e] \in Seq(OnWire) /\ Tail(wire[e]) \in Seq(OnWire) /\ wire[f] \in Seq(OnWire)
  BY <1>2, RestMoves, ConcatLength
<1>4. Typed(queue[e], nextId[e], sent[e], history[f], chain[f], inbox[f], received[f])
  BY <1>2, DirectionTyped
<1>5. Typed(queue[f], nextId[f], sent[f], history[e], chain[e], inbox[e], received[e])
  BY <1>1, <1>2, DirectionTyped
<1>6. Way(queue[e], nextId[e], sent[e], history[f], chain[f], inbox[f], received[f],
          lastAck[f], wire[f], t)
  <2>1. Way(queue[e], nextId[e], sent[e], history[f], chain[f], inbox[f], received[f],
            lastAck[f], wire[f], Tail(wire[e]))
    BY <1>2, <1>3, WayTail DEF Direction
  <2> QED BY <1>3, <2>1, WayBehind
<1>8. Way(queue[f], nextId[f], sent[f], history[e], chain[e], inbox[e], received[e],
          lastAck[e], t, wire[f])
  <2>1. Way(queue[f], nextId[f], sent[f], history[e], chain[e], inbox[e], received[e],
            lastAck[e], Tail(wire[e]), wire[f])
    BY <1>1, <1>2, <1>3, WayTail DEF Direction
  <2> QED BY <1>3, <2>1, WayBehind
<1> HIDE DEF t
<1>7. Way(queue[e], nextId[e], sent[e], history[f], chain[f], inbox[f], received[f],
          lastAck[f], wire[f] \o out, t)
  BY <1>3, <1>4, <1>6, WayPuts DEF Repeats
<1>9. Way(queue[f], nextId[f], sent[f], history[e], chain[e], inbox[e], received[e],
          lastAck[e], t, wire[f] \o out)
  BY <1>3, <1>5, <1>8, WayPuts DEF Vouches
<1>10. Way(queue[f], nextId[f], sent[f], history[e], chain[e], inbox[e], received[e],
           lastAck'[e], t, wire[f] \o out)
  BY <1>9 DEF Way
<1>11. Direction(e)'
  BY <1>3, <1>7 DEF Direction
<1>12. Direction(f)'
  BY <1>1, <1>3, <1>10 DEF Direction
<1> QED BY <1>1, <1>11, <1>12

LEMMA ReaderStep ==
    ASSUME Inv, NEW e \in End, wire[e] # <<>>, NEW out \in Seq(OnWire), Puts(e, out),
           Repeats(queue[e], out), Vouches(history[e], out),
           UNCHANGED <<queue, nextId, sent, history, chain, inbox, received>>,
           lastAck'[Peer(e)] = lastAck[Peer(e)],
           lastAck'[e].type = "AP_OK" => Seen(history[e], lastAck'[e])
    PROVE  \A d \in End : Direction(d)'
<1>1. Moves(e, <<>>, out)
  BY PutsMoves DEF Inv
<1>2. <<>> \in Seq(OnWire) /\ \A i \in 1..Len(<<>>) : <<>>[i].type = "RESET"
  OBVIOUS
<1> QED BY <1>1, <1>2, ReaderMoves

\* The reader takes the first packet off its wire.
LEMMA IncomingFirst ==
    ASSUME Types, NEW e \in End, NEW p \in Incoming(e)
    PROVE  wire[e] # <<>> /\ p = wire[e][1] /\ p \in OnWire
<1>1. wire[e] # <<>> /\ p = Head(wire[e])
  BY DEF Incoming
<1>2. wire[e] \in Seq(OnWire)
  BY DEF Types
<1> QED BY <1>1, <1>2

\* The answer to a packet that is damaged keeps both directions in order.
LEMMA ReceiveFailedInv ==
    ASSUME Inv, NEW e \in End, ReceiveFailed(e)
    PROVE  Inv'
<1> DEFINE out == First(queue[e]) \o LastAnswer(e)
<1>0. Types
  BY DEF Inv
<1>1. /\ wire[e] # <<>> /\ Puts(e, out)
      /\ armed' = [armed EXCEPT ![e] = queue[e] # <<>>]
      /\ UNCHANGED <<queue, nextId, late, history, chain, lastAck, inbox, resetting, sending, damaged,
                     torn, sent, received>>
  BY <1>0, IncomingFirst DEF ReceiveFailed, reader
<1>2. Types /\ queue[e] \in Seq(Packets) /\ (lastAck[e].type = "AP_OK" => Seen(history[e], lastAck[e]))
  BY Ends DEF Inv, Types, TypeOK, Direction, Way
<1>3. out \in Seq(OnWire) /\ Repeats(queue[e], out) /\ Vouches(history[e], out)
  BY <1>2, FirstPuts, LastPuts, BothPut
<1> HIDE DEF out
<1>4. \A d \in End : Direction(d)'
  BY <1>1, <1>2, <1>3, ReaderStep
<1>5. wire' \in [End -> Seq(OnWire)]
  BY <1>1, <1>2, <1>3, WiresMove
<1>6. Types'
  BY <1>1, <1>2, <1>5 DEF Types, TypeOK
<1> QED BY <1>4, <1>6 DEF Inv

\* So does a pattern that is sent and empties no buffer,
LEMMA SendsPatternInv ==
    ASSUME Inv, NEW e \in End, NEW rest \in Seq(OnWire), wire[e] # <<>>, SendsPattern(e, rest),
           \A i \in 1..Len(rest) : rest[i].type = "RESET",
           resetting' \in [End -> BOOLEAN],
           UNCHANGED <<writer, history, chain, lastAck, inbox, damaged, torn, sent, received>>
    PROVE  Inv'
<1>1. /\ sending' = [sending EXCEPT ![e] = TRUE] /\ Moves(e, rest, <<Reset>>)
      /\ UNCHANGED <<queue, nextId, armed, late>>
  BY DEF SendsPattern, Pattern, Moves, writer
<1>2. Types /\ (lastAck[e].type = "AP_OK" => Seen(history[e], lastAck[e]))
  BY Ends DEF Inv, Direction, Way
<1>3. /\ <<Reset>> \in Seq(OnWire) /\ Repeats(queue[e], <<Reset>>)
      /\ Vouches(history[e], <<Reset>>)
  BY ResetPuts
<1>4. \A d \in End : Direction(d)'
  BY <1>1, <1>2, <1>3, ReaderMoves
<1>5. wire' \in [End -> Seq(OnWire)]
  BY <1>1, <1>2, <1>3, RestMoves
<1>6. Types'
  BY <1>1, <1>2, <1>5 DEF Types, TypeOK
<1> QED BY <1>4, <1>6 DEF Inv

\* whether the end begins a reset,
LEMMA BeginResetInv ==
    ASSUME Inv, NEW e \in End, BeginReset(e)
    PROVE  Inv'
<1>1. PICK p \in Incoming(e) :
        /\ resetting' = [resetting EXCEPT ![e] = TRUE]
        /\ SendsPattern(e, <<>>)
        /\ UNCHANGED <<writer, history, chain, lastAck, inbox, damaged, torn, sent, received>>
  BY DEF BeginReset
<1>2. wire[e] # <<>>
  BY IncomingFirst DEF Inv
<1>3. resetting' \in [End -> BOOLEAN]
  BY <1>1 DEF Inv, Types, TypeOK
<1>4. <<>> \in Seq(OnWire) /\ \A i \in 1..Len(<<>>) : <<>>[i].type = "RESET"
  OBVIOUS
<1> QED BY <1>1, <1>2, <1>3, <1>4, SendsPatternInv

\* answers one,
LEMMA AnswerResetInv ==
    ASSUME Inv, NEW e \in End, AnswerReset(e)
    PROVE  Inv'
<1>1. PICK p \in Incoming(e) :
        /\ p.type = "RESET"
        /\ resetting' = [resetting EXCEPT ![e] = TRUE]
        /\ \E rest \in Rest(e, p) : SendsPattern(e, rest)
        /\ UNCHANGED <<writer, history, chain, lastAck, inbox, damaged, torn, sent, received>>
  BY DEF AnswerReset
<1>2. PICK rest \in Rest(e, p) : SendsPattern(e, rest)
  BY <1>1
<1>3. wire[e] # <<>> /\ p \in OnWire
  BY IncomingFirst DEF Inv
<1>4. rest \in Seq(OnWire) /\ \A i \in 1..Len(rest) : rest[i].type = "RESET"
  BY <1>1, <1>3, RestIsReset
<1>5. resetting' \in [End -> BOOLEAN]
  BY <1>1 DEF Inv, Types, TypeOK
<1> QED BY <1>1, <1>2, <1>3, <1>4, <1>5, SendsPatternInv

\* or starts over,
LEMMA StartOverInv ==
    ASSUME Inv, NEW e \in End, StartOver(e)
    PROVE  Inv'
<1>1. PICK p \in Incoming(e) :
        /\ p.type = "RESET"
        /\ \E rest \in Rest(e, p) : SendsPattern(e, rest)
        /\ UNCHANGED <<writer, history, chain, lastAck, inbox, resetting, damaged, torn, sent,
                       received>>
  BY DEF StartOver
<1>2. PICK rest \in Rest(e, p) : SendsPattern(e, rest)
  BY <1>1
<1>3. wire[e] # <<>> /\ p \in OnWire
  BY IncomingFirst DEF Inv
<1>4. rest \in Seq(OnWire) /\ \A i \in 1..Len(rest) : rest[i].type = "RESET"
  BY <1>1, <1>3, RestIsReset
<1>5. resetting' \in [End -> BOOLEAN]
  BY <1>1 DEF Inv, Types, TypeOK
<1> QED BY <1>1, <1>2, <1>3, <1>4, <1>5, SendsPatternInv

\* the moment at which the pattern has been sent,
LEMMA PatternSentInv ==
    ASSUME Inv, NEW e \in End, PatternSent(e)
    PROVE  Inv'
<1>1. /\ sending' = [sending EXCEPT ![e] = FALSE]
      /\ UNCHANGED <<queue, nextId, armed, late, history, chain, lastAck, inbox, resetting, wire,
                     damaged, torn, sent, received>>
  BY DEF PatternSent, writer
<1>2. Types'
  BY <1>1 DEF Inv, Types, TypeOK
<1>3. \A d \in End : Direction(d)'
  BY <1>1 DEF Inv, Direction
<1> QED BY <1>2, <1>3 DEF Inv

\* the end of a reset, which sends the first packet once more,
LEMMA EndResetInv ==
    ASSUME Inv, NEW e \in End, EndReset(e)
    PROVE  Inv'
<1> DEFINE out == First(queue[e]) \o LastAnswer(e)
<1>1. /\ \E p \in Incoming(e) : TRUE
      /\ Puts(e, out)
      /\ resetting' = [resetting EXCEPT ![e] = FALSE]
      /\ armed' = [armed EXCEPT ![e] = @ \/ queue[e] # <<>>]
      /\ UNCHANGED <<queue, nextId, late, history, chain, lastAck, inbox, sending, damaged, torn,
                     sent, received>>
  BY DEF EndReset
<1>2. Types /\ queue[e] \in Seq(Packets) /\ (lastAck[e].type = "AP_OK" => Seen(history[e], lastAck[e]))
  BY Ends DEF Inv, Types, TypeOK, Direction, Way
<1>3. wire[e] # <<>>
  BY <1>1, <1>2, IncomingFirst
<1>4. out \in Seq(OnWire) /\ Repeats(queue[e], out) /\ Vouches(history[e], out)
  BY <1>2, FirstPuts, LastPuts, BothPut
<1> HIDE DEF out
<1>5. \A d \in End : Direction(d)'
  BY <1>1, <1>2, <1>3, <1>4, ReaderStep
<1>6. wire' \in [End -> Seq(OnWire)]
  BY <1>1, <1>2, <1>3, <1>4, WiresMove
<1>7. armed' \in [End -> BOOLEAN]
  <2>1. armed \in [End -> BOOLEAN]
    BY <1>2 DEF Types, TypeOK
  <2>2. (armed[e] \/ queue[e] # <<>>) \in BOOLEAN
    OBVIOUS
  <2> QED BY <1>1, <2>1, <2>2, Zenon
<1>8. Types'
  BY <1>1, <1>2, <1>6, <1>7 DEF Types, TypeOK
<1> QED BY <1>5, <1>8 DEF Inv

\* what is dropped during a reset,
LEMMA DiscardInv ==
    ASSUME Inv, NEW e \in End, Discard(e)
    PROVE  Inv'
<1>1. /\ \E p \in Incoming(e) : TRUE
      /\ Puts(e, <<>>)
      /\ UNCHANGED <<queue, nextId, armed, late, history, chain, lastAck, inbox, resetting, sending,
                     damaged, torn, sent, received>>
  BY DEF Discard, writer, reader
<1>2. Types /\ (lastAck[e].type = "AP_OK" => Seen(history[e], lastAck[e]))
  BY Ends DEF Inv, Direction, Way
<1>3. wire[e] # <<>>
  BY <1>1, <1>2, IncomingFirst
<1>4. <<>> \in Seq(OnWire) /\ Repeats(queue[e], <<>>) /\ Vouches(history[e], <<>>)
  BY ResetPuts
<1>5. \A d \in End : Direction(d)'
  BY <1>1, <1>2, <1>3, <1>4, ReaderStep
<1>6. wire' \in [End -> Seq(OnWire)]
  BY <1>1, <1>2, <1>3, <1>4, WiresMove
<1>7. Types'
  BY <1>1, <1>2, <1>6 DEF Types, TypeOK
<1> QED BY <1>5, <1>7 DEF Inv

\* a retransmission, however late its callback comes,
LEMMA TimeoutInv ==
    ASSUME Inv, NEW e \in End, Timeout(e)
    PROVE  Inv'
<1> DEFINE f   == Peer(e)
           out == First(queue[e])
<1>1. f \in End /\ f # e /\ Peer(f) = e /\ \A d \in End : d = e \/ d = f
  BY Ends
<1>2. /\ late[e] > 0
      /\ late' = [late EXCEPT ![e] = @ - 1]
      /\ armed' = [armed EXCEPT ![e] = queue[e] # <<>>]
      /\ Meanwhile(e, out)
      /\ UNCHANGED <<queue, nextId, history, chain, lastAck, inbox, resetting, sending, sent, received>>
  BY DEF Timeout, reader
<1>3. Types /\ Direction(e) /\ Direction(f)
  BY <1>1 DEF Inv
<1>4. queue[e] \in Seq(Packets) /\ late \in [End -> 0..MaxLate]
  BY <1>1, <1>3 DEF Types, TypeOK
<1>5. out \in Seq(OnWire) /\ Repeats(queue[e], out) /\ Vouches(history[e], out)
  BY <1>4, FirstPuts
<1> HIDE DEF out
<1>7. /\ wire' \in [End -> Seq(OnWire)] /\ wire'[e] = wire[e]
      /\ wire'[f] = wire[f] \o out \/ wire'[f] = Torn(wire[f])
      /\ wire[f] \in Seq(OnWire) /\ wire[e] \in Seq(OnWire)
      /\ damaged' \in 0..MaxDamage /\ torn' \in BOOLEAN
  BY <1>2, <1>3, <1>5, MeanwhileMoves
<1>8. late' \in [End -> 0..MaxLate]
  BY <1>2, <1>4, BoundsAssumption
<1>9. Types'
  BY <1>2, <1>3, <1>7, <1>8 DEF Types, TypeOK
<1>10. Typed(queue[e], nextId[e], sent[e], history[f], chain[f], inbox[f], received[f])
  BY <1>3, DirectionTyped
<1>11. Typed(queue[f], nextId[f], sent[f], history[e], chain[e], inbox[e], received[e])
  BY <1>1, <1>3, DirectionTyped
<1>12. Way(queue[e], nextId[e], sent[e], history[f], chain[f], inbox[f], received[f],
           lastAck[f], wire'[f], wire[e])
  BY <1>3, <1>5, <1>7, <1>10, WayPuts, WayTorn DEF Direction, Repeats
<1>13. Way(queue[f], nextId[f], sent[f], history[e], chain[e], inbox[e], received[e],
           lastAck[e], wire[e], wire'[f])
  BY <1>1, <1>3, <1>5, <1>7, <1>11, WayPuts, WayTorn DEF Direction, Vouches
<1>14. Direction(e)' /\ Direction(f)'
  BY <1>1, <1>2, <1>7, <1>12, <1>13 DEF Direction
<1> QED BY <1>1, <1>9, <1>14 DEF Inv

\* and damage on the line.
LEMMA DamageInv ==
    ASSUME Inv, NEW e \in End, Damage(e)
    PROVE  Inv'
<1> DEFINE f == Peer(e)
<1>1. f \in End /\ f # e /\ Peer(f) = e /\ \A d \in End : d = e \/ d = f
  BY Ends
<1>2. PICK d \in Damages \ {"torn"} :
         wire' = [wire EXCEPT ![e] = IF d = "lost" THEN Tail(@) ELSE [@ EXCEPT ![1].state = d]]
  BY DEF Damage
<1>3. /\ wire[e] # <<>> /\ damaged < MaxDamage /\ damaged' = damaged + 1
      /\ UNCHANGED <<queue, nextId, armed, late, history, chain, lastAck, inbox, resetting, sending,
                     torn, sent, received>>
  BY DEF Damage, writer, reader
<1>4. Types /\ Direction(e) /\ Direction(f)
  BY <1>1 DEF Inv
<1>5. wire \in [End -> Seq(OnWire)] /\ wire[f] \in Seq(OnWire) /\ wire[e] \in Seq(OnWire)
  BY <1>1, <1>4 DEF Types
<1> DEFINE w == IF d = "lost" THEN Tail(wire[e]) ELSE [wire[e] EXCEPT ![1].state = d]
<1>6. w \in Seq(OnWire)
  <2>1. CASE d = "lost"
    BY <1>3, <1>5, <2>1
  <2>2. CASE d # "lost"
    <3>1. d \in {"payload", "header", "type"}
      BY <2>2, DamagesAssumption
    <3>2. 1 \in 1..Len(wire[e])
      BY <1>3, <1>5
    <3>3. wire[e][1] \in OnWire
      BY <1>5, <3>2
    <3>4. [wire[e][1] EXCEPT !.state = d] \in OnWire
      BY <3>1, <3>3 DEF OnWire
    <3>5. [wire[e] EXCEPT ![1] = [wire[e][1] EXCEPT !.state = d]] \in Seq(OnWire)
      BY <1>5, <3>2, <3>4
    <3> QED BY <2>2, <3>5
  <2> QED BY <2>1, <2>2
<1>7. wire'[e] = w /\ wire'[f] = wire[f] /\ wire' \in [End -> Seq(OnWire)]
  <2>1. wire' = [wire EXCEPT ![e] = w]
    BY <1>2, <1>5
  <2> HIDE DEF w
  <2> QED BY <2>1, <1>1, <1>5, <1>6
<1>8. /\ Way(queue[e], nextId[e], sent[e], history[f], chain[f], inbox[f], received[f],
             lastAck[f], wire[f], w)
      /\ Way(queue[f], nextId[f], sent[f], history[e], chain[e], inbox[e], received[e],
             lastAck[e], w, wire[f])
  BY <1>1, <1>3, <1>4, <1>5, WayTail, WayDamaged DEF Direction
<1> HIDE DEF w
<1>9. Direction(e)' /\ Direction(f)'
  BY <1>1, <1>3, <1>7, <1>8 DEF Direction
<1>10. damaged' \in 0..MaxDamage
  BY <1>3, <1>4, BoundsAssumption DEF Types, TypeOK
<1>11. Types'
  BY <1>3, <1>4, <1>7, <1>10 DEF Types, TypeOK
<1> QED BY <1>1, <1>9, <1>11 DEF Inv

\* An answer takes the packet it names out of the buffer, which was stored.
LEMMA ReceiveAnswerInv ==
    ASSUME Inv, NEW e \in End, ReceiveAnswer(e)
    PROVE  Inv'
<1> DEFINE f == Peer(e)
           p == wire[e][1]
<1>1. f \in End /\ f # e /\ Peer(f) = e /\ \A d \in End : d = e \/ d = f
  BY Ends
<1>2. Types /\ Direction(e) /\ Direction(f)
  BY <1>1 DEF Inv
<1>3. /\ wire \in [End -> Seq(OnWire)] /\ wire[f] \in Seq(OnWire) /\ wire[e] \in Seq(OnWire)
      /\ queue \in [End -> Seq(Packets)] /\ queue[e] \in Seq(Packets)
  BY <1>1, <1>2 DEF Types, TypeOK
<1> DEFINE rest == IF p.type = "AP_OK" /\ Acknowledged(e, p) THEN Tail(queue[e]) ELSE queue[e]
           next == IF SendsNext(e, p) THEN First(rest) ELSE <<>>
<1>4. /\ wire[e] # <<>> /\ Puts(e, next)
      /\ queue' = [queue EXCEPT ![e] = rest]
      /\ armed' = [armed EXCEPT ![e] = next # <<>>]
      /\ UNCHANGED <<nextId, late, history, chain, lastAck, inbox, resetting, sending, damaged, torn,
                     sent, received>>
  <2>1. \A x \in Incoming(e) : x = p /\ wire[e] # <<>>
    BY <1>2, IncomingFirst
  <2> QED BY <2>1 DEF ReceiveAnswer, reader
<1>5. rest \in Seq(Packets)
  BY <1>3 DEF Acknowledged
<1>6. next \in Seq(OnWire) /\ Repeats(rest, next) /\ Vouches(history[e], next)
  BY <1>5, FirstPuts, ResetPuts
<1> HIDE DEF next
<1>7. /\ wire'[e] = Tail(wire[e]) /\ wire'[f] = wire[f] \o next /\ wire' \in [End -> Seq(OnWire)]
      /\ Tail(wire[e]) \in Seq(OnWire)
  BY <1>2, <1>4, <1>6, WiresMove
<1>8. queue'[e] = rest /\ queue'[f] = queue[f] /\ queue' \in [End -> Seq(Packets)]
  BY <1>1, <1>3, <1>4, <1>5
<1>9. Types'
  BY <1>2, <1>4, <1>7, <1>8 DEF Types, TypeOK
<1>10. Typed(queue[e], nextId[e], sent[e], history[f], chain[f], inbox[f], received[f])
  BY <1>2, DirectionTyped
<1>11. Typed(rest, nextId[e], sent[e], history[f], chain[f], inbox[f], received[f])
  BY <1>5, <1>10 DEF Typed
<1>12. Way(rest, nextId[e], sent[e], history[f], chain[f], inbox[f], received[f],
           lastAck[f], wire[f], Tail(wire[e]))
  <2>1. CASE p.type = "AP_OK" /\ Acknowledged(e, p)
    BY <2>1, <1>2, <1>3, <1>4, <1>10, WayPop DEF Direction, Acknowledged
  <2>2. CASE ~(p.type = "AP_OK" /\ Acknowledged(e, p))
    BY <2>2, <1>2, <1>3, <1>4, WayTail DEF Direction
  <2> QED BY <2>1, <2>2
<1>13. Way(rest, nextId[e], sent[e], history[f], chain[f], inbox[f], received[f],
           lastAck[f], wire[f] \o next, Tail(wire[e]))
  BY <1>3, <1>6, <1>7, <1>11, <1>12, WayPuts DEF Repeats
<1>14. Typed(queue[f], nextId[f], sent[f], history[e], chain[e], inbox[e], received[e])
  BY <1>1, <1>2, DirectionTyped
<1>15. Way(queue[f], nextId[f], sent[f], history[e], chain[e], inbox[e], received[e],
           lastAck[e], Tail(wire[e]), wire[f])
  BY <1>1, <1>2, <1>3, <1>4, WayTail DEF Direction
<1>16. Way(queue[f], nextId[f], sent[f], history[e], chain[e], inbox[e], received[e],
           lastAck[e], Tail(wire[e]), wire[f] \o next)
  BY <1>3, <1>6, <1>7, <1>14, <1>15, WayPuts DEF Vouches
<1> HIDE DEF rest
<1>17. Direction(e)' /\ Direction(f)'
  BY <1>1, <1>4, <1>7, <1>8, <1>13, <1>16 DEF Direction
<1> QED BY <1>1, <1>9, <1>17 DEF Inv

\* A packet is stored if it is new, and answered in any case.
LEMMA ReceiveDataInv ==
    ASSUME Inv, NEW e \in End, ReceiveData(e)
    PROVE  Inv'
<1> DEFINE f     == Peer(e)
           p     == wire[e][1]
           ok    == p.state = "good"
           fresh == ok /\ IsNew(history[e], p.id)
           ack   == Answer(IF ok THEN "AP_OK" ELSE "AP_ERR", p.id)
           whole == Append(chain[e], p.part)
<1>1. f \in End /\ f # e /\ Peer(f) = e /\ \A d \in End : d = e \/ d = f
  BY Ends
<1>2. Types /\ Direction(e) /\ Direction(f)
  BY <1>1 DEF Inv
<1>3. wire \in [End -> Seq(OnWire)] /\ wire[f] \in Seq(OnWire) /\ wire[e] \in Seq(OnWire)
  BY <1>1, <1>2 DEF Types
<1>4. /\ wire[e] # <<>> /\ p.type = "DATA" /\ Puts(e, <<ack>>)
      /\ lastAck' = [lastAck EXCEPT ![e] = ack]
      /\ history' = [history EXCEPT ![e] = IF fresh THEN Recorded(@, p.id) ELSE @]
      /\ chain' = [chain EXCEPT ![e] = IF ~fresh THEN @ ELSE IF p.last THEN <<>> ELSE whole]
      /\ inbox' = [inbox EXCEPT ![e] = IF fresh /\ p.last THEN Append(@, whole) ELSE @]
      /\ UNCHANGED <<queue, nextId, armed, late, resetting, sending, damaged, torn, sent, received>>
  <2>1. \A x \in Incoming(e) : x = p /\ wire[e] # <<>>
    BY <1>2, IncomingFirst
  <2> QED BY <2>1 DEF ReceiveData, writer
<1>5. p \in OnWire
  BY <1>3, <1>4
<1>6. p.id \in 0..IdMod-1 /\ p.part \in Nat \X Nat /\ p.last \in BOOLEAN
  BY <1>5 DEF OnWire
<1>7. /\ ack \in Answers /\ ack \in OnWire /\ ack.id = p.id /\ ack.type # "NONE"
      /\ ack.type # "DATA" /\ (ok <=> ack.type = "AP_OK")
  BY <1>6 DEF Answer, Answers, OnWire
<1> HIDE DEF ack
<1>8. <<ack>> \in Seq(OnWire) /\ Repeats(queue[e], <<ack>>)
  BY <1>7 DEF Repeats
<1>9. /\ wire'[e] = Tail(wire[e]) /\ wire'[f] = wire[f] \o <<ack>> /\ wire' \in [End -> Seq(OnWire)]
      /\ Tail(wire[e]) \in Seq(OnWire)
  BY <1>2, <1>4, <1>8, WiresMove
<1>10. Typed(queue[f], nextId[f], sent[f], history[e], chain[e], inbox[e], received[e])
  BY <1>1, <1>2, DirectionTyped
<1>11. /\ lastAck \in [End -> Answers] /\ history \in [End -> Seq(0..IdMod-1)]
       /\ chain \in [End -> Parts] /\ inbox \in [End -> Seq(Parts)]
  BY <1>2 DEF Types, TypeOK, Parts
<1>12. lastAck' \in [End -> Answers] /\ \A d \in End : lastAck'[d].type = "NONE" => lastAck'[d] = None
  BY <1>2, <1>4, <1>7, <1>11 DEF Types
<1>13. lastAck'[e] = ack /\ lastAck'[f] = lastAck[f]
  BY <1>1, <1>4, <1>11
<1>14. CASE ~fresh
  <2>1. UNCHANGED <<history, chain, inbox>>
    BY <1>4, <1>11, <1>14
  <2>2. Types'
    BY <1>2, <1>4, <1>9, <1>12, <2>1 DEF Types, TypeOK
  <2>3. ack.type = "AP_OK" => Seen(history[e], ack)
    <3>1. ok => Seen(history[e], p)
      BY <1>1, <1>2, <1>3, <1>4, <1>10, <1>14, WaySeen DEF Direction
    <3> QED BY <3>1, <1>7 DEF Seen
  <2>4. Vouches(history[e], <<ack>>)
    BY <2>3 DEF Vouches
  <2>5. \A d \in End : Direction(d)'
    BY <1>4, <1>8, <1>13, <2>1, <2>3, <2>4, ReaderStep
  <2> QED BY <2>2, <2>5 DEF Inv
<1>15. CASE fresh
  <2> DEFINE g  == Recorded(history[e], p.id)
             d  == IF p.last THEN <<>> ELSE whole
             jb == IF p.last THEN Append(inbox[e], whole) ELSE inbox[e]
  <2>1. /\ Way(queue[f], nextId[f], sent[f], g, d, jb, received[e], ack, Tail(wire[e]), wire[f])
        /\ g \in Seq(0..IdMod-1) /\ Len(g) <= HistoryLen /\ Seen(g, ack)
    BY <1>1, <1>2, <1>3, <1>4, <1>7, <1>10, <1>15, WayStore DEF Direction
  <2>2. whole \in Parts /\ d \in Parts /\ jb \in Seq(Parts)
    <3>1. chain[e] \in Parts /\ inbox[e] \in Seq(Parts)
      BY <1>11
    <3>2. whole \in Parts
      BY <1>6, <3>1 DEF Parts
    <3> HIDE DEF whole
    <3>3. <<>> \in Parts
      BY DEF Parts
    <3> QED BY <3>1, <3>2, <3>3
  <2>3. /\ history' = [history EXCEPT ![e] = g] /\ chain' = [chain EXCEPT ![e] = d]
        /\ inbox' = [inbox EXCEPT ![e] = jb]
    BY <1>4, <1>11, <1>15
  <2> HIDE DEF g, d, jb, whole
  <2>4. /\ history' \in [End -> Seq(0..IdMod-1)] /\ chain' \in [End -> Parts] /\ inbox' \in [End -> Seq(Parts)]
        /\ history'[e] = g /\ chain'[e] = d /\ inbox'[e] = jb
        /\ history'[f] = history[f] /\ chain'[f] = chain[f] /\ inbox'[f] = inbox[f]
    BY <1>1, <1>11, <2>1, <2>2, <2>3
  <2>5. \A x \in End : Len(history'[x]) <= HistoryLen
    BY <1>1, <1>2, <2>1, <2>4 DEF Types, TypeOK
  <2>6. Types'
    BY <1>2, <1>4, <1>9, <1>12, <2>4, <2>5 DEF Types, TypeOK, Parts
  <2>7. Typed(queue[f], nextId[f], sent[f], g, d, jb, received[e])
    BY <1>10, <2>1, <2>2 DEF Typed
  <2>8. Vouches(g, <<ack>>)
    BY <2>1 DEF Vouches
  <2>9. Way(queue[f], nextId[f], sent[f], g, d, jb, received[e], ack, Tail(wire[e]), wire[f] \o <<ack>>)
    BY <1>3, <1>8, <1>9, <2>1, <2>7, <2>8, WayPuts DEF Vouches
  <2>10. Direction(f)'
    BY <1>1, <1>4, <1>9, <1>13, <2>4, <2>9 DEF Direction
  <2>11. Way(queue[e], nextId[e], sent[e], history[f], chain[f], inbox[f], received[f],
             lastAck[f], wire[f], Tail(wire[e]))
    BY <1>2, <1>3, <1>4, WayTail DEF Direction
  <2>12. Typed(queue[e], nextId[e], sent[e], history[f], chain[f], inbox[f], received[f])
    BY <1>2, DirectionTyped
  <2>13. Way(queue[e], nextId[e], sent[e], history[f], chain[f], inbox[f], received[f],
             lastAck[f], wire[f] \o <<ack>>, Tail(wire[e]))
    BY <1>3, <1>8, <1>9, <2>11, <2>12, WayPuts DEF Repeats
  <2>14. Direction(e)'
    BY <1>4, <1>9, <1>13, <2>4, <2>13 DEF Direction
  <2> QED BY <1>1, <2>6, <2>10, <2>14 DEF Inv
<1> QED BY <1>14, <1>15

\* Every step keeps both directions in order.
LEMMA StepInv ==
    ASSUME Inv, Next
    PROVE  Inv'
  BY WriteInv, ReadInv, ExpireInv, TimeoutInv, DamageInv, ReceiveDataInv, ReceiveAnswerInv,
     ReceiveFailedInv, BeginResetInv, AnswerResetInv, PatternSentInv, EndResetInv, StartOverInv,
     DiscardInv DEF Next, Receive

\* So does a step of something else.
LEMMA StutterInv ==
    ASSUME Inv, UNCHANGED vars
    PROVE  Inv'
<1>1. Types'
  BY DEF Inv, Types, TypeOK, vars, writer, reader
<1>2. \A e \in End : Direction(e)'
  BY DEF Inv, Direction, vars, writer, reader
<1> QED BY <1>1, <1>2 DEF Inv

\* Whatever the two ends and the line do, the state of each direction is one
\* that Direction describes.
THEOREM Invariance == Spec => []Inv
  BY InitInv, StepInv, StutterInv, PTL DEF Spec

\* The type invariant of the model.
THEOREM TypeCorrect == Spec => []TypeOK
<1>1. Inv => TypeOK
  BY DEF Inv, Types
<1> QED BY <1>1, Invariance, PTL

\* Writer::acknowledge never removes a packet that the other end has not
\* stored: what that end stores next is the first packet of the buffer, or the
\* one after it when only the answer is still to come.
THEOREM DroppedWhenStored == Spec => []NothingDroppedEarly
<1>1. Inv => NothingDroppedEarly
  <2> SUFFICES ASSUME Inv, NEW e \in End
               PROVE  Due(Peer(e)) \in IF queue[e] = <<>> THEN {<<Len(sent[e]) + 1, 1>>}
                                         ELSE {queue[e][1].part, Following(queue[e][1])}
    BY DEF NothingDroppedEarly
  <2> DEFINE f == Peer(e)
             q == queue[e]
             h == history[f]
             k == Len(received[f]) + Len(inbox[f])
  <2>1. /\ Consecutive(q, nextId[e], sent[e]) /\ Continues(q, sent[e], h, chain[f], k)
        /\ q \in Seq(Packets)
    BY DEF Inv, Types, TypeOK, Direction, Way, Stream
  <2>2. Due(f) = <<k + 1, Len(chain[f]) + 1>>
    BY DEF Due
  <2> HIDE DEF f, k, q, h
  <2>3. CASE q = <<>>
    <3>1. Skip(q, h) = 0 /\ Len(q) = 0
      BY <2>3 DEF Skip, Stored
    <3>2. chain[f] = <<>> /\ k = Len(sent[e])
      BY <2>1, <3>1 DEF Continues
    <3> QED BY <2>2, <2>3, <3>2 DEF f, q
  <2>4. CASE q # <<>>
    <3>0. Len(q) \in Nat /\ Len(q) >= 1
      BY <2>1, <2>4
    <3>1. CASE ~Stored(q, h)
      <4>1. Skip(q, h) = 0
        BY <3>1 DEF Skip
      <4>2. q[1].part = <<k + 1, Len(chain[f]) + 1>>
        BY <2>1, <3>0, <4>1 DEF Continues
      <4> QED BY <2>2, <2>4, <4>2 DEF f, q
    <3>2. CASE Stored(q, h) /\ Len(q) # 1
      <4>0. Len(q) \in Nat /\ 1 < Len(q)
        <5>1. Len(q) # 1
          BY <3>2
        <5> QED BY <3>0, <5>1, OneOfMore
      <4>1. Skip(q, h) = 1 /\ Skip(q, h) < Len(q)
        BY <3>2, <4>0 DEF Skip
      <4>2. q[1 + 1].part = <<k + 1, Len(chain[f]) + 1>>
        BY <2>1, <4>1 DEF Continues
      <4>3. 1 \in 1..Len(q)-1
        BY <3>0, <3>2, OneOfMore
      <4>4. q[1 + 1].part = Following(q[1])
        BY <2>1, <4>3 DEF Consecutive
      <4> QED BY <2>2, <2>4, <4>2, <4>4 DEF f, q
    <3>3. CASE Stored(q, h) /\ Len(q) = 1
      <4>1. Skip(q, h) = 1
        BY <3>3 DEF Skip
      <4>2. chain[f] = <<>> /\ k = Len(sent[e])
        BY <2>1, <3>3, <4>1 DEF Continues
      <4>3. q[1].last /\ q[1].part[1] = Len(sent[e])
        BY <2>1, <2>4, <3>3 DEF Consecutive
      <4>4. Following(q[1]) = <<k + 1, 1>>
        BY <4>2, <4>3 DEF Following
      <4>5. Len(chain[f]) + 1 = 1
        BY <4>2
      <4> QED BY <2>2, <2>4, <4>4, <4>5 DEF f, q
    <3> QED BY <3>1, <3>2, <3>3
  <2> QED BY <2>3, <2>4
<1> QED BY <1>1, Invariance, PTL

\* serial::Client keeps the promise of ReliableLink: what an end reads is the
\* next message the other end wrote, whatever the line damages or loses and in
\* whatever order timers expire, answers arrive and resets happen.
THEOREM Reliable == Spec => ReliablyInOrder
<1>1. Init => Promise!Init
  BY DEF Init, Promise!Init, End, Promise!End
<1>2. ASSUME Inv, [Next]_vars
      PROVE  [Promise!Next]_<<sent, received>>
  <2>1. ASSUME NEW e \in End, Write(e)
        PROVE  Promise!Next
    <3>1. PICK k \in 1..MaxPackets :
            sent' = [sent EXCEPT ![e] = Append(@, MessageOf(Len(sent[e]) + 1, k))]
      BY <2>1 DEF Write
    <3>2. MessageOf(Len(sent[e]) + 1, k) \in Message
      <4>1. /\ Len(sent[e]) < MaxWrites[e] /\ Len(sent[e]) \in Nat
            /\ MaxWrites["A"] \in Nat /\ MaxWrites["B"] \in Nat
        BY <2>1, BoundsAssumption DEF Write, Inv, Types, End
      <4>2. Len(sent[e]) + 1 \in 1..MaxWrites["A"] + MaxWrites["B"]
        BY <4>1 DEF End
      <4> QED BY <4>2 DEF Message
    <3>3. UNCHANGED received
      BY <2>1 DEF Write
    <3> QED BY <3>1, <3>2, <3>3 DEF Promise!Next, Promise!Write, End, Promise!End
  <2>2. ASSUME NEW e \in End, Read(e)
        PROVE  Promise!Next
    <3> DEFINE f == Peer(e)
    <3>1. f \in End /\ Peer(f) = e
      BY Ends
    <3>2. Len(received[e]) + 1 <= Len(sent[f]) /\ Head(inbox[e]) = sent[f][Len(received[e]) + 1]
      <4>1. Types /\ Direction(f) /\ inbox[e] # <<>>
        BY <1>2, <2>2, <3>1 DEF Inv, Read
      <4>2. Typed(queue[f], nextId[f], sent[f], history[e], chain[e], inbox[e], received[e])
        BY <3>1, <4>1, DirectionTyped
      <4>3. Stream(queue[f], nextId[f], sent[f], history[e], chain[e], inbox[e], received[e])
        BY <3>1, <4>1 DEF Direction, Way
      <4> HIDE DEF f
      <4> QED BY <4>1, <4>2, <4>3, StreamRead
    <3>3. received' = [received EXCEPT ![e] = Append(@, sent[f][Len(received[e]) + 1])] /\ UNCHANGED sent
      BY <2>2, <3>2 DEF Read
    <3>4. f = Promise!Peer(e) /\ e \in Promise!End
      BY DEF Peer, Promise!Peer, End, Promise!End
    <3> HIDE DEF f
    <3> QED BY <3>2, <3>3, <3>4 DEF Promise!Next, Promise!Read
  <2>3. ASSUME NEW e \in End, Expire(e) \/ Timeout(e) \/ Receive(e) \/ Damage(e)
        PROVE  UNCHANGED <<sent, received>>
    BY <2>3 DEF Expire, Timeout, Receive, Damage, ReceiveData, ReceiveAnswer, ReceiveFailed,
                BeginReset, AnswerReset, PatternSent, EndReset, StartOver, Discard
  <2>4. CASE UNCHANGED vars
    BY <2>4 DEF vars
  <2> QED BY <1>2, <2>1, <2>2, <2>3, <2>4 DEF Next
<1> QED BY <1>1, <1>2, Invariance, PTL DEF Spec, ReliablyInOrder, Promise!Spec
-----------------------------------------------------------------------------
(***************************************************************************)
(* The handshakes: counting the reset patterns on a wire.                  *)
(***************************************************************************)
Places(w) == {i \in DOMAIN w : w[i].type = "RESET"}
Count(w)  == Cardinality(Places(w))

\* The patterns on a line can be counted.
LEMMA PlacesFinite ==
    ASSUME NEW w \in Seq(OnWire)
    PROVE  IsFiniteSet(Places(w)) /\ Count(w) \in Nat
<1>1. IsFiniteSet(1..Len(w)) /\ Places(w) \in SUBSET (1..Len(w))
  BY FS_Interval DEF Places
<1> QED BY <1>1, FS_Subset, FS_CardinalityType DEF Count

\* How many of them there are when packets join the line,
LEMMA CountConcat ==
    ASSUME NEW v \in Seq(OnWire), NEW w \in Seq(OnWire)
    PROVE  Count(v \o w) = Count(v) + Count(w)
<1> DEFINE B == {Len(v) + i : i \in Places(w)}
           g == [i \in Places(w) |-> Len(v) + i]
<1>1. Len(v) \in Nat /\ Len(w) \in Nat
  OBVIOUS
<1>2. g \in Bijection(Places(w), B)
  <2>1. g \in [Places(w) -> B]
    OBVIOUS
  <2>2. \A i, j \in Places(w) : i \in Nat /\ j \in Nat /\ (g[i] = g[j] => i = j)
    BY <1>1 DEF Places
  <2>3. \A b \in B : \E i \in Places(w) : g[i] = b
    OBVIOUS
  <2> HIDE DEF g, B
  <2> QED BY <2>1, <2>2, <2>3 DEF Bijection, Injection, Surjection, IsInjective
<1>3. ExistsBijection(Places(w), B)
  BY <1>2 DEF ExistsBijection
<1>4. IsFiniteSet(B) /\ Cardinality(B) = Count(w)
  BY <1>3, PlacesFinite, FS_Bijection DEF Count
<1>5. Places(v \o w) = Places(v) \cup B
  <2>1. v \o w \in Seq(OnWire) /\ Len(v \o w) = Len(v) + Len(w)
    BY ConcatLength
  <2>2. DOMAIN (v \o w) = 1..Len(v \o w) /\ DOMAIN v = 1..Len(v) /\ DOMAIN w = 1..Len(w)
    BY <2>1
  <2>3. ASSUME NEW i \in 1..Len(v \o w)
        PROVE  i \in Places(v \o w) <=> i \in Places(v) \cup B
    <3>1. CASE i <= Len(v)
      <4>1. i \in 1..Len(v) /\ (v \o w)[i] = v[i]
        BY <3>1, Concat
      <4>2. i \notin B
        BY <1>1, <2>2, <3>1 DEF Places
      <4> QED BY <2>2, <4>1, <4>2 DEF Places
    <3>2. CASE i > Len(v)
      <4>1. i - Len(v) \in 1..Len(w) /\ (v \o w)[i] = w[i - Len(v)]
        BY <3>2, Concat
      <4>2. i \notin Places(v)
        BY <1>1, <2>2, <3>2 DEF Places
      <4>3. i \in B <=> i - Len(v) \in Places(w)
        <5>1. ASSUME i \in B
              PROVE  i - Len(v) \in Places(w)
          <6>1. PICK j \in Places(w) : i = Len(v) + j
            BY <5>1
          <6>2. i - Len(v) = j
            BY <1>1, <2>2, <6>1 DEF Places
          <6> QED BY <6>1, <6>2
        <5>2. i = Len(v) + (i - Len(v))
          BY <1>1
        <5> QED BY <5>1, <5>2
      <4> QED BY <2>2, <4>1, <4>2, <4>3 DEF Places
    <3> QED BY <1>1, <3>1, <3>2
  <2>4. \A i \in Places(v) \cup B : i \in 1..Len(v \o w)
    BY <1>1, <2>1, <2>2 DEF Places
  <2>5. \A i \in Places(v \o w) : i \in 1..Len(v \o w)
    BY <2>2 DEF Places
  <2> QED BY <2>3, <2>4, <2>5
<1>6. Places(v) \cap B = {}
  BY <1>1 DEF Places
<1>7. IsFiniteSet(Places(v)) /\ Cardinality(Places(v)) \in Nat /\ Cardinality(B) \in Nat
  BY <1>4, PlacesFinite, FS_CardinalityType DEF Count
<1> HIDE DEF B
<1>8. Cardinality(Places(v) \cup B) = Cardinality(Places(v)) + Cardinality(B) - Cardinality(Places(v) \cap B)
  BY <1>4, <1>7, FS_Union
<1>9. Cardinality(Places(v) \cap B) = 0
  BY <1>6, FS_EmptySet
<1>10. Count(v \o w) = Cardinality(Places(v)) + Count(w) - 0
  BY <1>4, <1>5, <1>8, <1>9 DEF Count
<1>11. Count(v) = Cardinality(Places(v)) /\ Count(w) \in Nat
  BY PlacesFinite DEF Count
<1> QED BY <1>7, <1>10, <1>11

\* in a single packet,
LEMMA CountOne ==
    ASSUME NEW p \in OnWire
    PROVE  Count(<<p>>) = IF p.type = "RESET" THEN 1 ELSE 0
<1>1. Places(<<p>>) = IF p.type = "RESET" THEN {1} ELSE {}
  BY DEF Places
<1> QED BY <1>1, FS_Singleton, FS_EmptySet DEF Count

\* when the first packet is taken off,
LEMMA CountTail ==
    ASSUME NEW w \in Seq(OnWire), w # <<>>
    PROVE  Count(w) = Count(Tail(w)) + IF w[1].type = "RESET" THEN 1 ELSE 0
<1>1. w[1] \in OnWire /\ <<w[1]>> \in Seq(OnWire) /\ Tail(w) \in Seq(OnWire) /\ w = <<w[1]>> \o Tail(w)
  OBVIOUS
<1>2. Count(w) = Count(<<w[1]>>) + Count(Tail(w))
  BY <1>1, CountConcat
<1>3. Count(<<w[1]>>) = IF w[1].type = "RESET" THEN 1 ELSE 0
  BY <1>1, CountOne
<1>4. Count(Tail(w)) \in Nat
  BY <1>1, PlacesFinite
<1> QED BY <1>2, <1>3, <1>4

\* and where there are none.
LEMMA CountNone ==
    ASSUME NEW w \in Seq(OnWire), \A i \in 1..Len(w) : w[i].type # "RESET"
    PROVE  Count(w) = 0
<1>1. Places(w) = {}
  BY DEF Places
<1> QED BY <1>1, FS_EmptySet DEF Count

\* A line is clean as long as nothing has fallen into a pattern on it.
Clean(w) == \A i \in 1..Len(w) : w[i].type = "RESET" => w[i].state \in {"good", "type"}

LEMMA CleanConcat ==
    ASSUME NEW v \in Seq(OnWire), NEW w \in Seq(OnWire), Clean(v), Clean(w)
    PROVE  Clean(v \o w)
<1>1. ASSUME NEW i \in 1..Len(v \o w), (v \o w)[i].type = "RESET"
      PROVE  (v \o w)[i].state \in {"good", "type"}
  BY <1>1, Concat DEF Clean
<1> QED BY <1>1 DEF Clean

LEMMA CleanTail ==
    ASSUME NEW w \in Seq(OnWire), w # <<>>, Clean(w)
    PROVE  Clean(Tail(w))
<1>1. \A i \in 1..Len(Tail(w)) : i + 1 \in 1..Len(w) /\ Tail(w)[i] = w[i + 1]
  OBVIOUS
<1> QED BY <1>1 DEF Clean

\* What is no pattern neither counts nor soils the line.
LEMMA NoPattern ==
    ASSUME NEW w \in Seq(OnWire), \A i \in 1..Len(w) : w[i].type # "RESET"
    PROVE  Count(w) = 0 /\ Clean(w)
  BY CountNone DEF Clean

\* Neither packets nor answers are patterns.
LEMMA CountAnswers ==
    ASSUME Types, NEW e \in End, NEW q \in Seq(Packets)
    PROVE  /\ First(q) \in Seq(OnWire) /\ Count(First(q)) = 0
           /\ LastAnswer(e) \in Seq(OnWire) /\ Count(LastAnswer(e)) = 0
           /\ Clean(First(q)) /\ Clean(LastAnswer(e))
<1>1. First(q) \in Seq(OnWire) /\ \A i \in 1..Len(First(q)) : First(q)[i].type # "RESET"
  <2>1. CASE q = <<>>
    BY <2>1 DEF First
  <2>2. CASE q # <<>>
    <3>1. q[1] \in Packets
      BY <2>2
    <3>2. q[1] \in OnWire /\ q[1].type = "DATA"
      BY <3>1 DEF Packets, OnWire
    <3> QED BY <2>2, <3>2 DEF First
  <2> QED BY <2>1, <2>2
<1>2. LastAnswer(e) \in Seq(OnWire) /\ \A i \in 1..Len(LastAnswer(e)) : LastAnswer(e)[i].type # "RESET"
  <2>1. lastAck[e] \in Answers /\ (lastAck[e].type = "NONE" => lastAck[e] = None)
    BY DEF Types
  <2>2. CASE lastAck[e] = None
    BY <2>2 DEF LastAnswer
  <2>3. CASE lastAck[e] # None
    <3>1. lastAck[e] \in OnWire /\ lastAck[e].type # "RESET"
      BY <2>1, <2>3 DEF Answers, OnWire
    <3> QED BY <2>3, <3>1 DEF LastAnswer
  <2> QED BY <2>2, <2>3
<1> QED BY <1>1, <1>2, NoPattern

\* A pattern that is sent is one and is clean.
LEMMA CountReset ==
    /\ <<>> \in Seq(OnWire) /\ Count(<<>>) = 0 /\ Clean(<<>>)
    /\ <<Reset>> \in Seq(OnWire) /\ Count(<<Reset>>) = 1 /\ Clean(<<Reset>>)
<1>1. Reset \in OnWire /\ Reset.type = "RESET" /\ Reset.state = "good"
  BY IdAssumption DEF Reset, Answer, OnWire
<1>2. Count(<<Reset>>) = 1
  BY <1>1, CountOne
<1>3. <<>> \in Seq(OnWire) /\ Count(<<>>) = 0 /\ Clean(<<>>)
  <2>1. <<>> \in Seq(OnWire) /\ \A i \in 1..Len(<<>>) : <<>>[i].type # "RESET"
    OBVIOUS
  <2> QED BY <2>1, NoPattern
<1> QED BY <1>1, <1>2, <1>3 DEF Clean

\* What the proof carries along: both at once, until a pattern is torn.
Level == Count(wire["A"]) + Count(wire["B"]) = Waits("A") + Waits("B")

Balanced == torn \/ (Level /\ \A e \in End : Clean(wire[e]))

\* The balance, seen from either end.
LEMMA Balance ==
    ASSUME NEW e \in End, Types
    PROVE  /\ Level <=> Count(wire[e]) + Count(wire[Peer(e)]) = Waits(e) + Waits(Peer(e))
           /\ Count(wire[e]) \in Nat /\ Count(wire[Peer(e)]) \in Nat
           /\ Waits(e) \in Nat /\ Waits(Peer(e)) \in Nat
<1>1. \A d \in End : Count(wire[d]) \in Nat /\ Waits(d) \in Nat
  BY PlacesFinite DEF Types, Waits
<1>2. "A" \in End /\ "B" \in End /\ Peer("A") = "B" /\ Peer("B") = "A" /\ (e = "A" \/ e = "B")
  BY DEF End, Peer
<1> QED BY <1>1, <1>2 DEF Level

\* A step of the reader thread at e.
LEMMA BalancedStep ==
    ASSUME Types, Types', Balanced, ~torn, NEW e \in End, wire[e] # <<>>,
           NEW rest \in Seq(OnWire), NEW out \in Seq(OnWire), Moves(e, rest, out),
           Clean(rest), Clean(out),
           resetting'[Peer(e)] = resetting[Peer(e)],
           (IF resetting'[e] THEN 1 ELSE 0) =
               Waits(e) + Count(out) + Count(rest) - IF wire[e][1].type = "RESET" THEN 1 ELSE 0
    PROVE  Balanced'
<1> DEFINE f == Peer(e)
           x == IF wire[e][1].type = "RESET" THEN 1 ELSE 0
<1>1. /\ wire'[e] = rest \o Tail(wire[e]) /\ wire'[f] = wire[f] \o out
      /\ wire[e] \in Seq(OnWire) /\ wire[f] \in Seq(OnWire) /\ Tail(wire[e]) \in Seq(OnWire)
  BY RestMoves
<1>2. /\ Count(wire[e]) = Count(Tail(wire[e])) + x /\ Count(Tail(wire[e])) \in Nat
      /\ Count(wire'[e]) = Count(rest) + Count(Tail(wire[e])) /\ Count(rest) \in Nat
  BY <1>1, CountTail, CountConcat, PlacesFinite
<1>3. Count(wire'[f]) = Count(wire[f]) + Count(out) /\ Count(out) \in Nat
  BY <1>1, CountConcat, PlacesFinite
<1>4. Waits(f)' = Waits(f) /\ Waits(e)' = Waits(e) + Count(out) + Count(rest) - x
  BY DEF Waits
<1>5. /\ Count(wire[e]) + Count(wire[f]) = Waits(e) + Waits(f)
      /\ Count(wire[e]) \in Nat /\ Count(wire[f]) \in Nat /\ Waits(e) \in Nat /\ Waits(f) \in Nat
  BY Balance DEF Balanced
<1>6. Count(wire'[e]) \in Nat /\ Count(wire'[f]) \in Nat /\ x \in {0, 1}
  BY Ends, PlacesFinite DEF Types
<1>7. Level' <=> Count(wire'[e]) + Count(wire'[f]) = Waits(e)' + Waits(f)'
  <2>1. Level' <=> Count(wire'["A"]) + Count(wire'["B"]) = Waits("A")' + Waits("B")'
    BY DEF Level, Count, Places
  <2>2. Waits(e)' \in Nat /\ Waits(f)' \in Nat
    BY DEF Waits
  <2>3. (e = "A" /\ f = "B") \/ (e = "B" /\ f = "A")
    BY DEF End, Peer
  <2> DEFINE a == Count(wire'["A"])
             b == Count(wire'["B"])
             v == Waits("A")'
             w == Waits("B")'
  <2>4. CASE e = "A" /\ f = "B"
    BY <2>1, <2>4
  <2>5. CASE e = "B" /\ f = "A"
    <3>1. a \in Nat /\ b \in Nat /\ v \in Nat /\ w \in Nat
      BY <1>6, <2>2, <2>5
    <3>2. Level' <=> a + b = v + w
      BY <2>1
    <3> HIDE DEF a, b, v, w
    <3>3. Level' <=> b + a = w + v
      BY <3>1, <3>2
    <3> QED BY <2>5, <3>3 DEF a, b, v, w
  <2> QED BY <2>3, <2>4, <2>5
<1> DEFINE a == Count(wire[e])
           b == Count(wire[f])
           c == Count(wire'[e])
           d == Count(wire'[f])
           v == Waits(e)
           w == Waits(f)
           o == Count(out)
           r == Count(rest)
           t == Count(Tail(wire[e]))
<1>8. /\ a \in Nat /\ b \in Nat /\ c \in Nat /\ d \in Nat /\ v \in Nat /\ w \in Nat /\ o \in Nat
      /\ r \in Nat /\ t \in Nat /\ x \in {0, 1}
      /\ a = t + x /\ c = r + t /\ d = b + o /\ a + b = v + w
  BY <1>2, <1>3, <1>5, <1>6
<1>9. Level' <=> c + d = (v + o + r - x) + w
  BY <1>4, <1>7
<1> HIDE DEF a, b, c, d, v, w, o, r, t, x
<1>10. Level'
  <2>1. c + d = (v + o + r - x) + w
    BY <1>8
  <2> QED BY <1>9, <2>1
<1>11. Clean(wire'[e]) /\ Clean(wire'[f])
  <2>1. Clean(wire[e]) /\ Clean(wire[f])
    BY Ends DEF Balanced
  <2> QED BY <1>1, <2>1, CleanTail, CleanConcat
<1>12. \A y \in End : y = e \/ y = f
  BY Ends
<1>13. \A y \in End : Clean(wire'[y])
  BY <1>11, <1>12
<1> QED BY <1>10, <1>13 DEF Balanced, Clean

\* One that leaves nothing of what it reads.
LEMMA BalancedPuts ==
    ASSUME Types, Types', Balanced, ~torn, NEW e \in End, wire[e] # <<>>,
           NEW out \in Seq(OnWire), Puts(e, out), Clean(out),
           resetting'[Peer(e)] = resetting[Peer(e)],
           (IF resetting'[e] THEN 1 ELSE 0) =
               Waits(e) + Count(out) - IF wire[e][1].type = "RESET" THEN 1 ELSE 0
    PROVE  Balanced'
<1>1. Moves(e, <<>>, out)
  BY PutsMoves
<1>2. <<>> \in Seq(OnWire) /\ Count(<<>>) = 0 /\ Clean(<<>>)
  BY CountReset
<1>3. Waits(e) \in Nat /\ Count(out) \in Nat
  BY PlacesFinite DEF Waits
<1>5. (IF resetting'[e] THEN 1 ELSE 0) =
          Waits(e) + Count(out) + Count(<<>>) - IF wire[e][1].type = "RESET" THEN 1 ELSE 0
  <2> DEFINE v == Waits(e)
             o == Count(out)
             z == Count(<<>>)
             g == IF resetting'[e] THEN 1 ELSE 0
             x == IF wire[e][1].type = "RESET" THEN 1 ELSE 0
  <2>1. v \in Nat /\ o \in Nat /\ z = 0 /\ g = v + o - x /\ x \in {0, 1}
    BY <1>2, <1>3
  <2> HIDE DEF v, o, z, g, x
  <2>2. g = v + o + z - x
    BY <2>1
  <2> QED BY <2>2 DEF v, o, z, g, x
<1> QED BY <1>1, <1>2, <1>5, BalancedStep

\* A step that moves no pattern keeps it.
LEMMA SameBalance ==
    ASSUME Balanced, UNCHANGED resetting, torn' \/ ~torn,
           torn' \/ \A e \in End : /\ Count(wire'[e]) = Count(wire[e])
                                   /\ Clean(wire[e]) => Clean(wire'[e])
    PROVE  Balanced'
  BY DEF Balanced, Level, Waits, Count, Places, Clean, End

\* A step that adds nothing but packets to a line.
LEMMA MeanwhileBalanced ==
    ASSUME Types, Balanced, UNCHANGED resetting, NEW e \in End, NEW out \in Seq(OnWire),
           Meanwhile(e, out), \A i \in 1..Len(out) : out[i].type # "RESET"
    PROVE  Balanced'
<1>1. torn' \/ (~torn /\ wire' = [wire EXCEPT ![Peer(e)] = @ \o out])
  BY DEF Meanwhile
<1>2. CASE torn'
  BY <1>2 DEF Balanced
<1>3. CASE ~torn /\ wire' = [wire EXCEPT ![Peer(e)] = @ \o out]
  <2>1. ASSUME NEW d \in End
        PROVE  Count(wire'[d]) = Count(wire[d]) /\ (Clean(wire[d]) => Clean(wire'[d]))
    <3>1. wire[d] \in Seq(OnWire) /\ (wire'[d] = wire[d] \/ wire'[d] = wire[d] \o out)
      BY <1>3 DEF Types
    <3>2. Count(wire[d] \o out) = Count(wire[d]) + 0 /\ Count(wire[d]) \in Nat
      BY <3>1, NoPattern, CountConcat, PlacesFinite
    <3>3. Clean(wire[d]) => Clean(wire[d] \o out)
      <4>1. Clean(out)
        BY NoPattern
      <4> QED BY <3>1, <4>1, CleanConcat
    <3>4. CASE wire'[d] = wire[d] \o out
      <4>1. Count(wire'[d]) = Count(wire[d]) + 0
        BY <3>2, <3>4
      <4> QED BY <3>2, <3>3, <3>4, <4>1
    <3> QED BY <3>1, <3>4
  <2> QED BY <1>3, <2>1, SameBalance
<1> QED BY <1>1, <1>2, <1>3

\* Neither does damage of the first packet.
LEMMA DamageBalanced ==
    ASSUME Types, Balanced, NEW e \in End, Damage(e)
    PROVE  Balanced'
<1>1. UNCHANGED <<resetting, torn>> /\ wire[e] # <<>>
  BY DEF Damage, reader
<1>2. PICK d \in Damages \ {"torn"} :
         /\ Applies(d, Head(wire[e]))
         /\ wire' = [wire EXCEPT ![e] = IF d = "lost" THEN Tail(@) ELSE [@ EXCEPT ![1].state = d]]
  BY DEF Damage
<1>3. /\ wire \in [End -> Seq(OnWire)] /\ wire[e] \in Seq(OnWire) /\ Head(wire[e]) = wire[e][1]
      /\ wire[e][1] \in OnWire /\ 1 \in 1..Len(wire[e])
  BY <1>1 DEF Types
<1>4. CASE d = "lost"
  <2>1. wire[e][1].type # "RESET" /\ wire'[e] = Tail(wire[e])
    BY <1>2, <1>3, <1>4 DEF Applies
  <2>2. Count(wire[e]) = Count(Tail(wire[e])) + 0 /\ Count(Tail(wire[e])) \in Nat
    <3>1. Tail(wire[e]) \in Seq(OnWire)
      BY <1>1, <1>3
    <3> QED BY <1>1, <1>3, <2>1, <3>1, CountTail, PlacesFinite
  <2>3. Clean(wire[e]) => Clean(wire'[e])
    BY <1>1, <1>3, <2>1, CleanTail
  <2>4. \A x \in End : x # e => wire'[x] = wire[x]
    BY <1>2, <1>3
  <2> QED BY <1>1, <2>1, <2>2, <2>3, <2>4, SameBalance
<1>5. CASE d # "lost"
  <2> DEFINE v == [wire[e] EXCEPT ![1].state = d]
  <2>1. wire'[e] = v
    BY <1>2, <1>3, <1>5
  <2>2. Len(v) = Len(wire[e]) /\ \A i \in 1..Len(wire[e]) : v[i].type = wire[e][i].type
    BY <1>1, <1>3, DamageKeeps
  <2>3. DOMAIN v = 1..Len(wire[e]) /\ DOMAIN wire[e] = 1..Len(wire[e])
    BY <1>3
  <2>4. v[1].state = d /\ \A i \in 1..Len(wire[e]) : i # 1 => v[i] = wire[e][i]
    BY <1>3 DEF OnWire
  <2>5. wire[e][1].type = "RESET" => d = "type"
    BY <1>2, <1>3, <1>5, DamagesAssumption DEF Applies
  <2> HIDE DEF v
  <2>6. Count(v) = Count(wire[e])
    BY <2>2, <2>3 DEF Count, Places
  <2>7. Clean(wire[e]) => Clean(v)
    BY <2>2, <2>4, <2>5 DEF Clean
  <2>8. \A x \in End : x # e => wire'[x] = wire[x]
    BY <1>2, <1>3
  <2> QED BY <1>1, <2>1, <2>6, <2>7, <2>8, SameBalance
<1> QED BY <1>4, <1>5

\* The reader: a pattern is sent by an end that begins to wait or starts over,
\* and taken off the line by one that ends waiting.
LEMMA ReceiveBalanced ==
    ASSUME Inv, Inv', Balanced, NEW e \in End, Receive(e)
    PROVE  Balanced'
<1>1. Types /\ Types' /\ queue[e] \in Seq(Packets) /\ resetting \in [End -> BOOLEAN] /\ Peer(e) # e
  BY Ends DEF Inv, Types, TypeOK
<1>2. CASE torn
  <2>1. torn' = torn
    BY DEF Receive, ReceiveData, ReceiveAnswer, ReceiveFailed, BeginReset, AnswerReset,
           PatternSent, EndReset, StartOver, Discard
  <2> QED BY <1>2, <2>1 DEF Balanced
<1>3. CASE ~torn /\ PatternSent(e)
  BY <1>3, SameBalance DEF PatternSent
<1>4. ASSUME ~torn, NEW p \in Incoming(e)
      PROVE  /\ wire[e] # <<>> /\ p = wire[e][1] /\ p \in OnWire
             /\ p.type = "RESET" => p.state \in {"good", "type"}
  <2>1. wire[e] # <<>> /\ p = wire[e][1] /\ p \in OnWire
    BY <1>1, IncomingFirst
  <2>2. 1 \in 1..Len(wire[e]) /\ Clean(wire[e])
    BY <1>1, <1>4, <2>1 DEF Types, Balanced
  <2> QED BY <2>1, <2>2 DEF Clean
<1>5. \A q \in Seq(Packets) : /\ First(q) \in Seq(OnWire) /\ Count(First(q)) = 0 /\ Clean(First(q))
                              /\ LastAnswer(e) \in Seq(OnWire)
                              /\ Count(LastAnswer(e)) = 0 /\ Clean(LastAnswer(e))
  BY <1>1, CountAnswers
<1> DEFINE both == First(queue[e]) \o LastAnswer(e)
<1>6. both \in Seq(OnWire) /\ Count(both) = 0 /\ Clean(both)
  <2>1. both \in Seq(OnWire) /\ Count(both) = 0 + 0
    BY <1>1, <1>5, CountConcat, ConcatLength
  <2> QED BY <1>1, <1>5, <2>1, CleanConcat
<1> HIDE DEF both
<1>7. ASSUME ~torn, NEW p \in Incoming(e), p.type # "RESET",
             NEW out \in Seq(OnWire), Puts(e, out), Count(out) = 0, Clean(out), UNCHANGED resetting
      PROVE  Balanced'
  <2>1. Waits(e) \in Nat /\ (IF resetting'[e] THEN 1 ELSE 0) = Waits(e) + 0 - 0
    BY <1>7 DEF Waits
  <2> QED BY <1>1, <1>4, <1>7, <2>1, BalancedPuts
<1>8. CASE ~torn /\ ReceiveData(e)
  <2>1. PICK p \in Incoming(e) :
          LET ack == Answer(IF p.state = "good" THEN "AP_OK" ELSE "AP_ERR", p.id)
          IN  p.type = "DATA" /\ Puts(e, <<ack>>) /\ UNCHANGED resetting
    BY <1>8 DEF ReceiveData
  <2> DEFINE ack == Answer(IF p.state = "good" THEN "AP_OK" ELSE "AP_ERR", p.id)
  <2>2. ack.type # "RESET" /\ ack \in OnWire
    BY <1>4, <1>8 DEF OnWire, Answer
  <2>3. p.type # "RESET" /\ Puts(e, <<ack>>) /\ UNCHANGED resetting
    BY <2>1
  <2> HIDE DEF ack
  <2>4. <<ack>> \in Seq(OnWire) /\ Count(<<ack>>) = 0 /\ Clean(<<ack>>)
    <3>1. <<ack>> \in Seq(OnWire) /\ \A i \in 1..Len(<<ack>>) : <<ack>>[i].type # "RESET"
      BY <2>2
    <3> QED BY <3>1, NoPattern
  <2> QED BY <1>7, <1>8, <2>3, <2>4
<1>9. CASE ~torn /\ ReceiveAnswer(e)
  <2>1. PICK p \in Incoming(e) :
          LET rest == IF p.type = "AP_OK" /\ Acknowledged(e, p) THEN Tail(queue[e]) ELSE queue[e]
          IN  /\ p.type # "RESET" /\ UNCHANGED resetting
              /\ Puts(e, IF SendsNext(e, p) THEN First(rest) ELSE <<>>)
    BY <1>9 DEF ReceiveAnswer, reader
  <2> DEFINE rest == IF p.type = "AP_OK" /\ Acknowledged(e, p) THEN Tail(queue[e]) ELSE queue[e]
             next == IF SendsNext(e, p) THEN First(rest) ELSE <<>>
  <2>2. rest \in Seq(Packets)
    BY <1>1 DEF Acknowledged
  <2>3. p.type # "RESET" /\ Puts(e, next) /\ UNCHANGED resetting
    BY <2>1
  <2> HIDE DEF rest
  <2>4. next \in Seq(OnWire) /\ Count(next) = 0 /\ Clean(next)
    BY <1>5, <2>2, CountReset
  <2> HIDE DEF next
  <2> QED BY <1>7, <1>9, <2>3, <2>4
<1>10. CASE ~torn /\ ReceiveFailed(e)
  <2>1. PICK p \in Incoming(e) : p.type # "RESET" /\ Puts(e, both) /\ UNCHANGED resetting
    BY <1>10 DEF ReceiveFailed, reader, both
  <2> QED BY <1>6, <1>7, <1>10, <2>1
<1>11. CASE ~torn /\ BeginReset(e)
  <2>1. PICK p \in Incoming(e) :
          /\ p.type # "RESET" /\ ~resetting[e] /\ resetting' = [resetting EXCEPT ![e] = TRUE]
          /\ SendsPattern(e, <<>>)
    BY <1>11 DEF BeginReset
  <2>2. Moves(e, <<>>, <<Reset>>)
    BY <2>1 DEF SendsPattern, Pattern, Moves
  <2>3. resetting'[e] /\ resetting'[Peer(e)] = resetting[Peer(e)] /\ Waits(e) = 0
    BY <1>1, <2>1 DEF Waits
  <2>4. 1 = Waits(e) + Count(<<Reset>>) + Count(<<>>) - 0
    BY <2>3, CountReset
  <2> QED BY <1>1, <1>4, <1>11, <2>1, <2>2, <2>3, <2>4, CountReset, BalancedStep
<1>12. CASE ~torn /\ AnswerReset(e)
  <2>1. PICK p \in Incoming(e) :
          /\ p.type = "RESET" /\ ~resetting[e] /\ resetting' = [resetting EXCEPT ![e] = TRUE]
          /\ \E rest \in Rest(e, p) : SendsPattern(e, rest)
    BY <1>12 DEF AnswerReset
  <2>2. p = wire[e][1] /\ wire[e] # <<>> /\ p \in OnWire /\ p.state \in {"good", "type"}
    BY <1>4, <1>12, <2>1
  <2>3. Rest(e, p) = {<<p>>}
    BY <2>1, <2>2 DEF Rest
  <2>4. Moves(e, <<p>>, <<Reset>>)
    BY <2>1, <2>3 DEF SendsPattern, Pattern, Moves
  <2>5. <<p>> \in Seq(OnWire) /\ Count(<<p>>) = 1 /\ Clean(<<p>>)
    BY <2>1, <2>2, CountOne DEF Clean
  <2>6. resetting'[e] /\ resetting'[Peer(e)] = resetting[Peer(e)] /\ Waits(e) = 0
    BY <1>1, <2>1 DEF Waits
  <2>7. 1 = Waits(e) + Count(<<Reset>>) + Count(<<p>>) - 1
    BY <2>5, <2>6, CountReset
  <2> QED BY <1>1, <1>12, <2>1, <2>2, <2>4, <2>5, <2>6, <2>7, CountReset, BalancedStep
<1>13. CASE ~torn /\ EndReset(e)
  <2>1. PICK p \in Incoming(e) :
          p.type = "RESET" /\ resetting[e] /\ resetting' = [resetting EXCEPT ![e] = FALSE] /\ Puts(e, both)
    BY <1>13 DEF EndReset, both
  <2>2. ~resetting'[e] /\ resetting'[Peer(e)] = resetting[Peer(e)] /\ Waits(e) = 1
    BY <1>1, <2>1 DEF Waits
  <2>3. 0 = Waits(e) + Count(both) - 1
    BY <1>6, <2>2
  <2> QED BY <1>1, <1>4, <1>6, <1>13, <2>1, <2>2, <2>3, BalancedPuts
<1>14. CASE ~torn /\ StartOver(e)
  <2>1. PICK p \in Incoming(e) :
          /\ p.type = "RESET" /\ p.state # "good" /\ resetting[e] /\ UNCHANGED resetting
          /\ \E rest \in Rest(e, p) : SendsPattern(e, rest)
    BY <1>14 DEF StartOver
  <2>2. p = wire[e][1] /\ wire[e] # <<>> /\ p.state = "type"
    BY <1>4, <1>14, <2>1
  <2>3. Rest(e, p) = {<<>>}
    BY <2>1, <2>2 DEF Rest
  <2>4. Moves(e, <<>>, <<Reset>>)
    BY <2>1, <2>3 DEF SendsPattern, Pattern, Moves
  <2>5. resetting'[e] /\ resetting'[Peer(e)] = resetting[Peer(e)] /\ Waits(e) = 1
    BY <2>1 DEF Waits
  <2>6. 1 = Waits(e) + Count(<<Reset>>) + Count(<<>>) - 1
    BY <2>5, CountReset
  <2> QED BY <1>1, <1>14, <2>1, <2>2, <2>4, <2>5, <2>6, CountReset, BalancedStep
<1>15. CASE ~torn /\ Discard(e)
  <2>1. PICK p \in Incoming(e) :
          (p.type = "RESET" => p.state = "shredded") /\ Puts(e, <<>>) /\ UNCHANGED resetting
    BY <1>15 DEF Discard, reader
  <2>2. p.type # "RESET"
    BY <1>4, <1>15, <2>1
  <2> QED BY <1>7, <1>15, <2>1, <2>2, CountReset
<1> QED BY <1>2, <1>3, <1>8, <1>9, <1>10, <1>11, <1>12, <1>13, <1>14, <1>15 DEF Receive

\* Every step keeps it.
LEMMA StepBalanced ==
    ASSUME Inv, Inv', Balanced, [Next]_vars
    PROVE  Balanced'
<1>1. Types /\ \A e \in End : queue[e] \in Seq(Packets)
  BY DEF Inv, Types, TypeOK
<1>2. ASSUME NEW e \in End, Write(e)
      PROVE  Balanced'
  <2>1. PICK k \in 1..MaxPackets :
           LET m    == MessageOf(Len(sent[e]) + 1, k)
               cut  == [i \in 1..k |-> Data((nextId[e] + i - 1) % IdMod, m[i], i = k)]
           IN  /\ queue' = [queue EXCEPT ![e] = @ \o cut]
               /\ Meanwhile(e, IF queue[e] = <<>> THEN <<cut[1]>> ELSE <<>>)
    BY <1>2 DEF Write
  <2> DEFINE m   == MessageOf(Len(sent[e]) + 1, k)
             cut == [i \in 1..k |-> Data((nextId[e] + i - 1) % IdMod, m[i], i = k)]
             out == IF queue[e] = <<>> THEN <<cut[1]>> ELSE <<>>
  <2>2. Meanwhile(e, out) /\ UNCHANGED resetting
    BY <1>2, <2>1 DEF Write, reader
  <2>3. queue[e] = <<>> => cut[1] \in OnWire /\ cut[1].type # "RESET"
    <3> SUFFICES ASSUME queue[e] = <<>>
                 PROVE  cut[1] \in OnWire /\ cut[1].type # "RESET"
      OBVIOUS
    <3>1. k \in Nat /\ 1 \in 1..k /\ Len(cut) = k /\ cut \in Seq({cut[i] : i \in 1..k})
      BY BoundsAssumption
    <3>2. queue'[e] = <<>> \o cut /\ queue'[e] \in Seq(Packets)
      BY <1>1, <2>1 DEF Inv, Types, TypeOK
    <3> HIDE DEF cut
    <3>3. cut \in Seq(Packets)
      BY <3>1, <3>2
    <3>4. cut[1] \in Packets
      BY <3>1, <3>3
    <3> QED BY <3>4 DEF Packets, OnWire
  <2> HIDE DEF cut
  <2>4. out \in Seq(OnWire) /\ \A i \in 1..Len(out) : out[i].type # "RESET"
    BY <2>3
  <2> HIDE DEF out
  <2> QED BY <1>1, <2>2, <2>4, MeanwhileBalanced
<1>3. ASSUME NEW e \in End, Read(e) \/ Expire(e)
      PROVE  Balanced'
  BY <1>3 DEF Read, Expire, reader, Balanced, Level, Waits, Count, Places, Clean
<1>4. ASSUME NEW e \in End, Timeout(e)
      PROVE  Balanced'
  <2>1. UNCHANGED resetting /\ Meanwhile(e, First(queue[e]))
    BY <1>4 DEF Timeout, reader
  <2>2. First(queue[e]) \in Seq(OnWire) /\ \A i \in 1..Len(First(queue[e])) : First(queue[e])[i].type # "RESET"
    <3>1. queue[e] # <<>> => queue[e][1] \in OnWire /\ queue[e][1].type # "RESET"
      <4>1. queue[e] # <<>> => queue[e][1] \in Packets
        BY <1>1
      <4> QED BY <4>1 DEF Packets, OnWire
    <3> QED BY <3>1 DEF First
  <2> QED BY <1>1, <2>1, <2>2, MeanwhileBalanced
<1>5. CASE UNCHANGED vars
  BY <1>5 DEF vars, reader, Balanced, Level, Waits, Count, Places, Clean
<1> QED BY <1>1, <1>2, <1>3, <1>4, <1>5, DamageBalanced, ReceiveBalanced DEF Next

\* The handshakes of the two ends (Resetter) do not get out of step before a
\* packet of another thread falls into a pattern: as many reset patterns are on
\* their way as ends wait for one, whatever the line does to them.
THEOREM HandshakesBalanced == Spec => []ResetsBalanced
<1>1. Init => Balanced
  <2> SUFFICES ASSUME Init
               PROVE  Balanced
    OBVIOUS
  <2>1. \A e \in End : wire[e] = <<>> /\ ~resetting[e]
    BY DEF Init
  <2>2. Count(wire["A"]) = 0 /\ Count(wire["B"]) = 0 /\ Waits("A") = 0 /\ Waits("B") = 0
    BY <2>1, CountReset DEF Waits, End
  <2> QED BY <2>1, <2>2, CountReset DEF Balanced, Level
<1>2. Balanced => ResetsBalanced
  BY DEF Balanced, Level, ResetsBalanced, Resets, Count, Places
<1> QED BY <1>1, <1>2, StepBalanced, Invariance, PTL DEF Spec
=============================================================================
