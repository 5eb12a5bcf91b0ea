-------------------------- MODULE MasterLogicProofs --------------------------
(***************************************************************************)
(* The invariants of the master, for every tracker state and however many  *)
(* items, requests and packets to itself are waiting.  The state machine   *)
(* enters into them by a few facts about Target, the packets of a call by  *)
(* what a module remembers of a sequence of packets: that of a \o b is     *)
(* what b makes of what a left.                                            *)
(***************************************************************************)
EXTENDS MasterLogic, RunNetProofs, FiniteSetTheorems, WellFoundedInduction

-----------------------------------------------------------------------------
(***************************************************************************)
(* Greatest elements of sets of natural numbers.                           *)
(***************************************************************************)
\* Last picks the greatest position of a sequence.
LEMMA LastIs ==
    ASSUME NEW n \in Nat, NEW S, S \subseteq 1..n, S # {}
    PROVE  Last(S) \in S /\ \A j \in S : j <= Last(S)
<1> DEFINE D == {n - j : j \in S}
<1>1. D \subseteq Nat /\ D # {}
  <2>1. \A j \in S : j \in 1..n
    OBVIOUS
  <2>2. \A j \in 1..n : n - j \in Nat
    OBVIOUS
  <2> QED BY <2>1, <2>2
<1> HIDE DEF D
<1>2. PICK d \in D : \A e \in D : d <= e
  BY <1>1, Least
<1>3. PICK i \in S : d = n - i
  BY DEF D
<1>4. ASSUME NEW j \in S PROVE j <= i
  <2>1. n - j \in D
    BY DEF D
  <2>2. n - i <= n - j /\ i \in Int /\ j \in Int
    BY <1>2, <1>3, <2>1
  <2> QED BY <2>2
<1> QED BY <1>3, <1>4 DEF Last

\* There is only one greatest position.
LEMMA LastUnique ==
    ASSUME NEW S, S \subseteq Nat, NEW i \in S, \A j \in S : j <= i
    PROVE  Last(S) = i
<1>1. Last(S) \in S /\ \A j \in S : j <= Last(S)
  BY DEF Last
<1>2. i <= Last(S) /\ Last(S) <= i /\ i \in Nat /\ Last(S) \in Nat
  BY <1>1
<1> QED BY <1>2

\* The last of the positions in two sequences put together, n in the first.
Joined(n, A, B) == A \cup {n + i : i \in B}

\* The last position of two sequences put together is the last of the second
\* one, if there is any.
LEMMA LastJoined ==
    ASSUME NEW n \in Nat, NEW k \in Nat, NEW A, A \subseteq 1..n, NEW B, B \subseteq 1..k
    PROVE  /\ Joined(n, A, B) = {} <=> A = {} /\ B = {}
           /\ B # {} => Last(Joined(n, A, B)) = n + Last(B) /\ Last(B) \in B
           /\ B = {} /\ A # {} => Last(Joined(n, A, B)) = Last(A) /\ Last(A) \in A
<1> DEFINE J == Joined(n, A, B)
<1>1. J = {} <=> A = {} /\ B = {}
  BY DEF Joined
<1>2. (\A j \in A : j \in 1..n) /\ (\A j \in B : j \in 1..k)
  OBVIOUS
<1>3. ASSUME B # {} PROVE Last(J) = n + Last(B) /\ Last(B) \in B
  <2>1. Last(B) \in B /\ \A j \in B : j <= Last(B)
    BY <1>3, LastIs
  <2>2. Last(B) \in Nat /\ Last(B) >= 1
    <3>1. Last(B) \in 1..k
      BY <1>2, <2>1, Zenon
    <3> QED BY <3>1
  <2>3. n + Last(B) \in J
    BY <2>1 DEF Joined
  <2>4. ASSUME NEW j \in J PROVE j \in Nat /\ j <= n + Last(B)
    <3>1. CASE j \in A
      <4>1. j \in 1..n
        BY <1>2, <3>1
      <4> QED BY <2>2, <4>1
    <3>2. ASSUME NEW i \in B, j = n + i PROVE j \in Nat /\ j <= n + Last(B)
      <4>1. i \in Nat /\ i <= Last(B)
        BY <1>2, <2>1
      <4> QED BY <2>2, <3>2, <4>1
    <3> QED BY <3>1, <3>2 DEF Joined
  <2> HIDE DEF J
  <2> QED BY <2>1, <2>3, <2>4, LastUnique
<1>4. ASSUME B = {}, A # {} PROVE Last(J) = Last(A) /\ Last(A) \in A
  <2>1. J = A
    BY <1>4 DEF Joined
  <2> QED BY <1>4, <2>1, LastIs
<1> QED BY <1>1, <1>3, <1>4

-----------------------------------------------------------------------------
(***************************************************************************)
(* What a module is told by a sequence of packets.                         *)
(***************************************************************************)
Modes(m, out) == {i \in DOMAIN out : TellsMode(out[i], m)}
Motors(m, out) == {i \in DOMAIN out : TellsMotor(out[i], m)}

ModeIn(p)  == IF p.kind = "Error" THEN "error" ELSE p.msg
MotorIn(p) == IF p.kind = "Run" THEN p.msg ELSE "SUSPEND"

\* Told and Belt by name of the positions that matter.
LEMMA ToldIs ==
    \A m, was, out : Told(m, was, out) = IF Modes(m, out) = {} THEN was ELSE ModeIn(out[Last(Modes(m, out))])
BY DEF Told, Modes, ModeIn

\* What the packets do to a belt, in terms of the set of those that move
\* it.
LEMMA BeltIs ==
    \A m, was, out : Belt(m, was, out) = IF Motors(m, out) = {} THEN was ELSE MotorIn(out[Last(Motors(m, out))])
BY DEF Belt, Motors, MotorIn

\* Where the elements of two sequences are when they are put together.
LEMMA Positions ==
    ASSUME NEW X, NEW a \in Seq(X), NEW b \in Seq(X)
    PROVE  /\ a \o b \in Seq(X) /\ Len(a \o b) = Len(a) + Len(b)
           /\ Len(a) \in Nat /\ Len(b) \in Nat /\ DOMAIN a = 1..Len(a) /\ DOMAIN b = 1..Len(b)
           /\ DOMAIN (a \o b) = 1..(Len(a) + Len(b))
           /\ \A i \in 1..Len(a) : (a \o b)[i] = a[i]
           /\ \A i \in 1..Len(b) : (a \o b)[Len(a) + i] = b[i]
OBVIOUS

\* The mode after two sequences of packets.
LEMMA ToldJoined ==
    ASSUME NEW X, NEW a \in Seq(X), NEW b \in Seq(X), NEW m, NEW was
    PROVE  Told(m, was, a \o b) = Told(m, Told(m, was, a), b)
<1> DEFINE c == a \o b
           A == Modes(m, a)
           B == Modes(m, b)
<1>1. /\ Len(c) = Len(a) + Len(b) /\ Len(a) \in Nat /\ Len(b) \in Nat
      /\ DOMAIN a = 1..Len(a) /\ DOMAIN b = 1..Len(b) /\ DOMAIN c = 1..(Len(a) + Len(b))
      /\ \A i \in 1..Len(a) : c[i] = a[i]
      /\ \A i \in 1..Len(b) : c[Len(a) + i] = b[i]
  BY Positions
<1> HIDE DEF c
<1>2. Modes(m, c) = Joined(Len(a), A, B)
  <2>1. \A i \in 1..(Len(a) + Len(b)) : i \in 1..Len(a) \/ (i - Len(a) \in 1..Len(b) /\ i = Len(a) + (i - Len(a)))
    BY <1>1
  <2>2. \A i \in 1..Len(b) : Len(a) + i \in 1..(Len(a) + Len(b))
    BY <1>1
  <2>3. \A i \in 1..Len(a) : i \in 1..(Len(a) + Len(b))
    BY <1>1
  <2>4. ASSUME NEW i \in Modes(m, c) PROVE i \in Joined(Len(a), A, B)
    <3>1. i \in 1..(Len(a) + Len(b)) /\ TellsMode(c[i], m)
      BY <1>1 DEF Modes
    <3>2. CASE i \in 1..Len(a)
      BY <1>1, <3>1, <3>2 DEF Modes, Joined
    <3>3. CASE i - Len(a) \in 1..Len(b) /\ i = Len(a) + (i - Len(a))
      <4>1. i - Len(a) \in B
        BY <1>1, <3>1, <3>3 DEF Modes
      <4> HIDE DEF B
      <4> QED BY <3>3, <4>1 DEF Joined
    <3> QED BY <2>1, <3>1, <3>2, <3>3
  <2>5. ASSUME NEW i \in Joined(Len(a), A, B) PROVE i \in Modes(m, c)
    <3>1. CASE i \in A
      BY <1>1, <2>3, <3>1 DEF Modes
    <3>2. CASE \E j \in B : i = Len(a) + j
      BY <1>1, <2>2, <3>2 DEF Modes
    <3> QED BY <3>1, <3>2 DEF Joined
  <2> QED BY <2>4, <2>5
<1>3. A \subseteq 1..Len(a) /\ B \subseteq 1..Len(b)
  BY <1>1 DEF Modes
<1> HIDE DEF A, B
<1>4. /\ Modes(m, c) = {} <=> A = {} /\ B = {}
      /\ B # {} => Last(Modes(m, c)) = Len(a) + Last(B) /\ Last(B) \in B
      /\ B = {} /\ A # {} => Last(Modes(m, c)) = Last(A) /\ Last(A) \in A
  <2>1. Len(a) \in Nat /\ Len(b) \in Nat
    BY <1>1
  <2>2. /\ Joined(Len(a), A, B) = {} <=> A = {} /\ B = {}
        /\ B # {} => Last(Joined(Len(a), A, B)) = Len(a) + Last(B) /\ Last(B) \in B
        /\ B = {} /\ A # {} => Last(Joined(Len(a), A, B)) = Last(A) /\ Last(A) \in A
    BY <1>3, <2>1, LastJoined
  <2> QED BY <1>2, <2>2
<1>5. CASE B # {}
  <2>1. Last(Modes(m, c)) = Len(a) + Last(B) /\ Last(B) \in 1..Len(b) /\ Modes(m, c) # {}
    <3>1. Last(Modes(m, c)) = Len(a) + Last(B) /\ Last(B) \in B /\ Modes(m, c) # {}
      BY <1>4, <1>5
    <3> QED BY <1>3, <3>1
  <2>2. c[Last(Modes(m, c))] = b[Last(B)]
    BY <1>1, <2>1
  <2> QED BY <1>5, <2>1, <2>2, ToldIs DEF c, B
<1>6. CASE B = {} /\ A # {}
  <2>1. Last(Modes(m, c)) = Last(A) /\ Last(A) \in 1..Len(a) /\ Modes(m, c) # {}
    <3>1. Last(Modes(m, c)) = Last(A) /\ Last(A) \in A /\ Modes(m, c) # {}
      BY <1>4, <1>6
    <3> QED BY <1>3, <3>1
  <2>2. c[Last(Modes(m, c))] = a[Last(A)]
    BY <1>1, <2>1
  <2> QED BY <1>6, <2>1, <2>2, ToldIs DEF c, A, B
<1>7. CASE B = {} /\ A = {}
  <2>1. Modes(m, c) = {}
    BY <1>4, <1>7
  <2> QED BY <1>7, <2>1, ToldIs DEF c, A, B
<1> QED BY <1>5, <1>6, <1>7

\* The mode after no packet and after one.
LEMMA ToldFew ==
    ASSUME NEW m, NEW was, NEW p
    PROVE  /\ Told(m, was, <<>>) = was
           /\ Told(m, was, <<p>>) = IF TellsMode(p, m) THEN ModeIn(p) ELSE was
<1>1. Modes(m, <<>>) = {}
  BY DEF Modes
<1>2. Modes(m, <<p>>) = IF TellsMode(p, m) THEN {1} ELSE {}
  BY DEF Modes
<1>3. Last({1}) = 1
  BY LastUnique
<1> QED BY <1>1, <1>2, <1>3, ToldIs

\* The motor after two sequences of packets.
LEMMA BeltJoined ==
    ASSUME NEW X, NEW a \in Seq(X), NEW b \in Seq(X), NEW m, NEW was
    PROVE  Belt(m, was, a \o b) = Belt(m, Belt(m, was, a), b)
<1> DEFINE c == a \o b
           A == Motors(m, a)
           B == Motors(m, b)
<1>1. /\ Len(c) = Len(a) + Len(b) /\ Len(a) \in Nat /\ Len(b) \in Nat
      /\ DOMAIN a = 1..Len(a) /\ DOMAIN b = 1..Len(b) /\ DOMAIN c = 1..(Len(a) + Len(b))
      /\ \A i \in 1..Len(a) : c[i] = a[i]
      /\ \A i \in 1..Len(b) : c[Len(a) + i] = b[i]
  BY Positions
<1> HIDE DEF c
<1>2. Motors(m, c) = Joined(Len(a), A, B)
  <2>1. \A i \in 1..(Len(a) + Len(b)) : i \in 1..Len(a) \/ (i - Len(a) \in 1..Len(b) /\ i = Len(a) + (i - Len(a)))
    BY <1>1
  <2>2. \A i \in 1..Len(b) : Len(a) + i \in 1..(Len(a) + Len(b))
    BY <1>1
  <2>3. \A i \in 1..Len(a) : i \in 1..(Len(a) + Len(b))
    BY <1>1
  <2>4. ASSUME NEW i \in Motors(m, c) PROVE i \in Joined(Len(a), A, B)
    <3>1. i \in 1..(Len(a) + Len(b)) /\ TellsMotor(c[i], m)
      BY <1>1 DEF Motors
    <3>2. CASE i \in 1..Len(a)
      BY <1>1, <3>1, <3>2 DEF Motors, Joined
    <3>3. CASE i - Len(a) \in 1..Len(b) /\ i = Len(a) + (i - Len(a))
      <4>1. i - Len(a) \in B
        BY <1>1, <3>1, <3>3 DEF Motors
      <4> HIDE DEF B
      <4> QED BY <3>3, <4>1 DEF Joined
    <3> QED BY <2>1, <3>1, <3>2, <3>3
  <2>5. ASSUME NEW i \in Joined(Len(a), A, B) PROVE i \in Motors(m, c)
    <3>1. CASE i \in A
      BY <1>1, <2>3, <3>1 DEF Motors
    <3>2. CASE \E j \in B : i = Len(a) + j
      BY <1>1, <2>2, <3>2 DEF Motors
    <3> QED BY <3>1, <3>2 DEF Joined
  <2> QED BY <2>4, <2>5
<1>3. A \subseteq 1..Len(a) /\ B \subseteq 1..Len(b)
  BY <1>1 DEF Motors
<1> HIDE DEF A, B
<1>4. /\ Motors(m, c) = {} <=> A = {} /\ B = {}
      /\ B # {} => Last(Motors(m, c)) = Len(a) + Last(B) /\ Last(B) \in B
      /\ B = {} /\ A # {} => Last(Motors(m, c)) = Last(A) /\ Last(A) \in A
  <2>1. Len(a) \in Nat /\ Len(b) \in Nat
    BY <1>1
  <2>2. /\ Joined(Len(a), A, B) = {} <=> A = {} /\ B = {}
        /\ B # {} => Last(Joined(Len(a), A, B)) = Len(a) + Last(B) /\ Last(B) \in B
        /\ B = {} /\ A # {} => Last(Joined(Len(a), A, B)) = Last(A) /\ Last(A) \in A
    BY <1>3, <2>1, LastJoined
  <2> QED BY <1>2, <2>2
<1>5. CASE B # {}
  <2>1. Last(Motors(m, c)) = Len(a) + Last(B) /\ Last(B) \in 1..Len(b) /\ Motors(m, c) # {}
    <3>1. Last(Motors(m, c)) = Len(a) + Last(B) /\ Last(B) \in B /\ Motors(m, c) # {}
      BY <1>4, <1>5
    <3> QED BY <1>3, <3>1
  <2>2. c[Last(Motors(m, c))] = b[Last(B)]
    BY <1>1, <2>1
  <2> QED BY <1>5, <2>1, <2>2, BeltIs DEF c, B
<1>6. CASE B = {} /\ A # {}
  <2>1. Last(Motors(m, c)) = Last(A) /\ Last(A) \in 1..Len(a) /\ Motors(m, c) # {}
    <3>1. Last(Motors(m, c)) = Last(A) /\ Last(A) \in A /\ Motors(m, c) # {}
      BY <1>4, <1>6
    <3> QED BY <1>3, <3>1
  <2>2. c[Last(Motors(m, c))] = a[Last(A)]
    BY <1>1, <2>1
  <2> QED BY <1>6, <2>1, <2>2, BeltIs DEF c, A, B
<1>7. CASE B = {} /\ A = {}
  <2>1. Motors(m, c) = {}
    BY <1>4, <1>7
  <2> QED BY <1>7, <2>1, BeltIs DEF c, A, B
<1> QED BY <1>5, <1>6, <1>7

\* The motor after no packet and after one.
LEMMA BeltFew ==
    ASSUME NEW m, NEW was, NEW p
    PROVE  /\ Belt(m, was, <<>>) = was
           /\ Belt(m, was, <<p>>) = IF TellsMotor(p, m) THEN MotorIn(p) ELSE was
<1>1. Motors(m, <<>>) = {}
  BY DEF Motors
<1>2. Motors(m, <<p>>) = IF TellsMotor(p, m) THEN {1} ELSE {}
  BY DEF Motors
<1>3. Last({1}) = 1
  BY LastUnique
<1> QED BY <1>1, <1>2, <1>3, BeltIs

-----------------------------------------------------------------------------
(***************************************************************************)
(* The state machine.  Where a rule may lead is read off the rules once.   *)
(***************************************************************************)
Fixed(s) == On(s, "Master", "FIXED")

Recovers(r) ==
    \/ r.from = "error_both" /\ r.on = Fixed("S") /\ r.to = "error_m"
    \/ r.from = "error_both" /\ r.on = Fixed("M") /\ r.to = "error_s"
    \/ r.from = "error_m" /\ r.on = Fixed("M") /\ r.to = "ready"
    \/ r.from = "error_s" /\ r.on = Fixed("S") /\ r.to = "ready"

Fills(l, k) ==
    \/ l = "run_both_empty" /\ k \in {"run_m_empty", "run_s_empty"}
    \/ l \in {"run_m_empty", "run_s_empty"} /\ k = "run_both_empty"

Disciplined(r) ==
    /\ r.to \in Leaf \cup {"run"}
    /\ r.on = Error <=> r.to = "error_both"
    /\ r.on # Error /\ r.from \in ErrorLeaf => Recovers(r)
    /\ r.to \in {"error_m", "error_s"} => r.from = "error_both"
    /\ r.to = "run" => r.from \in {"valid", "ready"}
    /\ r.to \in RunLeaf => Fills(r.from, r.to)

\* Every rule of the machine is of the kinds above.
LEMMA RulesDisciplined == \A r \in Rules : Disciplined(r)
<1> USE DEF Disciplined, Recovers, Fills, Fixed, On, Rule, Error, Leaf, RunLeaf, ErrorLeaf, ConfigLeaf, IdleLeaf, Either
<1>1. \A r \in OnError : Disciplined(r)
  BY DEF OnError
<1> QED BY <1>1 DEF Rules

\* The states on the path of a leaf.
LEMMA PathIs ==
    ASSUME NEW l \in Leaf, NEW i \in DOMAIN Above(l)
    PROVE  /\ i \in Nat
           /\ l \in ErrorLeaf => Above(l)[i] = l
           /\ l \notin ErrorLeaf => Above(l)[i] \in {l, Mode(l), "working"}
<1>1. CASE l \in ErrorLeaf
  BY <1>1 DEF Above
<1>2. CASE l \notin ErrorLeaf
  <2>1. Above(l) = <<l, Mode(l), "working">>
    BY <1>2 DEF Above
  <2> QED BY <1>2, <2>1
<1> QED BY <1>1, <1>2

\* Entering a transition's target: nowhere without a rule, else where one of
\* the rules on the path leads.
LEMMA Leads ==
    ASSUME NEW l \in Leaf, NEW e
    PROVE  \/ Taken(l, e) = {} /\ Target(l, e) = l
           \/ \E r \in Taken(l, e) : Target(l, e) = IF r.to = "run" THEN lastRun ELSE r.to
<1> DEFINE T == Taken(l, e)
           N == {StepsUp(l, r) : r \in T}
<1>1. CASE T = {}
  BY <1>1 DEF Target
<1>2. CASE T # {}
  <2>1. \A r \in T : StepsUp(l, r) \in Nat
    <3>1. ASSUME NEW r \in T PROVE StepsUp(l, r) \in DOMAIN Above(l)
      <4>1. \E i \in DOMAIN Above(l) : Above(l)[i] = r.from
        BY DEF Taken
      <4> QED BY <4>1 DEF StepsUp
    <3> QED BY <3>1, PathIs
  <2> HIDE DEF T
  <2>2. N \subseteq Nat /\ N # {}
    BY <1>2, <2>1
  <2>3. PICK n \in N : \A k \in N : n <= k
    BY <2>2, Least
  <2>4. \E r \in T : \A q \in T : StepsUp(l, r) <= StepsUp(l, q)
    BY <2>3
  <2>5. Innermost(l, T) \in T
    BY <2>4 DEF Innermost
  <2>6. Target(l, e) = IF Innermost(l, T).to = "run" THEN lastRun ELSE Innermost(l, T).to
    BY <1>2 DEF Target, T
  <2> QED BY <2>5, <2>6 DEF T
<1> QED BY <1>1, <1>2

\* A rule that is taken comes from the path, and from the leaf itself when it
\* comes from a leaf.
LEMMA OnPath ==
    ASSUME NEW l \in Leaf, NEW e, NEW r \in Taken(l, e)
    PROVE  /\ Disciplined(r) /\ r.on = e
           /\ r.from \in Leaf => r.from = l
<1>1. r \in Rules /\ r.on = e
  BY DEF Taken
<1>2. PICK i \in DOMAIN Above(l) : r.from = Above(l)[i]
  BY DEF Taken
<1>3. r.from \in {l, Mode(l), "working"}
  BY <1>2, PathIs
<1>4. r.from \in Leaf => r.from = l
  BY <1>3 DEF Leaf, RunLeaf, ErrorLeaf, ConfigLeaf, IdleLeaf, Mode
<1> QED BY <1>1, <1>4, RulesDisciplined

\* Every leaf hears of an error, except the one an error leads to.
LEMMA ErrorHeard ==
    ASSUME NEW l \in Leaf, l # "error_both"
    PROVE  Taken(l, Error) # {}
<1>1. CASE l \in ErrorLeaf
  <2>1. Rule(l, Error, "error_both") \in Rules
    BY <1>1 DEF Rules, OnError, ErrorLeaf
  <2>2. Above(l) = <<l>>
    BY <1>1 DEF Above
  <2>3. 1 \in DOMAIN Above(l) /\ Above(l)[1] = l
    BY <2>2
  <2> QED BY <2>1, <2>3 DEF Taken, Rule
<1>2. CASE l \notin ErrorLeaf
  <2>1. Rule("working", Error, "error_both") \in Rules
    BY DEF Rules, OnError
  <2>2. Above(l) = <<l, Mode(l), "working">>
    BY <1>2 DEF Above
  <2>3. 3 \in DOMAIN Above(l) /\ Above(l)[3] = "working"
    BY <2>2
  <2> QED BY <2>1, <2>3 DEF Taken, Rule
<1> QED BY <1>1, <1>2

\* One module reports that it has fixed the error.
Heals(l, e, k) == \/ l = "error_both" /\ e = Fixed("S") /\ k = "error_m"
                  \/ l = "error_both" /\ e = Fixed("M") /\ k = "error_s"
                  \/ l = "error_m" /\ e = Fixed("M") /\ k = "ready"
                  \/ l = "error_s" /\ e = Fixed("S") /\ k = "ready"

\* Where an event takes the master.
LEMMA Course ==
    ASSUME lastRun \in RunLeaf, NEW l \in Leaf, NEW e, NEW k, k = Target(l, e)
    PROVE  /\ k \in Leaf
           /\ e = Error => k = "error_both"
           /\ k = "error_both" /\ l # "error_both" => e = Error
           /\ k \in ErrorLeaf /\ l \notin ErrorLeaf => k = "error_both"
           /\ l \in ErrorLeaf /\ e # Error => k = l \/ Heals(l, e, k)
           /\ k \in {"error_m", "error_s"} => k = l \/ Heals(l, e, k)
           /\ k \in RunLeaf => k = l \/ Fills(l, k) \/ (l \notin RunLeaf /\ k = lastRun)
<1> USE DEF Leaf, RunLeaf, ErrorLeaf
<1>1. CASE Taken(l, e) = {} /\ k = l
  <2>1. e = Error => l = "error_both"
    BY <1>1, ErrorHeard
  <2> QED BY <1>1, <2>1
<1>2. ASSUME NEW r \in Taken(l, e), k = IF r.to = "run" THEN lastRun ELSE r.to
      PROVE  /\ k \in Leaf
             /\ e = Error => k = "error_both"
             /\ k = "error_both" /\ l # "error_both" => e = Error
             /\ k \in ErrorLeaf /\ l \notin ErrorLeaf => k = "error_both"
             /\ l \in ErrorLeaf /\ e # Error => k = l \/ Heals(l, e, k)
             /\ k \in {"error_m", "error_s"} => k = l \/ Heals(l, e, k)
             /\ k \in RunLeaf => k = l \/ Fills(l, k) \/ (l \notin RunLeaf /\ k = lastRun)
  <2>1. Disciplined(r) /\ r.on = e /\ (r.from \in Leaf => r.from = l)
    BY OnPath
  <2>2. CASE r.to = "run"
    BY <1>2, <2>1, <2>2 DEF Disciplined, Recovers
  <2>3. CASE r.to # "run"
    <3>1. k = r.to
      BY <1>2, <2>3
    <3>2. r.from \in ErrorLeaf => r.from = l
      BY <2>1
    <3>3. l \in ErrorLeaf => r.from = l
      <4>1. PICK i \in DOMAIN Above(l) : r.from = Above(l)[i]
        BY DEF Taken
      <4> QED BY <4>1, PathIs
    <3>4. Recovers(r) => Heals(l, e, k)
      BY <2>1, <3>1 DEF Recovers, Heals
    <3>5. k \in {"error_m", "error_s"} => Recovers(r)
      <4>1. SUFFICES ASSUME k \in {"error_m", "error_s"} PROVE Recovers(r)
        OBVIOUS
      <4>2. r.from = "error_both" /\ r.on # Error
        BY <2>1, <3>1, <4>1 DEF Disciplined
      <4> QED BY <2>1, <4>2 DEF Disciplined
    <3>6. k \in RunLeaf => Fills(l, k)
      BY <2>1, <3>1 DEF Disciplined, Fills
    <3>7. l \in ErrorLeaf /\ e # Error => Heals(l, e, k)
      BY <2>1, <3>3, <3>4 DEF Disciplined
    <3>8. (e = Error <=> k = "error_both") /\ k \in Leaf
      BY <2>1, <2>3, <3>1 DEF Disciplined
    <3>9. k \in ErrorLeaf /\ l \notin ErrorLeaf => k = "error_both"
      BY <3>4, <3>5 DEF Heals
    <3> QED BY <3>4, <3>5, <3>6, <3>7, <3>8, <3>9
  <2> QED BY <2>2, <2>3
<1> QED BY <1>1, <1>2, Leads

-----------------------------------------------------------------------------
(***************************************************************************)
(* The packets of a call to the master, in order.                          *)
(***************************************************************************)
UpTo(S, i) == {j \in S : j <= i}

\* Nth finds an element for every number up to the size of the set.
LEMMA NthIs ==
    ASSUME NEW n \in Nat, NEW S, S \subseteq 1..n, NEW k \in 1..Cardinality(S)
    PROVE  Nth(S, k) \in S
<1>1. \A i \in S : i \in Nat /\ i \in 1..n
  OBVIOUS
<1>2. IsFiniteSet(S) /\ Cardinality(S) \in Nat
  <2>1. IsFiniteSet(1..n)
    BY FS_Interval
  <2> QED BY <2>1, FS_Subset, FS_CardinalityType
<1>3. \A i : UpTo(S, i) \subseteq S /\ IsFiniteSet(UpTo(S, i)) /\ Cardinality(UpTo(S, i)) \in Nat
  <2>1. \A i : UpTo(S, i) \subseteq S
    BY DEF UpTo
  <2> QED BY <1>2, <2>1, FS_Subset, FS_CardinalityType
<1> DEFINE P == {i \in S : Cardinality(UpTo(S, i)) >= k}
<1>4. k \in Nat /\ k >= 1 /\ k <= Cardinality(S)
  BY <1>2
<1>5. S # {}
  BY <1>4, FS_EmptySet
<1>6. Last(S) \in P
  <2>1. Last(S) \in S /\ \A j \in S : j <= Last(S)
    BY <1>5, LastIs
  <2>2. UpTo(S, Last(S)) = S
    BY <2>1 DEF UpTo
  <2> QED BY <1>4, <2>1, <2>2
<1>7. PICK i \in P : \A j \in P : i <= j
  <2>1. P \subseteq Nat
    BY <1>1
  <2> HIDE DEF P
  <2> QED BY <1>6, <2>1, Least
<1>8. Cardinality(UpTo(S, i)) = k
  <2> DEFINE B == {j \in S : j < i}
  <2>0. i \in S /\ \A j \in S : j \in Nat
    BY <1>1
  <2>1. UpTo(S, i) = B \cup {i} /\ i \notin B /\ B \subseteq S
    <3>1. \A j \in S : j <= i <=> j < i \/ j = i
      BY <2>0
    <3>2. ~(i < i)
      BY <2>0
    <3> QED BY <2>0, <3>1, <3>2 DEF UpTo
  <2>2. IsFiniteSet(B) /\ Cardinality(B) \in Nat
    BY <1>2, <2>1, FS_Subset, FS_CardinalityType
  <2> HIDE DEF B
  <2>3. Cardinality(UpTo(S, i)) = Cardinality(B) + 1
    BY <2>1, <2>2, FS_AddElement
  <2>4. Cardinality(UpTo(S, i)) >= k /\ i \in S
    BY <1>7
  <2>5. ASSUME Cardinality(B) >= k PROVE FALSE
    <3>1. B # {}
      BY <1>4, <2>5, FS_EmptySet
    <3>2. B \subseteq 1..n
      BY <1>1, <2>1
    <3>3. Last(B) \in B /\ \A j \in B : j <= Last(B)
      BY <3>1, <3>2, LastIs
    <3>4. Last(B) \in S /\ Last(B) < i
      BY <3>3 DEF B
    <3>5. UpTo(S, Last(B)) = B
      <4>1. ASSUME NEW j \in S, j <= Last(B) PROVE j < i
        <5>1. j \in Nat /\ i \in Nat /\ Last(B) \in Nat
          BY <2>0, <3>4
        <5> QED BY <3>4, <4>1, <5>1
      <4> QED BY <3>3, <4>1 DEF UpTo, B
    <3>6. Last(B) \in P
      BY <2>5, <3>4, <3>5
    <3>7. i <= Last(B)
      BY <1>7, <3>6
    <3>8. i \in Nat /\ Last(B) \in Nat
      BY <2>0, <3>4
    <3> QED BY <3>4, <3>7, <3>8
  <2> QED BY <1>4, <2>2, <2>3, <2>4, <2>5
<1> QED BY <1>7, <1>8 DEF Nth, UpTo

\* ToMaster keeps packets to the master and nothing else.
LEMMA ToMasterIs ==
    ASSUME NEW X, NEW out \in Seq(X), NEW Y,
           \A p \in X : p.to = "MASTER" => [p EXCEPT !.at = "START"] \in Y
    PROVE  ToMaster(out) \in Seq(Y)
<1> DEFINE S == {i \in DOMAIN out : out[i].to = "MASTER"}
           c == Cardinality(S)
<1>1. DOMAIN out = 1..Len(out) /\ Len(out) \in Nat /\ \A i \in DOMAIN out : out[i] \in X
  OBVIOUS
<1>2. S \subseteq 1..Len(out)
  BY <1>1
<1>3. ToMaster(out) = [k \in 1..c |-> [out[Nth(S, k)] EXCEPT !.at = "START"]]
  BY DEF ToMaster
<1>4. \A i \in S : [out[i] EXCEPT !.at = "START"] \in Y
  BY <1>1
<1>5. c \in Nat
  <2>1. IsFiniteSet(1..Len(out))
    BY <1>1, FS_Interval
  <2> HIDE DEF S
  <2> QED BY <1>2, <2>1, FS_Subset, FS_CardinalityType
<1> HIDE DEF S
<1>6. \A k \in 1..c : Nth(S, k) \in S
  BY <1>1, <1>2, NthIs
<1>7. \A k \in 1..c : [out[Nth(S, k)] EXCEPT !.at = "START"] \in Y
  BY <1>4, <1>6
<1> HIDE DEF c
<1> QED BY <1>3, <1>5, <1>7

-----------------------------------------------------------------------------
(***************************************************************************)
(* What the tracker sends: reports and full ramps to the master, motor     *)
(* commands and announcements of items to the modules.                     *)
(***************************************************************************)
Light == {"START", "HS", "SWITCH", "RAMP", "END"}

Reports   == {Report(s, x, at) : s \in Module,
                x \in {"ITEM_DISAPPEARED", "ITEM_STUCK", "ITEM_APPEARED", "ANALYSE"}, at \in Light}
FullRamps == {Report("MASTER", "RAMP_FULL", "START"), Packet("MASTER", "M", "Run", "RAMP_FULL", "START")}
Orders    == {Command(m, x) : m \in Module, x \in {"RESUME", "SUSPEND", "EXPECT_NEW", "KEEP_NEXT"}}
Emitted   == Reports \cup FullRamps \cup Orders

\* Packets that tell a module nothing leave what it was told.
LEMMA Silent ==
    ASSUME NEW X, NEW out \in Seq(X), NEW m, NEW was
    PROVE  /\ (\A p \in X : ~TellsMode(p, m)) => Told(m, was, out) = was
           /\ (\A p \in X : ~TellsMotor(p, m)) => Belt(m, was, out) = was
<1>1. \A i \in DOMAIN out : out[i] \in X
  OBVIOUS
<1>2. (\A p \in X : ~TellsMode(p, m)) => Modes(m, out) = {}
  BY <1>1 DEF Modes
<1>3. (\A p \in X : ~TellsMotor(p, m)) => Motors(m, out) = {}
  BY <1>1 DEF Motors
<1> QED BY <1>2, <1>3, ToldIs, BeltIs

\* The tracker changes no mode, and its packets to the master no motor.
LEMMA EmittedTells ==
    /\ \A p \in Emitted, m \in Module : ~TellsMode(p, m)
    /\ \A p \in Reports \cup FullRamps, m \in Module : ~TellsMotor(p, m)
BY DEF Emitted, Reports, FullRamps, Orders, Report, Command, Packet, Module, TellsMode, TellsMotor

\* The motor commands of a listener.
LEMMA OrdersMove ==
    ASSUME NEW tok, NEW was
    PROVE  /\ M1Orders(tok) \in Seq(Emitted) /\ M2Orders(tok) \in Seq(Emitted)
           /\ Belt("M", was, M1Orders(tok)) = IF tok["RUNNING"] > 0 THEN "RESUME" ELSE "SUSPEND"
           /\ Belt("S", was, M2Orders(tok)) = IF M2Busy(tok) THEN "RESUME" ELSE "SUSPEND"
           /\ Belt("S", was, M1Orders(tok)) = was
           /\ Belt("M", was, M2Orders(tok)) = was
<1>1. \A m \in Module, x \in {"RESUME", "SUSPEND", "EXPECT_NEW", "KEEP_NEXT"} : Command(m, x) \in Emitted
  BY DEF Emitted, Orders
<1>2. \A w : \A m \in Module, k \in Module : \A x \in {"RESUME", "SUSPEND"} :
         Belt(m, w, <<Command(k, x)>>) = IF k = m THEN x ELSE w
  BY BeltFew DEF TellsMotor, MotorIn, Command, Packet
<1>3. \A w : \A m \in Module, k \in Module : Belt(m, w, <<Command(k, "EXPECT_NEW")>>) = w
  BY BeltFew DEF TellsMotor, MotorIn, Command, Packet
<1>4. "M" \in Module /\ "S" \in Module
  BY DEF Module
<1>5. M1Orders(tok) = IF tok["RUNNING"] > 0 THEN <<Command("M", "RESUME")>> ELSE <<Command("M", "SUSPEND")>>
  BY DEF M1Orders
<1>6. M2Orders(tok) = IF M2Busy(tok) THEN <<Command("S", "RESUME")>> \o <<Command("S", "EXPECT_NEW")>>
                                     ELSE <<Command("S", "SUSPEND")>>
  <2>1. <<Command("S", "RESUME"), Command("S", "EXPECT_NEW")>>
          = <<Command("S", "RESUME")>> \o <<Command("S", "EXPECT_NEW")>>
    BY DEF Command, Packet
  <2> QED BY <2>1 DEF M2Orders
<1>7. \A w : \A m \in Module : Belt(m, w, <<Command("S", "RESUME")>> \o <<Command("S", "EXPECT_NEW")>>)
                             = Belt(m, w, <<Command("S", "RESUME")>>)
  <2>1. <<Command("S", "RESUME")>> \in Seq(Emitted) /\ <<Command("S", "EXPECT_NEW")>> \in Seq(Emitted)
    BY <1>1, <1>4
  <2>2. ASSUME NEW m \in Module, NEW w
        PROVE  Belt(m, w, <<Command("S", "RESUME")>> \o <<Command("S", "EXPECT_NEW")>>)
                 = Belt(m, Belt(m, w, <<Command("S", "RESUME")>>), <<Command("S", "EXPECT_NEW")>>)
    BY <2>1, BeltJoined
  <2> QED BY <1>3, <1>4, <2>2
<1>8. M1Orders(tok) \in Seq(Emitted) /\ M2Orders(tok) \in Seq(Emitted)
  BY <1>1, <1>4, <1>5, <1>6
<1>9. \A m \in Module : Belt(m, was, M1Orders(tok)) = IF m = "M" THEN IF tok["RUNNING"] > 0 THEN "RESUME" ELSE "SUSPEND" ELSE was
  BY <1>2, <1>4, <1>5
<1>10. \A m \in Module : Belt(m, was, M2Orders(tok)) = IF m = "S" THEN IF M2Busy(tok) THEN "RESUME" ELSE "SUSPEND" ELSE was
  BY <1>2, <1>4, <1>6, <1>7
<1> QED BY <1>4, <1>8, <1>9, <1>10

\* The motors of the tracker are what its packets of this call have made of
\* the motors b.
Follows(n, b) ==
    /\ n.out \in Seq(Emitted)
    /\ n.buf \in Seq(Reports)
    /\ \A m \in Module : Belt(m, b[m], n.out) = n.motor[m]

\* PetriNet::fire and its listeners.
LEMMA FireFollows ==
    ASSUME NEW n, NEW b, Follows(n, b), NEW t, t.report \in Seq(Reports)
    PROVE  Follows(Fire(n, t), b)
<1> DEFINE tok == Marked(n, t)
           end == Changes(t, "M2_END")
           rdy == Changes(t, "M2RDY")
           run == Changes(t, "RUNNING")
           e == IF end THEN M2Orders(tok) ELSE <<>>
           r == IF rdy THEN M2Orders(tok) ELSE <<>>
           u == IF run THEN M1Orders(tok) ELSE <<>>
           x == Fire(n, t)
<1>1. x.out = n.out \o e \o r \o u /\ x.buf = n.buf \o t.report
  BY DEF Fire
<1>2. x.motor = [m \in {"M", "S"} |->
                   IF m = "M" THEN IF ~run THEN n.motor[m]
                                   ELSE IF tok["RUNNING"] > 0 THEN "RESUME" ELSE "SUSPEND"
                   ELSE IF ~(end \/ rdy) THEN n.motor[m]
                        ELSE IF M2Busy(tok) THEN "RESUME" ELSE "SUSPEND"]
  BY DEF Fire
<1> HIDE DEF x
<1>3. e \in Seq(Emitted) /\ r \in Seq(Emitted) /\ u \in Seq(Emitted)
  <2>1. M1Orders(tok) \in Seq(Emitted) /\ M2Orders(tok) \in Seq(Emitted)
    BY OrdersMove
  <2>2. <<>> \in Seq(Emitted)
    OBVIOUS
  <2> HIDE DEF tok, end, rdy, run
  <2> QED BY <2>1, <2>2
<1>4. n.out \in Seq(Emitted) /\ n.buf \in Seq(Reports)
  BY DEF Follows
<1>5. x.out \in Seq(Emitted) /\ x.buf \in Seq(Reports)
  <2> HIDE DEF e, r, u
  <2> QED BY <1>1, <1>3, <1>4
<1>6. ASSUME NEW m \in Module
      PROVE  Belt(m, b[m], x.out) = x.motor[m]
  <2>1. Belt(m, b[m], n.out) = n.motor[m]
    BY DEF Follows
  <2>2. Belt(m, b[m], x.out) = Belt(m, Belt(m, Belt(m, n.motor[m], e), r), u)
    <3> HIDE DEF e, r, u
    <3>1. n.out \o e \in Seq(Emitted) /\ (n.out \o e) \o r \in Seq(Emitted)
      BY <1>3, <1>4
    <3>2. Belt(m, b[m], n.out \o e) = Belt(m, n.motor[m], e)
      BY <1>3, <1>4, <2>1, BeltJoined
    <3>3. Belt(m, b[m], (n.out \o e) \o r) = Belt(m, Belt(m, b[m], n.out \o e), r)
      BY <1>3, <3>1, BeltJoined
    <3>4. Belt(m, b[m], ((n.out \o e) \o r) \o u) = Belt(m, Belt(m, b[m], (n.out \o e) \o r), u)
      BY <1>3, <3>1, BeltJoined
    <3> QED BY <1>1, <3>2, <3>3, <3>4
  <2>3. \A w : Belt(m, w, <<>>) = w
    BY BeltFew
  <2>4. \A w : /\ Belt("M", w, M1Orders(tok)) = IF tok["RUNNING"] > 0 THEN "RESUME" ELSE "SUSPEND"
               /\ Belt("S", w, M2Orders(tok)) = IF M2Busy(tok) THEN "RESUME" ELSE "SUSPEND"
               /\ Belt("S", w, M1Orders(tok)) = w
               /\ Belt("M", w, M2Orders(tok)) = w
    BY OrdersMove
  <2> HIDE DEF tok, end, rdy, run
  <2>5. CASE m = "M"
    <3>1. Belt(m, n.motor[m], e) = n.motor[m]
      BY <2>3, <2>4, <2>5
    <3>2. Belt(m, n.motor[m], r) = n.motor[m]
      BY <2>3, <2>4, <2>5
    <3>3. Belt(m, n.motor[m], u) = x.motor[m]
      BY <1>2, <2>3, <2>4, <2>5
    <3> HIDE DEF e, r, u
    <3> QED BY <2>2, <3>1, <3>2, <3>3
  <2>6. CASE m = "S"
    <3>1. \A w : Belt(m, w, e) = IF end THEN IF M2Busy(tok) THEN "RESUME" ELSE "SUSPEND" ELSE w
      BY <2>3, <2>4, <2>6
    <3>2. \A w : Belt(m, w, r) = IF rdy THEN IF M2Busy(tok) THEN "RESUME" ELSE "SUSPEND" ELSE w
      BY <2>3, <2>4, <2>6
    <3>3. \A w : Belt(m, w, u) = w
      BY <2>3, <2>4, <2>6
    <3> HIDE DEF e, r, u
    <3>4. x.motor[m] = IF ~(end \/ rdy) THEN n.motor[m] ELSE IF M2Busy(tok) THEN "RESUME" ELSE "SUSPEND"
      BY <1>2, <2>6
    <3> QED BY <2>2, <3>1, <3>2, <3>3, <3>4
  <2> QED BY <2>5, <2>6 DEF Module
<1> QED BY <1>5, <1>6 DEF Follows, x

\* What the transitions report.
LEMMA ReportsOf == \A t \in Earlier \cup Later \cup Automatic : t.report \in Seq(Reports)
<1>1. \A s \in Module, x \in {"ITEM_DISAPPEARED", "ITEM_STUCK", "ITEM_APPEARED"}, at \in Light :
         <<Report(s, x, at)>> \in Seq(Reports)
  BY DEF Reports
<1>2. <<>> \in Seq(Reports)
  OBVIOUS
<1>3. "M" \in Module /\ "S" \in Module
  BY DEF Module
<1>4. \A t \in Automatic : t.report \in Seq(Reports)
  BY <1>2, QuietTransitions
<1>5. \A t \in Moves \cup {NewOnM1, LeaveM2, NewOnM2} : t.report \in Seq(Reports)
  <2>1. \A t \in Moves \cup {NewOnM1, LeaveM2, NewOnM2} : t.report = <<>>
    BY DEF Moves, Move, NewOnM1, NewOnM2, LeaveM2, Transition
  <2> QED BY <1>2, <2>1
<1>6. \A x \in {"ITEM_DISAPPEARED", "ITEM_STUCK", "ITEM_REMOVED"}, at \in Light, s \in Module :
         Losses(s, x, at) \in Seq(Reports)
  BY <1>1, <1>2 DEF Losses
<1>7. \A t \in LossesOnM1 \cup LossesOnM2 :
         \E x \in {"ITEM_DISAPPEARED", "ITEM_STUCK", "ITEM_REMOVED"}, at \in Light, s \in Module :
            t.report = Losses(s, x, at)
  BY DEF LossesOnM1, LossOnM1, LossesOnM2, LossOnM2, Transition, Light, Module
<1>8. \A t \in {LossOnM1("ITEM_DISAPPEARED", "SWITCH", "M1_SWITCH"), LossOnM2("ITEM_DISAPPEARED", "SWITCH", "M2_SWITCH")} :
         t.report \in Seq(Reports)
  <2>1. /\ LossOnM1("ITEM_DISAPPEARED", "SWITCH", "M1_SWITCH").report = Losses("M", "ITEM_DISAPPEARED", "SWITCH")
        /\ LossOnM2("ITEM_DISAPPEARED", "SWITCH", "M2_SWITCH").report = Losses("S", "ITEM_DISAPPEARED", "SWITCH")
    BY DEF LossOnM1, LossOnM2, Transition
  <2>2. "SWITCH" \in Light
    BY DEF Light
  <2> QED BY <1>3, <1>6, <2>1, <2>2
<1>9. \A t \in {UnexpectedOnM2, LostInHandOver} : t.report \in Seq(Reports)
  <2>1. /\ UnexpectedOnM2.report = <<Report("S", "ITEM_APPEARED", "START")>>
        /\ LostInHandOver.report = <<Report("S", "ITEM_DISAPPEARED", "START")>>
    BY DEF UnexpectedOnM2, LostInHandOver, Transition
  <2>2. "START" \in Light
    BY DEF Light
  <2> QED BY <1>1, <1>3, <2>1, <2>2
<1>10. \A t \in LossesOnM1 \cup LossesOnM2 : t.report \in Seq(Reports)
  BY <1>6, <1>7
<1> QED BY <1>4, <1>5, <1>8, <1>9, <1>10 DEF Earlier, Later

\* One pass of PetriNet::process over the transitions of a trigger.
LEMMA FireOneOfFollows ==
    ASSUME NEW n, NEW b, Follows(n, b), NEW T, \A t \in T : t.report \in Seq(Reports)
    PROVE  Follows(FireOneOf(n, T), b)
<1>1. CASE \E t \in T : CanFire(n, t)
  <2> DEFINE u == CHOOSE t \in T : CanFire(n, t)
  <2>1. u \in T BY <1>1
  <2>2. FireOneOf(n, T) = Fire(n, u) BY <1>1 DEF FireOneOf
  <2> HIDE DEF u
  <2> QED BY <2>1, <2>2, FireFollows
<1>2. CASE ~ \E t \in T : CanFire(n, t)
  BY <1>2 DEF FireOneOf
<1> QED BY <1>1, <1>2

\* PetriNet::process as a whole.
LEMMA ProcessFollows ==
    ASSUME NEW n, NEW b, Follows(n, b), NEW e
    PROVE  Follows(Process(n, e), b)
<1> DEFINE n1 == FireOneOf(n, Ready(n, Later, e))
           n2 == FireOneOf(n1, Ready(n, Earlier, e))
<1>1. /\ \A t \in Ready(n, Later, e) : t.report \in Seq(Reports)
      /\ \A t \in Ready(n, Earlier, e) : t.report \in Seq(Reports)
  BY ReportsOf DEF Ready
<1>2. Follows(n1, b)
  BY <1>1, FireOneOfFollows
<1> HIDE DEF n1
<1>3. Follows(n2, b)
  BY <1>1, <1>2, FireOneOfFollows
<1> HIDE DEF n2
<1>4. ASSUME NEW x, Follows(x, b) PROVE Follows(Round(x), b)
  <2>1. \A t \in Automatic : t.report \in Seq(Reports)
    BY ReportsOf
  <2>2. \A t \in Automatic : Follows(Fire(x, t), b)
    BY <1>4, <2>1, FireFollows
  <2> QED BY <1>4, <2>2 DEF Round, Automatic
<1>5. Follows(Settle(n2), b)
  BY <1>3, <1>4 DEF Settle
<1> QED BY <1>5 DEF Process, Triggered, n1, n2

\* A verdict is sent like the rest, and moves no motor.
Harmless(v) == v \in Seq(Emitted) /\ \A m \in Module : \A w : Belt(m, w, v) = w

\* A call of Run::handle: the motors it leaves are those its packets make of
\* the motors it found.
LEMMA HandleFollows ==
    ASSUME NEW n, n.buf = <<>>, NEW e, e[1] \in Module, e[3] \in Light, NEW v, Harmless(v)
    PROVE  LET x == Handle(n, e, v)
           IN  /\ x.out \in Seq(Emitted)
               /\ \A m \in Module : Belt(m, n.motor[m], x.out) = x.motor[m]
<1> DEFINE k == [n EXCEPT !.out = <<>>]
           p == Process(k, e)
           h == Handle(n, e, v)
           b == n.motor
<1>1. k.out = <<>> /\ k.buf = <<>> /\ k.motor = b
  OBVIOUS
<1> HIDE DEF k
<1>2. Follows(k, b)
  <2>1. \A m \in Module : Belt(m, b[m], <<>>) = b[m]
    BY BeltFew
  <2>2. <<>> \in Seq(Emitted) /\ <<>> \in Seq(Reports)
    OBVIOUS
  <2> QED BY <1>1, <2>1, <2>2 DEF Follows
<1>3. Follows(p, b)
  BY <1>2, ProcessFollows
<1>4. h = IF e[2] = "ANALYSE"
            THEN IF p.size[SwitchOf(e[1])] = 0 THEN p ELSE Flush([p EXCEPT !.out = p.out \o v])
          ELSE IF e[2] = "ITEM_APPEARED"
            THEN Flush([p EXCEPT !.buf = Append(p.buf, Report(e[1], "ITEM_APPEARED", e[3]))])
          ELSE Flush(p)
  BY DEF Handle, k
<1> HIDE DEF p, h, b
<1>5. ASSUME NEW x, Follows(x, b) PROVE Follows(Flush(x), b)
  <2> DEFINE y == x.out \o x.buf
  <2>0. Flush(x) = [x EXCEPT !.out = y, !.buf = <<>>]
    BY DEF Flush
  <2> HIDE DEF y
  <2>1. Flush(x).out = y /\ Flush(x).buf = <<>> /\ Flush(x).motor = x.motor
    BY <2>0
  <2>2. x.out \in Seq(Emitted) /\ x.buf \in Seq(Reports) /\ x.buf \in Seq(Emitted)
    <3>1. Reports \subseteq Emitted
      BY DEF Emitted
    <3>2. x.out \in Seq(Emitted) /\ x.buf \in Seq(Reports)
      BY <1>5 DEF Follows
    <3> QED BY <3>1, <3>2
  <2>3. ASSUME NEW m \in Module PROVE Belt(m, b[m], x.out \o x.buf) = x.motor[m]
    <3>1. Belt(m, b[m], x.out \o x.buf) = Belt(m, Belt(m, b[m], x.out), x.buf)
      BY <2>2, BeltJoined
    <3>2. \A q \in Reports : ~TellsMotor(q, m)
      BY EmittedTells
    <3>3. Belt(m, x.motor[m], x.buf) = x.motor[m]
      BY <2>2, <3>2, Silent
    <3> QED BY <1>5, <3>1, <3>3 DEF Follows
  <2>4. Flush(x).out \in Seq(Emitted) /\ Flush(x).buf \in Seq(Reports)
    BY <2>1, <2>2 DEF y
  <2> QED BY <2>1, <2>3, <2>4 DEF Follows, y
<1>6. Follows([p EXCEPT !.out = p.out \o v], b)
  <2> DEFINE x == [p EXCEPT !.out = p.out \o v]
  <2>1. x.out = p.out \o v /\ x.buf = p.buf /\ x.motor = p.motor
    OBVIOUS
  <2> HIDE DEF x
  <2>2. p.out \in Seq(Emitted) /\ v \in Seq(Emitted) /\ p.buf \in Seq(Reports)
    BY <1>3 DEF Follows, Harmless
  <2>3. ASSUME NEW m \in Module PROVE Belt(m, b[m], p.out \o v) = p.motor[m]
    <3>1. Belt(m, b[m], p.out \o v) = Belt(m, Belt(m, b[m], p.out), v)
      BY <2>2, BeltJoined
    <3> QED BY <1>3, <3>1 DEF Follows, Harmless
  <2>4. x.out \in Seq(Emitted)
    BY <2>1, <2>2
  <2>5. Follows(x, b)
    BY <2>1, <2>2, <2>3, <2>4 DEF Follows
  <2> QED BY <2>5 DEF x
<1>7. Follows([p EXCEPT !.buf = Append(p.buf, Report(e[1], "ITEM_APPEARED", e[3]))], b)
  <2> DEFINE q == Report(e[1], "ITEM_APPEARED", e[3])
             x == [p EXCEPT !.buf = Append(p.buf, q)]
  <2>1. x.out = p.out /\ x.buf = Append(p.buf, q) /\ x.motor = p.motor
    OBVIOUS
  <2>2. q \in Reports
    BY DEF Reports
  <2> HIDE DEF x, q
  <2>3. p.buf \in Seq(Reports)
    BY <1>3 DEF Follows
  <2>4. Follows(x, b)
    BY <1>3, <2>1, <2>2, <2>3 DEF Follows
  <2> QED BY <2>4 DEF x, q
<1>8. Follows(h, b)
  BY <1>3, <1>4, <1>5, <1>6, <1>7
<1> QED BY <1>8 DEF Follows, h, b

\* Whatever the analyser decides, its packets move no motor.
LEMMA VerdictsHarmless ==
    ASSUME NEW m \in Module, NEW full, NEW v \in Verdicts(m, full) \cup {<<>>}
    PROVE  Harmless(v)
<1> DEFINE keep == Command(m, "KEEP_NEXT")
           ramp2 == Packet("MASTER", "M", "Run", "RAMP_FULL", "START")
           lost == Report("M", "ANALYSE", "START")
<1>1. keep \in Emitted /\ ramp2 \in Emitted /\ lost \in Emitted
  BY DEF Emitted, Orders, FullRamps, Reports, Module, Light
<1>2. \A s \in Module : ~TellsMotor(keep, s) /\ ~TellsMotor(ramp2, s) /\ ~TellsMotor(lost, s)
  BY DEF TellsMotor, Command, Report, Packet, Module
<1>3. \A a : Evaluate(a, m, full) \in {<<keep>>, <<ramp2>>, <<>>}
  BY DEF Evaluate, Keep
<1>4. \E w \in {<<keep>>, <<ramp2>>, <<>>} : v = w \/ v = <<lost>> \o w
  <2>1. (\E a : v = Evaluate(a, m, full)) \/ (\E a : v = <<lost>> \o Evaluate(a, m, full)) \/ v = <<>>
    BY DEF Verdicts
  <2> HIDE DEF keep, ramp2, lost
  <2> QED BY <1>3, <2>1
<1> HIDE DEF keep, ramp2, lost
<1> DEFINE X == {keep, ramp2, lost}
<1>5. v \in Seq(X)
  <2>1. <<lost>> \in Seq(X) /\ \A w \in {<<keep>>, <<ramp2>>, <<>>} : w \in Seq(X)
    OBVIOUS
  <2>2. \A w \in Seq(X) : <<lost>> \o w \in Seq(X)
    BY <2>1
  <2> QED BY <1>4, <2>1, <2>2
<1>6. v \in Seq(Emitted)
  BY <1>1, <1>5
<1>7. \A s \in Module : \A p \in X : ~TellsMotor(p, s)
  BY <1>2
<1> HIDE DEF X
<1>8. ASSUME NEW s \in Module, NEW w PROVE Belt(s, w, v) = w
  BY <1>5, <1>7, Silent
<1> QED BY <1>6, <1>8 DEF Harmless

-----------------------------------------------------------------------------
(***************************************************************************)
(* What the master sends besides: answers to a stop request, the mode it   *)
(* enters, and the errors it passes on.                                    *)
(***************************************************************************)
Text == Passages \cup {"ITEM_DISAPPEARED", "ITEM_STUCK", "ITEM_APPEARED", "CONFIG", "VALID", "RUN",
                       "FIXED", "IDLE", "READY", "START", "DONE", "RAMP_FULL", "REQUEST_STOP",
                       "ESTOP", "WARNING"}

Answers   == {Packet("MASTER", s, "Master", x, "START") : s \in Module, x \in {"IDLE", "READY"}}
Announced == {Packet(m, "MASTER", "Base", Mode(l), "START") : m \in Module, l \in Leaf}
Alarms    == {Packet(m, "MASTER", "Error", x, at) : m \in Module, x \in Text, at \in Light}
Own       == Answers \cup FullRamps \cup Reports
Sent      == Answers \cup Emitted \cup Announced \cup Alarms

\* What the master takes from its queue.
Incoming(p) ==
    /\ p.msg \in Text /\ p.at \in Light
    /\ p.src \in Module \/ (p.kind = "Error" /\ p.msg = "RAMP_FULL")

\* What the master sends to itself it can take.
LEMMA OwnIncoming == \A p \in Own : Incoming(p) /\ p.to = "MASTER"
<1> USE DEF Incoming, Report, Packet, Text
<1>1. "START" \in Light
  BY DEF Light
<1>2. \A p \in Answers : Incoming(p) /\ p.to = "MASTER"
  BY <1>1 DEF Answers
<1>3. \A p \in FullRamps : Incoming(p) /\ p.to = "MASTER"
  BY <1>1 DEF FullRamps, Module
<1>4. \A p \in Reports : Incoming(p) /\ p.to = "MASTER"
  BY DEF Reports, Passages
<1> QED BY <1>2, <1>3, <1>4 DEF Own

\* The part of what is sent that comes back to the master.
LEMMA SentToMaster == \A p \in Sent : p.to = "MASTER" => [p EXCEPT !.at = "START"] \in Own
<1>1. \A p \in Orders \cup Announced \cup Alarms : p.to # "MASTER"
  BY DEF Orders, Announced, Alarms, Command, Packet, Module
<1>2. \A p \in Answers \cup FullRamps : [p EXCEPT !.at = "START"] = p
  BY DEF Answers, FullRamps, Report, Packet
<1>3. \A s, x, at : [Report(s, x, at) EXCEPT !.at = "START"] = Report(s, x, "START")
  BY DEF Report, Packet
<1>4. \A p \in Reports : [p EXCEPT !.at = "START"] \in Reports
  BY <1>3 DEF Reports, Light
<1> QED BY <1>1, <1>2, <1>4 DEF Sent, Emitted, Own

\* hsm::Manager::enter tells both modules the mode, which stops their motors.
LEMMA AnnounceTells ==
    ASSUME NEW l \in Leaf, NEW m \in Module, NEW was
    PROVE  /\ Announce(Mode(l)) \in Seq(Announced)
           /\ Told(m, was, Announce(Mode(l))) = Mode(l)
           /\ Belt(m, was, Announce(Mode(l))) = "SUSPEND"
<1> DEFINE p == Packet("M", "MASTER", "Base", Mode(l), "START")
           q == Packet("S", "MASTER", "Base", Mode(l), "START")
<1>1. p \in Announced /\ q \in Announced
  BY DEF Announced, Module
<1>2. Announce(Mode(l)) = <<p>> \o <<q>>
  BY DEF Announce
<1>3. /\ TellsMode(p, m) <=> m = "M"
      /\ TellsMode(q, m) <=> m = "S"
      /\ TellsMotor(p, m) <=> m = "M"
      /\ TellsMotor(q, m) <=> m = "S"
  BY DEF TellsMode, TellsMotor, Packet, Module
<1>4. ModeIn(p) = Mode(l) /\ ModeIn(q) = Mode(l) /\ MotorIn(p) = "SUSPEND" /\ MotorIn(q) = "SUSPEND"
  BY DEF ModeIn, MotorIn, Packet
<1> HIDE DEF p, q
<1>5. <<p>> \in Seq(Announced) /\ <<q>> \in Seq(Announced)
  BY <1>1
<1>6. Told(m, was, <<p>> \o <<q>>) = Told(m, Told(m, was, <<p>>), <<q>>)
  BY <1>5, ToldJoined
<1>7. Belt(m, was, <<p>> \o <<q>>) = Belt(m, Belt(m, was, <<p>>), <<q>>)
  BY <1>5, BeltJoined
<1>8. \A w : /\ Told(m, w, <<p>>) = (IF m = "M" THEN Mode(l) ELSE w)
             /\ Told(m, w, <<q>>) = (IF m = "S" THEN Mode(l) ELSE w)
             /\ Belt(m, w, <<p>>) = (IF m = "M" THEN "SUSPEND" ELSE w)
             /\ Belt(m, w, <<q>>) = (IF m = "S" THEN "SUSPEND" ELSE w)
  BY <1>3, <1>4, ToldFew, BeltFew
<1>9. Announce(Mode(l)) \in Seq(Announced)
  BY <1>2, <1>5
<1> QED BY <1>2, <1>6, <1>7, <1>8, <1>9 DEF Module

\* hsm::Error::handle tells both modules.
LEMMA ForwardTells ==
    ASSUME NEW p, p.kind = "Error", Incoming(p), NEW m \in Module, NEW was
    PROVE  /\ Forward(p) \in Seq(Alarms)
           /\ Told(m, was, Forward(p)) = "error"
           /\ Belt(m, was, Forward(p)) = "SUSPEND"
<1>1. PICK a \in Module, b \in Module, x \in Text, y \in Text, i \in Light, j \in Light :
         /\ a # b
         /\ Forward(p) = <<Packet(a, "MASTER", "Error", x, i), Packet(b, "MASTER", "Error", y, j)>>
  <2>1. CASE p.msg \in {"CONFIG", "ESTOP", "RAMP_FULL"}
    <3>1. Forward(p) = <<Packet("M", "MASTER", "Error", p.msg, p.at), Packet("S", "MASTER", "Error", p.msg, p.at)>>
      BY <2>1 DEF Forward
    <3> QED BY <3>1 DEF Incoming, Module
  <2>2. CASE p.msg \notin {"CONFIG", "ESTOP", "RAMP_FULL"}
    <3>1. Forward(p) = <<Packet(Other(p.src), "MASTER", "Error", "WARNING", "START"),
                         Packet(p.src, "MASTER", "Error", p.msg, p.at)>>
      BY <2>2 DEF Forward
    <3>2. p.src \in Module /\ Other(p.src) \in Module /\ Other(p.src) # p.src
      BY <2>2 DEF Incoming, Other, Module
    <3>3. "START" \in Light /\ "WARNING" \in Text
      BY DEF Light, Text
    <3> QED BY <3>1, <3>2, <3>3 DEF Incoming
  <2> QED BY <2>1, <2>2
<1> DEFINE q == Packet(a, "MASTER", "Error", x, i)
           r == Packet(b, "MASTER", "Error", y, j)
<1>2. q \in Alarms /\ r \in Alarms
  BY DEF Alarms
<1>3. /\ TellsMode(q, m) <=> m = a
      /\ TellsMode(r, m) <=> m = b
      /\ TellsMotor(q, m) <=> m = a
      /\ TellsMotor(r, m) <=> m = b
  BY DEF TellsMode, TellsMotor, Packet
<1>4. ModeIn(q) = "error" /\ ModeIn(r) = "error" /\ MotorIn(q) = "SUSPEND" /\ MotorIn(r) = "SUSPEND"
  BY DEF ModeIn, MotorIn, Packet
<1>5. Forward(p) = <<q>> \o <<r>>
  BY <1>1
<1> HIDE DEF q, r
<1>6. <<q>> \in Seq(Alarms) /\ <<r>> \in Seq(Alarms)
  BY <1>2
<1>7. Told(m, was, <<q>> \o <<r>>) = Told(m, Told(m, was, <<q>>), <<r>>)
  BY <1>6, ToldJoined
<1>8. Belt(m, was, <<q>> \o <<r>>) = Belt(m, Belt(m, was, <<q>>), <<r>>)
  BY <1>6, BeltJoined
<1>9. \A w : /\ Told(m, w, <<q>>) = (IF m = a THEN "error" ELSE w)
             /\ Told(m, w, <<r>>) = (IF m = b THEN "error" ELSE w)
             /\ Belt(m, w, <<q>>) = (IF m = a THEN "SUSPEND" ELSE w)
             /\ Belt(m, w, <<r>>) = (IF m = b THEN "SUSPEND" ELSE w)
  BY <1>3, <1>4, ToldFew, BeltFew
<1>10. m = a \/ m = b
  BY <1>1 DEF Module
<1>11. Forward(p) \in Seq(Alarms)
  BY <1>5, <1>6
<1> QED BY <1>5, <1>7, <1>8, <1>9, <1>10, <1>11

\* hsm::Run::enter restores the motors that the change of mode has stopped.
LEMMA ResendTells ==
    ASSUME NEW n, Sound(n), NEW m \in Module
    PROVE  /\ Resend(n).out \in Seq(Emitted)
           /\ Belt(m, "SUSPEND", Resend(n).out) = n.motor[m]
<1> DEFINE a == IF n.tok["RUNNING"] > 0 THEN <<Command("M", "RESUME")>> ELSE <<>>
           b == IF M2Busy(n.tok) THEN <<Command("S", "RESUME")>> ELSE <<>>
<1>1. Resend(n).out = a \o b
  BY DEF Resend
<1>2. Command("M", "RESUME") \in Emitted /\ Command("S", "RESUME") \in Emitted
  BY DEF Emitted, Orders, Module
<1>3. a \in Seq(Emitted) /\ b \in Seq(Emitted)
  BY <1>2
<1>4. \A w : \A k \in Module : Belt(m, w, <<Command(k, "RESUME")>>) = IF k = m THEN "RESUME" ELSE w
  BY BeltFew DEF TellsMotor, MotorIn, Command, Packet
<1>5. \A w : Belt(m, w, <<>>) = w
  BY BeltFew
<1>6. \A w : Belt(m, w, a) = IF m = "M" /\ n.tok["RUNNING"] > 0 THEN "RESUME" ELSE w
  BY <1>4, <1>5 DEF Module
<1>7. \A w : Belt(m, w, b) = IF m = "S" /\ M2Busy(n.tok) THEN "RESUME" ELSE w
  BY <1>4, <1>5 DEF Module
<1> HIDE DEF a, b
<1>8. Belt(m, "SUSPEND", a \o b) = Belt(m, Belt(m, "SUSPEND", a), b)
  BY <1>3, BeltJoined
<1>9. n.tok["RUNNING"] \in {0, 1}
  <2>1. /\ n.tok["RUN_RDY"] \in Nat /\ n.tok["RUNNING"] \in Nat /\ n.tok["RUN_PAUSED"] \in Nat
        /\ n.tok["RUN_RDY"] + n.tok["RUNNING"] + n.tok["RUN_PAUSED"] = 1
    BY SoundMarks DEF Marks
  <2>2. \A x, y, z \in Nat : x + y + z = 1 => y \in {0, 1}
    OBVIOUS
  <2> QED BY <2>1, <2>2
<1>10. n.motor["M"] \in {"RESUME", "SUSPEND"} /\ n.motor["S"] \in {"RESUME", "SUSPEND"}
  BY DEF Sound, Typed
<1>11. (n.motor["M"] = "RESUME" <=> n.tok["RUNNING"] = 1) /\ (n.motor["S"] = "RESUME" <=> M2Busy(n.tok))
  BY DEF Sound, MotorsMatch
<1>12. CASE m = "M"
  <2>1. n.tok["RUNNING"] > 0 <=> n.tok["RUNNING"] = 1
    BY <1>9
  <2> QED BY <1>1, <1>3, <1>6, <1>7, <1>8, <1>10, <1>11, <1>12, <2>1
<1>13. CASE m = "S"
  BY <1>1, <1>3, <1>6, <1>7, <1>8, <1>10, <1>11, <1>13
<1> QED BY <1>12, <1>13 DEF Module

-----------------------------------------------------------------------------
(***************************************************************************)
(* All that Master::accept sends for one packet, in order.                 *)
(***************************************************************************)
Sends(p, k, after) ==
    StopAnswer(p) \o OnTheWay(leaf, k) \o Entered(leaf, k) \o after.out
      \o (IF k = "error_both" THEN Forward(p) ELSE <<>>)

\* The five parts of what a call sends, one after the other.
LEMMA SentJoined ==
    ASSUME NEW a \in Seq(Sent), NEW b \in Seq(Sent), NEW c \in Seq(Sent), NEW d \in Seq(Sent), NEW e \in Seq(Sent)
    PROVE  /\ a \o b \o c \o d \o e \in Seq(Sent)
           /\ \A m, w : Told(m, w, a \o b \o c \o d \o e)
                          = Told(m, Told(m, Told(m, Told(m, Told(m, w, a), b), c), d), e)
           /\ \A m, w : Belt(m, w, a \o b \o c \o d \o e)
                          = Belt(m, Belt(m, Belt(m, Belt(m, Belt(m, w, a), b), c), d), e)
<1>1. \A x, y \in Seq(Sent) : /\ x \o y \in Seq(Sent)
                              /\ \A m, w : Told(m, w, x \o y) = Told(m, Told(m, w, x), y)
                              /\ \A m, w : Belt(m, w, x \o y) = Belt(m, Belt(m, w, x), y)
  BY ToldJoined, BeltJoined
<1> DEFINE ab == a \o b
           abc == ab \o c
           abcd == abc \o d
<1>2. ab \in Seq(Sent)
  BY <1>1
<1> HIDE DEF ab
<1>3. abc \in Seq(Sent)
  BY <1>1, <1>2
<1> HIDE DEF abc
<1>4. abcd \in Seq(Sent)
  BY <1>1, <1>3
<1> HIDE DEF abcd
<1>5. abcd \o e \in Seq(Sent)
  BY <1>1, <1>4
<1>6. ASSUME NEW m, NEW w
      PROVE  Told(m, w, abcd \o e) = Told(m, Told(m, Told(m, Told(m, Told(m, w, a), b), c), d), e)
  <2>1. Told(m, w, ab) = Told(m, Told(m, w, a), b)
    BY <1>1 DEF ab
  <2>2. Told(m, w, abc) = Told(m, Told(m, w, ab), c)
    BY <1>1, <1>2 DEF abc
  <2>3. Told(m, w, abcd) = Told(m, Told(m, w, abc), d)
    BY <1>1, <1>3 DEF abcd
  <2>4. Told(m, w, abcd \o e) = Told(m, Told(m, w, abcd), e)
    BY <1>1, <1>4
  <2> QED BY <2>1, <2>2, <2>3, <2>4
<1>7. ASSUME NEW m, NEW w
      PROVE  Belt(m, w, abcd \o e) = Belt(m, Belt(m, Belt(m, Belt(m, Belt(m, w, a), b), c), d), e)
  <2>1. Belt(m, w, ab) = Belt(m, Belt(m, w, a), b)
    BY <1>1 DEF ab
  <2>2. Belt(m, w, abc) = Belt(m, Belt(m, w, ab), c)
    BY <1>1, <1>2 DEF abc
  <2>3. Belt(m, w, abcd) = Belt(m, Belt(m, w, abc), d)
    BY <1>1, <1>3 DEF abcd
  <2>4. Belt(m, w, abcd \o e) = Belt(m, Belt(m, w, abcd), e)
    BY <1>1, <1>4
  <2> QED BY <2>1, <2>2, <2>3, <2>4
<1> QED BY <1>5, <1>6, <1>7 DEF ab, abc, abcd

\* The motors b are those the tracker calls for in run, and stopped outside
\* run and config.
Agree(l, b, motor) ==
    /\ l \in RunLeaf => \A m \in Module : b[m] = motor[m]
    /\ l \notin RunLeaf \cup ConfigLeaf => \A m \in Module : b[m] = "SUSPEND"

\* What is sent on a transition concerns motors in config only.
LEMMA OnTheWayTells ==
    ASSUME NEW k, NEW m \in Module, NEW was
    PROVE  /\ OnTheWay(leaf, k) \in Seq(Emitted)
           /\ Told(m, was, OnTheWay(leaf, k)) = was
           /\ k \notin ConfigLeaf => Belt(m, was, OnTheWay(leaf, k)) = was
<1>1. OnTheWay(leaf, k) \in Seq(Emitted)
  <2>1. /\ Command("M", "RESUME") \in Emitted /\ Command("S", "RESUME") \in Emitted
        /\ Command("M", "SUSPEND") \in Emitted /\ Report("MASTER", "RAMP_FULL", "START") \in Emitted
    BY DEF Emitted, Orders, FullRamps, Module
  <2> QED BY <2>1 DEF OnTheWay
<1>2. Told(m, was, OnTheWay(leaf, k)) = was
  BY <1>1, EmittedTells, Silent
<1>3. ASSUME k \notin ConfigLeaf PROVE Belt(m, was, OnTheWay(leaf, k)) = was
  <2>1. OnTheWay(leaf, k) \in Seq(FullRamps)
    BY <1>3 DEF OnTheWay, ConfigLeaf, FullRamps
  <2>2. \A p \in FullRamps : ~TellsMotor(p, m)
    BY EmittedTells
  <2> QED BY <2>1, <2>2, Silent
<1> QED BY <1>1, <1>2, <1>3

\* Entering a state of another mode, errors aside, announces the mode; run
\* also brings the motors back.
LEMMA EnteredTells ==
    ASSUME Sound(net), NEW k \in Leaf, NEW m \in Module, NEW was, NEW v
    PROVE  /\ Entered(leaf, k) \in Seq(Announced \cup Emitted)
           /\ Mode(leaf) = Mode(k) \/ k \in ErrorLeaf =>
                Told(m, was, Entered(leaf, k)) = was /\ Belt(m, v, Entered(leaf, k)) = v
           /\ Mode(leaf) # Mode(k) /\ k \notin ErrorLeaf =>
                /\ Told(m, was, Entered(leaf, k)) = Mode(k)
                /\ Belt(m, v, Entered(leaf, k)) = IF k \in RunLeaf THEN net.motor[m] ELSE "SUSPEND"
<1>1. Mode(k) = "error" <=> k \in ErrorLeaf
  BY DEF Mode, Leaf, RunLeaf, ErrorLeaf, ConfigLeaf, IdleLeaf
<1>2. CASE Mode(leaf) = Mode(k) \/ k \in ErrorLeaf
  <2>1. Entered(leaf, k) = <<>>
    BY <1>1, <1>2 DEF Entered
  <2>2. Told(m, was, <<>>) = was /\ Belt(m, v, <<>>) = v
    BY ToldFew, BeltFew
  <2>3. <<>> \in Seq(Announced \cup Emitted)
    OBVIOUS
  <2> QED BY <1>2, <2>1, <2>2, <2>3
<1>3. CASE Mode(leaf) # Mode(k) /\ k \notin ErrorLeaf
  <2> DEFINE a == Announce(Mode(k))
             b == IF k \in RunLeaf THEN Resend(net).out ELSE <<>>
             X == Announced \cup Emitted
  <2>1. Entered(leaf, k) = a \o b
    BY <1>1, <1>3 DEF Entered
  <2>2. a \in Seq(Announced) /\ Told(m, was, a) = Mode(k) /\ Belt(m, v, a) = "SUSPEND"
    BY AnnounceTells
  <2>3. b \in Seq(Emitted) /\ Belt(m, "SUSPEND", b) = IF k \in RunLeaf THEN net.motor[m] ELSE "SUSPEND"
    <3>1. Resend(net).out \in Seq(Emitted) /\ Belt(m, "SUSPEND", Resend(net).out) = net.motor[m]
      BY ResendTells
    <3>2. <<>> \in Seq(Emitted)
      OBVIOUS
    <3>3. Belt(m, "SUSPEND", <<>>) = "SUSPEND"
      BY BeltFew
    <3> QED BY <3>1, <3>2, <3>3
  <2> HIDE DEF a, b
  <2>4. Told(m, Mode(k), b) = Mode(k)
    BY <2>3, EmittedTells, Silent
  <2>5. a \in Seq(X) /\ b \in Seq(X)
    BY <2>2, <2>3
  <2> HIDE DEF X
  <2>6. Told(m, was, a \o b) = Mode(k)
    BY <2>2, <2>4, <2>5, ToldJoined
  <2>7. Belt(m, v, a \o b) = IF k \in RunLeaf THEN net.motor[m] ELSE "SUSPEND"
    BY <2>2, <2>3, <2>5, BeltJoined
  <2>8. a \o b \in Seq(X)
    BY <2>5
  <2> QED BY <1>3, <2>1, <2>6, <2>7, <2>8 DEF X
<1> QED BY <1>2, <1>3

\* What the tracker is asked in this call.
Answering(n, p, k, v) == /\ Incoming(p) /\ n.buf = <<>> /\ Sound(n)
                         /\ n.motor = net.motor
                         /\ k \in RunLeaf => Harmless(v)

\* The tracker's part of the call.
LEMMA TrackedTells ==
    ASSUME NEW n, NEW p, NEW k, NEW v, Answering(n, p, k, v), k \in RunLeaf => p.src \in Module,
           NEW m \in Module
    PROVE  LET a == Tracked(n, k, p, v)
           IN  /\ Sound(a) /\ a.buf = <<>> /\ a.out \in Seq(Emitted)
               /\ k \in RunLeaf => Belt(m, net.motor[m], a.out) = a.motor[m]
               /\ k \notin RunLeaf => a.out = <<>>
<1> DEFINE a == Tracked(n, k, p, v)
<1>1. CASE k \in RunLeaf
  <2> DEFINE e == <<p.src, p.msg, p.at>>
  <2>1. a = Handle(n, e, v)
    BY <1>1 DEF Tracked
  <2>2. e[1] \in Module /\ e[3] \in Light
    BY <1>1 DEF Answering, Incoming
  <2>3. n.buf = <<>> /\ Sound(n) /\ Harmless(v) /\ n.motor = net.motor
    BY <1>1 DEF Answering
  <2> HIDE DEF a, e
  <2>4. Sound(a) /\ a.buf = <<>>
    BY <2>1, <2>3, HandleSound, HandleFlushes
  <2>5. a.out \in Seq(Emitted) /\ Belt(m, n.motor[m], a.out) = a.motor[m]
    BY <2>1, <2>2, <2>3, HandleFollows
  <2> QED BY <1>1, <2>3, <2>4, <2>5 DEF a
<1>2. CASE k \notin RunLeaf
  <2>1. a = [n EXCEPT !.out = <<>>]
    BY <1>2 DEF Tracked
  <2>2. /\ a.tok = n.tok /\ a.size = n.size /\ a.motor = n.motor /\ a.expecting = n.expecting
        /\ a.out = <<>> /\ a.buf = n.buf
    BY <2>1
  <2> HIDE DEF a
  <2>3. Sound(a)
    <3>1. n.expecting \in Nat
      BY DEF Answering, Sound, Typed
    <3>2. Sound(n)
      BY DEF Answering
    <3> QED BY <2>2, <3>1, <3>2, OnlyBookkeeping
  <2>4. a.out \in Seq(Emitted)
    BY <2>2
  <2> QED BY <1>2, <2>2, <2>3, <2>4 DEF a, Answering
<1> QED BY <1>1, <1>2

\* The packets of one call leave both modules in the mode of the master, and
\* their motors as the tracker wants them in run and stopped outside run and
\* config.
LEMMA SendsTells ==
    ASSUME leaf \in Leaf, lastRun \in RunLeaf, Sound(net), NEW n, NEW p, NEW v, NEW k,
           k = Target(leaf, EventOf(p)), Answering(n, p, k, v),
           Agree(leaf, belt, net.motor), NEW m \in Module, told[m] = Mode(leaf)
    PROVE  LET a == Tracked(n, k, p, v)
               out == Sends(p, k, a)
           IN  /\ out \in Seq(Sent)
               /\ Told(m, told[m], out) = Mode(k)
               /\ k \in RunLeaf => Belt(m, belt[m], out) = a.motor[m]
               /\ k \notin RunLeaf \cup ConfigLeaf => Belt(m, belt[m], out) = "SUSPEND"
<1> DEFINE l == leaf
           e == EventOf(p)
           a == Tracked(n, k, p, v)
           s == StopAnswer(p)
           w == OnTheWay(l, k)
           t == Entered(l, k)
           f == IF k = "error_both" THEN Forward(p) ELSE <<>>
           out == Sends(p, k, a)
<1>1. /\ k \in Leaf
      /\ e = Error => k = "error_both"
      /\ k = "error_both" /\ l # "error_both" => e = Error
      /\ k \in ErrorLeaf /\ l \notin ErrorLeaf => k = "error_both"
  <2> HIDE DEF e
  <2> QED BY Course DEF e
<1>2. e = Error <=> p.kind = "Error"
  BY DEF EventOf, Error, On
<1>3. k \in RunLeaf => p.src \in Module
  BY <1>1, <1>2 DEF RunLeaf, Answering, Incoming
<1>4. /\ Sound(a) /\ a.buf = <<>> /\ a.out \in Seq(Emitted)
      /\ k \in RunLeaf => Belt(m, net.motor[m], a.out) = a.motor[m]
      /\ k \notin RunLeaf => a.out = <<>>
  BY <1>3, TrackedTells
<1>5. s \in Seq(Answers) /\ Told(m, told[m], s) = told[m] /\ Belt(m, belt[m], s) = belt[m]
  <2>1. s \in Seq(Answers)
    <3>1. CASE p.kind = "Run" /\ p.msg = "REQUEST_STOP"
      <4>1. p.src \in Module
        BY <3>1 DEF Answering, Incoming
      <4>2. Packet("MASTER", p.src, "Master", IF IsEmpty(net) THEN "IDLE" ELSE "READY", "START") \in Answers
        BY <4>1 DEF Answers
      <4> QED BY <3>1, <4>2 DEF StopAnswer
    <3>2. CASE ~(p.kind = "Run" /\ p.msg = "REQUEST_STOP")
      BY <3>2 DEF StopAnswer
    <3> QED BY <3>1, <3>2
  <2>2. \A q \in Answers : ~TellsMode(q, m) /\ ~TellsMotor(q, m)
    BY DEF Answers, Packet, TellsMode, TellsMotor, Module
  <2> HIDE DEF s
  <2> QED BY <2>1, <2>2, Silent
<1>6. /\ w \in Seq(Emitted) /\ Told(m, told[m], w) = told[m]
      /\ k \notin ConfigLeaf => Belt(m, belt[m], w) = belt[m]
  BY OnTheWayTells
<1>7. /\ t \in Seq(Announced \cup Emitted)
      /\ Mode(l) = Mode(k) \/ k \in ErrorLeaf =>
           Told(m, told[m], t) = told[m] /\ \A x : Belt(m, x, t) = x
      /\ Mode(l) # Mode(k) /\ k \notin ErrorLeaf =>
           /\ Told(m, told[m], t) = Mode(k)
           /\ \A x : Belt(m, x, t) = IF k \in RunLeaf THEN net.motor[m] ELSE "SUSPEND"
  <2> HIDE DEF t
  <2> QED BY <1>1, EnteredTells DEF t
<1>8. f \in Seq(Alarms)
  <2>1. p.kind = "Error" => Forward(p) \in Seq(Alarms)
    BY ForwardTells DEF Answering
  <2>2. p.kind # "Error" => Forward(p) = <<>>
    BY DEF Forward
  <2>3. <<>> \in Seq(Alarms)
    OBVIOUS
  <2> QED BY <2>1, <2>2, <2>3
<1>9. Told(m, Mode(k), a.out) = Mode(k)
  BY <1>4, EmittedTells, Silent
<1>10. out = s \o w \o t \o a.out \o f
  BY DEF Sends
<1> HIDE DEF s, w, t, f, out, a, e
<1>11. /\ out \in Seq(Sent)
       /\ Told(m, told[m], out) = Told(m, Told(m, Told(m, Told(m, Told(m, told[m], s), w), t), a.out), f)
       /\ Belt(m, belt[m], out) = Belt(m, Belt(m, Belt(m, Belt(m, Belt(m, belt[m], s), w), t), a.out), f)
  <2>1. Answers \subseteq Sent /\ Emitted \subseteq Sent /\ Announced \cup Emitted \subseteq Sent /\ Alarms \subseteq Sent
    BY DEF Sent
  <2>2. s \in Seq(Sent) /\ w \in Seq(Sent) /\ t \in Seq(Sent) /\ a.out \in Seq(Sent) /\ f \in Seq(Sent)
    <3>1. \A A : A \subseteq Sent => Seq(A) \subseteq Seq(Sent)
      OBVIOUS
    <3> QED BY <1>4, <1>5, <1>6, <1>7, <1>8, <2>1, <3>1
  <2> DEFINE o == a.out
  <2>3. o \in Seq(Sent)
    BY <2>2
  <2> HIDE DEF o
  <2>4. s \o w \o t \o o \o f \in Seq(Sent)
    BY <2>2, <2>3, SentJoined
  <2>5. Told(m, told[m], s \o w \o t \o o \o f)
          = Told(m, Told(m, Told(m, Told(m, Told(m, told[m], s), w), t), o), f)
    BY <2>2, <2>3, SentJoined
  <2>6. Belt(m, belt[m], s \o w \o t \o o \o f)
          = Belt(m, Belt(m, Belt(m, Belt(m, Belt(m, belt[m], s), w), t), o), f)
    BY <2>2, <2>3, SentJoined
  <2> QED BY <1>10, <2>4, <2>5, <2>6 DEF o
<1>12. Told(m, told[m], out) = Told(m, Told(m, Told(m, Mode(l), t), a.out), f)
  BY <1>5, <1>6, <1>11
<1>13. k \notin ConfigLeaf => Belt(m, belt[m], out) = Belt(m, Belt(m, Belt(m, belt[m], t), a.out), f)
  BY <1>5, <1>6, <1>11
<1>14. \A x : Told(m, x, <<>>) = x /\ Belt(m, x, <<>>) = x
  BY ToldFew, BeltFew
<1>15. CASE k \in ErrorLeaf
  <2>1. Told(m, Mode(l), t) = Mode(l) /\ Belt(m, belt[m], t) = belt[m] /\ a.out = <<>>
    <3>1. k \notin RunLeaf
      BY <1>15 DEF ErrorLeaf, RunLeaf
    <3> QED BY <1>4, <1>7, <1>15, <3>1
  <2>2. k \notin ConfigLeaf /\ k \notin RunLeaf /\ Mode(k) = "error"
    BY <1>15 DEF ErrorLeaf, ConfigLeaf, RunLeaf, IdleLeaf, Mode
  <2>3. Told(m, told[m], out) = Told(m, Mode(l), f) /\ Belt(m, belt[m], out) = Belt(m, belt[m], f)
    BY <1>12, <1>13, <1>14, <2>1, <2>2
  <2>4. CASE p.kind = "Error"
    <3>1. f = Forward(p)
      BY <1>1, <1>2, <2>4 DEF f
    <3>2. Told(m, Mode(l), f) = "error" /\ Belt(m, belt[m], f) = "SUSPEND"
      BY <2>4, <3>1, ForwardTells DEF Answering
    <3> QED BY <1>11, <2>2, <2>3, <3>2 DEF out, a
  <2>5. CASE p.kind # "Error"
    <3>1. f = <<>>
      BY <2>5 DEF f, Forward
    <3>2. l \in ErrorLeaf
      BY <1>1, <1>2, <1>15, <2>5 DEF ErrorLeaf
    <3>3. Mode(l) = "error" /\ belt[m] = "SUSPEND"
      BY <3>2 DEF Mode, ErrorLeaf, RunLeaf, ConfigLeaf, IdleLeaf, Agree
    <3> QED BY <1>11, <1>14, <2>2, <2>3, <3>1, <3>3 DEF out, a
  <2> QED BY <2>4, <2>5
<1>16. CASE k \notin ErrorLeaf
  <2>1. f = <<>>
    BY <1>16 DEF f, ErrorLeaf
  <2>2. Told(m, Mode(l), t) = Mode(k)
    BY <1>7, <1>16
  <2>3. Told(m, told[m], out) = Mode(k)
    BY <1>9, <1>12, <1>14, <2>1, <2>2
  <2>4. k \notin ConfigLeaf => Belt(m, belt[m], out) = Belt(m, Belt(m, belt[m], t), a.out)
    BY <1>13, <1>14, <2>1
  <2>5. ASSUME k \in RunLeaf PROVE Belt(m, belt[m], out) = a.motor[m]
    <3>1. k \notin ConfigLeaf
      BY <2>5 DEF RunLeaf, ConfigLeaf
    <3>2. CASE Mode(l) = Mode(k)
      <4>1. l \in RunLeaf
        BY <2>5, <3>2 DEF Mode, Leaf, RunLeaf, ErrorLeaf, ConfigLeaf, IdleLeaf
      <4>2. belt[m] = net.motor[m]
        BY <4>1 DEF Agree
      <4>3. Belt(m, belt[m], t) = net.motor[m]
        BY <1>7, <3>2, <4>2
      <4> QED BY <1>4, <2>4, <2>5, <3>1, <4>3
    <3>3. CASE Mode(l) # Mode(k)
      <4>1. Belt(m, belt[m], t) = net.motor[m]
        BY <1>7, <1>16, <2>5, <3>3
      <4> QED BY <1>4, <2>4, <2>5, <3>1, <4>1
    <3> QED BY <3>2, <3>3
  <2>6. ASSUME k \notin RunLeaf \cup ConfigLeaf PROVE Belt(m, belt[m], out) = "SUSPEND"
    <3>1. Belt(m, belt[m], out) = Belt(m, belt[m], t)
      BY <1>4, <1>14, <2>4, <2>6
    <3>2. CASE Mode(l) = Mode(k)
      <4>1. l \notin RunLeaf \cup ConfigLeaf
        BY <1>1, <2>6, <3>2 DEF Mode, Leaf, RunLeaf, ErrorLeaf, ConfigLeaf, IdleLeaf
      <4>2. belt[m] = "SUSPEND"
        BY <4>1 DEF Agree
      <4> QED BY <1>7, <3>1, <3>2, <4>2
    <3>3. CASE Mode(l) # Mode(k)
      BY <1>7, <1>16, <2>6, <3>1, <3>3
    <3> QED BY <3>2, <3>3
  <2> QED BY <1>11, <2>3, <2>5, <2>6 DEF out, a
<1> QED BY <1>15, <1>16

\* A motor that was moving or stopped is so after any packets.
LEMMA BeltTyped ==
    ASSUME NEW X, NEW out \in Seq(X), NEW m, NEW was \in {"RESUME", "SUSPEND"}
    PROVE  Belt(m, was, out) \in {"RESUME", "SUSPEND"}
<1>1. DOMAIN out = 1..Len(out) /\ Len(out) \in Nat
  OBVIOUS
<1>2. Motors(m, out) \subseteq 1..Len(out)
  BY <1>1 DEF Motors
<1>3. CASE Motors(m, out) = {}
  BY <1>3, BeltIs
<1>4. CASE Motors(m, out) # {}
  <2>1. Last(Motors(m, out)) \in Motors(m, out)
    BY <1>1, <1>2, <1>4, LastIs
  <2>2. TellsMotor(out[Last(Motors(m, out))], m)
    BY <2>1 DEF Motors
  <2> QED BY <1>4, <2>2, BeltIs DEF TellsMotor, MotorIn
<1> QED BY <1>3, <1>4

-----------------------------------------------------------------------------
(***************************************************************************)
(* The inductive invariant.  Besides what the properties say it holds the  *)
(* tracker sound, the memory of the run machine on the leaf while the      *)
(* master runs, who has already fixed the error in the leaves that wait    *)
(* for the other module, and nothing in the queue but what the master      *)
(* sends to itself.                                                        *)
(***************************************************************************)
Remembers == /\ leaf \in Leaf /\ lastRun \in RunLeaf
             /\ leaf \in RunLeaf => lastRun = leaf

Flags == ramp \in [Module -> BOOLEAN] /\ RampFlagsMatchLeaf

Healing == /\ fixed \subseteq Module
           /\ leaf = "error_m" => "S" \in fixed
           /\ leaf = "error_s" => "M" \in fixed

Tracker == Sound(net) /\ net.buf = <<>> /\ net.out = <<>>

Queue == loop \in Seq(Own)

ModeName == {"idle", "valid", "ready", "config", "run", "error"}

Obeyed == /\ told \in [Module -> ModeName] /\ \A m \in Module : told[m] = Mode(leaf)
          /\ belt \in [Module -> {"RESUME", "SUSPEND"}]
          /\ Agree(leaf, belt, net.motor)

LogicInv == Remembers /\ Flags /\ Healing /\ Tracker /\ Queue /\ Obeyed

\* The flags follow the leaf.
LEMMA FlagsKept ==
    ASSUME Remembers, Flags, NEW k \in Leaf,
           k \in RunLeaf => k = leaf \/ Fills(leaf, k) \/ (leaf \notin RunLeaf /\ k = lastRun),
           NEW kept, kept = IF k \in RunLeaf THEN k ELSE lastRun
    PROVE  /\ RampAfter(leaf, k) \in [Module -> BOOLEAN]
           /\ RampAfter(leaf, k)["S"] <=> kept = "run_m_empty"
           /\ RampAfter(leaf, k)["M"] <=> kept = "run_s_empty"
<1>1. RampAfter(leaf, k) \in [Module -> BOOLEAN]
  BY DEF Flags, RampAfter, Module
<1>2. (ramp["S"] <=> lastRun = "run_m_empty") /\ (ramp["M"] <=> lastRun = "run_s_empty")
  BY DEF Flags, RampFlagsMatchLeaf
<1>3. CASE k \in RunLeaf /\ Fills(leaf, k)
  <2>1. lastRun = leaf /\ kept = k
    BY <1>3 DEF Remembers, Fills, RunLeaf
  <2>2. CASE leaf = "run_both_empty" /\ k = "run_m_empty"
    <3>1. RampAfter(leaf, k) = [ramp EXCEPT !["S"] = TRUE]
      BY <2>2 DEF RampAfter
    <3> QED BY <1>2, <2>1, <2>2, <3>1 DEF Flags, Module
  <2>3. CASE leaf = "run_both_empty" /\ k = "run_s_empty"
    <3>1. RampAfter(leaf, k) = [ramp EXCEPT !["M"] = TRUE]
      BY <2>3 DEF RampAfter
    <3> QED BY <1>2, <2>1, <2>3, <3>1 DEF Flags, Module
  <2>4. CASE leaf = "run_m_empty" /\ k = "run_both_empty"
    <3>1. RampAfter(leaf, k) = [ramp EXCEPT !["S"] = FALSE]
      BY <2>4 DEF RampAfter
    <3> QED BY <1>2, <2>1, <2>4, <3>1 DEF Flags, Module
  <2>5. CASE leaf = "run_s_empty" /\ k = "run_both_empty"
    <3>1. RampAfter(leaf, k) = [ramp EXCEPT !["M"] = FALSE]
      BY <2>5 DEF RampAfter
    <3> QED BY <1>2, <2>1, <2>5, <3>1 DEF Flags, Module
  <2> QED BY <1>3, <2>2, <2>3, <2>4, <2>5 DEF Fills
<1>4. CASE ~(k \in RunLeaf /\ Fills(leaf, k))
  <2>1. RampAfter(leaf, k) = ramp
    BY <1>4 DEF RampAfter, Fills, RunLeaf
  <2>2. kept = lastRun
    BY <1>4 DEF Remembers
  <2> QED BY <1>1, <1>2, <2>1, <2>2
<1> QED BY <1>1, <1>3, <1>4

\* Master::accept keeps the invariant, and leaves an error only when both
\* modules have fixed it.
LEMMA AcceptKeeps ==
    ASSUME LogicInv, NEW p, Incoming(p), NEW n, n.buf = <<>>, Sound(n), n.motor = net.motor,
           NEW rest \in Seq(Own), Accept(p, n, rest)
    PROVE  /\ LogicInv'
           /\ leaf \in ErrorLeaf /\ leaf' \notin ErrorLeaf => fixed' = Module
<1> DEFINE e == EventOf(p)
           k == Target(leaf, e)
<1>1. PICK v \in IF k \in RunLeaf /\ p.msg = "ANALYSE" THEN Verdicts(p.src, RampAfter(leaf, k)) ELSE {<<>>} :
        LET a   == Tracked(n, k, p, v)
            out == Sends(p, k, a)
        IN  /\ leaf' = k
            /\ lastRun' = IF k \in RunLeaf THEN k ELSE lastRun
            /\ ramp' = RampAfter(leaf, k)
            /\ net' = [a EXCEPT !.out = <<>>]
            /\ loop' = rest \o ToMaster(out)
            /\ told' = [m \in Module |-> Told(m, told[m], out)]
            /\ belt' = [m \in Module |-> Belt(m, belt[m], out)]
            /\ fixed' = IF p.kind = "Error" THEN {}
                        ELSE IF leaf \in ErrorLeaf /\ p.msg = "FIXED" THEN fixed \cup {p.src}
                        ELSE fixed
  BY DEF Accept, Sends
<1> DEFINE a == Tracked(n, k, p, v)
           out == Sends(p, k, a)
<1>2. /\ k \in Leaf
      /\ e = Error => k = "error_both"
      /\ k = "error_both" /\ leaf # "error_both" => e = Error
      /\ k \in ErrorLeaf /\ leaf \notin ErrorLeaf => k = "error_both"
      /\ leaf \in ErrorLeaf /\ e # Error => k = leaf \/ Heals(leaf, e, k)
      /\ k \in {"error_m", "error_s"} => k = leaf \/ Heals(leaf, e, k)
      /\ k \in RunLeaf => k = leaf \/ Fills(leaf, k) \/ (leaf \notin RunLeaf /\ k = lastRun)
  <2>1. leaf \in Leaf /\ lastRun \in RunLeaf
    BY DEF LogicInv, Remembers
  <2> HIDE DEF e
  <2> QED BY <2>1, Course
<1>3. e = Error <=> p.kind = "Error"
  BY DEF EventOf, Error, On
<1>4. \A s \in Module : e = Fixed(s) => p.src = s /\ p.msg = "FIXED" /\ p.kind # "Error"
  BY DEF EventOf, Error, On, Fixed, Module
<1>5. k \in RunLeaf => p.src \in Module
  BY <1>2, <1>3 DEF RunLeaf, Incoming
<1>6. k \in RunLeaf => Harmless(v)
  <2>1. ASSUME k \in RunLeaf
        PROVE  \E m \in Module : \E full : v \in Verdicts(m, full) \cup {<<>>}
    BY <1>1, <1>5, <2>1
  <2> QED BY <2>1, VerdictsHarmless
<1>7. Answering(n, p, k, v)
  BY <1>6 DEF Answering
<1> HIDE DEF e
<1>8. leaf \in Leaf /\ lastRun \in RunLeaf /\ Sound(net) /\ Agree(leaf, belt, net.motor) /\ \A m \in Module : told[m] = Mode(leaf)
  BY DEF LogicInv, Remembers, Tracker, Obeyed
<1>9. ASSUME NEW m \in Module
      PROVE  /\ out \in Seq(Sent)
             /\ Told(m, told[m], out) = Mode(k)
             /\ k \in RunLeaf => Belt(m, belt[m], out) = a.motor[m]
             /\ k \notin RunLeaf \cup ConfigLeaf => Belt(m, belt[m], out) = "SUSPEND"
             /\ Sound(a) /\ a.buf = <<>>
  <2>1. /\ out \in Seq(Sent)
        /\ Told(m, told[m], out) = Mode(k)
        /\ k \in RunLeaf => Belt(m, belt[m], out) = a.motor[m]
        /\ k \notin RunLeaf \cup ConfigLeaf => Belt(m, belt[m], out) = "SUSPEND"
    BY <1>7, <1>8, SendsTells DEF e
  <2>2. Sound(a) /\ a.buf = <<>>
    BY <1>5, <1>7, TrackedTells
  <2> QED BY <2>1, <2>2
<1>10. /\ leaf' = k
       /\ lastRun' = IF k \in RunLeaf THEN k ELSE lastRun
       /\ ramp' = RampAfter(leaf, k)
       /\ net' = [a EXCEPT !.out = <<>>]
       /\ loop' = rest \o ToMaster(out)
       /\ told' = [m \in Module |-> Told(m, told[m], out)]
       /\ belt' = [m \in Module |-> Belt(m, belt[m], out)]
       /\ fixed' = IF p.kind = "Error" THEN {}
                   ELSE IF leaf \in ErrorLeaf /\ p.msg = "FIXED" THEN fixed \cup {p.src}
                   ELSE fixed
  BY <1>1
<1>11. out \in Seq(Sent) /\ Sound(a) /\ a.buf = <<>>
  <2>1. "M" \in Module
    BY DEF Module
  <2> QED BY <1>9, <2>1
<1> HIDE DEF k, a, out
<1>12. Remembers'
  BY <1>2, <1>8, <1>10 DEF Remembers
<1>13. Flags'
  <2>1. Remembers /\ Flags
    BY DEF LogicInv
  <2>2. /\ ramp' \in [Module -> BOOLEAN]
        /\ ramp'["S"] <=> lastRun' = "run_m_empty"
        /\ ramp'["M"] <=> lastRun' = "run_s_empty"
    BY <1>2, <1>10, <2>1, FlagsKept
  <2> QED BY <2>2 DEF Flags, RampFlagsMatchLeaf
<1>14. /\ Healing'
       /\ leaf \in ErrorLeaf /\ leaf' \notin ErrorLeaf => fixed' = Module
  <2>1. fixed \subseteq Module /\ (leaf = "error_m" => "S" \in fixed) /\ (leaf = "error_s" => "M" \in fixed)
    BY DEF LogicInv, Healing
  <2>2. fixed' \subseteq Module
    <3>1. p.kind # "Error" => p.src \in Module
      BY DEF Incoming
    <3> QED BY <1>10, <2>1, <3>1
  <2>3. Heals(leaf, e, k) => /\ p.kind # "Error"
                             /\ fixed' = fixed \cup {p.src}
                             /\ e = Fixed(p.src)
    <3>1. ASSUME Heals(leaf, e, k) PROVE leaf \in ErrorLeaf /\ \E s \in Module : e = Fixed(s)
      BY <3>1 DEF Heals, ErrorLeaf, Module
    <3> QED BY <1>4, <1>10, <3>1
  <2>4. Fixed("M") # Fixed("S")
    BY DEF Fixed, On
  <2>5. ASSUME Heals(leaf, e, k)
        PROVE  /\ k = "error_m" => "S" \in fixed'
               /\ k = "error_s" => "M" \in fixed'
               /\ k = "ready" => fixed' = Module
               /\ k \in {"error_m", "error_s", "ready"}
    <3>1. e = Fixed("M") => "M" \in fixed'
      BY <1>4, <2>3, <2>5 DEF Module
    <3>2. e = Fixed("S") => "S" \in fixed'
      BY <1>4, <2>3, <2>5 DEF Module
    <3>3. fixed \subseteq fixed'
      BY <2>3, <2>5
    <3> QED BY <2>1, <2>2, <2>5, <3>1, <3>2, <3>3 DEF Heals, Module
  <2>6. p.kind # "Error" => fixed \subseteq fixed'
    BY <1>10
  <2>7. k \in {"error_m", "error_s"} => p.kind # "Error"
    BY <1>2, <1>3
  <2>8. Healing'
    <3>1. leaf' = "error_m" => "S" \in fixed'
      BY <1>2, <1>10, <2>1, <2>5, <2>6, <2>7
    <3>2. leaf' = "error_s" => "M" \in fixed'
      BY <1>2, <1>10, <2>1, <2>5, <2>6, <2>7
    <3> QED BY <2>2, <3>1, <3>2 DEF Healing
  <2>9. ASSUME leaf \in ErrorLeaf, leaf' \notin ErrorLeaf PROVE fixed' = Module
    <3>1. k # "error_both" /\ k # leaf /\ k \notin {"error_m", "error_s"}
      BY <1>10, <2>9 DEF ErrorLeaf
    <3>2. Heals(leaf, e, k)
      BY <1>2, <2>9, <3>1
    <3> QED BY <2>5, <3>1, <3>2
  <2> QED BY <2>8, <2>9
<1>15. net'.motor = a.motor /\ Tracker'
  <2>1. /\ net'.tok = a.tok /\ net'.size = a.size /\ net'.motor = a.motor /\ net'.expecting = a.expecting
        /\ net'.out = <<>> /\ net'.buf = a.buf
    BY <1>10
  <2>2. a.expecting \in Nat
    BY <1>11 DEF Sound, Typed
  <2>3. Sound(net')
    BY <1>11, <2>1, <2>2, OnlyBookkeeping
  <2> QED BY <1>11, <2>1, <2>3 DEF Tracker
<1>16. Queue'
  <2>1. ToMaster(out) \in Seq(Own)
    BY <1>11, SentToMaster, ToMasterIs
  <2> QED BY <1>10, <2>1 DEF Queue
<1>17. Obeyed'
  <2>1. \A m \in Module : told'[m] = Mode(k)
    BY <1>9, <1>10
  <2>2. Mode(k) \in ModeName
    BY <1>2 DEF Mode, ModeName, Leaf, RunLeaf, ErrorLeaf, ConfigLeaf, IdleLeaf
  <2>3. told' \in [Module -> ModeName]
    BY <1>9, <1>10, <2>2
  <2>4. ASSUME NEW m \in Module PROVE Belt(m, belt[m], out) \in {"RESUME", "SUSPEND"}
    <3>1. belt[m] \in {"RESUME", "SUSPEND"}
      BY DEF LogicInv, Obeyed
    <3> QED BY <1>11, <3>1, BeltTyped
  <2>5. belt' \in [Module -> {"RESUME", "SUSPEND"}]
    BY <1>10, <2>4
  <2>6. Agree(leaf', belt', net'.motor)
    <3>1. \A m \in Module : belt'[m] = Belt(m, belt[m], out)
      BY <1>10
    <3> QED BY <1>9, <1>10, <1>15, <3>1 DEF Agree
  <2>7. \A m \in Module : told'[m] = Mode(leaf')
    BY <1>10, <2>1
  <2> QED BY <2>3, <2>5, <2>6, <2>7 DEF Obeyed
<1> QED BY <1>12, <1>13, <1>14, <1>15, <1>16, <1>17 DEF LogicInv

\* What the modules send.
LEMMA ModulesSend ==
    /\ \A p \in Requests : Incoming(p)
    /\ \A e \in Event : Incoming(Packet("MASTER", e[1], "Run", e[2], e[3]))
<1>1. \A p \in Requests : Incoming(p)
  BY DEF Requests, FromModule, Packet, Incoming, Module, Light, Text
<1>2. \A e \in Event : e[1] \in Module /\ e[2] \in Text /\ e[3] \in Light
  BY DEF Event, Passages, Faults, Module, Light, Text
<1> QED BY <1>1, <1>2 DEF Incoming, Packet

\* The invariant holds at the start.
LEMMA LogicStarts == Init => LogicInv
<1> SUFFICES ASSUME Init PROVE LogicInv
  OBVIOUS
<1>1. Remembers
  BY DEF Init, Remembers, Leaf, RunLeaf, IdleLeaf
<1>2. Flags
  BY DEF Init, Flags, RampFlagsMatchLeaf, Module
<1>3. Healing
  BY DEF Init, Healing
<1>4. Tracker
  <2>1. net.buf = <<>> /\ net.out = <<>>
    BY DEF Init, Fresh
  <2> QED BY <2>1, FreshSound DEF Init, Tracker
<1>5. Queue
  BY DEF Init, Queue
<1>6. Obeyed
  <2>1. Mode(leaf) = "idle" /\ leaf \notin RunLeaf
    BY DEF Init, Mode, RunLeaf, ErrorLeaf, ConfigLeaf, IdleLeaf
  <2> QED BY <2>1 DEF Init, Obeyed, Agree, ModeName
<1> QED BY <1>1, <1>2, <1>3, <1>4, <1>5, <1>6 DEF LogicInv

\* An error is left only when both modules have fixed it.
BothFixed == leaf \in ErrorLeaf /\ leaf' \notin ErrorLeaf => fixed' = Module

\* Every step keeps the invariant.
LEMMA LogicStays == LogicInv /\ [Next]_vars => LogicInv' /\ BothFixed
<1> SUFFICES ASSUME LogicInv, [Next]_vars PROVE LogicInv' /\ BothFixed
  OBVIOUS
<1>1. net.buf = <<>> /\ Sound(net) /\ loop \in Seq(Own) /\ net.expecting \in Nat
  BY DEF LogicInv, Tracker, Queue, Sound, Typed
<1>2. CASE ReceiveRequest
  <2>1. PICK p \in Requests \cap Asked : Accept(p, net, loop)
    BY <1>2 DEF ReceiveRequest
  <2>2. Incoming(p)
    BY ModulesSend
  <2> QED BY <1>1, <2>1, <2>2, AcceptKeeps DEF BothFixed
<1>3. CASE ReceiveItem
  <2>1. PICK e \in Event \cap Reported : Accept(Packet("MASTER", e[1], "Run", e[2], e[3]), Answered(net, e), loop)
    BY <1>3 DEF ReceiveItem
  <2> DEFINE n == Answered(net, e)
             p == Packet("MASTER", e[1], "Run", e[2], e[3])
  <2>2. n.buf = net.buf /\ n.tok = net.tok /\ n.size = net.size /\ n.motor = net.motor /\ n.expecting \in Nat
    BY <1>1 DEF Answered
  <2>3. Incoming(p)
    BY ModulesSend
  <2> HIDE DEF n, p
  <2>4. Sound(n)
    BY <1>1, <2>2, OnlyBookkeeping
  <2>5. Accept(p, n, loop)
    BY <2>1 DEF p, n
  <2> QED BY <1>1, <2>2, <2>3, <2>4, <2>5, AcceptKeeps DEF BothFixed
<1>4. CASE ReceiveOwn
  <2>1. loop # <<>> /\ Accept(Head(loop), net, Tail(loop))
    BY <1>4 DEF ReceiveOwn
  <2>2. Head(loop) \in Own /\ Tail(loop) \in Seq(Own)
    BY <1>1, <2>1
  <2>3. Incoming(Head(loop))
    BY <2>2, OwnIncoming
  <2> QED BY <1>1, <2>1, <2>2, <2>3, AcceptKeeps DEF BothFixed
<1>5. CASE UNCHANGED vars
  <2>1. LogicInv'
    BY <1>5 DEF vars, LogicInv, Remembers, Flags, RampFlagsMatchLeaf, Healing, Tracker, Queue, Obeyed
  <2> QED BY <1>5, <2>1 DEF vars, BothFixed
<1> QED BY <1>2, <1>3, <1>4, <1>5 DEF Next

-----------------------------------------------------------------------------
\* The inductive invariant holds in every state.
THEOREM Invariance == Spec => []LogicInv
BY LogicStarts, LogicStays, PTL DEF Spec

\* Types: nothing is left in the tracker's buffers between two packets, and
\* the queue of the master holds packets to itself only.
THEOREM TypeCorrect == Spec => []TypeOK
<1>1. LogicInv => TypeOK
  <2> SUFFICES ASSUME LogicInv PROVE TypeOK
    OBVIOUS
  <2>1. \A i \in DOMAIN loop : loop[i].to = "MASTER"
    <3>1. \A i \in DOMAIN loop : loop[i] \in Own
      BY DEF LogicInv, Queue
    <3> QED BY <3>1, OwnIncoming
  <2>2. Typed(net) /\ net.out = <<>> /\ net.buf = <<>>
    BY DEF LogicInv, Tracker, Sound
  <2> QED BY <2>1, <2>2 DEF TypeOK, LogicInv, Remembers, Flags, Healing, Obeyed, ModeName
<1> QED BY <1>1, Invariance, PTL

\* Both modules are always in the mode of the master.
THEOREM ModulesAlwaysFollow == Spec => []ModulesFollowMaster
<1>1. LogicInv => ModulesFollowMaster
  BY DEF LogicInv, Obeyed, ModulesFollowMaster
<1> QED BY <1>1, Invariance, PTL

\* The motors are what the tracker calls for while the master runs, however
\* often an error or a stop came in between, and stand outside run and
\* config.
THEOREM BeltsAlwaysAgree == Spec => []BeltsAgree
<1>1. LogicInv => BeltsAgree
  BY DEF LogicInv, Obeyed, Agree, BeltsAgree
<1> QED BY <1>1, Invariance, PTL

\* The ramp flags agree with the leaf that run remembers, and no item is sent
\* into a ramp that is known to be full.
THEOREM RampsAlwaysRespected == Spec => []RampsRespected
<1>1. LogicInv => RampsRespected
  <2> SUFFICES ASSUME LogicInv PROVE NeverTossOntoFullRamp
    BY DEF RampsRespected, LogicInv, Flags
  <2>1. /\ ramp \in [Module -> BOOLEAN] /\ (ramp["S"] <=> lastRun = "run_m_empty")
        /\ (ramp["M"] <=> lastRun = "run_s_empty")
    BY DEF LogicInv, Flags, RampFlagsMatchLeaf
  <2>2. ~(ramp["S"] /\ ramp["M"])
    BY <2>1
  <2>3. ASSUME NEW m \in Module, NEW a \in Action, ramp[m]
        PROVE  Evaluate(a, m, ramp) # <<>>
    <3>1. CASE m = "M"
      <4>1. ramp["M"] = TRUE /\ ramp["S"] = FALSE
        BY <2>1, <2>2, <2>3, <3>1 DEF Module
      <4> QED BY <3>1, <4>1 DEF Evaluate, Resolved, Keep, Action
    <3>2. CASE m = "S"
      <4>1. ramp["S"] = TRUE /\ ramp["M"] = FALSE
        BY <2>1, <2>2, <2>3, <3>2 DEF Module
      <4> QED BY <3>2, <4>1 DEF Evaluate, Resolved, Keep, Action
    <3> QED BY <3>1, <3>2 DEF Module
  <2> QED BY <2>3 DEF NeverTossOntoFullRamp
<1> QED BY <1>1, Invariance, PTL

\* The master leaves an error only after both modules have fixed it.
THEOREM RecoveryAlwaysNeedsBoth == Spec => RecoveryNeedsBothFixed
<1>1. LogicInv /\ [Next]_vars => [(leaf \in ErrorLeaf /\ leaf' \notin ErrorLeaf) => fixed' = Module]_vars
  BY LogicStays DEF BothFixed
<1> QED BY <1>1, Invariance, PTL DEF Spec, RecoveryNeedsBothFixed
=============================================================================
