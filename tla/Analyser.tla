------------------------------ MODULE Analyser ------------------------------
(***************************************************************************)
(* How the master finds out what an item is: the preprocessor of a height  *)
(* map, the ideal profiles, the Hausdorff distance between the two, the    *)
(* plugins that compare them, and Master::analyse with the Processor that  *)
(* keeps what was computed for the last height map, by its address.        *)
(*                                                                         *)
(* The items are those that Storage has recordings of; each is measured    *)
(* once on each module.  A coordinate is an integer per mille where the    *)
(* code has a double between 0 and 1, so a squared distance is in          *)
(* millionths.                                                             *)
(***************************************************************************)
EXTENDS Recordings, SequencesExt

CONSTANTS
    Address,    \* where the allocator can put a height map
    MaxItems    \* bound: items on the two modules at a time

ASSUME AnalyserAssumption ==
    /\ MaxItems \in Nat \ {0}
    /\ "none" \notin Address

-----------------------------------------------------------------------------
(***************************************************************************)
(* Preprocessor.                                                           *)
(***************************************************************************)
SEGMENTS == 100
Segment == 1 .. SEGMENTS

\* a sequence as a value, so that TLC computes its elements once
Computed(s) == SubSeq(s, 1, Len(s))

X == Computed([i \in Segment |-> ((i - 1) * 1000) \div (SEGMENTS - 1)])

\* utils::trim, max_buf: the ten highest readings, never one below the first
Insert(buf, v) ==
    IF buf = <<>> THEN <<v>>
    ELSE IF v <= Last(buf) THEN buf
    ELSE LET at == CHOOSE i \in DOMAIN buf : buf[i] < v /\ \A j \in 1 .. i - 1 : buf[j] >= v
             all == InsertAt(buf, at, v)
         IN  SubSeq(all, 1, IF Len(all) > 10 THEN 10 ELSE Len(all))

\* utils::trim: an average that divides by ten however few there are
Threshold(map) ==
    LET maxima == FoldLeft(Insert, <<>>, [i \in DOMAIN map |-> map[i][2]])
        sum == FoldLeft(LAMBDA s, v : s + v, 0, maxima)
        mean == sum \div 10 + (IF sum % 10 > 5 THEN 1 ELSE 0)
    IN  (mean * 85) \div 100

Trimmed(map) ==
    LET threshold == Threshold(map)
        high == { i \in DOMAIN map : map[i][2] >= threshold }
    IN  IF high = {} THEN <<>> ELSE SubSeq(map, Min(high), Max(high))

\* Interpolation with inter::First: the last reading that is not after that
\* part of the time from the first to the last one
Sampled(map) ==
    LET first == map[1][1]
        span == map[Len(map)][1] - first
        at(i) == CHOOSE n \in DOMAIN map :
                    /\ (map[n][1] - first) * (SEGMENTS - 1) <= (i - 1) * span
                    /\ n < Len(map) => (map[n + 1][1] - first) * (SEGMENTS - 1) > (i - 1) * span
    IN  Computed([i \in Segment |-> map[at(i)][2]])

\* LowPass<2>, which starts from LOWPASS_DEFAULT
Filtered(y) ==
    Computed([i \in Segment |-> (2 * y[i] + (IF i = 1 THEN 750 ELSE y[i - 1])) \div 3])

Normalized(map) == Filtered(Filtered(Sampled(Trimmed(map))))

-----------------------------------------------------------------------------
(***************************************************************************)
(* Profiles::get: the ideal curves.  A coded item has three rings; the     *)
(* names of the types give its digits.                                     *)
(***************************************************************************)
Digits == [ CODED_000 |-> <<0,0,0>>, CODED_001 |-> <<0,0,1>>, CODED_010 |-> <<0,1,0>>,
            CODED_011 |-> <<0,1,1>>, CODED_100 |-> <<1,0,0>>, CODED_101 |-> <<1,0,1>>,
            CODED_110 |-> <<1,1,0>>, CODED_111 |-> <<1,1,1>> ]

Coded(digits) ==
    LET s(i) == (13 * Min({i - 1, SEGMENTS - i})) \div (SEGMENTS - 1)
        ring(i) == IF s(i) = 6 THEN 3 ELSE (s(i) + 1) \div 2
    IN  [i \in Segment |-> IF s(i) \in {0, 2, 4} THEN 825
                           ELSE IF digits[ring(i)] = 0 THEN 700 ELSE 550]

Ideal(type) ==
    CASE type \in DOMAIN Digits -> Coded(Digits[type])
      [] type = "FLAT"          -> [i \in Segment |-> 620]
      [] type = "UPSIDEDOWN"    -> [i \in Segment |-> 825]
      [] type = "HOLLOW"        -> [i \in Segment |-> IF X[i] \in 330 .. 660 THEN 110 ELSE 825]

Squared(a, b, i, j) == (X[i] - X[j]) * (X[i] - X[j]) + (a[i] - b[j]) * (a[i] - b[j])

\* Hausdorff::directional_impl; the early exit for a point that is nearer than
\* the farthest one found so far does not change the maximum
Directional(a, b) ==
    Max({ Min({ Squared(a, b, i, j) : j \in Segment }) : i \in Segment })

Distance(a, b) ==
    LET d1 == Directional(a, b)
        d2 == Directional(b, a)
    IN  IF d1 > d2 THEN d1 ELSE d2

-----------------------------------------------------------------------------
(***************************************************************************)
(* The plugins, in the order in which system.cpp adds them.                *)
(***************************************************************************)
Plugins == << "CODED_000", "CODED_001", "CODED_010", "CODED_011", "CODED_100", "CODED_101",
              "CODED_110", "CODED_111", "FLAT", "UPSIDEDOWN", "HOLLOW", "HOLLOW_METAL" >>

ProfileOf(type) == IF type = "HOLLOW_METAL" THEN "HOLLOW" ELSE type

\* how well each recording fits the profile of each plugin
Scores ==
    LET curves == Computed([r \in DOMAIN Storage |-> Normalized(Storage[r].data)])
        ideals == Computed([p \in DOMAIN Plugins |-> Computed(Ideal(ProfileOf(Plugins[p])))])
    IN  Computed([r \in DOMAIN Storage |->
            Computed([p \in DOMAIN Plugins |-> 1000000 - Distance(curves[r], ideals[p])])])

\* Hausdorff::match of each plugin for the recording the process tree was made
\* for, and HollowItem::match, which asks the metal sensor first
Matches(recording, metal) ==
    LET wrongMetal(type) == ProfileOf(type) = "HOLLOW" /\ metal # (type = "HOLLOW_METAL")
    IN  [p \in DOMAIN Plugins |->
            IF wrongMetal(Plugins[p]) THEN 0 ELSE Max({0, Scores[recording][p]})]

\* what an item is: its type, and what the metal sensor says of it
Kind == { k \in [type : Range(Plugins), metal : BOOLEAN] :
             /\ \E r \in DOMAIN Storage : Storage[r].type = ProfileOf(k.type)
             /\ k.metal => ProfileOf(k.type) = "HOLLOW"
             /\ k.type = "HOLLOW_METAL" <=> k.metal }

-----------------------------------------------------------------------------
VARIABLES
    heap,         \* the recording each address holds, or 0 when it is free
    items,        \* the items on the modules: kind, addresses, plugin and whether to toss
    processor     \* the address the process tree was made for and what was there, or none

vars == << heap, items, processor >>

NoTree == [key |-> "none"]

Init ==
    /\ heap = [a \in Address |-> 0]
    /\ items = <<>>
    /\ processor = NoTree

\* Mutant of Clear: nothing is forgotten.
NotCleared(p) == p

\* Processor::clear
Clear(p) == NoTree

\* Processor::use: a new process tree only for another address
Use(p, a, h) == IF p.key = a THEN p ELSE [key |-> a, of |-> h[a]]

\* the plugin that matches best, of equal ones the first
Best(match) ==
    CHOOSE p \in DOMAIN match :
        \A q \in DOMAIN match : match[q] < match[p] \/ (match[q] = match[p] /\ p <= q)

\* a match has to be better than 0.8
Enough == 800000

\* What Hausdorff::match makes of the recordings: each of them is matched best,
\* and well enough, by the plugin of its type.
Recognised(recording, kind) ==
    LET match == Matches(recording, kind.metal)
    IN  Plugins[Best(match)] = kind.type /\ match[Best(match)] > Enough

ASSUME RecordingsAssumption ==
    \A k \in Kind, r \in DOMAIN Storage :
        Storage[r].type = ProfileOf(k.type) => Recognised(r, k)

\* the item after its analysis: two modules that differ, or no match, toss it
Analysed(item, a, match) ==
    LET type == Plugins[Best(match)]
        known == match[Best(match)] > Enough
        conflict == known /\ item.plugin \notin {"none", type}
    IN  [item EXCEPT !.data = Append(@, a),
                     !.plugin = IF conflict THEN "none" ELSE IF known THEN type ELSE @,
                     !.toss = @ \/ conflict \/ ~known]

\* Master::analyse
Identify(k, a) ==
    LET tree == Use(Clear(processor), a, heap')
    IN  /\ processor' = tree
        /\ items' = [items EXCEPT ![k] =
                         Analysed(@, a, Matches(tree.of, items[k].kind.metal))]

\* an item comes to the start of module 1
NewItem ==
    /\ Len(items) < MaxItems
    /\ \E k \in Kind :
          items' = Append(items, [kind |-> k, data |-> <<>>, plugin |-> "none", toss |-> FALSE])
    /\ UNCHANGED << heap, processor >>

\* it passes the height sensor of module 1 or 2; its map is received anew
Analyse ==
    \E k \in DOMAIN items, r \in DOMAIN Storage, a \in Address :
        /\ Len(items[k].data) < 2
        /\ heap[a] = 0
        /\ Storage[r].type = ProfileOf(items[k].kind.type)
        /\ heap' = [heap EXCEPT ![a] = r]
        /\ Identify(k, a)

\* an item leaves the line, or is taken away, and its data with it
Leave ==
    \E k \in DOMAIN items :
        /\ items' = RemoveAt(items, k)
        /\ heap' = [a \in Address |-> IF Contains(items[k].data, a) THEN 0 ELSE heap[a]]
        /\ UNCHANGED processor

Next == NewItem \/ Analyse \/ Leave

Spec == Init /\ [][Next]_vars

-----------------------------------------------------------------------------
(***************************************************************************)
(* What is to be trusted: the variables have their types, and an address   *)
(* is in use exactly by the items that name it.                            *)
(***************************************************************************)
TypeOK ==
    /\ heap \in [Address -> DOMAIN Storage \cup {0}]
    /\ Range(items) \subseteq ([kind : Kind, data : BoundedSeq(Address, 2), plugin : Range(Plugins) \cup {"none"}, toss : BOOLEAN])
    /\ Len(items) <= MaxItems
    /\ processor = NoTree \/ processor \in [key : Address, of : DOMAIN Storage]
    /\ \A a \in Address : heap[a] # 0 <=> \E k \in DOMAIN items : Contains(items[k].data, a)

(***************************************************************************)
(* Every item the program has a recording of is taken for what it is, on   *)
(* both modules, whatever was analysed before it and wherever its height   *)
(* map is put: its plugin is the one of its type and it is never tossed as *)
(* unknown or for being two things.  (test/ut/plugins.cpp, "can identify   *)
(* all", has the recordings without the metal sensor and without memory    *)
(* that is used again.)                                                    *)
(***************************************************************************)
KnownItemsAreIdentified ==
    \A k \in DOMAIN items :
        /\ ~items[k].toss
        /\ items[k].data # <<>> => items[k].plugin = items[k].kind.type
=============================================================================
