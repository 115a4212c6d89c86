------------------------------ MODULE Ns2Ecmp -------------------------------
(***************************************************************************)
(* The ns-2 classifier Classifier/MultiPath of a switch: it picks one of   *)
(* the equal-cost next hops for a packet, by a hash of the packet's flow   *)
(* (perflow_), by that hash moved by the packet's priority (checkpathid_), *)
(* or by taking the next hops in turn.  Routes come and go.                *)
(***************************************************************************)
EXTENDS Integers, Sequences, FiniteSets, FiniteSetsExt

CONSTANTS
    NumSlots,  \* slots the routing may use
    NodeId,    \* nodeid_
    Srcs, Dsts, Fids, \* senders, receivers and flow ids of the flows
    Prios,     \* priorities a packet of a flow may carry
    Modes      \* settings of perflow_ and checkpathid_ to try

Slots == 0 .. NumSlots - 1
Flows == [src : Srcs, dst : Dsts, fid : Fids]
NoSlot == -1

ASSUME EcmpAssumption ==
    /\ NumSlots \in Nat \ {0}
    /\ NodeId \in Nat
    /\ Srcs \subseteq Nat /\ Dsts \subseteq Nat /\ Fids \subseteq Nat
    /\ Prios \subseteq Nat
    /\ Modes \subseteq {"flow", "path", "turn"}

VARIABLES
    mode,     \* perflow_ and checkpathid_
    slot_,    \* the slots that hold a next hop
    maxslot_, \* the highest of them, -1 when there is none
    ns_,      \* the slot whose turn it is
    chosen,   \* what classify returned last, NoSlot since the routes changed
    count     \* history: packets per slot since the routes changed, less the least of them

ecmpVars == <<mode, slot_, maxslot_, ns_, chosen, count>>
-----------------------------------------------------------------------------
\* The bytes of an int of the hash key, least significant first, as signed chars.
Bytes(x) == [i \in 1 .. 4 |-> LET b == (x \div <<1, 256, 65536, 16777216>>[i]) % 256
                              IN  IF b >= 128 THEN b - 256 ELSE b]

\* HashString: result * 9 + byte for each byte, modulo 2^32, as a pair of 16 bit halves.
HashByte(result, byte) ==
    LET low == result[2] * 9 + byte
    IN  <<(result[1] * 9 + low \div 65536) % 65536, low % 65536>>

HashString(bytes) ==
    LET result[i \in 0 .. Len(bytes)] ==
            IF i = 0 THEN <<0, 0>> ELSE HashByte(result[i - 1], bytes[i])
    IN  result[Len(bytes)]

\* A hash modulo n.
HashMod(h, n) == (h[1] * (65536 % n) + h[2]) % n

FlowHash ==
    [f \in Flows |->
        HashString(Bytes(NodeId) \o Bytes(f.src) \o Bytes(f.dst) \o Bytes(f.fid))]

\* The slots tried from s on, in order, each once, s itself even if it lies beyond
\* maxslot_ (the mutant counts the slots in use only).
ProbeUsed(s) ==
    CHOOSE t \in slot_ :
        Cardinality({u \in slot_ : u < t}) = s % Cardinality(slot_)
Probe(s) ==
    LET after(i) == (s + 1 + i) % (maxslot_ + 1)
    IN  IF s \in slot_ THEN s
        ELSE after(Min({i \in 0 .. maxslot_ : after(i) \in slot_}))

\* The slot of a packet by its flow's hash.
HashedSlot(f, prio) ==
    LET shift == IF mode = "path" THEN prio ELSE 0
    IN  Probe((HashMod(FlowHash[f], maxslot_ + 1) + shift) % (maxslot_ + 1))
-----------------------------------------------------------------------------
EcmpInit ==
    /\ mode \in Modes
    /\ slot_ = {}
    /\ maxslot_ = NoSlot
    /\ ns_ = 0
    /\ chosen = NoSlot
    /\ count = [s \in Slots |-> 0]

Fresh == [s \in Slots |-> 0]

\* Classifier::install and Classifier::clear: a route appears, a route goes.
Install(s) ==
    /\ s \notin slot_
    /\ slot_' = slot_ \union {s}
    /\ maxslot_' = Max({maxslot_, s})
    /\ chosen' = NoSlot
    /\ count' = Fresh
    /\ UNCHANGED <<mode, ns_>>

Clear(s) ==
    /\ s \in slot_
    /\ slot_' = slot_ \ {s}
    /\ maxslot_' = Max((slot_ \ {s}) \union {NoSlot})
    /\ chosen' = NoSlot
    /\ count' = Fresh
    /\ UNCHANGED <<mode, ns_>>

CountTurn(s) ==
    LET more == [count EXCEPT ![s] = @ + 1]
        least == Min({more[t] : t \in slot_})
    IN  [t \in Slots |-> IF t \in slot_ THEN more[t] - least ELSE 0]

\* MultiPathForwarder::classify.  A packet comes only while there is a route: the
\* remainder by maxslot_ + 1 has no value otherwise.
ClassifyByHash(f, prio) ==
    /\ mode # "turn"
    /\ slot_ # {}
    /\ chosen' = HashedSlot(f, prio)
    /\ UNCHANGED <<mode, slot_, maxslot_, ns_, count>>

\* (The turn of the mutant moves on by one from where it was.)
ClassifyInTurnStuck ==
    /\ mode = "turn"
    /\ slot_ # {}
    /\ chosen' = Probe(ns_)
    /\ count' = CountTurn(Probe(ns_))
    /\ ns_' = (ns_ + 1) % (maxslot_ + 1)
    /\ UNCHANGED <<mode, slot_, maxslot_>>
ClassifyInTurn ==
    /\ mode = "turn"
    /\ slot_ # {}
    /\ chosen' = Probe(ns_)
    /\ count' = CountTurn(Probe(ns_))
    /\ ns_' = (Probe(ns_) + 1) % (maxslot_ + 1)
    /\ UNCHANGED <<mode, slot_, maxslot_>>

EcmpNext ==
    \/ \E s \in Slots : Install(s)
    \/ \E s \in Slots : Clear(s)
    \/ \E f \in Flows, prio \in Prios : ClassifyByHash(f, prio)
    \/ ClassifyInTurn

EcmpSpec == EcmpInit /\ [][EcmpNext]_ecmpVars
-----------------------------------------------------------------------------
\* A route below the highest that comes or goes moves only the packets it takes
\* over or leaves behind.
ChangeIsLocal ==
    [][mode # "turn" /\ slot_ # {} /\ maxslot_' = maxslot_ =>
         \A f \in Flows, prio \in Prios :
             HashedSlot(f, prio)' # HashedSlot(f, prio) =>
                 \/ HashedSlot(f, prio) \notin slot_'
                 \/ HashedSlot(f, prio)' \notin slot_]_ecmpVars

\* Next hops in turn share the packets evenly, however many slots between them are
\* empty.
EvenTurns ==
    mode = "turn" => \A s, t \in slot_ : count[s] <= count[t] + 1
=============================================================================
