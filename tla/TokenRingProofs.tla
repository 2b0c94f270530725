-------------------------- MODULE TokenRingProofs --------------------------
(***************************************************************************)
(* A theorem about TokenRing, for any number of nodes and joins.           *)
(***************************************************************************)
EXTENDS TokenRing, WellFoundedInduction, TLAPS

(* A node linked in between the token's member and the one before it       *)
(* leaves one cycle.                                                       *)
LEMMA InsertOneRing ==
    ASSUME OneRing, NEW j \in Node, Insert(j)
    PROVE  OneRing'
<1>1. PICK p \in members : succ[p] = at /\ succ' = [succ EXCEPT ![p] = j, ![j] = at]
  BY DEF Insert
<1>2. j \notin members /\ members' = members \cup {j} /\ at' = at /\ at \in members
  BY DEF Insert, OneRing
<1>3. /\ succ' \in [Node -> Node \cup {None}]
      /\ succ'[p] = j /\ succ'[j] = at
      /\ \A n \in members : n # p => succ'[n] = succ[n]
  BY <1>1, <1>2 DEF OneRing
<1>4. \A n \in members' : succ'[n] \in members'
  BY <1>2, <1>3 DEF OneRing
<1>5. \A m, n \in members' : succ'[m] = succ'[n] => m = n
  BY <1>1, <1>2, <1>3 DEF OneRing
<1>6. ASSUME NEW S \in SUBSET members', S # {}, \A n \in S : succ'[n] \in S
      PROVE  S = members'
  <2> DEFINE T == S \ {j}
  <2>1. T \in SUBSET members
    BY <1>2
  <2>2. T # {}
    BY <1>2, <1>3, <1>6
  <2>3. \A n \in T : succ[n] \in T
    <3> SUFFICES ASSUME NEW n \in T PROVE succ[n] \in T
      OBVIOUS
    <3>1. CASE n = p
      BY <3>1, <1>1, <1>2, <1>3, <1>6
    <3>2. CASE n # p
      BY <3>2, <2>1, <1>2, <1>3, <1>6 DEF OneRing
    <3> QED BY <3>1, <3>2
  <2>4. T = members
    BY <2>1, <2>2, <2>3 DEF OneRing
  <2>5. j \in S
    <3>1. p \in T
      BY <2>4
    <3>2. p \in S /\ succ'[p] = j
      BY <3>1, <1>3
    <3> QED BY <3>2, <1>6
  <2> QED BY <2>4, <2>5, <1>2
<1> QED BY <1>2, <1>3, <1>4, <1>5, <1>6 DEF OneRing

(* In one cycle every member is somebody's successor: the others would be  *)
(* closed in themselves.                                                   *)
LEMMA EveryoneIsSuccessor ==
    ASSUME OneRing, NEW n \in members
    PROVE  \E m \in members : succ[m] = n
<1> SUFFICES ASSUME \A m \in members : succ[m] # n PROVE FALSE
  OBVIOUS
<1> DEFINE S == members \ {n}
<1>1. \A m \in S : succ[m] \in S
  BY DEF OneRing
<1>2. S # {}
  BY DEF OneRing
<1>3. S = members
  BY <1>1, <1>2 DEF OneRing
<1> QED BY <1>3

(* Every step of the abstract ring keeps it one.                           *)
LEMMA NextOneRing ==
    ASSUME OneRing, [Next]_vars
    PROVE  OneRing'
<1>1. CASE Pass
  BY <1>1 DEF Pass, OneRing
<1>2. CASE \E j \in Node : Insert(j)
  BY <1>2, InsertOneRing
<1>3. CASE UNCHANGED vars
  BY <1>3 DEF vars, OneRing
<1> QED BY <1>1, <1>2, <1>3 DEF Next

LEMMA LeastNat ==
    ASSUME NEW S, S \subseteq Nat, S # {}
    PROVE  \E x \in S : \A y \in S : x <= y
<1>1. PICK x \in S : \A y \in S : ~(<<y, x>> \in OpToRel(<, Nat))
  BY NatLessThanWellFounded, WFMin
<1>2. OpToRel(<, Nat) = {p \in Nat \X Nat : p[1] < p[2]}
  BY Zenon DEF OpToRel
<1>3. ASSUME NEW y \in S, y < x PROVE FALSE
  <2>1. <<y, x>> \in {p \in Nat \X Nat : p[1] < p[2]}
    BY <1>3
  <2> QED BY <1>1, <1>2, <2>1, Zenon
<1> QED BY <1>3

(* The places of a ring that are closed under going on are all of them:    *)
(* otherwise the last one is among them, so the first one is, and the      *)
(* least that is not has one before it that is.                            *)
LEMMA AllPlaces ==
    ASSUME NEW L \in Nat \ {0}, NEW I, I \subseteq 1 .. L, I # {},
           \A i \in I : (i % L) + 1 \in I
    PROVE  I = 1 .. L
<1>1. \A i \in 1 .. L : (i % L) + 1 = IF i = L THEN 1 ELSE i + 1
  OBVIOUS
<1>2. 1 \in I
  <2> DEFINE D == {L - i : i \in I}
  <2>1. D \subseteq Nat /\ D # {}
    <3>1. \A i \in I : i \in Int /\ i <= L
      OBVIOUS
    <3>2. \A i \in I : L - i \in Nat
      BY <3>1
    <3> QED BY <3>2
  <2> HIDE DEF D
  <2>2. PICK d \in D : \A y \in D : d <= y
    BY <2>1, LeastNat
  <2>3. PICK i \in I : d = L - i
    BY DEF D
  <2>4. \A k \in I : k <= i
    <3> SUFFICES ASSUME NEW k \in I PROVE k <= i
      OBVIOUS
    <3>1. L - k \in D
      BY DEF D
    <3>2. L - i <= L - k
      BY <2>2, <2>3, <3>1
    <3>3. i \in Int /\ k \in Int
      OBVIOUS
    <3> QED BY <3>2, <3>3
  <2>5. i = L
    BY <1>1, <2>4
  <2> QED BY <1>1, <2>5
<1>3. SUFFICES ASSUME (1 .. L) \ I # {} PROVE FALSE
  OBVIOUS
<1>4. PICK k \in (1 .. L) \ I : \A y \in (1 .. L) \ I : k <= y
  <2>1. (1 .. L) \ I \subseteq Nat
    OBVIOUS
  <2> QED BY <1>3, <2>1, LeastNat
<1>5. k - 1 \in I
  BY <1>2, <1>4
<1> QED BY <1>1, <1>4, <1>5

(* A configured ring without repetition is one cycle.                      *)
LEMMA InitOneRing ==
    ASSUME Ring0 \in Seq(Node), Ring0 # << >>,
           \A i, j \in 1 .. Len(Ring0) : Ring0[i] = Ring0[j] => i = j,
           Init
    PROVE  OneRing
<1> DEFINE L == Len(Ring0)
<1>1. L \in Nat \ {0} /\ 1 \in 1 .. L /\ \A i \in 1 .. L : Ring0[i] \in Node
  OBVIOUS
<1>2. \A i \in 1 .. L : /\ (i % L) + 1 \in 1 .. L
                       /\ succ[Ring0[i]] = Ring0[(i % L) + 1]
  BY <1>1 DEF Init
<1>3. \A i, j \in 1 .. L : (i % L) + 1 = (j % L) + 1 => i = j
  <2>1. \A i \in 1 .. L : (i % L) + 1 = IF i = L THEN 1 ELSE i + 1
    BY <1>1
  <2> QED BY <1>1, <2>1
<1>4. members = {Ring0[i] : i \in 1 .. L}
  BY DEF Init
<1> HIDE DEF L
<1>5. \A m, n \in members : succ[m] = succ[n] => m = n
  <2> SUFFICES ASSUME NEW i \in 1 .. L, NEW k \in 1 .. L, succ[Ring0[i]] = succ[Ring0[k]]
               PROVE  i = k
    BY <1>4
  <2>1. PICK a \in 1 .. L, b \in 1 .. L : a = (i % L) + 1 /\ b = (k % L) + 1
    BY <1>2
  <2>2. Ring0[a] = Ring0[b]
    BY <1>2, <2>1
  <2>3. a = b
    BY <2>2 DEF L
  <2> QED BY <1>3, <2>1, <2>3
<1>6. ASSUME NEW S \in SUBSET members, S # {}, \A n \in S : succ[n] \in S
      PROVE  S = members
  <2> DEFINE I == {i \in 1 .. L : Ring0[i] \in S}
  <2>1. I # {}
    BY <1>4, <1>6
  <2>2. \A i \in I : (i % L) + 1 \in I
    BY <1>2, <1>6
  <2>3. I = 1 .. L
    BY <1>1, <2>1, <2>2, AllPlaces
  <2> QED BY <1>4, <2>3
<1>7. /\ members \subseteq Node /\ at \in members /\ succ \in [Node -> Node \cup {None}]
      /\ \A n \in members : succ[n] \in members
  <2>1. members \subseteq Node /\ \A i \in 1 .. L : Ring0[i] \in members
    BY <1>1, <1>4
  <2>2. at \in members /\ succ \in [Node -> Node \cup {None}]
    BY <1>1, <2>1 DEF Init
  <2>3. ASSUME NEW n \in members PROVE succ[n] \in members
    <3>1. PICK i \in 1 .. L : n = Ring0[i]
      BY <1>4
    <3>2. PICK k \in 1 .. L : k = (i % L) + 1
      BY <1>2
    <3>3. succ[n] = Ring0[k]
      BY <1>2, <3>1, <3>2
    <3> QED BY <2>1, <3>3
  <2> QED BY <2>1, <2>2, <2>3
<1> QED BY <1>5, <1>6, <1>7 DEF OneRing

(* From a configured ring on, the nodes in the ring form one cycle, and    *)
(* the token stays in it, whatever joins (docs/final.md:72).               *)
THEOREM RingStaysOne ==
    ASSUME Ring0 \in Seq(Node), Ring0 # << >>,
           \A i, j \in 1 .. Len(Ring0) : Ring0[i] = Ring0[j] => i = j
    PROVE  Spec => []OneRing
<1>1. Init => OneRing
  BY InitOneRing
<1>2. OneRing /\ [Next]_vars => OneRing'
  BY NextOneRing
<1> QED BY <1>1, <1>2, PTL DEF Spec

=============================================================================
