----------------------------- MODULE TokenRing -----------------------------
(***************************************************************************)
(* What the ring promises, without messages: a cycle of members, one token *)
(* that moves from a member to its successor, and nodes that are linked in *)
(* directly before the member at which the token is.                       *)
(***************************************************************************)
EXTENDS Integers, Sequences

CONSTANTS Node, None, Ring0

VARIABLES
    members,   \* the nodes of the ring
    succ,      \* the successor of each member, None for the other nodes
    at         \* the member that holds the token or is about to receive it

vars == <<members, succ, at>>

Init ==
    /\ members = {Ring0[i] : i \in 1 .. Len(Ring0)}
    /\ succ \in [Node -> Node \cup {None}]
    /\ \A i \in 1 .. Len(Ring0) : succ[Ring0[i]] = Ring0[(i % Len(Ring0)) + 1]
    /\ \A n \in Node \ members : succ[n] = None
    /\ at = Ring0[1]

Pass ==
    /\ at' = succ[at]
    /\ UNCHANGED <<members, succ>>

Insert(j) ==
    /\ j \notin members
    /\ members' = members \cup {j}
    /\ \E p \in members :
          /\ succ[p] = at
          /\ succ' = [succ EXCEPT ![p] = j, ![j] = at]
    /\ at' = at

Next == Pass \/ \E j \in Node : Insert(j)

Spec == Init /\ [][Next]_vars

-----------------------------------------------------------------------------

(* Whoever is linked in, the members form one cycle, and the token is in   *)
(* it: every member has one successor and is that of one, and no part of   *)
(* the ring is closed in itself, so the token comes round to everybody.    *)
OneRing ==
    /\ members \subseteq Node /\ succ \in [Node -> Node \cup {None}]
    /\ at \in members
    /\ \A n \in members : succ[n] \in members
    /\ \A m, n \in members : succ[m] = succ[n] => m = n
    /\ \A S \in SUBSET members :
          S # {} /\ (\A n \in S : succ[n] \in S) => S = members

=============================================================================
