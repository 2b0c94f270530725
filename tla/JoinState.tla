----------------------------- MODULE JoinState -----------------------------
(***************************************************************************)
(* The join table of one node (join.c, join_state_t): a fixed array of     *)
(* slots for pending requests, a counter kept beside it, and a bounded     *)
(* list of the joins known to be finished.  Every function of join.c is an *)
(* operator from the table before the call to the table after it.          *)
(*                                                                         *)
(* Ports and addresses travel with a name and are never compared, so an    *)
(* entry keeps the name, the request id and last_seen.  A slot whose       *)
(* `used' flag is 0 is None: the code never looks at its other fields.     *)
(***************************************************************************)
EXTENDS Integers, Sequences, FiniteSets, FiniteSetsExt

CONSTANTS
    Node,             \* node names
    Req,              \* join request ids (gen_request_id)
    None,             \* an unused slot, no node
    MaxPendingJoins   \* MAX_PENDING_JOINS

Slot == 0 .. MaxPendingJoins - 1

PendingJoin == [name : Node, req : Req, seen : Nat]

CompletedJoin == [name : Node, req : Req]

ASSUME MaxPendingJoinsAssumption == MaxPendingJoins \in Nat \ {0}
ASSUME NoneAssumption == None \notin PendingJoin /\ None \notin Node

JoinStateType ==
    [joins     : [Slot -> PendingJoin \cup {None}],
     count     : Nat,
     completed : Seq(CompletedJoin)]

(* join_state = {0} *)
EmptyJoinState ==
    [joins |-> [i \in Slot |-> None], count |-> 0, completed |-> << >>]

-----------------------------------------------------------------------------

Used(js) == {i \in Slot : js.joins[i] # None}

SlotsOf(js, name) == {i \in Used(js) : js.joins[i].name = name}

CompletedNames(js) ==
    {js.completed[i].name : i \in 1 .. Len(js.completed)}

FreeSlot(js, i) ==
    [js EXCEPT !.joins[i] = None, !.count = @ - 1]

(* Variant: a refreshed entry is counted again.                            *)
AddPendingJoin_CountsRefresh(js, name, req, now) ==
    LET fit == {i \in Slot : i \in Used(js) => js.joins[i].name = name}
        new == [name |-> name, req |-> req, seen |-> now]
    IN  IF js.count >= MaxPendingJoins \/ fit = {}
        THEN js
        ELSE [js EXCEPT !.joins[Min(fit)] = new, !.count = @ + 1]

(* The scan stops at the first slot that is free or holds the name.        *)
AddPendingJoin(js, name, req, now) ==
    LET fit == {i \in Slot : i \in Used(js) => js.joins[i].name = name}
        i   == Min(fit)
        new == [name |-> name, req |-> req, seen |-> now]
    IN  IF js.count >= MaxPendingJoins \/ fit = {}
        THEN js
        ELSE [js EXCEPT !.joins[i] = new,
                        !.count = IF i \in Used(js) THEN @ ELSE @ + 1]

(* Variant: the counter goes down even when the name is not found.         *)
RemovePendingJoin_Unconditional(js, name) ==
    IF SlotsOf(js, name) = {}
    THEN [js EXCEPT !.count = @ - 1]
    ELSE FreeSlot(js, Min(SlotsOf(js, name)))

(* The first entry of that name.                                           *)
RemovePendingJoin(js, name) ==
    IF SlotsOf(js, name) = {} THEN js ELSE FreeSlot(js, Min(SlotsOf(js, name)))

(* The slot pop_oldest_pending_join takes: the least last_seen, and the    *)
(* least index among those.                                                *)
Oldest(js) ==
    LET t == Min({js.joins[i].seen : i \in Used(js)})
    IN  Min({i \in Used(js) : js.joins[i].seen = t})

PopOldestPendingJoin(js) ==
    IF Used(js) = {} THEN js ELSE FreeSlot(js, Oldest(js))

(* max_remove pops in a row remove the slots that fewer than max_remove    *)
(* others precede in the order of Oldest.                                  *)
Precedes(js, i, j) ==
    \/ js.joins[i].seen < js.joins[j].seen
    \/ js.joins[i].seen = js.joins[j].seen /\ i < j

(* Variant: one request too few.                                           *)
DropOldestPendingJoins_OffByOne(js, max_remove) ==
    LET older(j) == {i \in Used(js) : Precedes(js, i, j)}
        dropped  == {j \in Used(js) : Cardinality(older(j)) < max_remove - 1}
    IN  [js EXCEPT !.joins = [i \in Slot |-> IF i \in dropped THEN None ELSE @[i]],
                   !.count = @ - Cardinality(dropped)]

DropOldestPendingJoins(js, max_remove) ==
    LET older(j) == {i \in Used(js) : Precedes(js, i, j)}
        dropped  == {j \in Used(js) : Cardinality(older(j)) < max_remove}
    IN  [js EXCEPT !.joins = [i \in Slot |-> IF i \in dropped THEN None ELSE @[i]],
                   !.count = @ - Cardinality(dropped)]

(* Only the name is compared, although the id is stored too.               *)
IsCompleted(js, name) == name \in CompletedNames(js)

(* Variant: a second report of the same join is appended.                  *)
RecordCompleted_NoLookup(js, name, req) ==
    LET full == Len(js.completed) >= MaxPendingJoins
        rest == IF full THEN Tail(js.completed) ELSE js.completed
    IN  [js EXCEPT !.completed = Append(rest, [name |-> name, req |-> req])]

(* A known name keeps its place; a new one goes last, and when the list is *)
(* full the first one is forgotten.                                        *)
RecordCompleted(js, name, req) ==
    LET known == {i \in 1 .. Len(js.completed) : js.completed[i].name = name}
        new   == [name |-> name, req |-> req]
        full  == Len(js.completed) >= MaxPendingJoins
        rest  == IF full THEN Tail(js.completed) ELSE js.completed
    IN  IF known # {}
        THEN [js EXCEPT !.completed[Min(known)].req = req]
        ELSE [js EXCEPT !.completed = Append(rest, new)]

PruneJoins(js, now, ttl) ==
    LET expired == {i \in Used(js) : now - js.joins[i].seen > ttl}
    IN  [js EXCEPT !.joins = [i \in Slot |-> IF i \in expired THEN None ELSE @[i]],
                   !.count = @ - Cardinality(expired)]

MarkCompletedAndPrunePending(js, name, req) ==
    RemovePendingJoin(RecordCompleted(js, name, req), name)

(* What the coordinator does to its own table when a join is through       *)
(* (join_fsm_try_complete, JOIN_COMMIT).                                   *)
Finish(js, name, req) ==
    RecordCompleted(RemovePendingJoin(js, name), name, req)

=============================================================================
