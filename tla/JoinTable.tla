----------------------------- MODULE JoinTable -----------------------------
(***************************************************************************)
(* One node's life with its join table: the select loop of ring.c calls    *)
(* into join.c from the broadcast handler, the unicast handlers, the       *)
(* in-flight join and the pruning at the top of every iteration.  The rest *)
(* of the network is the environment: it sends requests, commits, accepts  *)
(* and the token.  The ring itself is the subject of module Ring.          *)
(***************************************************************************)
EXTENDS JoinState

CONSTANTS
    Self,        \* this node
    Ids,         \* Ids[n]: the request ids node n draws, one per start of n
    Elsewhere,   \* nodes whose join another node may coordinate
    TTL,         \* JOIN_PENDING_TTL_S
    MaxNow,      \* bound: seconds of wall-clock time
    MaxTopo      \* bound: topology versions

ASSUME JoinTableAssumption ==
    /\ Self \in Node
    /\ Ids \in [Node -> SUBSET Req]
    /\ \A m, n \in Node : m # n => Ids[m] \cap Ids[n] = {}
    /\ Elsewhere \subseteq Node
    /\ TTL \in Nat
    /\ MaxNow \in Nat
    /\ MaxTopo \in Nat

VARIABLES
    js,        \* join_state
    inflight,  \* join_inflight: the joiner's entry, or None when not active
    topo,      \* last_seen_topo_version
    have,      \* have_token
    now        \* time(NULL)

vars == <<js, inflight, topo, have, now>>

Init ==
    /\ js = EmptyJoinState
    /\ inflight = None
    /\ topo = 0
    /\ have \in BOOLEAN
    /\ now = 0

-----------------------------------------------------------------------------

(* JOIN_REQUEST: ignored from oneself, for the joiner in flight and for a  *)
(* name that has already joined.                                           *)
OnJoinRequest(n, r) ==
    /\ n # Self
    /\ ~(inflight # None /\ inflight.name = n)
    /\ ~IsCompleted(js, n)
    /\ js' = AddPendingJoin(js, n, r, now)
    /\ UNCHANGED <<inflight, topo, have, now>>

(* Variant: as many requests dropped as the versions differ by.            *)
AdvanceTopo_Delta(s, t) ==
    IF t > topo THEN DropOldestPendingJoins(s, t - topo) ELSE s

(* Advancing to version t empties the table, on either path.               *)
AdvanceTopo(s, t) ==
    IF t > topo THEN DropOldestPendingJoins(s, s.count) ELSE s

(* JOIN_COMMIT for a join another node coordinated.                        *)
OnJoinCommit(n, r, t) ==
    LET marked == AdvanceTopo(MarkCompletedAndPrunePending(js, n, r), t)
        mine   == inflight # None /\ inflight.req = r
    IN  /\ js' = IF mine THEN Finish(marked, inflight.name, r) ELSE marked
        /\ inflight' = IF mine THEN None ELSE inflight
        /\ topo' = IF t > topo THEN t ELSE topo
        /\ UNCHANGED <<have, now>>

(* JOIN_ACCEPT_U, whether or not the node then applies it.                 *)
OnJoinAccept(n, r) ==
    /\ js' = MarkCompletedAndPrunePending(js, n, r)
    /\ UNCHANGED <<inflight, topo, have, now>>

OnToken(t) ==
    /\ ~have
    /\ have' = TRUE
    /\ js' = AdvanceTopo(js, t)
    /\ topo' = IF t > topo THEN t ELSE topo
    /\ UNCHANGED <<inflight, now>>

(* handle_token_if_ready: the oldest request goes in flight.               *)
StartInflight ==
    /\ have /\ inflight = None
    /\ js.count > 0
    /\ Used(js) # {}
    /\ js' = PopOldestPendingJoin(js)
    /\ inflight' = js.joins[Oldest(js)]
    /\ UNCHANGED <<topo, have, now>>

(* join_fsm_try_complete: both confirmations are in.                       *)
CompleteInflight ==
    /\ have /\ inflight # None
    /\ topo < MaxTopo
    /\ js' = Finish(js, inflight.name, inflight.req)
    /\ inflight' = None
    /\ topo' = topo + 1
    /\ UNCHANGED <<have, now>>

(* handle_token_if_ready reaches ring_on_token.                            *)
PassToken ==
    /\ have /\ inflight = None
    /\ js.count = 0
    /\ have' = FALSE
    /\ UNCHANGED <<js, inflight, topo, now>>

(* prune_joins, at the top of every iteration.  Time passes in select and  *)
(* in the sends that follow, so a handler may find an entry that has       *)
(* expired since.                                                          *)
Prune ==
    /\ js' = PruneJoins(js, now, TTL)
    /\ UNCHANGED <<inflight, topo, have, now>>

Tick ==
    /\ now < MaxNow
    /\ now' = now + 1
    /\ UNCHANGED <<js, inflight, topo, have>>

Next ==
    \/ \E n \in Node : \E r \in Ids[n] : OnJoinRequest(n, r)
    \/ \E n \in Elsewhere : \E r \in Ids[n], t \in 1 .. MaxTopo : OnJoinCommit(n, r, t)
    \/ \E n \in Elsewhere : \E r \in Ids[n] : OnJoinAccept(n, r)
    \/ \E t \in 0 .. MaxTopo : OnToken(t)
    \/ StartInflight
    \/ CompleteInflight
    \/ PassToken
    \/ Prune
    \/ Tick

Spec == Init /\ [][Next]_vars

-----------------------------------------------------------------------------

(* Every field has its type; the counter never goes below zero.            *)
TypeOK ==
    /\ js \in JoinStateType
    /\ inflight \in PendingJoin \cup {None}
    /\ topo \in Nat
    /\ have \in BOOLEAN
    /\ now \in Nat

(* The counter agrees with the array, so `count > 0' finds a request to    *)
(* pop, `count = 0' lets the token go only when nobody waits, and count--  *)
(* never wraps around.                                                     *)
CountExact == js.count = Cardinality(Used(js))

(* A joiner occupies one entry of the completed list however many accepts, *)
(* commits and own completions report it, and the list stays in bounds.    *)
CompletedUnique ==
    /\ Len(js.completed) <= MaxPendingJoins
    /\ \A i, j \in 1 .. Len(js.completed) :
          js.completed[i].name = js.completed[j].name => i = j

(* When a newer topology version arrives with the token or with a commit,  *)
(* no request survives: what is left could be for a node that has joined.  *)
TopoAdvanceEmpties ==
    [][topo' > topo /\ inflight' = inflight => Used(js') = {}]_vars

(* docs/final.md:205: nodes remember handled requests "to avoid handling   *)
(* the same request more than once".                                       *)
NotHandledTwice ==
    inflight # None => ~IsCompleted(js, inflight.name)

=============================================================================
