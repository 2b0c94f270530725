-------------------------- MODULE JoinTableProofs --------------------------
(***************************************************************************)
(* Theorems about JoinTable, for every number of slots, every set of names *)
(* and every environment.  JoinStateProofs shows once for each function of *)
(* join.c that it keeps a table good; the steps of JoinTable follow.       *)
(***************************************************************************)
EXTENDS JoinTable, JoinStateProofs

(* Taking over a topology version keeps a table good, and a newer version  *)
(* empties it.                                                             *)
LEMMA AdvanceTopoGood ==
    ASSUME NEW s, GoodTable(s), NEW t
    PROVE  /\ GoodTable(AdvanceTopo(s, t))
           /\ t > topo => Used(AdvanceTopo(s, t)) = {}
BY DropOldestGood DEF AdvanceTopo

-----------------------------------------------------------------------------

(* The three invariants of the run are inductive together: the counter is  *)
(* a natural number because it counts the used slots.                      *)
IInv == TypeOK /\ CountExact /\ CompletedUnique

(* The invariant is the goodness of the table plus the types of the rest.  *)
LEMMA IInvIsGood == IInv => GoodTable(js)
BY DEF IInv, TypeOK, CountExact, CompletedUnique, GoodTable, UniqueNames

(* The zeroed table of init_ring_state satisfies the invariant.            *)
LEMMA InitIInv == Init => IInv
<1> SUFFICES ASSUME Init PROVE IInv
  OBVIOUS
<1>1. js.joins = [i \in Slot |-> None] /\ js.count = 0 /\ js.completed = << >>
  BY DEF Init, EmptyJoinState
<1>2. js \in JoinStateType
  BY DEF Init, EmptyJoinState, JoinStateType
<1>3. Used(js) = {}
  BY <1>1 DEF Used
<1>4. CountExact
  BY <1>1, <1>3, FS_EmptySet DEF CountExact
<1>5. CompletedUnique
  BY <1>1, MaxPendingJoinsAssumption DEF CompletedUnique
<1> QED BY <1>2, <1>4, <1>5 DEF IInv, TypeOK, Init

(* Every handler of the loop keeps the invariant.                          *)
LEMMA NextIInv == IInv /\ [Next]_vars => IInv'
<1> SUFFICES ASSUME IInv, [Next]_vars PROVE IInv'
  OBVIOUS
<1>0. GoodTable(js)
  BY IInvIsGood
<1>g. ASSUME GoodTable(js'), inflight' \in PendingJoin \cup {None},
             topo' \in Nat, have' \in BOOLEAN, now' \in Nat
      PROVE  IInv'
  BY <1>g DEF IInv, TypeOK, CountExact, CompletedUnique, GoodTable, UniqueNames
<1>t. /\ inflight \in PendingJoin \cup {None}
      /\ topo \in Nat /\ have \in BOOLEAN /\ now \in Nat
      /\ inflight # None => inflight.name \in Node /\ inflight.req \in Req
  BY DEF IInv, TypeOK, PendingJoin
<1>i. \A n \in Node : \A r : r \in Ids[n] => r \in Req
  BY JoinTableAssumption
<1>1. ASSUME NEW n \in Node, NEW r \in Ids[n], OnJoinRequest(n, r) PROVE IInv'
  BY <1>0, <1>1, <1>g, <1>t, <1>i, AddPendingJoinGood DEF OnJoinRequest
<1>2. ASSUME NEW n \in Elsewhere, NEW r \in Ids[n], NEW t \in 1 .. MaxTopo,
             OnJoinCommit(n, r, t)
      PROVE  IInv'
  <2> DEFINE marked == AdvanceTopo(MarkCompletedAndPrunePending(js, n, r), t)
  <2>1. n \in Node /\ r \in Req /\ t \in Nat
    BY <1>i, JoinTableAssumption
  <2>2. GoodTable(MarkCompletedAndPrunePending(js, n, r))
    BY <1>0, <2>1, FinishGood
  <2>3. GoodTable(marked)
    BY <2>2, AdvanceTopoGood
  <2> HIDE DEF marked
  <2>4. inflight # None => GoodTable(Finish(marked, inflight.name, r))
    BY <2>1, <2>3, <1>t, FinishGood
  <2>5. js' = marked \/ (inflight # None /\ js' = Finish(marked, inflight.name, r))
    BY <1>2 DEF OnJoinCommit, marked
  <2>6. GoodTable(js')
    BY <2>3, <2>4, <2>5
  <2>7. /\ inflight' \in PendingJoin \cup {None}
        /\ topo' \in Nat /\ have' \in BOOLEAN /\ now' \in Nat
    BY <1>2, <1>t, <2>1 DEF OnJoinCommit
  <2> QED BY <1>g, <2>6, <2>7
<1>3. ASSUME NEW n \in Elsewhere, NEW r \in Ids[n], OnJoinAccept(n, r) PROVE IInv'
  BY <1>0, <1>3, <1>g, <1>t, <1>i, JoinTableAssumption, FinishGood DEF OnJoinAccept
<1>4. ASSUME NEW t \in 0 .. MaxTopo, OnToken(t) PROVE IInv'
  BY <1>0, <1>4, <1>g, <1>t, JoinTableAssumption, AdvanceTopoGood DEF OnToken
<1>5. ASSUME StartInflight PROVE IInv'
  <2>1. js.joins[Oldest(js)] \in PendingJoin
    BY <1>0, <1>5, ScanIndices, UsedEntries DEF StartInflight
  <2> QED BY <1>0, <1>5, <1>g, <1>t, <2>1, PopOldestGood DEF StartInflight
<1>6. ASSUME CompleteInflight PROVE IInv'
  BY <1>0, <1>6, <1>g, <1>t, FinishGood DEF CompleteInflight
<1>7. ASSUME PassToken PROVE IInv'
  BY <1>0, <1>7, <1>g, <1>t DEF PassToken
<1>8. ASSUME Prune PROVE IInv'
  BY <1>0, <1>8, <1>g, <1>t, PruneJoinsGood DEF Prune
<1>9. ASSUME Tick PROVE IInv'
  BY <1>0, <1>9, <1>g, <1>t DEF Tick
<1>10. ASSUME UNCHANGED vars PROVE IInv'
  BY <1>0, <1>10, <1>g, <1>t DEF vars
<1> QED
  BY <1>1, <1>2, <1>3, <1>4, <1>5, <1>6, <1>7, <1>8, <1>9, <1>10 DEF Next

(* The table keeps its type: no counter of join.c runs below zero and the  *)
(* slot a pop returns is a used one.                                       *)
THEOREM TypeCorrect == Spec => []TypeOK
<1>1. IInv => TypeOK
  BY DEF IInv
<1> QED BY <1>1, InitIInv, NextIInv, PTL DEF Spec

(* The counter beside the slot array always equals the number of used      *)
(* slots, whatever requests, commits, accepts, tokens, pops and expiries   *)
(* come in whatever order.                                                 *)
THEOREM CountAlwaysExact == Spec => []CountExact
<1>1. IInv => CountExact
  BY DEF IInv
<1> QED BY <1>1, InitIInv, NextIInv, PTL DEF Spec

(* The completed list never holds a name twice and never outgrows its      *)
(* array.                                                                  *)
THEOREM CompletedAlwaysUnique == Spec => []CompletedUnique
<1>1. IInv => CompletedUnique
  BY DEF IInv
<1> QED BY <1>1, InitIInv, NextIInv, PTL DEF Spec

(* A newer topology version empties the queue, by the token or by a        *)
(* commit: the loop is bounded by the counter, so this needs the counter   *)
(* to be exact.                                                            *)
THEOREM AdvanceAlwaysEmpties == Spec => TopoAdvanceEmpties
<1>1. ASSUME IInv, [Next]_vars
      PROVE  [topo' > topo /\ inflight' = inflight => Used(js') = {}]_vars
  <2> SUFFICES ASSUME topo' > topo, inflight' = inflight
               PROVE  Used(js') = {}
    OBVIOUS
  <2>0. GoodTable(js) /\ topo \in Nat
    BY <1>1, IInvIsGood DEF IInv, TypeOK
  <2>s. ~(topo' = topo)
    BY <2>0
  <2>1. ASSUME NEW n \in Elsewhere, NEW r \in Ids[n], NEW t \in 1 .. MaxTopo,
               OnJoinCommit(n, r, t)
        PROVE  Used(js') = {}
    <3>1. n \in Node /\ r \in Req
      BY JoinTableAssumption
    <3>2. GoodTable(MarkCompletedAndPrunePending(js, n, r))
      BY <2>0, <3>1, FinishGood
    <3>3. t > topo
      BY <2>1, <2>s DEF OnJoinCommit
    <3>4. ~(inflight # None /\ inflight.req = r)
      BY <2>1 DEF OnJoinCommit
    <3>5. js' = AdvanceTopo(MarkCompletedAndPrunePending(js, n, r), t)
      BY <2>1, <3>4 DEF OnJoinCommit
    <3> QED BY <3>2, <3>3, <3>5, AdvanceTopoGood
  <2>2. ASSUME NEW t \in 0 .. MaxTopo, OnToken(t) PROVE Used(js') = {}
    <3>1. t > topo /\ js' = AdvanceTopo(js, t)
      BY <2>2, <2>s DEF OnToken
    <3> QED BY <2>0, <3>1, AdvanceTopoGood
  <2>3. ~CompleteInflight
    <3>1. CompleteInflight => inflight' # inflight
      BY DEF CompleteInflight
    <3> QED BY <3>1
  <2> QED BY <1>1, <2>s, <2>1, <2>2, <2>3
          DEF Next, vars, OnJoinRequest, OnJoinAccept, StartInflight, PassToken, Prune, Tick
<1> QED BY <1>1, InitIInv, NextIInv, PTL DEF Spec, TopoAdvanceEmpties

=============================================================================
