-------------------------- MODULE JoinStateProofs --------------------------
(***************************************************************************)
(* What the functions of join.c do to a table, for every number of slots   *)
(* and every set of names: each keeps a table good, that is well typed,    *)
(* with an exact counter and a completed list without repetition.          *)
(***************************************************************************)
EXTENDS JoinState, FiniteSetTheorems, WellFoundedInduction, TLAPS

UniqueNames(s) ==
    /\ Len(s.completed) <= MaxPendingJoins
    /\ \A i, j \in 1 .. Len(s.completed) :
          s.completed[i].name = s.completed[j].name => i = j

GoodTable(s) ==
    /\ s \in JoinStateType
    /\ s.count = Cardinality(Used(s))
    /\ UniqueNames(s)

-----------------------------------------------------------------------------

(* Min of a nonempty set of natural numbers is its least element. *)
LEMMA MinOfNats ==
    ASSUME NEW S, S \subseteq Nat, S # {}
    PROVE  Min(S) \in S /\ \A y \in S : Min(S) <= y
<1>1. PICK x \in S : \A y \in S : ~(<<y, x>> \in OpToRel(<, Nat))
  BY NatLessThanWellFounded, WFMin
<1>2. \A y \in S : x <= y
  <2>1. ASSUME NEW y \in S, y < x PROVE FALSE
    <3>1. <<y, x>> \in {p \in Nat \X Nat : p[1] < p[2]}
      BY <2>1
    <3>2. OpToRel(<, Nat) = {p \in Nat \X Nat : p[1] < p[2]}
      BY Zenon DEF OpToRel
    <3> QED BY <1>1, <3>1, <3>2, Zenon
  <2> QED BY <2>1
<1> QED BY <1>2 DEF Min

(* Sets of slots are finite. *)
LEMMA SlotSets ==
    ASSUME NEW S, S \subseteq Slot
    PROVE  IsFiniteSet(S) /\ Cardinality(S) \in Nat /\ S \subseteq Nat
<1>1. IsFiniteSet(Slot)
  BY MaxPendingJoinsAssumption, FS_Interval DEF Slot
<1>2. IsFiniteSet(S)
  BY <1>1, FS_Subset
<1>3. S \subseteq Nat
  BY MaxPendingJoinsAssumption DEF Slot
<1> QED BY <1>2, <1>3, FS_CardinalityType

(* Emptying a set of used slots and lowering the counter by their number   *)
(* keeps a table good: pop, remove, drop and prune are all of this form.   *)
LEMMA FreeSlotsGood ==
    ASSUME NEW s, GoodTable(s), NEW D, D \subseteq Used(s),
           NEW t, t = [s EXCEPT !.joins = [i \in Slot |-> IF i \in D THEN None ELSE @[i]],
                                !.count = @ - Cardinality(D)]
    PROVE  GoodTable(t) /\ Used(t) = Used(s) \ D
<1>1. /\ t.joins = [i \in Slot |-> IF i \in D THEN None ELSE s.joins[i]]
      /\ t.count = s.count - Cardinality(D)
      /\ t.completed = s.completed
  BY DEF GoodTable, JoinStateType
<1>2. Used(t) = Used(s) \ D
  BY <1>1 DEF Used
<1>3. Cardinality(D) \in Nat /\ Cardinality(Used(s)) \in Nat /\ Cardinality(Used(t)) \in Nat
  BY <1>2, SlotSets DEF Used
<1>4. Cardinality(Used(t)) = Cardinality(Used(s)) - Cardinality(D)
  <2>1. IsFiniteSet(Used(s)) /\ IsFiniteSet(D)
    BY SlotSets DEF Used
  <2>2. Used(s) \cap D = D
    OBVIOUS
  <2> QED BY <2>1, <2>2, <1>2, FS_Difference
<1>5. t.joins \in [Slot -> PendingJoin \cup {None}] 
  BY <1>1 DEF GoodTable, JoinStateType
<1>6. t.count \in Nat
  BY <1>1, <1>3, <1>4 DEF GoodTable
<1>7. t \in JoinStateType
  BY <1>1, <1>5, <1>6 DEF GoodTable, JoinStateType
<1> QED BY <1>1, <1>2, <1>3, <1>4, <1>7 DEF GoodTable, UniqueNames

(* Clearing one used slot, as remove_pending_join and                      *)
(* pop_oldest_pending_join do, keeps a table good.                         *)
LEMMA FreeSlotGood ==
    ASSUME NEW s, GoodTable(s), NEW i \in Used(s)
    PROVE  GoodTable(FreeSlot(s, i))
<1>1. Cardinality({i}) = 1
  BY FS_Singleton
<1>2. FreeSlot(s, i) = [s EXCEPT !.joins = [k \in Slot |-> IF k \in {i} THEN None ELSE @[k]],
                                 !.count = @ - Cardinality({i})]
  <2>1. [s.joins EXCEPT ![i] = None] = [k \in Slot |-> IF k \in {i} THEN None ELSE s.joins[k]]
    BY DEF GoodTable, JoinStateType, Used
  <2> QED BY <1>1, <2>1 DEF FreeSlot, GoodTable, JoinStateType
<1> QED BY <1>2, FreeSlotsGood

(* A used slot holds an entry with a name, an id and a time.               *)
LEMMA UsedEntries ==
    ASSUME NEW s, GoodTable(s), NEW i \in Used(s)
    PROVE  /\ i \in Nat
           /\ s.joins[i] \in PendingJoin
           /\ s.joins[i].seen \in Nat
<1>1. s.joins \in [Slot -> PendingJoin \cup {None}] /\ i \in Slot /\ s.joins[i] # None
  BY DEF GoodTable, JoinStateType, Used
<1>2. s.joins[i] \in PendingJoin
  BY <1>1
<1>3. s.joins[i].seen \in Nat
  BY <1>2 DEF PendingJoin
<1> QED BY <1>1, <1>2, <1>3, SlotSets DEF Used

(* Where add_pending_join writes, remove_pending_join and                  *)
(* pop_oldest_pending_join clear: the index each scan settles on exists.   *)
LEMMA ScanIndices ==
    ASSUME NEW s, GoodTable(s)
    PROVE  /\ \A S \in SUBSET Slot : S # {} => Min(S) \in S
           /\ Used(s) # {} => Oldest(s) \in Used(s)
<1>1. \A S \in SUBSET Slot : S # {} => Min(S) \in S
  BY SlotSets, MinOfNats
<1>2. ASSUME Used(s) # {} PROVE Oldest(s) \in Used(s)
  <2> DEFINE T == {s.joins[i].seen : i \in Used(s)}
             E == {i \in Used(s) : s.joins[i].seen = Min(T)}
  <2>1. T \subseteq Nat /\ T # {}
    BY <1>2, UsedEntries
  <2>2. Min(T) \in T
    BY <2>1, MinOfNats
  <2>3. E # {} /\ E \subseteq Slot
    BY <2>2 DEF Used
  <2>4. Min(E) \in E
    BY <1>1, <2>3
  <2>5. Oldest(s) = Min(E)
    BY DEF Oldest
  <2> QED BY <2>4, <2>5
<1> QED BY <1>1, <1>2

(* remove_pending_join keeps a table good, found or not.                   *)
LEMMA RemovePendingJoinGood ==
    ASSUME NEW s, GoodTable(s), NEW name
    PROVE  GoodTable(RemovePendingJoin(s, name))
<1>1. CASE SlotsOf(s, name) = {}
  BY <1>1 DEF RemovePendingJoin
<1>2. CASE SlotsOf(s, name) # {}
  <2>1. Min(SlotsOf(s, name)) \in SlotsOf(s, name)
    <3>1. SlotsOf(s, name) \in SUBSET Slot
      BY DEF SlotsOf, Used
    <3> QED BY <1>2, <3>1, ScanIndices
  <2>2. Min(SlotsOf(s, name)) \in Used(s)
    BY <2>1 DEF SlotsOf
  <2> QED BY <1>2, <2>2, FreeSlotGood DEF RemovePendingJoin
<1> QED BY <1>1, <1>2

(* pop_oldest_pending_join keeps a table good, empty or not.               *)
LEMMA PopOldestGood ==
    ASSUME NEW s, GoodTable(s)
    PROVE  GoodTable(PopOldestPendingJoin(s))
BY ScanIndices, FreeSlotGood DEF PopOldestPendingJoin

(* prune_joins keeps a table good for every clock and time to live.        *)
LEMMA PruneJoinsGood ==
    ASSUME NEW s, GoodTable(s), NEW t, NEW ttl
    PROVE  GoodTable(PruneJoins(s, t, ttl))
<1> DEFINE D == {i \in Used(s) : t - s.joins[i].seen > ttl}
<1>1. D \subseteq Used(s)
  OBVIOUS
<1> QED BY <1>1, FreeSlotsGood DEF PruneJoins

(* drop_oldest_pending_joins keeps the table good, and called with the     *)
(* counter, as every caller does, it empties the table: each used slot is  *)
(* preceded by fewer than count others.                                    *)
LEMMA DropOldestGood ==
    ASSUME NEW s, GoodTable(s), NEW k
    PROVE  /\ GoodTable(DropOldestPendingJoins(s, k))
           /\ k = s.count => Used(DropOldestPendingJoins(s, k)) = {}
<1> DEFINE older(j) == {i \in Used(s) : Precedes(s, i, j)}
           D == {j \in Used(s) : Cardinality(older(j)) < k}
<1>1. D \subseteq Used(s)
  OBVIOUS
<1>2. /\ GoodTable(DropOldestPendingJoins(s, k))
      /\ Used(DropOldestPendingJoins(s, k)) = Used(s) \ D
  BY <1>1, FreeSlotsGood DEF DropOldestPendingJoins
<1>3. ASSUME k = s.count PROVE Used(s) \subseteq D
  <2> SUFFICES ASSUME NEW j \in Used(s)
               PROVE  Cardinality(older(j)) < k
    OBVIOUS
  <2>1. ~Precedes(s, j, j)
    BY UsedEntries DEF Precedes
  <2>2. older(j) \subseteq Used(s) /\ older(j) # Used(s)
    BY <2>1
  <2>3. IsFiniteSet(Used(s)) /\ Cardinality(Used(s)) = k
    BY <1>3, SlotSets DEF Used, GoodTable
  <2>4. Cardinality(older(j)) < Cardinality(Used(s))
    <3>1. /\ Cardinality(older(j)) <= Cardinality(Used(s))
          /\ Cardinality(older(j)) = Cardinality(Used(s)) => older(j) = Used(s)
      BY <2>2, <2>3, FS_Subset
    <3>2. Cardinality(older(j)) \in Nat /\ Cardinality(Used(s)) \in Nat
      BY <2>2, SlotSets DEF Used
    <3> QED BY <3>1, <3>2, <2>2
  <2> QED BY <2>3, <2>4
<1> QED BY <1>2, <1>3

(* add_pending_join keeps a table good: added, refreshed or refused, the   *)
(* counter goes up exactly when a free slot is taken.                      *)
LEMMA AddPendingJoinGood ==
    ASSUME NEW s, GoodTable(s), NEW n \in Node, NEW r \in Req, NEW t \in Nat
    PROVE  GoodTable(AddPendingJoin(s, n, r, t))
<1> DEFINE fit == {i \in Slot : i \in Used(s) => s.joins[i].name = n}
           i == Min(fit)
           new == [name |-> n, req |-> r, seen |-> t]
           u == [s EXCEPT !.joins[i] = new,
                          !.count = IF i \in Used(s) THEN @ ELSE @ + 1]
<1>1. CASE s.count >= MaxPendingJoins \/ fit = {}
  <2>1. AddPendingJoin(s, n, r, t) = s
    BY <1>1, Zenon DEF AddPendingJoin
  <2> QED BY <2>1
<1>2. CASE ~(s.count >= MaxPendingJoins \/ fit = {})
  <2>1. AddPendingJoin(s, n, r, t) = u
    BY <1>2, Zenon DEF AddPendingJoin
  <2>2. i \in fit
    <3>1. fit \in SUBSET Slot
      OBVIOUS
    <3> HIDE DEF fit
    <3> QED BY <1>2, <3>1, ScanIndices
  <2>3. i \in Slot
    BY <2>2
  <2> HIDE DEF i, fit
  <2>4. new \in PendingJoin /\ new # None
    BY NoneAssumption DEF PendingJoin
  <2> HIDE DEF new
  <2>5. /\ u.joins = [s.joins EXCEPT ![i] = new]
        /\ u.count = IF i \in Used(s) THEN s.count ELSE s.count + 1
        /\ u.completed = s.completed
        /\ u.count \in Nat /\ u.joins \in [Slot -> PendingJoin \cup {None}] => u \in JoinStateType
    <3> DEFINE f == [s.joins EXCEPT ![i] = new]
               c == IF i \in Used(s) THEN s.count ELSE s.count + 1
    <3>1. u = [s EXCEPT !.joins = f, !.count = c]
      BY DEF GoodTable, JoinStateType
    <3> HIDE DEF f, c, u
    <3>2. u.joins = f /\ u.count = c /\ u.completed = s.completed
      BY <3>1 DEF GoodTable, JoinStateType
    <3>3. f \in [Slot -> PendingJoin \cup {None}] /\ c \in Nat => u \in JoinStateType
      BY <3>1 DEF GoodTable, JoinStateType
    <3> QED BY <3>2, <3>3 DEF f, c
  <2> HIDE DEF u
  <2>6. Used(u) = Used(s) \cup {i}
    BY <2>3, <2>4, <2>5 DEF Used, GoodTable, JoinStateType
  <2>7. IsFiniteSet(Used(s)) /\ Cardinality(Used(s)) \in Nat
    BY SlotSets DEF Used
  <2>8. Cardinality(Used(u)) = IF i \in Used(s) THEN Cardinality(Used(s))
                               ELSE Cardinality(Used(s)) + 1
    BY <2>6, <2>7, FS_AddElement
  <2>9. u.count = Cardinality(Used(u)) /\ u.count \in Nat
    BY <2>5, <2>7, <2>8 DEF GoodTable
  <2>10. u \in JoinStateType
    BY <2>3, <2>4, <2>5, <2>9 DEF GoodTable, JoinStateType
  <2> QED BY <2>1, <2>5, <2>9, <2>10 DEF GoodTable, UniqueNames
<1> QED BY <1>1, <1>2

(* Replacing the completed list by another one without repeated names      *)
(* keeps a table good.                                                     *)
LEMMA NewCompletedGood ==
    ASSUME NEW s, GoodTable(s), NEW q \in Seq(CompletedJoin),
           Len(q) <= MaxPendingJoins,
           \A i, j \in 1 .. Len(q) : q[i].name = q[j].name => i = j
    PROVE  GoodTable([s EXCEPT !.completed = q])
<1> DEFINE t == [s EXCEPT !.completed = q]
<1>1. t \in JoinStateType /\ t.joins = s.joins /\ t.count = s.count /\ t.completed = q
  BY DEF GoodTable, JoinStateType
<1>2. Used(t) = Used(s)
  BY <1>1 DEF Used
<1> HIDE DEF t
<1>3. GoodTable(t)
  BY <1>1, <1>2 DEF GoodTable, UniqueNames
<1> QED BY <1>3 DEF t

(* join_state_record_completed keeps a table good: the list has no name    *)
(* twice, and a full list loses its first entry before it grows.           *)
LEMMA RecordCompletedGood ==
    ASSUME NEW s, GoodTable(s), NEW n \in Node, NEW r \in Req
    PROVE  GoodTable(RecordCompleted(s, n, r))
<1> DEFINE c     == s.completed
           known == {i \in 1 .. Len(c) : c[i].name = n}
           new   == [name |-> n, req |-> r]
           rest  == IF Len(c) >= MaxPendingJoins THEN Tail(c) ELSE c
           k     == Min(known)
<1>1. /\ c \in Seq(CompletedJoin) /\ Len(c) \in Nat /\ Len(c) <= MaxPendingJoins
      /\ \A i, j \in 1 .. Len(c) : c[i].name = c[j].name => i = j
  BY DEF GoodTable, JoinStateType, UniqueNames
<1>2. CASE known # {}
  <2> DEFINE q == [c EXCEPT ![k].req = r]
  <2>1. k \in 1 .. Len(c)
    <3>1. known \subseteq Nat
      BY <1>1
    <3> HIDE DEF known
    <3>2. k \in known
      BY <1>2, <3>1, MinOfNats
    <3> QED BY <3>2 DEF known
  <2> HIDE DEF k
  <2>2. c[k] \in CompletedJoin
    BY <1>1, <2>1
  <2>3. [c[k] EXCEPT !.req = r] \in CompletedJoin /\ [c[k] EXCEPT !.req = r].name = c[k].name
    BY <2>2 DEF CompletedJoin
  <2>4. q = [c EXCEPT ![k] = [c[k] EXCEPT !.req = r]]
    OBVIOUS
  <2>5. q \in Seq(CompletedJoin) /\ Len(q) = Len(c)
    BY <1>1, <2>1, <2>3, <2>4
  <2>6. \A i \in 1 .. Len(c) : q[i].name = c[i].name
    BY <1>1, <2>1, <2>3, <2>4
  <2>7. \A i, j \in 1 .. Len(q) : q[i].name = q[j].name => i = j
    BY <1>1, <2>5, <2>6, Zenon
  <2>8. RecordCompleted(s, n, r) = [s EXCEPT !.completed = q]
    BY <1>2, Zenon DEF RecordCompleted, k
  <2> HIDE DEF q
  <2> QED BY <1>1, <2>5, <2>7, <2>8, NewCompletedGood
<1>3. CASE known = {}
  <2> DEFINE q == Append(rest, new)
  <2>1. /\ rest \in Seq(CompletedJoin)
        /\ Len(rest) \in Nat /\ Len(rest) + 1 <= MaxPendingJoins
        /\ \E d \in {0, 1} : /\ Len(c) = Len(rest) + d
                             /\ \A i \in 1 .. Len(rest) : rest[i] = c[i + d]
    <3>1. CASE Len(c) >= MaxPendingJoins
      <4>1. c # << >>
        BY <3>1, <1>1, MaxPendingJoinsAssumption
      <4>2. /\ Tail(c) \in Seq(CompletedJoin)
            /\ Len(Tail(c)) = Len(c) - 1
            /\ \A i \in 1 .. Len(Tail(c)) : Tail(c)[i] = c[i + 1]
        BY <1>1, <4>1
      <4> QED BY <1>1, <3>1, <4>2, MaxPendingJoinsAssumption
    <3>2. CASE ~(Len(c) >= MaxPendingJoins)
      BY <1>1, <3>2, MaxPendingJoinsAssumption
    <3> QED BY <3>1, <3>2
  <2>2. PICK d \in {0, 1} : /\ Len(c) = Len(rest) + d
                            /\ \A i \in 1 .. Len(rest) : rest[i] = c[i + d]
    BY <2>1
  <2>3. RecordCompleted(s, n, r) = [s EXCEPT !.completed = q]
    BY <1>3, Zenon DEF RecordCompleted
  <2>4. new \in CompletedJoin /\ new.name = n
    BY DEF CompletedJoin
  <2>5. \A i \in 1 .. Len(c) : c[i].name # n
    BY <1>3
  <2> HIDE DEF rest, new, known, c
  <2>6. /\ q \in Seq(CompletedJoin) /\ Len(q) = Len(rest) + 1
        /\ \A i \in 1 .. Len(rest) : q[i] = rest[i]
        /\ q[Len(rest) + 1] = new
    BY <2>1, <2>4
  <2> HIDE DEF q
  <2>7. \A i \in 1 .. Len(rest) : i + d \in 1 .. Len(c) /\ q[i] = c[i + d]
    BY <1>1, <2>1, <2>2, <2>6
  <2>8. ASSUME NEW i \in 1 .. Len(q), NEW j \in 1 .. Len(q), q[i].name = q[j].name
        PROVE  i = j
    <3>1. CASE i \in 1 .. Len(rest) /\ j \in 1 .. Len(rest)
      <4>1. i + d = j + d
        BY <1>1, <2>7, <2>8, <3>1
      <4> QED BY <4>1
    <3>2. CASE i \in 1 .. Len(rest) /\ j = Len(rest) + 1
      BY <2>4, <2>5, <2>6, <2>7, <2>8, <3>2
    <3>3. CASE i = Len(rest) + 1 /\ j \in 1 .. Len(rest)
      BY <2>4, <2>5, <2>6, <2>7, <2>8, <3>3
    <3>4. CASE i = Len(rest) + 1 /\ j = Len(rest) + 1
      BY <3>4
    <3> QED BY <2>1, <2>6, <3>1, <3>2, <3>3, <3>4
  <2> QED BY <2>1, <2>3, <2>6, <2>8, NewCompletedGood
<1> QED BY <1>2, <1>3

(* The two calls that end a join keep the coordinator's table good.        *)
LEMMA FinishGood ==
    ASSUME NEW s, GoodTable(s), NEW n \in Node, NEW r \in Req
    PROVE  /\ GoodTable(Finish(s, n, r))
           /\ GoodTable(MarkCompletedAndPrunePending(s, n, r))
BY RemovePendingJoinGood, RecordCompletedGood DEF Finish, MarkCompletedAndPrunePending

-----------------------------------------------------------------------------
(* Which requests are in a table after a call.  Every function but         *)
(* add_pending_join only frees slots, or leaves the slots alone.           *)

Fewer(s, t) ==
    \A i \in Used(t) :
        i \in Used(s) /\ t.joins[i].name = s.joins[i].name /\ t.joins[i].req = s.joins[i].req

LEMMA FewerTransitive ==
    ASSUME NEW s, NEW t, NEW u, Fewer(s, t), Fewer(t, u)
    PROVE  Fewer(s, u)
BY DEF Fewer

(* Slots are freed by replacing their entries by None.                     *)
LEMMA FreedSlots ==
    ASSUME NEW s, GoodTable(s), NEW D,
           NEW t, t.joins = [i \in Slot |-> IF i \in D THEN None ELSE s.joins[i]]
    PROVE  Fewer(s, t) /\ Used(t) = Used(s) \ D
BY DEF Used, Fewer

LEMMA FreeSlotFewer ==
    ASSUME NEW s, GoodTable(s), NEW i
    PROVE  Fewer(s, FreeSlot(s, i)) /\ Used(FreeSlot(s, i)) = Used(s) \ {i}
<1>1. s.joins \in [Slot -> PendingJoin \cup {None}] /\ s \in JoinStateType
  BY DEF GoodTable, JoinStateType
<1>2. FreeSlot(s, i).joins = [s.joins EXCEPT ![i] = None]
  BY <1>1 DEF FreeSlot, JoinStateType
<1>3. FreeSlot(s, i).joins = [k \in Slot |-> IF k \in {i} THEN None ELSE s.joins[k]]
  BY <1>1, <1>2
<1> HIDE DEF FreeSlot
<1> QED BY <1>3, FreedSlots

LEMMA PopFewer ==
    ASSUME NEW s, GoodTable(s)
    PROVE  Fewer(s, PopOldestPendingJoin(s))
BY FreeSlotFewer DEF PopOldestPendingJoin, Fewer

LEMMA RemoveFewer ==
    ASSUME NEW s, GoodTable(s), NEW name
    PROVE  Fewer(s, RemovePendingJoin(s, name))
BY FreeSlotFewer DEF RemovePendingJoin, Fewer

LEMMA RecordFewer ==
    ASSUME NEW s, GoodTable(s), NEW name, NEW req
    PROVE  Fewer(s, RecordCompleted(s, name, req))
<1>1. s \in JoinStateType
  BY DEF GoodTable
<1>2. RecordCompleted(s, name, req).joins = s.joins
  BY <1>1 DEF RecordCompleted, JoinStateType
<1>3. Used(RecordCompleted(s, name, req)) = Used(s)
  BY <1>2 DEF Used
<1> QED BY <1>2, <1>3 DEF Fewer

LEMMA FinishFewer ==
    ASSUME NEW s, GoodTable(s), NEW name \in Node, NEW req \in Req
    PROVE  /\ Fewer(s, Finish(s, name, req))
           /\ Fewer(s, MarkCompletedAndPrunePending(s, name, req))
<1>1. GoodTable(RemovePendingJoin(s, name)) /\ GoodTable(RecordCompleted(s, name, req))
  BY RemovePendingJoinGood, RecordCompletedGood
<1>2. Fewer(s, Finish(s, name, req))
  BY <1>1, RemoveFewer, RecordFewer, FewerTransitive DEF Finish
<1>3. Fewer(s, MarkCompletedAndPrunePending(s, name, req))
  BY <1>1, RemoveFewer, RecordFewer, FewerTransitive DEF MarkCompletedAndPrunePending
<1> QED BY <1>2, <1>3

LEMMA DropFewer ==
    ASSUME NEW s, GoodTable(s), NEW k
    PROVE  Fewer(s, DropOldestPendingJoins(s, k))
<1> DEFINE older(j) == {i \in Used(s) : Precedes(s, i, j)}
           D == {j \in Used(s) : Cardinality(older(j)) < k}
           t == DropOldestPendingJoins(s, k)
<1>1. s \in JoinStateType
  BY DEF GoodTable
<1>2. t = [s EXCEPT !.joins = [i \in Slot |-> IF i \in D THEN None ELSE @[i]],
                    !.count = @ - Cardinality(D)]
  BY DEF DropOldestPendingJoins
<1> HIDE DEF D, t
<1>3. t.joins = [i \in Slot |-> IF i \in D THEN None ELSE s.joins[i]]
  BY <1>1, <1>2 DEF JoinStateType
<1>4. Fewer(s, t)
  BY <1>3, FreedSlots
<1> QED BY <1>4 DEF t

LEMMA PruneFewer ==
    ASSUME NEW s, GoodTable(s), NEW now, NEW ttl
    PROVE  Fewer(s, PruneJoins(s, now, ttl))
<1> DEFINE D == {i \in Used(s) : now - s.joins[i].seen > ttl}
           t == PruneJoins(s, now, ttl)
<1>1. s \in JoinStateType
  BY DEF GoodTable
<1>2. t = [s EXCEPT !.joins = [i \in Slot |-> IF i \in D THEN None ELSE @[i]],
                    !.count = @ - Cardinality(D)]
  BY DEF PruneJoins
<1> HIDE DEF D, t
<1>3. t.joins = [i \in Slot |-> IF i \in D THEN None ELSE s.joins[i]]
  BY <1>1, <1>2 DEF JoinStateType
<1>4. Fewer(s, t)
  BY <1>3, FreedSlots
<1> QED BY <1>4 DEF t

(* What add_pending_join adds is the request it is called with.            *)
LEMMA AddAdds ==
    ASSUME NEW s, GoodTable(s), NEW name, NEW req, NEW t,
           NEW i \in Used(AddPendingJoin(s, name, req, t))
    PROVE  LET e == AddPendingJoin(s, name, req, t).joins[i]
           IN  \/ e.name = name /\ e.req = req
               \/ i \in Used(s) /\ e = s.joins[i]
<1> DEFINE fit == {k \in Slot : k \in Used(s) => s.joins[k].name = name}
           f == Min(fit)
           new == [name |-> name, req |-> req, seen |-> t]
           u == AddPendingJoin(s, name, req, t)
<1>1. s.joins \in [Slot -> PendingJoin \cup {None}] /\ s \in JoinStateType
  BY DEF GoodTable, JoinStateType
<1>2. u = s \/ u.joins = [s.joins EXCEPT ![f] = new]
  BY <1>1 DEF AddPendingJoin, JoinStateType
<1>3. new.name = name /\ new.req = req
  OBVIOUS
<1>4. i \in Used(u) /\ i \in Slot
  BY DEF Used
<1> HIDE DEF f, new, u
<1>5. \/ u.joins[i].name = name /\ u.joins[i].req = req
      \/ i \in Used(s) /\ u.joins[i] = s.joins[i]
  BY <1>1, <1>2, <1>3, <1>4 DEF Used
<1> QED BY <1>5 DEF u

(* If a name has at most two entries, popping one of them leaves at most   *)
(* one, ...                                                                *)
LEMMA PopLeavesOne ==
    ASSUME NEW s, GoodTable(s), Used(s) # {}, NEW name, s.joins[Oldest(s)].name = name,
           \A i, j, k \in SlotsOf(s, name) : i = j \/ j = k \/ i = k
    PROVE  \A i, j \in SlotsOf(PopOldestPendingJoin(s), name) : i = j
<1>1. Oldest(s) \in SlotsOf(s, name)
  BY ScanIndices DEF SlotsOf
<1>2. SlotsOf(PopOldestPendingJoin(s), name) \subseteq SlotsOf(s, name) \ {Oldest(s)}
  BY FreeSlotFewer DEF PopOldestPendingJoin, SlotsOf, Fewer
<1> QED BY <1>1, <1>2

(* ... and when the join is through that one goes as well.                 *)
LEMMA FinishLeavesNone ==
    ASSUME NEW s, GoodTable(s), NEW name \in Node, NEW req \in Req,
           \A i, j \in SlotsOf(s, name) : i = j
    PROVE  SlotsOf(Finish(s, name, req), name) = {}
<1> DEFINE t == RemovePendingJoin(s, name)
<1>1. GoodTable(t) /\ Fewer(t, RecordCompleted(t, name, req))
  BY RemovePendingJoinGood, RecordFewer
<1>2. SlotsOf(t, name) = {}
  <2>1. CASE SlotsOf(s, name) = {}
    BY <2>1 DEF RemovePendingJoin
  <2>2. CASE SlotsOf(s, name) # {}
    <3>1. Min(SlotsOf(s, name)) \in SlotsOf(s, name)
      BY <2>2, ScanIndices DEF SlotsOf, Used
    <3>2. t = FreeSlot(s, Min(SlotsOf(s, name)))
      BY <2>2 DEF RemovePendingJoin
    <3>3. SlotsOf(t, name) \subseteq SlotsOf(s, name) \ {Min(SlotsOf(s, name))}
      BY <3>2, FreeSlotFewer DEF SlotsOf, Fewer
    <3> QED BY <3>1, <3>3
  <2> QED BY <2>1, <2>2
<1> HIDE DEF t
<1>3. SlotsOf(RecordCompleted(t, name, req), name) \subseteq SlotsOf(t, name)
  BY <1>1 DEF SlotsOf, Fewer
<1> QED BY <1>2, <1>3 DEF Finish, t

=============================================================================
