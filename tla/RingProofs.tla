----------------------------- MODULE RingProofs -----------------------------
(***************************************************************************)
(* Theorems about Ring, for every set of nodes, every configured ring,     *)
(* every number of joiners, losses, retries and restarts: it is type       *)
(* correct, with the join table of every node good in the sense of         *)
(* JoinStateProofs, and it has one token at most, whose holder coordinates *)
(* the joins.  The one fault excluded, and only for the token, is          *)
(* "ackAckError", which does produce a second one.                         *)
(***************************************************************************)
EXTENDS Ring, JoinStateProofs

OutcomeType == [got : BOOLEAN, lost : Nat, dup : BOOLEAN]

InflType == [joiner : Node, req : Req, prev : Node, got : SUBSET Both]

AcksType == [req : Req, coord : Node, retries : Nat]

TokenType == [body : Mail \cup {None}, topo : Nat]

-----------------------------------------------------------------------------
(* The transport.                                                          *)

LEMMA OutcomeTyped ==
    ASSUME NEW g \in BOOLEAN, NEW l \in Nat, NEW d \in BOOLEAN
    PROVE  Outcome(g, l, d) \in OutcomeType
BY DEF Outcome, OutcomeType

LEMMA LimitedSendType ==
    ASSUME NEW d \in BOOLEAN, NEW left
    PROVE  LimitedSend(d, left) \subseteq OutcomeType
<1> SUFFICES ASSUME NEW o \in LimitedSend(d, left) PROVE o \in OutcomeType
  OBVIOUS
<1>1. \/ o = Outcome(~d, 0, FALSE)
      \/ o = Outcome(FALSE, 1, d)
      \/ o = Outcome(TRUE, 1, TRUE)
      \/ o = Outcome(FALSE, 0, TRUE)
  BY DEF LimitedSend, Success
<1>2. \A g \in BOOLEAN, l \in Nat, e \in BOOLEAN : Outcome(g, l, e) \in OutcomeType
  BY OutcomeTyped
<1>3. PICK g \in BOOLEAN : g = ~d
  OBVIOUS
<1>4. 0 \in Nat /\ 1 \in Nat /\ TRUE \in BOOLEAN /\ FALSE \in BOOLEAN
  OBVIOUS
<1> QED BY <1>1, <1>2, <1>3, <1>4, Zenon

LEMMA TokenSendType ==
    ASSUME NEW d \in BOOLEAN, NEW left
    PROVE  TokenSend(d, left) \subseteq OutcomeType
<1> SUFFICES ASSUME NEW o \in TokenSend(d, left) PROVE o \in OutcomeType
  OBVIOUS
<1>1. \/ o = Outcome(~d, 0, FALSE)
      \/ o = Outcome(FALSE, 1, d)
      \/ o = Outcome(~d, 1, TRUE)
      \/ o = Outcome(FALSE, 0, TRUE)
  BY DEF TokenSend, Success
<1>2. \A g \in BOOLEAN, l \in Nat, e \in BOOLEAN : Outcome(g, l, e) \in OutcomeType
  BY OutcomeTyped
<1>3. PICK g \in BOOLEAN : g = ~d
  OBVIOUS
<1>4. 0 \in Nat /\ 1 \in Nat /\ TRUE \in BOOLEAN /\ FALSE \in BOOLEAN
  OBVIOUS
<1> QED BY <1>1, <1>2, <1>3, <1>4, Zenon

LEMMA ThreeSendsType ==
    ASSUME NEW d \in BOOLEAN, NEW left
    PROVE  ThreeSends(d, left) \subseteq OutcomeType
<1> SUFFICES ASSUME NEW o \in ThreeSends(d, left) PROVE o \in OutcomeType
  OBVIOUS
<1>1. PICK o1 \in LimitedSend(d, left) :
          \E o2 \in LimitedSend(o1.dup, left - o1.lost) :
          \E o3 \in LimitedSend(o2.dup, left - o1.lost - o2.lost) :
             o = Outcome(o1.got \/ o2.got \/ o3.got, o1.lost + o2.lost + o3.lost, o3.dup)
  <2>1. PICK o1 \in LimitedSend(d, left) :
            o \in UNION {{Outcome(o1.got \/ o2.got \/ o3.got, o1.lost + o2.lost + o3.lost, o3.dup) :
                            o3 \in LimitedSend(o2.dup, left - o1.lost - o2.lost)} :
                        o2 \in LimitedSend(o1.dup, left - o1.lost)}
    BY DEF ThreeSends
  <2> QED BY <2>1
<1>2. o1 \in OutcomeType
  BY LimitedSendType
<1>3. o1.dup \in BOOLEAN
  BY <1>2 DEF OutcomeType
<1>4. PICK o2 \in LimitedSend(o1.dup, left - o1.lost) :
          \E o3 \in LimitedSend(o2.dup, left - o1.lost - o2.lost) :
             o = Outcome(o1.got \/ o2.got \/ o3.got, o1.lost + o2.lost + o3.lost, o3.dup)
  BY <1>1
<1>5. o2 \in OutcomeType
  BY <1>3, LimitedSendType
<1>6. o2.dup \in BOOLEAN
  BY <1>5 DEF OutcomeType
<1>7. PICK o3 \in LimitedSend(o2.dup, left - o1.lost - o2.lost) :
             o = Outcome(o1.got \/ o2.got \/ o3.got, o1.lost + o2.lost + o3.lost, o3.dup)
  BY <1>4
<1>8. o3 \in OutcomeType
  BY <1>6, LimitedSendType
<1> QED BY <1>2, <1>5, <1>7, <1>8 DEF OutcomeType, Outcome

NetOK == net \subseteq UnicastMsg /\ dup \subseteq Node \X Node /\ sbit \subseteq Node \X Node

(* What is sent between nodes stays between nodes.                         *)
LEMMA TransmitType ==
    ASSUME NetOK, NEW ms, NEW taken, Transmit(ms, taken),
           \A x \in ms : x.msg \in UnicastMsg
    PROVE  NetOK'
<1>1. \A m \in UnicastMsg : m.from \in Node /\ m.to \in Node
  BY DEF UnicastMsg
<1>2. net' \subseteq UnicastMsg
  BY DEF Transmit, NetOK
<1>3. \A x \in ms : <<x.msg.from, x.msg.to>> \in Node \X Node
  BY <1>1
<1>4. dup' \subseteq Node \X Node
  BY <1>3 DEF Transmit, NetOK
<1>5. sbit' \subseteq Node \X Node
  BY <1>3 DEF Transmit, Flipped, NetOK
<1> QED BY <1>2, <1>4, <1>5 DEF NetOK

-----------------------------------------------------------------------------
(* The join tables.                                                        *)

LEMMA StampsNat ==
    ASSUME NEW s, GoodTable(s)
    PROVE  /\ Stamps(s) \subseteq Nat
           /\ \A t : Cardinality({u \in Stamps(s) : u < t}) \in Nat
<1>1. Stamps(s) \subseteq Nat
  BY UsedEntries DEF Stamps
<1>2. IsFiniteSet(Used(s))
  BY SlotSets DEF Used
<1>3. IsFiniteSet(Stamps(s))
  <2> DEFINE f == [i \in Used(s) |-> s.joins[i].seen]
  <2>1. f \in Surjection(Used(s), Stamps(s))
    BY DEF Surjection, Stamps
  <2> QED BY <1>2, <2>1, FS_Surjection
<1>4. \A t : IsFiniteSet({u \in Stamps(s) : u < t})
  BY <1>3, FS_Subset
<1> QED BY <1>1, <1>4, FS_CardinalityType

SameRequests(s, t) ==
    /\ Used(t) = Used(s)
    /\ \A i \in Used(s) : t.joins[i].name = s.joins[i].name /\ t.joins[i].req = s.joins[i].req

(* Ranking the time stamps changes nothing else.                           *)
LEMMA RankedGood ==
    ASSUME NEW s, GoodTable(s)
    PROVE  GoodTable(Ranked(s)) /\ SameRequests(s, Ranked(s))
<1> DEFINE entry(i) == IF i \in Used(s)
                       THEN [s.joins[i] EXCEPT !.seen = Rank(s, s.joins[i].seen)] ELSE None
           t == Ranked(s)
<1>1. s \in JoinStateType /\ s.joins \in [Slot -> PendingJoin \cup {None}]
  BY DEF GoodTable, JoinStateType
<1>2. t = [s EXCEPT !.joins = [i \in Slot |-> entry(i)]]
  BY DEF Ranked
<1>3. /\ t.joins = [i \in Slot |-> entry(i)] /\ t.count = s.count
      /\ t.completed = s.completed
      /\ t = [joins |-> t.joins, count |-> s.count, completed |-> s.completed]
  BY <1>1, <1>2 DEF JoinStateType
<1>4. ASSUME NEW i \in Used(s)
      PROVE  /\ entry(i) \in PendingJoin /\ entry(i) # None
             /\ entry(i).name = s.joins[i].name /\ entry(i).req = s.joins[i].req
  <2>1. s.joins[i] \in PendingJoin /\ Rank(s, s.joins[i].seen) \in Nat
    BY UsedEntries, StampsNat DEF Rank
  <2>2. entry(i) = [s.joins[i] EXCEPT !.seen = Rank(s, s.joins[i].seen)]
    OBVIOUS
  <2> HIDE DEF entry
  <2>3. entry(i) \in PendingJoin /\ entry(i).name = s.joins[i].name /\ entry(i).req = s.joins[i].req
    BY <2>1, <2>2 DEF PendingJoin
  <2> QED BY <2>3, NoneAssumption
<1>5. \A i \in Slot : i \in Used(s) <=> s.joins[i] # None
  BY DEF Used
<1> HIDE DEF t
<1>6. t.joins \in [Slot -> PendingJoin \cup {None}]
  BY <1>3, <1>4
<1>7. Used(t) = Used(s)
  BY <1>3, <1>4, <1>5 DEF Used
<1>8. t \in JoinStateType
  BY <1>1, <1>3, <1>6 DEF JoinStateType
<1>9. GoodTable(t)
  BY <1>3, <1>7, <1>8 DEF GoodTable, UniqueNames
<1>10. SameRequests(s, t)
  <2>1. \A i \in Used(s) : i \in Slot
    BY DEF Used
  <2>2. \A i \in Used(s) : t.joins[i] = entry(i)
    BY <1>3, <2>1
  <2> HIDE DEF entry
  <2> QED BY <1>4, <1>7, <2>2 DEF SameRequests
<1> QED BY <1>9, <1>10 DEF t

LEMMA RankedFewer ==
    ASSUME NEW s, NEW t, GoodTable(t), Fewer(s, t)
    PROVE  Fewer(s, Ranked(t))
BY RankedGood DEF SameRequests, Fewer

LEMMA NowNat ==
    ASSUME NEW s, GoodTable(s)
    PROVE  Now(s) \subseteq Nat
BY StampsNat DEF Now

LEMMA EmptyGood == GoodTable(EmptyJoinState)
<1> DEFINE s == EmptyJoinState
<1>1. s.joins = [i \in Slot |-> None] /\ s.count = 0 /\ s.completed = << >>
  BY DEF EmptyJoinState
<1>2. s \in JoinStateType
  BY DEF EmptyJoinState, JoinStateType
<1>3. Used(s) = {}
  BY <1>1 DEF Used
<1>4. Cardinality(Used(s)) = 0
  BY <1>3, FS_EmptySet
<1>5. Len(s.completed) = 0 /\ s.count = 0
  BY <1>1
<1> HIDE DEF s
<1>6. UniqueNames(s)
  BY <1>5, MaxPendingJoinsAssumption DEF UniqueNames
<1> QED BY <1>2, <1>3, <1>4, <1>5, <1>6, MaxPendingJoinsAssumption DEF GoodTable, s


-----------------------------------------------------------------------------
(* The invariant.  A join in flight belongs to a token holder, a holder    *)
(* has joined and has the token's fields, and a node that has joined has   *)
(* two neighbours: that is what makes the fields a step reads be there.    *)

RingOK ==
    /\ joined \subseteq Node /\ have \subseteq joined
    /\ next \in [Node -> Node \cup {None}] /\ prev \in [Node -> Node \cup {None}]
    /\ \A n \in joined : next[n] \in Node /\ prev[n] \in Node
    /\ \A n \in Node \ joined : next[n] = None

TokenOK ==
    /\ token \in [Node -> TokenType \cup {None}]
    /\ \A n \in have : token[n] \in TokenType
    /\ topo \in [Node -> Nat]

JoinOK ==
    /\ js \in [Node -> JoinStateType] /\ \A n \in Node : GoodTable(js[n])
    /\ infl \in [Node -> InflType \cup {None}]
    /\ \A n \in Node : infl[n] # None => n \in have
    /\ acks \in [Node -> AcksType \cup {None}]
    /\ commits \subseteq [name : Node, req : Req, topo : Nat]
    /\ starts \in [Node -> 0 .. MaxRestarts]

MailOK ==
    /\ fifo \in [Node -> Seq(Mail)] /\ cli \in [Node -> Mail \cup {None}]
    /\ written \subseteq Mail /\ received \in [Mail -> Nat]

TypeInv == RingOK /\ TokenOK /\ JoinOK /\ MailOK /\ NetOK /\ losses \in Nat

LEMMA TypeInvIsTypeOK == TypeInv => TypeOK
BY DEF TypeInv, RingOK, TokenOK, JoinOK, MailOK, NetOK, TypeOK, InflType, AcksType, TokenType

LEMMA InitTypeInv ==
    Init => (TypeInv /\ \A n \in joined : next[n] \in joined /\ prev[n] \in joined)
<1> SUFFICES ASSUME Init
             PROVE  TypeInv /\ \A n \in joined : next[n] \in joined /\ prev[n] \in joined
  OBVIOUS
<1>1. Member0 \subseteq Node /\ Ring0[1] \in Member0 /\ Len(Ring0) \in Nat \ {0}
  BY RingAssumption DEF Member0
<1>2. \A n \in Member0 : \E m \in Member0 : \E i, j \in 1 .. Len(Ring0) :
          Ring0[i] = n /\ Ring0[j] = m /\ j = (i % Len(Ring0)) + 1
  <2> SUFFICES ASSUME NEW i \in 1 .. Len(Ring0)
               PROVE  (i % Len(Ring0)) + 1 \in 1 .. Len(Ring0)
    BY DEF Member0
  <2> QED BY <1>1
<1> DEFINE after(n) == CHOOSE m \in Member0 : \E i, j \in 1 .. Len(Ring0) :
                          Ring0[i] = n /\ Ring0[j] = m /\ j = (i % Len(Ring0)) + 1
<1>3. \A n \in Member0 : after(n) \in Member0
  BY <1>2
<1>4. \A m \in Member0 : \E n \in Member0 : after(n) = m
  <2> SUFFICES ASSUME NEW k \in 1 .. Len(Ring0)
               PROVE  \E n \in Member0 : after(n) = Ring0[k]
    BY DEF Member0
  <2> DEFINE L == Len(Ring0)
             p == IF k = 1 THEN L ELSE k - 1
  <2>1. L \in Nat \ {0} /\ p \in 1 .. L /\ k \in 1 .. L
    BY <1>1
  <2>2. (p % L) + 1 = k
    <3>1. CASE k = 1
      BY <2>1, <3>1
    <3>2. CASE k # 1
      BY <2>1, <3>2
    <3> QED BY <3>1, <3>2
  <2>3. after(Ring0[p]) = Ring0[k]
    <3>1. \A i \in 1 .. L : Ring0[i] = Ring0[p] => i = p
      BY <2>1, RingAssumption
    <3> HIDE DEF p
    <3>2. \A m : (\E i, j \in 1 .. L : Ring0[i] = Ring0[p] /\ Ring0[j] = m /\ j = (i % L) + 1)
                 <=> m = Ring0[k]
      BY <2>1, <2>2, <3>1
    <3>3. Ring0[k] \in Member0
      BY DEF Member0
    <3> QED BY <3>2, <3>3
  <2>4. Ring0[p] \in Member0
    BY <2>1 DEF Member0
  <2> HIDE DEF after, p
  <2> QED BY <2>3, <2>4
<1>5. /\ joined = Member0 /\ have = {Ring0[1]}
      /\ next = [n \in Node |-> IF n \in Member0 THEN after(n) ELSE None]
      /\ prev = [n \in Node |-> IF n \in Member0 THEN CHOOSE m \in Member0 : after(m) = n ELSE None]
  BY DEF Init
<1> HIDE DEF after
<1>6. \A n \in Member0 : (CHOOSE m \in Member0 : after(m) = n) \in Member0
  BY <1>4
<1>7. RingOK
  BY <1>1, <1>3, <1>5, <1>6 DEF RingOK
<1>8. TokenOK
  <2>1. /\ token = [n \in Node |-> IF n = Ring0[1] THEN EmptyToken ELSE None]
        /\ topo = [n \in Node |-> 0]
    BY DEF Init
  <2>2. EmptyToken \in TokenType
    BY DEF EmptyToken, TokenType
  <2> QED BY <1>1, <1>5, <2>1, <2>2 DEF TokenOK
<1>9. JoinOK
  <2>1. /\ js = [n \in Node |-> EmptyJoinState]
        /\ EmptyJoinState \in JoinStateType /\ GoodTable(EmptyJoinState)
    BY EmptyGood DEF Init, GoodTable
  <2>2. infl = [n \in Node |-> None] /\ acks = [n \in Node |-> None] /\ commits = {}
    BY DEF Init
  <2>3. starts = [n \in Node |-> 0] /\ MaxRestarts \in Nat
    BY RingAssumption DEF Init
  <2> QED BY <2>1, <2>2, <2>3 DEF JoinOK
<1>10. MailOK
  BY DEF Init, MailOK
<1>11. NetOK /\ losses \in Nat
  BY DEF Init, NetOK
<1>12. \A n \in joined : next[n] \in joined /\ prev[n] \in joined
  BY <1>1, <1>3, <1>5, <1>6
<1> QED BY <1>12, <1>7, <1>8, <1>9, <1>10, <1>11 DEF TypeInv

-----------------------------------------------------------------------------
(* The steps.                                                              *)

(* The accepts of a join in flight.                                        *)
LEMMA SendAcceptsType ==
    ASSUME TypeInv, NEW n \in joined, NEW x \in InflType, SendAccepts(n, x)
    PROVE  NetOK' /\ losses' \in Nat
<1> DEFINE try(g, to, left) ==
               IF g \in x.got THEN {Outcome(FALSE, 0, FALSE)} ELSE LimitedSend(IsDup(n, to), left)
           accept(to) == [type |-> "accept", from |-> n, to |-> to,
                          new |-> x.joiner, req |-> x.req, prev |-> prev[n]]
<1>1. n \in Node /\ prev[n] \in Node /\ x.joiner \in Node /\ x.req \in Req
  BY DEF TypeInv, RingOK, InflType
<1>2. \A g, to, left : try(g, to, left) \subseteq OutcomeType
  <2>1. \A to : IsDup(n, to) \in BOOLEAN
    BY DEF IsDup
  <2>2. \A to, left : LimitedSend(IsDup(n, to), left) \subseteq OutcomeType
    BY <2>1, LimitedSendType
  <2>3. Outcome(FALSE, 0, FALSE) \in OutcomeType
    BY OutcomeTyped
  <2> QED BY <2>2, <2>3
<1>3. \A to \in Node : accept(to) \in UnicastMsg
  BY <1>1 DEF UnicastMsg
<1>4. PICK o1 \in try("joiner", x.joiner, Budget) :
      \E o2 \in try("prev", prev[n], Budget - o1.lost) :
         /\ Transmit({y \in {[msg |-> accept(x.joiner), out |-> o1, by |-> "joiner"],
                             [msg |-> accept(prev[n]), out |-> o2, by |-> "prev"]} :
                         y.by \notin x.got}, {})
         /\ losses' = losses + o1.lost + o2.lost
  BY Zenon DEF SendAccepts
<1> HIDE DEF try
<1>5. PICK o2 \in try("prev", prev[n], Budget - o1.lost) :
         /\ Transmit({y \in {[msg |-> accept(x.joiner), out |-> o1, by |-> "joiner"],
                             [msg |-> accept(prev[n]), out |-> o2, by |-> "prev"]} :
                         y.by \notin x.got}, {})
         /\ losses' = losses + o1.lost + o2.lost
  BY <1>4, Zenon
<1>6. losses' \in Nat
  BY <1>2, <1>5 DEF OutcomeType, TypeInv
<1>7. NetOK'
  <2> DEFINE ms == {y \in {[msg |-> accept(x.joiner), out |-> o1, by |-> "joiner"],
                           [msg |-> accept(prev[n]), out |-> o2, by |-> "prev"]} :
                       y.by \notin x.got}
  <2>1. \A y \in ms : y.msg \in UnicastMsg
    BY <1>1, <1>3
  <2>2. Transmit(ms, {})
    BY <1>5
  <2>3. NetOK
    BY DEF TypeInv
  <2> HIDE DEF ms
  <2> QED BY <2>1, <2>2, <2>3, TransmitType
<1> QED BY <1>6, <1>7

(* One message sent, or none.                                              *)
LEMMA OneMessageType ==
    ASSUME NetOK, NEW m \in UnicastMsg, NEW o, NEW taken,
           Transmit({[msg |-> m, out |-> o]}, taken)
    PROVE  NetOK'
BY TransmitType

LEMMA NoMessageType ==
    ASSUME NetOK, NEW taken, Transmit({}, taken)
    PROVE  NetOK'
BY TransmitType

(* What a step does to one table.                                          *)
LEMMA TableStep ==
    ASSUME JoinOK, NEW n \in Node, NEW t, GoodTable(t), js' = [js EXCEPT ![n] = t]
    PROVE  js' \in [Node -> JoinStateType] /\ \A k \in Node : GoodTable(js'[k])
BY DEF JoinOK, GoodTable

LEMMA RequestType ==
    ASSUME TypeInv, NEW n \in Node, NEW j \in Node, HandleJoinRequest(n, j)
    PROVE  TypeInv'
<1>1. PICK r \in 0 .. starts[j] : \E t \in Now(js[n]) :
          js' = [js EXCEPT ![n] = Ranked(AddPendingJoin(js[n], j, <<j, r>>, t))]
  BY DEF HandleJoinRequest
<1>2. PICK t \in Now(js[n]) :
          js' = [js EXCEPT ![n] = Ranked(AddPendingJoin(js[n], j, <<j, r>>, t))]
  BY <1>1
<1>3. GoodTable(js[n]) /\ t \in Nat
  BY NowNat DEF TypeInv, JoinOK
<1>4. <<j, r>> \in Req
  BY RingAssumption DEF TypeInv, JoinOK
<1>5. GoodTable(Ranked(AddPendingJoin(js[n], j, <<j, r>>, t)))
  BY <1>3, <1>4, AddPendingJoinGood, RankedGood
<1>6. js' \in [Node -> JoinStateType] /\ \A k \in Node : GoodTable(js'[k])
  BY <1>2, <1>5, TableStep DEF TypeInv
<1> QED
  BY <1>6 DEF TypeInv, RingOK, TokenOK, JoinOK, MailOK, NetOK, HandleJoinRequest, ringVars, netVars, mailVars

LEMMA PruneType ==
    ASSUME TypeInv, NEW n \in Node, Prune(n)
    PROVE  TypeInv'
<1>1. PICK t \in Stamps(js[n]) : js' = [js EXCEPT ![n] = Ranked(PruneJoins(js[n], t, -1))]
  BY DEF Prune
<1>2. GoodTable(js[n])
  BY DEF TypeInv, JoinOK
<1>3. GoodTable(Ranked(PruneJoins(js[n], t, -1)))
  BY <1>2, PruneJoinsGood, RankedGood
<1>4. js' \in [Node -> JoinStateType] /\ \A k \in Node : GoodTable(js'[k])
  BY <1>1, <1>3, TableStep DEF TypeInv
<1> QED
  BY <1>4 DEF TypeInv, RingOK, TokenOK, JoinOK, MailOK, NetOK, Prune, ringVars, netVars, mailVars

LEMMA InflightTickType ==
    ASSUME TypeInv, NEW n \in Node, InflightTick(n)
    PROVE  TypeInv'
<1>1. n \in joined /\ infl[n] \in InflType /\ SendAccepts(n, infl[n])
  BY DEF TypeInv, JoinOK, RingOK, InflightTick
<1>2. NetOK' /\ losses' \in Nat
  BY <1>1, SendAcceptsType
<1> QED
  BY <1>2 DEF TypeInv, RingOK, TokenOK, JoinOK, MailOK, InflightTick, ringVars, joinVars, mailVars

(* handle_cli_if_ready takes a message from the FIFO or leaves all alone.  *)
LEMMA CliType ==
    ASSUME TypeInv, NEW n \in Node
    PROVE  CliAfterRead(n) \in Mail \cup {None} /\ FifoAfterRead(n) \in Seq(Mail)
<1>1. fifo[n] \in Seq(Mail) /\ cli[n] \in Mail \cup {None}
  BY DEF TypeInv, MailOK
<1>2. CASE CliReady(n)
  <2>1. Head(fifo[n]) \in Mail /\ Tail(fifo[n]) \in Seq(Mail)
    BY <1>1, <1>2 DEF CliReady
  <2> QED BY <1>2, <2>1 DEF CliAfterRead, FifoAfterRead
<1>3. CASE ~CliReady(n)
  BY <1>1, <1>3 DEF CliAfterRead, FifoAfterRead
<1> QED BY <1>2, <1>3

LEMMA StartJoinType ==
    ASSUME TypeInv, NEW n \in Node, StartJoin(n)
    PROVE  TypeInv'
<1> DEFINE join == js[n].joins[Oldest(js[n])]
           x == StartInflight(n, join)
<1>1. n \in joined /\ n \in have /\ Used(js[n]) # {} /\ GoodTable(js[n])
  BY DEF StartJoin, TokenReady, TypeInv, JoinOK
<1>2. join \in PendingJoin
  BY <1>1, ScanIndices, UsedEntries
<1>3. x \in InflType
  BY <1>1, <1>2 DEF StartInflight, InflType, PendingJoin, TypeInv, RingOK, Both
<1>4. /\ infl' = [infl EXCEPT ![n] = x]
      /\ js' = [js EXCEPT ![n] = Ranked(PopOldestPendingJoin(js[n]))]
      /\ SendAccepts(n, x)
  BY DEF StartJoin
<1>5. js' \in [Node -> JoinStateType] /\ \A k \in Node : GoodTable(js'[k])
  <2>1. GoodTable(Ranked(PopOldestPendingJoin(js[n])))
    BY <1>1, PopOldestGood, RankedGood
  <2> QED BY <1>4, <2>1, TableStep DEF TypeInv
<1>6. NetOK' /\ losses' \in Nat
  BY <1>1, <1>3, <1>4, SendAcceptsType
<1>7. MailOK'
  BY CliType DEF StartJoin, TypeInv, MailOK
<1> HIDE DEF x
<1>8. JoinOK'
  BY <1>1, <1>3, <1>4, <1>5 DEF StartJoin, TypeInv, JoinOK
<1>9. RingOK' /\ TokenOK'
  BY DEF StartJoin, TypeInv, RingOK, TokenOK, ringVars
<1> QED BY <1>6, <1>7, <1>8, <1>9 DEF TypeInv

LEMMA RecvAckType ==
    ASSUME TypeInv, NEW n \in Node, NEW m \in net, RecvAck(n, m)
    PROVE  TypeInv'
<1> DEFINE got == infl[n].got
                  \cup {g \in {"prev"} : m.from \in {infl[n].prev, prev[n]}}
                  \cup {g \in {"joiner"} : m.from = infl[n].joiner}
           answer == [type |-> "ackack", from |-> n, to |-> m.from, req |-> m.req]
<1>1. m.from \in Node /\ m.req \in Req
  BY DEF RecvAck, TypeInv, NetOK, UnicastMsg
<1>2. NetOK' /\ losses' \in Nat
  <2>1. answer \in UnicastMsg
    BY <1>1 DEF UnicastMsg
  <2>2. CASE Transmit({}, {m}) /\ losses' = losses
    BY <2>2, NoMessageType DEF TypeInv
  <2>3. CASE \E o \in ThreeSends(IsDup(n, m.from), Budget) :
               Transmit({[msg |-> answer, out |-> o]}, {m}) /\ losses' = losses + o.lost
    <3>1. PICK o \in ThreeSends(IsDup(n, m.from), Budget) :
             Transmit({[msg |-> answer, out |-> o]}, {m}) /\ losses' = losses + o.lost
      BY <2>3
    <3>2. IsDup(n, m.from) \in BOOLEAN
      BY DEF IsDup
    <3>3. o \in OutcomeType
      BY <3>2, ThreeSendsType
    <3> HIDE DEF answer
    <3>4. NetOK'
      BY <2>1, <3>1, OneMessageType DEF TypeInv
    <3>5. losses' \in Nat
      BY <3>1, <3>3 DEF TypeInv, OutcomeType
    <3> QED BY <3>4, <3>5
  <2> QED BY <2>2, <2>3, Zenon DEF RecvAck
<1>3. UNCHANGED <<joined, have, acks, starts>> /\ UNCHANGED mailVars
  BY DEF RecvAck
<1>4. CASE UNCHANGED <<prev, next, topo, token, js, commits>> /\ infl' = infl
  BY <1>2, <1>3, <1>4 DEF TypeInv, RingOK, TokenOK, JoinOK, MailOK, mailVars
<1>5. CASE /\ UNCHANGED <<prev, next, topo, token, js, commits>>
           /\ infl[n] # None /\ infl' = [infl EXCEPT ![n].got = got]
  <2>1. infl[n] \in InflType
    BY <1>5 DEF TypeInv, JoinOK
  <2>2. got \subseteq Both
    BY <2>1 DEF InflType, Both
  <2>3. infl' \in [Node -> InflType \cup {None}]
    BY <1>5, <2>1, <2>2 DEF TypeInv, JoinOK, InflType
  <2>4. \A k \in Node : infl'[k] # None => infl[k] # None
    BY <1>5 DEF TypeInv, JoinOK
  <2>5. JoinOK'
    BY <1>3, <1>5, <2>3, <2>4 DEF TypeInv, JoinOK
  <2> QED BY <1>2, <1>3, <1>5, <2>5 DEF TypeInv, RingOK, TokenOK, MailOK, mailVars
<1>6. CASE infl[n] # None /\ TryComplete(n)
  <2>1. /\ infl[n] \in InflType /\ n \in have /\ n \in joined /\ topo[n] \in Nat
        /\ token[n] \in TokenType /\ GoodTable(js[n])
    BY <1>6 DEF TypeInv, JoinOK, TokenOK, RingOK
  <2>2. infl[n].joiner \in Node /\ infl[n].req \in Req
    BY <2>1 DEF InflType
  <2>3. RingOK'
    BY <1>3, <1>6, <2>1, <2>2 DEF TryComplete, TypeInv, RingOK
  <2>4. TokenOK'
    <3>1. [token[n] EXCEPT !.topo = topo[n] + 1] \in TokenType
      BY <2>1 DEF TokenType
    <3>2. token' = [token EXCEPT ![n] = [token[n] EXCEPT !.topo = topo[n] + 1]]
      BY <1>6 DEF TryComplete
    <3>3. topo' \in [Node -> Nat]
      BY <1>6, <2>1 DEF TryComplete, TypeInv, TokenOK
    <3> QED BY <1>3, <3>1, <3>2, <3>3 DEF TypeInv, TokenOK, RingOK
  <2>5. js' \in [Node -> JoinStateType] /\ \A k \in Node : GoodTable(js'[k])
    <3>1. js' = [js EXCEPT ![n] = Ranked(Finish(js[n], infl[n].joiner, infl[n].req))]
      BY <1>6 DEF TryComplete
    <3>2. GoodTable(Ranked(Finish(js[n], infl[n].joiner, infl[n].req)))
      BY <2>1, <2>2, FinishGood, RankedGood
    <3> QED BY <3>1, <3>2, TableStep DEF TypeInv
  <2>6. JoinOK'
    <3>1. commits' \subseteq [name : Node, req : Req, topo : Nat]
      BY <1>6, <2>1, <2>2 DEF TryComplete, TypeInv, JoinOK
    <3>2. infl' = [infl EXCEPT ![n] = None]
      BY <1>6 DEF TryComplete
    <3> QED BY <1>3, <2>5, <3>1, <3>2 DEF TypeInv, JoinOK
  <2>7. MailOK'
    BY <1>3 DEF TypeInv, MailOK, mailVars
  <2> QED BY <1>2, <2>3, <2>4, <2>6, <2>7 DEF TypeInv
<1> QED BY <1>4, <1>5, <1>6, Zenon DEF RecvAck

LEMMA RecvAcceptType ==
    ASSUME TypeInv, NEW n \in Node, NEW m \in net, RecvAccept(n, m)
    PROVE  TypeInv'
<1> DEFINE ack == [type |-> "ack", from |-> n, to |-> m.from, req |-> m.req]
<1>1. m.from \in Node /\ m.new \in Node /\ m.prev \in Node /\ m.req \in Req
  BY DEF RecvAccept, TypeInv, NetOK, UnicastMsg
<1>2. js' \in [Node -> JoinStateType] /\ \A k \in Node : GoodTable(js'[k])
  <2>1. js' = [js EXCEPT ![n] = Ranked(MarkCompletedAndPrunePending(js[n], m.new, m.req))]
    BY DEF RecvAccept
  <2>2. GoodTable(js[n])
    BY DEF TypeInv, JoinOK
  <2>3. GoodTable(Ranked(MarkCompletedAndPrunePending(js[n], m.new, m.req)))
    BY <1>1, <2>2, FinishGood, RankedGood
  <2> QED BY <2>1, <2>3, TableStep DEF TypeInv
<1>3. UNCHANGED <<have, token, topo, infl, commits, starts>> /\ UNCHANGED mailVars
  BY DEF RecvAccept
<1>4. TokenOK' /\ MailOK'
  BY <1>3 DEF TypeInv, TokenOK, MailOK, mailVars
<1>5. CASE Transmit({}, {m}) /\ UNCHANGED <<ringVars, acks, losses>>
  <2>1. NetOK'
    BY <1>5, NoMessageType DEF TypeInv
  <2> QED BY <1>2, <1>3, <1>4, <1>5, <2>1 DEF TypeInv, RingOK, JoinOK, ringVars
<1>6. CASE
    /\ AsJoiner(n, m) \/ AsPrev(n, m)
    /\ joined' = joined \cup {n}
    /\ next' = [next EXCEPT ![n] = NextAfterAccept(n, m)]
    /\ prev' = IF n = m.new THEN [prev EXCEPT ![n] = m.prev] ELSE prev
    /\ \E o \in LimitedSend(IsDup(n, m.from), Budget) :
          /\ Transmit({[msg |-> ack, out |-> o]}, {m})
          /\ losses' = losses + o.lost
          /\ acks' = [acks EXCEPT ![n] = [req |-> m.req, coord |-> m.from, retries |-> 1 - o.lost]]
  <2>1. PICK o \in LimitedSend(IsDup(n, m.from), Budget) :
          /\ Transmit({[msg |-> ack, out |-> o]}, {m})
          /\ losses' = losses + o.lost
          /\ acks' = [acks EXCEPT ![n] = [req |-> m.req, coord |-> m.from, retries |-> 1 - o.lost]]
    BY <1>6
  <2>2. o \in OutcomeType /\ o.lost \in {0, 1}
    <3>1. IsDup(n, m.from) \in BOOLEAN
      BY DEF IsDup
    <3>2. o.lost \in {0, 1}
      BY DEF LimitedSend, Success, Outcome
    <3> QED BY <3>1, <3>2, LimitedSendType
  <2>3. NetOK' /\ losses' \in Nat
    <3>1. ack \in UnicastMsg
      BY <1>1 DEF UnicastMsg
    <3> HIDE DEF ack
    <3>2. NetOK'
      BY <2>1, <3>1, OneMessageType DEF TypeInv
    <3>3. losses' \in Nat
      BY <2>1, <2>2 DEF TypeInv, OutcomeType
    <3> QED BY <3>2, <3>3
  <2>4. acks' \in [Node -> AcksType \cup {None}]
    <3>1. [req |-> m.req, coord |-> m.from, retries |-> 1 - o.lost] \in AcksType
      BY <1>1, <2>2 DEF AcksType
    <3> QED BY <2>1, <3>1 DEF TypeInv, JoinOK
  <2>5. JoinOK'
    BY <1>2, <1>3, <2>4 DEF TypeInv, JoinOK
  <2>6. RingOK'
    <3>1. NextAfterAccept(n, m) \in Node
      BY <1>1 DEF NextAfterAccept
    <3>2. n \in joined \/ n = m.new
      BY <1>1, <1>6, NoneAssumption DEF AsJoiner, AsPrev, TypeInv, RingOK
    <3>3. /\ joined' \subseteq Node /\ have' \subseteq joined'
          /\ next' \in [Node -> Node \cup {None}] /\ prev' \in [Node -> Node \cup {None}]
      BY <1>1, <1>3, <1>6, <3>1 DEF TypeInv, RingOK
    <3>4. next'[n] \in Node /\ prev'[n] \in Node
      BY <1>1, <1>6, <3>1, <3>2 DEF TypeInv, RingOK
    <3>5. \A k \in Node \ {n} : next'[k] = next[k] /\ prev'[k] = prev[k]
      BY <1>6 DEF TypeInv, RingOK
    <3> QED BY <1>6, <3>3, <3>4, <3>5 DEF TypeInv, RingOK
  <2> QED BY <1>4, <2>3, <2>5, <2>6 DEF TypeInv
<1> QED BY <1>5, <1>6, Zenon DEF RecvAccept

LEMMA AckSenderTickType ==
    ASSUME TypeInv, NEW n \in Node, AckSenderTick(n)
    PROVE  TypeInv'
<1> DEFINE ack == [type |-> "ack", from |-> n, to |-> acks[n].coord, req |-> acks[n].req]
<1>1. acks[n] \in AcksType /\ acks[n] # None
  BY DEF AckSenderTick, TypeInv, JoinOK
<1>2. UNCHANGED <<ringVars, have, token, topo, js, infl, commits, starts, mailVars>>
  BY DEF AckSenderTick
<1>3. RingOK' /\ TokenOK' /\ MailOK'
  BY <1>2 DEF TypeInv, RingOK, TokenOK, MailOK, ringVars, mailVars
<1>4. CASE acks' = [acks EXCEPT ![n] = None] /\ UNCHANGED netVars
  BY <1>2, <1>3, <1>4 DEF TypeInv, JoinOK, NetOK, netVars
<1>5. CASE /\ acks' = [acks EXCEPT ![n].retries = @ + 1]
           /\ \E o \in LimitedSend(IsDup(n, acks[n].coord), Budget) :
                 /\ Transmit({[msg |-> ack, out |-> o]}, {})
                 /\ losses' = losses + o.lost
  <2>1. PICK o \in LimitedSend(IsDup(n, acks[n].coord), Budget) :
                 /\ Transmit({[msg |-> ack, out |-> o]}, {})
                 /\ losses' = losses + o.lost
    BY <1>5
  <2>2. o \in OutcomeType
    <3>1. IsDup(n, acks[n].coord) \in BOOLEAN
      BY DEF IsDup
    <3> QED BY <3>1, LimitedSendType
  <2>3. losses' \in Nat
    BY <2>1, <2>2 DEF TypeInv, OutcomeType
  <2>4. ack \in UnicastMsg
    BY <1>1 DEF UnicastMsg, AcksType
  <2>5. NetOK'
    <3> HIDE DEF ack
    <3> QED BY <2>1, <2>4, OneMessageType DEF TypeInv
  <2>6. acks' \in [Node -> AcksType \cup {None}]
    BY <1>1, <1>5 DEF TypeInv, JoinOK, AcksType
  <2> QED BY <1>2, <1>3, <2>3, <2>5, <2>6 DEF TypeInv, JoinOK
<1> QED BY <1>4, <1>5, Zenon DEF AckSenderTick

LEMMA RecvAckAckType ==
    ASSUME TypeInv, NEW n \in Node, NEW m \in net, RecvAckAck(n, m)
    PROVE  TypeInv'
<1>1. NetOK'
  BY NoMessageType DEF RecvAckAck, TypeInv
<1>2. acks' \in [Node -> AcksType \cup {None}]
  BY DEF RecvAckAck, TypeInv, JoinOK
<1> QED BY <1>1, <1>2 DEF RecvAckAck, TypeInv, RingOK, TokenOK, JoinOK, MailOK, ringVars, mailVars

LEMMA JoinCommitType ==
    ASSUME TypeInv, NEW n \in Node, NEW c \in commits, HandleJoinCommit(n, c)
    PROVE  TypeInv'
<1> DEFINE newer  == c.topo > topo[n]
           v      == IF newer THEN c.topo ELSE topo[n]
           marked == MarkCompletedAndPrunePending(js[n], c.name, c.req)
           kept   == IF newer THEN DropOldestPendingJoins(marked, marked.count) ELSE marked
           mine   == infl[n] # None /\ infl[n].req = c.req
           table  == Ranked(IF mine THEN Finish(kept, infl[n].joiner, infl[n].req) ELSE kept)
<1>1. c.name \in Node /\ c.req \in Req /\ c.topo \in Nat /\ topo[n] \in Nat /\ v \in Nat
  BY DEF TypeInv, JoinOK, TokenOK
<1>2. mine => infl[n] \in InflType /\ infl[n].joiner \in Node /\ infl[n].req \in Req
                 /\ n \in have /\ n \in joined /\ token[n] \in TokenType
  BY DEF TypeInv, JoinOK, TokenOK, RingOK, InflType
<1>3. GoodTable(table)
  <2>1. GoodTable(js[n])
    BY DEF TypeInv, JoinOK
  <2>2. GoodTable(marked)
    BY <1>1, <2>1, FinishGood
  <2>3. GoodTable(kept)
    BY <2>2, DropOldestGood
  <2> HIDE DEF mine, kept
  <2>4. CASE mine
    <3>1. GoodTable(Finish(kept, infl[n].joiner, infl[n].req))
      BY <1>2, <2>3, <2>4, FinishGood
    <3> QED BY <2>4, <3>1, RankedGood
  <2>5. CASE ~mine
    BY <2>3, <2>5, RankedGood
  <2> QED BY <2>4, <2>5
<1>4. /\ topo' = [topo EXCEPT ![n] = v]
      /\ js' = [js EXCEPT ![n] = table]
      /\ infl' = [infl EXCEPT ![n] = IF mine THEN None ELSE @]
      /\ prev' = [prev EXCEPT ![n] = IF mine THEN infl[n].joiner ELSE @]
      /\ token' = IF mine THEN [token EXCEPT ![n].topo = v] ELSE token
      /\ acks' = IF acks[n] # None /\ acks[n].req = c.req THEN [acks EXCEPT ![n] = None] ELSE acks
      /\ UNCHANGED <<joined, next, have, commits, starts, netVars, mailVars>>
  BY DEF HandleJoinCommit
<1> HIDE DEF table, v, mine
<1>5. js' \in [Node -> JoinStateType] /\ \A k \in Node : GoodTable(js'[k])
  BY <1>3, <1>4, TableStep DEF TypeInv
<1>6. RingOK'
  BY <1>2, <1>4 DEF TypeInv, RingOK
<1>7. TokenOK'
  <2>1. topo' \in [Node -> Nat]
    BY <1>1, <1>4 DEF TypeInv, TokenOK
  <2>2. CASE mine
    <3>1. [token[n] EXCEPT !.topo = v] \in TokenType
      BY <1>1, <1>2, <2>2 DEF TokenType
    <3>2. token' = [token EXCEPT ![n] = [token[n] EXCEPT !.topo = v]]
      BY <1>4, <2>2
    <3> QED BY <1>4, <2>1, <3>1, <3>2 DEF TypeInv, TokenOK, RingOK
  <2>3. CASE ~mine
    BY <1>4, <2>1, <2>3 DEF TypeInv, TokenOK
  <2> QED BY <2>2, <2>3
<1>8. JoinOK'
  <2>1. infl' \in [Node -> InflType \cup {None}] /\ \A k \in Node : infl'[k] # None => infl[k] # None
    BY <1>4 DEF TypeInv, JoinOK
  <2>2. acks' \in [Node -> AcksType \cup {None}]
    BY <1>4 DEF TypeInv, JoinOK
  <2> QED BY <1>4, <1>5, <2>1, <2>2 DEF TypeInv, JoinOK
<1> QED BY <1>4, <1>6, <1>7, <1>8 DEF TypeInv, MailOK, NetOK, netVars, mailVars

LEMMA RestartType ==
    ASSUME TypeInv, NEW j \in Node, Restart(j)
    PROVE  TypeInv'
<1>1. NetOK'
  BY DEF Restart, TypeInv, NetOK
<1>2. RingOK'
  BY DEF Restart, TypeInv, RingOK, ringVars
<1>3. TokenOK'
  BY DEF Restart, TypeInv, RingOK, TokenOK
<1>4. js' \in [Node -> JoinStateType] /\ \A k \in Node : GoodTable(js'[k])
  BY EmptyGood, TableStep DEF Restart, TypeInv
<1>5. starts' \in [Node -> 0 .. MaxRestarts]
  BY RingAssumption DEF Restart, TypeInv, JoinOK
<1>6. JoinOK'
  BY <1>4, <1>5 DEF Restart, TypeInv, JoinOK
<1>7. MailOK'
  BY DEF Restart, TypeInv, MailOK
<1> QED BY <1>1, <1>2, <1>3, <1>6, <1>7 DEF Restart, TypeInv

LEMMA RecvTokenType ==
    ASSUME TypeInv, NEW n \in Node, NEW m \in net, RecvToken(n, m)
    PROVE  TypeInv'
<1> DEFINE newer == n \in joined /\ m.topo > topo[n]
           table == IF newer THEN DropOldestPendingJoins(js[n], js[n].count) ELSE js[n]
<1>1. [body |-> m.body, topo |-> m.topo] \in TokenType /\ m.topo \in Nat
  BY DEF RecvToken, TypeInv, NetOK, UnicastMsg, TokenType
<1>2. GoodTable(table)
  <2>1. GoodTable(js[n])
    BY DEF TypeInv, JoinOK
  <2> QED BY <2>1, DropOldestGood
<1>3. /\ token' = [token EXCEPT ![n] = [body |-> m.body, topo |-> m.topo]]
      /\ have' = IF n \in joined THEN have \cup {n} ELSE have
      /\ topo' = [topo EXCEPT ![n] = IF newer THEN m.topo ELSE @]
      /\ js' = [js EXCEPT ![n] = table]
      /\ Transmit({}, {m})
      /\ UNCHANGED <<ringVars, infl, acks, commits, starts, losses, mailVars>>
  BY DEF RecvToken
<1> HIDE DEF table, newer
<1>4. js' \in [Node -> JoinStateType] /\ \A k \in Node : GoodTable(js'[k])
  BY <1>2, <1>3, TableStep DEF TypeInv
<1>5. NetOK'
  BY <1>3, NoMessageType DEF TypeInv
<1>6. RingOK'
  BY <1>3 DEF TypeInv, RingOK, ringVars
<1>7. TokenOK'
  BY <1>1, <1>3 DEF TypeInv, RingOK, TokenOK
<1>8. JoinOK'
  BY <1>3, <1>4 DEF TypeInv, JoinOK
<1> QED BY <1>3, <1>5, <1>6, <1>7, <1>8 DEF TypeInv, MailOK, mailVars

LEMMA PassTokenType ==
    ASSUME TypeInv, NEW n \in Node, PassToken(n)
    PROVE  TypeInv'
<1> DEFINE load   == CliAfterRead(n)
           attach == CanAttach(n) /\ load # None
           msg    == [type |-> "token", from |-> n, to |-> next[n],
                      body |-> IF attach THEN load ELSE BodyAfterReport(n),
                      topo |-> IF attach THEN topo[n] ELSE token[n].topo]
<1>1. /\ n \in joined /\ n \in have /\ infl[n] = None
      /\ token[n] \in TokenType /\ next[n] \in Node /\ topo[n] \in Nat
  BY DEF PassToken, TokenReady, TypeInv, RingOK, TokenOK
<1>2. load \in Mail \cup {None} /\ FifoAfterRead(n) \in Seq(Mail)
  BY CliType
<1>3. BodyAfterReport(n) \in Mail \cup {None}
  BY <1>1 DEF BodyAfterReport, TokenType
<1>4. msg \in UnicastMsg
  <2>1. token[n].topo \in Nat
    BY <1>1 DEF TokenType
  <2> HIDE DEF load, attach
  <2> QED BY <1>1, <1>2, <1>3, <2>1 DEF UnicastMsg
<1>5. /\ fifo' = [fifo EXCEPT ![n] = FifoAfterRead(n)]
      /\ cli' = [cli EXCEPT ![n] = IF attach THEN None ELSE load]
      /\ received' = IF MailForMe(n) THEN [received EXCEPT ![token[n].body] = @ + 1]
                     ELSE received
      /\ UNCHANGED <<ringVars, topo, joinVars, written>>
  BY DEF PassToken
<1>6. \E o \in TokenSend(IsDup(n, next[n]), Budget) :
         /\ Transmit({[msg |-> msg, out |-> o]}, {})
         /\ losses' = losses + o.lost
         /\ AfterTokenSend(n, o.lost = 0)
  BY Zenon DEF PassToken
<1> HIDE DEF msg, attach, load
<1>7. PICK o \in TokenSend(IsDup(n, next[n]), Budget) :
         /\ Transmit({[msg |-> msg, out |-> o]}, {})
         /\ losses' = losses + o.lost
         /\ AfterTokenSend(n, o.lost = 0)
  BY <1>6
<1>8. o \in OutcomeType
  <2>1. IsDup(n, next[n]) \in BOOLEAN
    BY DEF IsDup
  <2> QED BY <2>1, TokenSendType
<1>9. NetOK'
  BY <1>4, <1>7, OneMessageType DEF TypeInv
<1>10. losses' \in Nat
  BY <1>7, <1>8 DEF TypeInv, OutcomeType
<1>11. MailOK'
  <2>1. \A b : [received EXCEPT ![b] = @ + 1] \in [Mail -> Nat]
    <3>1. received \in [Mail -> Nat]
      BY DEF TypeInv, MailOK
    <3>2. \A k \in Mail : received[k] + 1 \in Nat
      BY <3>1
    <3> QED BY <3>1, <3>2
  <2>2. received' \in [Mail -> Nat]
    BY <1>5, <2>1 DEF TypeInv, MailOK
  <2> QED BY <1>2, <1>5, <2>2 DEF TypeInv, MailOK
<1>12. \/ have' = have /\ token' = token
       \/ have' = have \ {n} /\ token' = [token EXCEPT ![n] = None]
  BY <1>7 DEF AfterTokenSend
<1>13. RingOK' /\ TokenOK' /\ JoinOK'
  BY <1>1, <1>5, <1>12 DEF TypeInv, RingOK, TokenOK, JoinOK, ringVars, joinVars
<1> QED BY <1>9, <1>10, <1>11, <1>13 DEF TypeInv

LEMMA WriterType ==
    ASSUME TypeInv,
           (\E n \in Node : CliRead(n)) \/ (\E m \in Mail : Write(m))
    PROVE  TypeInv'
<1>1. ASSUME NEW n \in Node, CliRead(n) PROVE TypeInv'
  <2>1. MailOK'
    BY <1>1, CliType DEF CliRead, TypeInv, MailOK
  <2> QED BY <1>1, <2>1 DEF CliRead, TypeInv, RingOK, TokenOK, JoinOK, NetOK, ringVars, joinVars, netVars
<1>2. ASSUME NEW m \in Mail, Write(m) PROVE TypeInv'
  <2>1. m.from \in Node
    BY RingAssumption
  <2>2. MailOK'
    BY <1>2, <2>1 DEF Write, TypeInv, MailOK
  <2> QED BY <1>2, <2>2 DEF Write, TypeInv, RingOK, TokenOK, JoinOK, NetOK, ringVars, joinVars, netVars
<1> QED BY <1>1, <1>2

(* Every step keeps the types.                                             *)
LEMMA NextTypeInv ==
    ASSUME TypeInv, [Next]_vars
    PROVE  TypeInv'
<1>1. CASE UNCHANGED vars
  BY <1>1 DEF vars, ringVars, joinVars, netVars, mailVars, TypeInv, RingOK, TokenOK, JoinOK, MailOK, NetOK
<1>2. CASE Next
  BY <1>2, RequestType, RecvTokenType, RecvAcceptType, RecvAckType, RecvAckAckType,
     JoinCommitType, PruneType, InflightTickType, StartJoinType, AckSenderTickType,
     RestartType, PassTokenType, WriterType DEF Next
<1> QED BY <1>1, <1>2

(* Whatever fails and however often nodes restart, no handler reads the    *)
(* field of a token, a neighbour or a join that is not there: every state  *)
(* of the protocol is well typed.                                          *)
THEOREM RingTypeCorrect == Spec => []TypeOK
<1>1. TypeInv /\ [Next]_vars => TypeInv'
  BY NextTypeInv
<1> QED BY <1>1, InitTypeInv, TypeInvIsTypeOK, PTL DEF Spec

-----------------------------------------------------------------------------
(* One token.                                                              *)

(* The two halves of the argument lean on each other: the token is unique  *)
(* because its holder gives it up in the step that sends it, and only the  *)
(* holder has a join in flight because the token stays while one is.       *)
IInv ==
    /\ infl = [n \in Node |-> infl[n]]
    /\ AtMostOneToken
    /\ CoordinatorHoldsToken

(* A step that sends no token adds none to the network.                    *)
LEMMA TransmitsNoToken ==
    ASSUME NEW ms, NEW taken, Transmit(ms, taken),
           \A x \in ms : x.msg.type # "token"
    PROVE  InTransit' \subseteq InTransit
BY DEF Transmit, InTransit

LEMMA AcceptsAreNoTokens ==
    ASSUME NEW n, NEW x, SendAccepts(n, x)
    PROVE  InTransit' \subseteq InTransit
BY DEF SendAccepts, Transmit, InTransit

(* A step that leaves the holders alone, adds no token to the network and  *)
(* starts no join keeps the invariant.                                     *)
LEMMA QuietStep ==
    ASSUME IInv, have' = have, InTransit' \subseteq InTransit,
           infl' = [n \in Node |-> infl'[n]],
           \A n \in Node : infl'[n] # None => infl[n] # None
    PROVE  IInv'
BY DEF IInv, AtMostOneToken, CoordinatorHoldsToken

(* The initial state has one token, at the first node of the ring.         *)
LEMMA InitIInv == Init => IInv
<1> SUFFICES ASSUME Init PROVE IInv
  OBVIOUS
<1>1. have = {Ring0[1]} /\ net = {} /\ infl = [n \in Node |-> None]
  BY DEF Init
<1>2. InTransit = {}
  BY <1>1 DEF InTransit
<1> QED BY <1>1, <1>2 DEF IInv, AtMostOneToken, CoordinatorHoldsToken

(* A failed send of the token has not delivered it.                        *)
LEMMA TokenSendOutcome ==
    ASSUME "ackAckError" \notin Faults, NEW d \in BOOLEAN, NEW left,
           NEW o \in TokenSend(d, left)
    PROVE  o.lost = 0 \/ (o.lost # 0 /\ ~o.got)
BY DEF TokenSend, Success, Outcome

(* Every step keeps the invariant.                                         *)
LEMMA NextIInv ==
    ASSUME "ackAckError" \notin Faults, IInv, [Next]_vars
    PROVE  IInv'
<1>1. ASSUME NEW n \in Node, NEW j \in Node, HandleJoinRequest(n, j) PROVE IInv'
  BY <1>1, QuietStep DEF HandleJoinRequest, netVars, InTransit, IInv
<1>2. ASSUME NEW n \in Node, NEW m \in net, RecvToken(n, m) PROVE IInv'
  <2>1. m \in InTransit /\ have = {}
    BY <1>2 DEF RecvToken, InTransit, IInv, AtMostOneToken
  <2>2. InTransit' = {}
    BY <1>2, <2>1 DEF RecvToken, Transmit, InTransit, IInv, AtMostOneToken
  <2>3. have' \subseteq {n}
    BY <1>2, <2>1 DEF RecvToken
  <2>4. infl' = infl /\ \A k \in Node : infl[k] = None
    BY <1>2, <2>1 DEF RecvToken, IInv, CoordinatorHoldsToken
  <2> QED BY <2>2, <2>3, <2>4 DEF IInv, AtMostOneToken, CoordinatorHoldsToken
<1>3. ASSUME NEW n \in Node, NEW m \in net, RecvAccept(n, m) PROVE IInv'
  <2>1. InTransit' \subseteq InTransit
    <3>1. PICK o : \/ Transmit({}, {m})
                   \/ Transmit({[msg |-> [type |-> "ack", from |-> n, to |-> m.from,
                                          req |-> m.req], out |-> o]}, {m})
      BY <1>3, Zenon DEF RecvAccept
    <3> QED BY <3>1, TransmitsNoToken
  <2> QED BY <1>3, <2>1, QuietStep DEF RecvAccept, IInv
<1>4. ASSUME NEW n \in Node, NEW m \in net, RecvAck(n, m) PROVE IInv'
  <2>1. InTransit' \subseteq InTransit
    <3>1. PICK o : \/ Transmit({}, {m})
                   \/ Transmit({[msg |-> [type |-> "ackack", from |-> n, to |-> m.from,
                                          req |-> m.req], out |-> o]}, {m})
      BY <1>4, Zenon DEF RecvAck
    <3> QED BY <3>1, TransmitsNoToken
  <2>2. /\ infl' = [k \in Node |-> infl'[k]]
        /\ \A k \in Node : infl'[k] # None => infl[k] # None
    <3>1. infl = [k \in Node |-> infl[k]]
      BY DEF IInv
    <3>2. \/ infl' = infl
          \/ infl' = [infl EXCEPT ![n] = None]
          \/ infl[n] # None /\ \E g : infl' = [infl EXCEPT ![n].got = g]
      BY <1>4 DEF RecvAck, TryComplete
    <3> QED BY <3>1, <3>2
  <2>3. have' = have
    BY <1>4 DEF RecvAck
  <2> QED BY <2>1, <2>2, <2>3, QuietStep
<1>5. ASSUME NEW n \in Node, NEW m \in net, RecvAckAck(n, m) PROVE IInv'
  <2>1. InTransit' \subseteq InTransit
    BY <1>5, TransmitsNoToken DEF RecvAckAck
  <2> QED BY <1>5, <2>1, QuietStep DEF RecvAckAck, IInv
<1>6. ASSUME NEW n \in Node, NEW c \in commits, HandleJoinCommit(n, c) PROVE IInv'
  <2>1. InTransit' = InTransit /\ have' = have
    BY <1>6 DEF HandleJoinCommit, InTransit, netVars
  <2>2. infl' = infl \/ infl' = [infl EXCEPT ![n] = None]
    BY <1>6 DEF HandleJoinCommit, IInv
  <2>3. infl = [k \in Node |-> infl[k]]
    BY DEF IInv
  <2>4. /\ infl' = [k \in Node |-> infl'[k]]
        /\ \A k \in Node : infl'[k] # None => infl[k] # None
    BY <2>2, <2>3
  <2> QED BY <2>1, <2>4, QuietStep
<1>7. ASSUME NEW n \in Node, Prune(n) PROVE IInv'
  BY <1>7, QuietStep DEF Prune, netVars, InTransit, IInv
<1>8. ASSUME NEW n \in Node, InflightTick(n) PROVE IInv'
  <2>1. InTransit' \subseteq InTransit
    BY <1>8, AcceptsAreNoTokens DEF InflightTick
  <2> QED BY <1>8, <2>1, QuietStep DEF InflightTick, joinVars, IInv
<1>9. ASSUME NEW n \in Node, StartJoin(n) PROVE IInv'
  <2>1. InTransit' \subseteq InTransit
    BY <1>9, AcceptsAreNoTokens DEF StartJoin
  <2>2. have' = have /\ n \in have
    BY <1>9 DEF StartJoin, TokenReady
  <2>3. PICK x : infl' = [infl EXCEPT ![n] = x]
    BY <1>9 DEF StartJoin
  <2> QED BY <2>1, <2>2, <2>3 DEF IInv, AtMostOneToken, CoordinatorHoldsToken
<1>10. ASSUME NEW n \in Node, AckSenderTick(n) PROVE IInv'
  <2>1. InTransit' \subseteq InTransit
    <3>1. PICK o : \/ UNCHANGED netVars
                   \/ Transmit({[msg |-> [type |-> "ack", from |-> n, to |-> acks[n].coord,
                                          req |-> acks[n].req], out |-> o]}, {})
      BY <1>10, Zenon DEF AckSenderTick
    <3>2. CASE UNCHANGED netVars
      BY <3>2 DEF netVars, InTransit
    <3> QED BY <3>1, <3>2, TransmitsNoToken
  <2> QED BY <1>10, <2>1, QuietStep DEF AckSenderTick, IInv
<1>11. ASSUME NEW n \in Node, PassToken(n) PROVE IInv'
  <2>1. have = {n} /\ InTransit = {} /\ infl[n] = None
    BY <1>11 DEF PassToken, TokenReady, IInv, AtMostOneToken
  <2>2. infl' = infl /\ \A k \in Node : infl[k] = None
    BY <1>11, <2>1 DEF PassToken, joinVars, IInv, CoordinatorHoldsToken
  <2>3. \E msg : \E o \in TokenSend(IsDup(n, next[n]), Budget) :
            /\ Transmit({[msg |-> msg, out |-> o]}, {})
            /\ have' = IF o.lost = 0 THEN have \ {n} ELSE have
    BY <1>11, Zenon DEF PassToken, AfterTokenSend
  <2>a. PICK msg : \E o \in TokenSend(IsDup(n, next[n]), Budget) :
            /\ Transmit({[msg |-> msg, out |-> o]}, {})
            /\ have' = IF o.lost = 0 THEN have \ {n} ELSE have
    BY <2>3
  <2>b. PICK o \in TokenSend(IsDup(n, next[n]), Budget) :
            /\ Transmit({[msg |-> msg, out |-> o]}, {})
            /\ have' = IF o.lost = 0 THEN have \ {n} ELSE have
    BY <2>a
  <2>4. o.lost = 0 \/ (o.lost # 0 /\ ~o.got)
    <3>1. IsDup(n, next[n]) \in BOOLEAN
      BY DEF IsDup
    <3> QED BY <2>b, <3>1, TokenSendOutcome, Zenon
  <2>5. InTransit' \subseteq {msg} /\ (~o.got => InTransit' = {})
    BY <2>1, <2>b DEF Transmit, InTransit
  <2>6. CASE o.lost = 0
    BY <2>1, <2>2, <2>b, <2>5, <2>6 DEF IInv, AtMostOneToken, CoordinatorHoldsToken
  <2>7. CASE o.lost # 0 /\ ~o.got
    BY <2>1, <2>2, <2>b, <2>5, <2>7 DEF IInv, AtMostOneToken, CoordinatorHoldsToken
  <2> QED BY <2>4, <2>6, <2>7
<1>12. ASSUME NEW n \in Node, CliRead(n) PROVE IInv'
  BY <1>12, QuietStep DEF CliRead, netVars, joinVars, InTransit, IInv
<1>13. ASSUME NEW m \in Mail, Write(m) PROVE IInv'
  BY <1>13, QuietStep DEF Write, netVars, joinVars, InTransit, IInv
<1>14. ASSUME NEW j \in Node, Restart(j) PROVE IInv'
  BY <1>14, QuietStep DEF Restart, InTransit, IInv
<1>15. ASSUME UNCHANGED vars PROVE IInv'
  BY <1>15, QuietStep DEF vars, netVars, joinVars, InTransit, IInv
<1> QED
  BY <1>1, <1>2, <1>3, <1>4, <1>5, <1>6, <1>7, <1>8, <1>9, <1>10, <1>11, <1>12, <1>13,
     <1>14, <1>15
     DEF Next

(* In every ring, with any number of nodes joining, any losses and         *)
(* retries, late requests, expiries, failed sends and swallowed messages:  *)
(* there are never two tokens.                                             *)
THEOREM TokenUnique ==
    ASSUME "ackAckError" \notin Faults
    PROVE  Spec => []AtMostOneToken
<1>1. IInv => AtMostOneToken
  BY DEF IInv
<1>2. IInv /\ [Next]_vars => IInv'
  BY NextIInv
<1> QED BY <1>1, <1>2, InitIInv, PTL DEF Spec

(* In the same generality, a join is coordinated by the token holder and   *)
(* the token does not move before the join is through, so two joins are    *)
(* never under way at once.                                                *)
THEOREM CoordinatorIsHolder ==
    ASSUME "ackAckError" \notin Faults
    PROVE  Spec => []CoordinatorHoldsToken
<1>1. IInv => CoordinatorHoldsToken
  BY DEF IInv
<1>2. IInv /\ [Next]_vars => IInv'
  BY NextIInv
<1> QED BY <1>1, <1>2, InitIInv, PTL DEF Spec

=============================================================================
