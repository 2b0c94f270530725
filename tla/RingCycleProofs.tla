-------------------------- MODULE RingCycleProofs --------------------------
(***************************************************************************)
(* The ring of Ring stays one cycle through every join, its version counts *)
(* the joins, and the protocol implements the abstract ring.               *)
(*                                                                         *)
(* A join links its joiner in three places at three moments: at the        *)
(* joiner, at the coordinator's predecessor, at the coordinator.  The      *)
(* invariant says how far the join in flight has got, what the messages    *)
(* under way say of it, and that those of earlier joins, which may still   *)
(* arrive, say nothing a node would act on.                                *)
(***************************************************************************)
EXTENDS RingTokenProofs

Succ == [n \in Node |-> IF n \in Members THEN Successor(n) ELSE None]

Version == Cardinality(Members) - Cardinality(Member0)

(* An accept of the join that h coordinates.                               *)
Current(h, m) ==
    /\ m.from = h /\ m.new = infl[h].joiner /\ m.req = infl[h].req /\ m.prev = infl[h].prev
    /\ m.to = m.new \/ (m.to = m.prev /\ m.prev # h)

(* An accept of a join that is through: its receiver has acted on it.      *)
Past(m) ==
    /\ m.new \in Members /\ m.from \in Members /\ m.prev \in Members
    /\ m.to = m.new \/ (m.to = m.prev /\ next[m.prev] # m.from)

AcceptsKnown ==
    \A m \in net : m.type = "accept" =>
        Past(m) \/ \E h \in Node : infl[h] # None /\ Current(h, m)

(* The predecessor of the coordinator h knows the joiner.                  *)
Linked(h) == next[infl[h].prev] = infl[h].joiner \/ infl[h].prev = h

(* Whoever confirms a join has done its part.                              *)
GoodAck(from, req) ==
    /\ Known(req[1])
    /\ \A h \in Node :
          infl[h] # None /\ infl[h].req = req /\ infl[h].prev = from => Linked(h)

AcksKnown ==
    /\ \A m \in net : m.type = "ack" => GoodAck(m.from, m.req)
    /\ \A n \in Node : acks[n] # None => GoodAck(n, acks[n].req)

CommitsPast == \A c \in commits : c.name \in Members /\ c.topo <= Version

(* How far the join that h coordinates has got.                            *)
Phase(h, x) ==
    /\ h \in Members /\ x.prev \in Members /\ x.prev = prev[h]
    /\ next[x.prev] \in {h, x.joiner}
    /\ x.prev = h => next[h] = h /\ "prev" \in x.got
    /\ x.joiner \in joined => next[x.joiner] = h /\ prev[x.joiner] = x.prev
    /\ "prev" \in x.got => Linked(h)

JoinPhase == \A h \in Node : infl[h] # None => Phase(h, infl[h])

(* No request of the joiner in flight is left twice in its coordinator's   *)
(* table, ...                                                              *)
JoinerOnce ==
    \A h \in Node : infl[h] # None =>
        \A i, k \in SlotsOf(js[h], infl[h].joiner) : i = k

(* ... and a request of a node already in the ring is only in the tables   *)
(* of those who have not heard of the latest join.                         *)
TablesOld ==
    \A n \in Node : \A i \in Used(js[n]) :
        js[n].joins[i].name \in Members => topo[n] < Version

TokenVersion ==
    /\ \A n \in have : token[n].topo = Version /\ topo[n] = Version
    /\ \A m \in InTransit : m.topo = Version
    /\ \A n \in Node : topo[n] <= Version

CInv ==
    /\ RingIntact /\ IsFiniteSet(Members)
    /\ AcceptsKnown /\ AcksKnown /\ CommitsPast
    /\ JoinPhase /\ JoinerOnce /\ TablesOld
    /\ TokenVersion

(* What the proofs of the steps start from.                                *)
Facts == TypeInv /\ IInv /\ LInv /\ CInv

(* No table holds three requests of one node.  Two are possible: the scan  *)
(* of add_pending_join stops at the first slot that is free or holds the   *)
(* name.                                                                   *)
NoThirdEntry ==
    \A n, k \in Node : \A h, i, j \in SlotsOf(js[n], k) : h = i \/ i = j \/ h = j

-----------------------------------------------------------------------------
(* The mapping to the abstract ring.                                       *)

TR == INSTANCE TokenRingProofs WITH
    members <- Members,
    succ    <- [n \in Node |-> IF n \in Members THEN Successor(n) ELSE None],
    at      <- TokenAt

AbstractStep == [Abstract!Next]_(Abstract!vars)

(* With no join in flight the ring is what next says; ...                  *)
NoJoinView ==
    (\A k \in Node : infl[k] = None) =>
        Joining = {} /\ Members = joined /\ \A n : Successor(n) = next[n]

(* ... with one in flight, it is what next says without the joiner.        *)
JoinView ==
    OneJoin => \A h \in Node : infl[h] # None =>
        /\ Joining = {infl[h].joiner} /\ Members = joined \ {infl[h].joiner}
        /\ \A n : Successor(n) = IF next[n] = infl[h].joiner THEN h ELSE next[n]

LEMMA NoJoin == NoJoinView
BY DEF NoJoinView, Joining, Members, Successor

LEMMA JoinAt == JoinView
<1> SUFFICES ASSUME OneJoin, NEW h \in Node, infl[h] # None
             PROVE  /\ Joining = {infl[h].joiner} /\ Members = joined \ {infl[h].joiner}
                    /\ \A n : Successor(n) = IF next[n] = infl[h].joiner THEN h ELSE next[n]
  BY DEF JoinView
<1>1. Joining = {infl[h].joiner}
  BY DEF Joining, OneJoin
<1>2. \A n : Successor(n) = IF next[n] = infl[h].joiner THEN h ELSE next[n]
  BY <1>1 DEF Successor, OneJoin
<1> QED BY <1>1, <1>2 DEF Members

LEMMA NoJoinNext == NoJoinView'
BY NoJoin, PTL

LEMMA JoinAtNext == JoinView'
BY JoinAt, PTL

(* A step that the abstract ring can take keeps the ring one.              *)
LEMMA OneRingNext ==
    ASSUME Abstract!OneRing, AbstractStep
    PROVE  Abstract!OneRing'
BY TR!NextOneRing
   DEF AbstractStep, Abstract!OneRing, TR!OneRing, Abstract!Next, TR!Next,
       Abstract!vars, TR!vars, Abstract!Pass, TR!Pass, Abstract!Insert, TR!Insert

(* What one cycle means for the successors.                                *)
LEMMA RingFacts ==
    ASSUME Facts
    PROVE  /\ Members \subseteq joined /\ joined \subseteq Node /\ TokenAt \in Members
           /\ \A n \in Members : Successor(n) \in Members /\ prev[Successor(n)] = n
           /\ \A m, n \in Members : Successor(m) = Successor(n) => m = n
           /\ \A n \in Members : prev[n] \in Members /\ Successor(prev[n]) = n
<1>1. Members \subseteq joined /\ joined \subseteq Node
  BY DEF Facts, TypeInv, RingOK, Members
<1>2. Abstract!OneRing /\ \A n \in Members : prev[Successor(n)] = n
  BY DEF Facts, CInv, RingIntact
<1>3. /\ TokenAt \in Members
      /\ \A n \in Members : Successor(n) \in Members
      /\ \A m, n \in Members : Successor(m) = Successor(n) => m = n
  BY <1>1, <1>2 DEF Abstract!OneRing
<1>4. ASSUME NEW n \in Members PROVE \E m \in Members : Successor(m) = n
  <2>1. TR!OneRing
    BY <1>2 DEF Abstract!OneRing, TR!OneRing
  <2> QED BY <1>1, <2>1, TR!EveryoneIsSuccessor
<1> QED BY <1>1, <1>2, <1>3, <1>4

(* Where the token is, if it is held or sent.                              *)
LEMMA TokenHeld ==
    ASSUME IInv
    PROVE  /\ \A n \in have : TokenAt = n /\ have = {n} /\ InTransit = {}
           /\ \A m \in InTransit : TokenAt = m.to /\ have = {} /\ InTransit = {m}
<1>1. AtMostOneToken
  BY DEF IInv
<1>2. ASSUME NEW n \in have PROVE TokenAt = n /\ have = {n} /\ InTransit = {}
  BY <1>1 DEF AtMostOneToken, TokenAt
<1>3. ASSUME NEW m \in InTransit PROVE TokenAt = m.to /\ have = {} /\ InTransit = {m}
  BY <1>1 DEF AtMostOneToken, TokenAt
<1> QED BY <1>2, <1>3

LEMMA TokenHeldNext ==
    ASSUME IInv'
    PROVE  /\ \A n \in have' : TokenAt' = n /\ have' = {n} /\ InTransit' = {}
           /\ \A m \in InTransit' : TokenAt' = m.to /\ have' = {} /\ InTransit' = {m}
<1>1. AtMostOneToken'
  BY DEF IInv
<1>2. ASSUME NEW n \in have' PROVE TokenAt' = n /\ have' = {n} /\ InTransit' = {}
  BY <1>1 DEF AtMostOneToken, TokenAt
<1>3. ASSUME NEW m \in InTransit' PROVE TokenAt' = m.to /\ have' = {} /\ InTransit' = {m}
  BY <1>1 DEF AtMostOneToken, TokenAt
<1> QED BY <1>2, <1>3

(* A step that neither takes nor sends a token leaves it where it is.      *)
LEMMA TokenStays ==
    ASSUME IInv, IInv', LInv', have' = have, InTransit' \subseteq InTransit
    PROVE  TokenAt' = TokenAt /\ InTransit' = InTransit
<1>1. CASE have # {}
  BY <1>1, TokenHeld, TokenHeldNext
<1>2. CASE have = {}
  <2>1. PICK m : m \in InTransit'
    BY <1>2 DEF LInv, TokenNotLost
  <2> QED BY <2>1, TokenHeld, TokenHeldNext
<1> QED BY <1>1, <1>2

LEMMA Member0Finite == IsFiniteSet(Member0)
<1> DEFINE f == [i \in 1 .. Len(Ring0) |-> Ring0[i]]
<1>1. f \in Surjection(1 .. Len(Ring0), Member0)
  BY DEF Surjection, Member0
<1>2. IsFiniteSet(1 .. Len(Ring0))
  BY RingAssumption, FS_Interval
<1> QED BY <1>1, <1>2, FS_Surjection

LEMMA VersionInt ==
    ASSUME Facts
    PROVE  Version \in Int
BY Member0Finite, FS_CardinalityType DEF Facts, CInv, Version

-----------------------------------------------------------------------------
(* Steps that leave the ring as it is.                                     *)

Same == UNCHANGED <<joined, next, prev, infl>>

LEMMA SameRing ==
    ASSUME Same
    PROVE  /\ UNCHANGED <<Members, Joining, Version, Succ>>
           /\ \A n : Successor(n)' = Successor(n)
           /\ \A m : Past(m)' = Past(m)
           /\ \A h, m : Current(h, m)' = Current(h, m)
           /\ \A n, r : GoodAck(n, r)' = GoodAck(n, r)
           /\ \A h, x : Phase(h, x)' = Phase(h, x)
<1>1. Joining' = Joining /\ Members' = Members
  BY DEF Same, Joining, Members
<1>2. \A n : Successor(n)' = Successor(n)
  BY <1>1 DEF Same, Successor
<1>3. Succ' = Succ
  BY <1>1, <1>2 DEF Succ
<1>4. Version' = Version
  BY <1>1 DEF Version
<1>5. \A m : Past(m)' = Past(m)
  BY <1>1 DEF Same, Past
<1>6. \A h, m : Current(h, m)' = Current(h, m)
  BY DEF Same, Current
<1>7. \A n, r : GoodAck(n, r)' = GoodAck(n, r)
  BY DEF Same, GoodAck, Linked, Known
<1>8. \A h, x : Phase(h, x)' = Phase(h, x)
  BY <1>1 DEF Same, Phase, Linked
<1> QED BY <1>1, <1>2, <1>3, <1>4, <1>5, <1>6, <1>7, <1>8

(* The messages sent are about the join in flight.                         *)
NewsGood ==
    /\ \A m \in net' \ net :
          /\ m.type = "accept" => \E h \in Node : infl[h] # None /\ Current(h, m)
          /\ m.type = "ack" => GoodAck(m.from, m.req)
    /\ \A n \in Node : acks'[n] # None => GoodAck(n, acks'[n].req)
    /\ commits' = commits

LEMMA QuietRing ==
    ASSUME Facts, Same, NewsGood, TokenAt' = TokenAt \/ AbstractStep,
           JoinerOnce', TablesOld', TokenVersion'
    PROVE  CInv' /\ AbstractStep
<1>1. /\ UNCHANGED <<Members, Joining, Version, Succ>>
      /\ \A n : Successor(n)' = Successor(n)
      /\ \A m : Past(m)' = Past(m)
      /\ \A h, m : Current(h, m)' = Current(h, m)
      /\ \A n, r : GoodAck(n, r)' = GoodAck(n, r)
      /\ \A h, x : Phase(h, x)' = Phase(h, x)
  BY SameRing
<1>2. AbstractStep
  BY <1>1 DEF AbstractStep, Abstract!vars, Succ
<1>3. RingIntact'
  <2>1. Abstract!OneRing'
    BY <1>2, OneRingNext DEF Facts, CInv, RingIntact
  <2> QED BY <1>1, <2>1 DEF Facts, CInv, RingIntact, Same
<1>4. AcceptsKnown'
  BY <1>1 DEF Facts, CInv, AcceptsKnown, NewsGood, Same
<1>5. AcksKnown'
  BY <1>1 DEF Facts, CInv, AcksKnown, NewsGood
<1>6. CommitsPast'
  BY <1>1 DEF Facts, CInv, CommitsPast, NewsGood
<1>7. JoinPhase'
  BY <1>1 DEF Facts, CInv, JoinPhase, Same
<1>8. IsFiniteSet(Members)'
  BY <1>1 DEF Facts, CInv
<1> QED BY <1>2, <1>3, <1>4, <1>5, <1>6, <1>7, <1>8 DEF CInv

(* A table that loses requests, or is emptied when the node hears of a     *)
(* newer ring.                                                             *)
LEMMA FewerRequests ==
    ASSUME Facts, Members' = Members, NEW n \in Node, NEW t, js' = [js EXCEPT ![n] = t],
           \/ topo' = topo /\ Fewer(js[n], t)
           \/ (\E v : topo' = [topo EXCEPT ![n] = v]) /\ Used(t) = {}
    PROVE  (infl' = infl => JoinerOnce') /\ TablesOld'
<1>1. Version' = Version
  BY DEF Version
<1>2. js'[n] = t /\ \A k \in Node \ {n} : js'[k] = js[k]
  BY DEF Facts, TypeInv, JoinOK
<1>3. \A k \in Node : \/ topo'[k] = topo[k] /\ Fewer(js[k], js'[k])
                      \/ Used(js'[k]) = {}
  BY <1>2 DEF Facts, TypeInv, TokenOK, Fewer
<1>4. ASSUME infl' = infl PROVE JoinerOnce'
  <2> SUFFICES ASSUME NEW h \in Node, infl[h] # None,
                      NEW i \in SlotsOf(js'[h], infl[h].joiner),
                      NEW k \in SlotsOf(js'[h], infl[h].joiner)
               PROVE  i = k
    BY <1>4 DEF JoinerOnce
  <2>1. i \in SlotsOf(js[h], infl[h].joiner) /\ k \in SlotsOf(js[h], infl[h].joiner)
    BY <1>3 DEF SlotsOf, Fewer
  <2> QED BY <2>1 DEF Facts, CInv, JoinerOnce
<1>5. TablesOld'
  <2> SUFFICES ASSUME NEW k \in Node, NEW i \in Used(js'[k]), js'[k].joins[i].name \in Members
               PROVE  topo'[k] < Version
    BY <1>1 DEF TablesOld
  <2> QED BY <1>3 DEF Facts, CInv, TablesOld, Fewer
<1> QED BY <1>4, <1>5

(* The version stays where the holders and the tokens under way stay.      *)
LEMMA SameVersion ==
    ASSUME Facts, Members' = Members, have' = have, InTransit' \subseteq InTransit,
           \A n \in have : token'[n].topo = token[n].topo,
           topo' = topo
    PROVE  TokenVersion'
<1>1. Version' = Version
  BY DEF Version
<1> QED BY <1>1 DEF Facts, CInv, TokenVersion

-----------------------------------------------------------------------------
(* The steps.                                                              *)

(* Nothing is sent and no table changes.                                   *)
LEMMA NothingNew ==
    ASSUME Facts, Same, UNCHANGED <<have, token, topo, js, acks, commits, net>>
    PROVE  CInv' /\ AbstractStep
<1>1. NewsGood
  BY DEF Facts, CInv, AcksKnown, NewsGood
<1>2. TokenAt' = TokenAt /\ InTransit' = InTransit
  BY DEF TokenAt, InTransit
<1>3. JoinerOnce' /\ TablesOld'
  BY SameRing DEF Facts, CInv, JoinerOnce, TablesOld, Same
<1> QED BY <1>1, <1>2, <1>3, SameVersion, SameRing, QuietRing

(* A request that is handled is of a node not in the ring, and not of the  *)
(* joiner in flight at its coordinator.                                    *)
LEMMA RequestCycle ==
    ASSUME "late" \notin Faults, Facts, NEW n \in Node, NEW j \in Node, HandleJoinRequest(n, j)
    PROVE  CInv' /\ AbstractStep
<1>1. Same /\ UNCHANGED <<have, token, topo, acks, commits, net>>
  BY DEF HandleJoinRequest, ringVars, netVars, Same
<1>2. PICK r \in 0 .. starts[j] : \E t \in Now(js[n]) :
          js' = [js EXCEPT ![n] = Ranked(AddPendingJoin(js[n], j, <<j, r>>, t))]
  BY DEF HandleJoinRequest
<1>3. PICK t \in Now(js[n]) :
          js' = [js EXCEPT ![n] = Ranked(AddPendingJoin(js[n], j, <<j, r>>, t))]
  BY <1>2
<1>4. GoodTable(js[n]) /\ t \in Nat /\ <<j, r>> \in Req
  BY NowNat, RingAssumption DEF Facts, TypeInv, JoinOK
<1> DEFINE u == AddPendingJoin(js[n], j, <<j, r>>, t)
<1>5. GoodTable(u)
  BY <1>4, AddPendingJoinGood
<1>6. \A i \in Used(u) : \/ u.joins[i].name = j
                         \/ i \in Used(js[n]) /\ u.joins[i] = js[n].joins[i]
  BY <1>4, AddAdds
<1> HIDE DEF u
<1>7. \A i \in Used(Ranked(u)) :
          \/ Ranked(u).joins[i].name = j
          \/ i \in Used(js[n]) /\ Ranked(u).joins[i].name = js[n].joins[i].name
  BY <1>5, <1>6, RankedGood DEF SameRequests
<1>8. js'[n] = Ranked(u) /\ \A k \in Node \ {n} : js'[k] = js[k]
  BY <1>3 DEF u, Facts, TypeInv, JoinOK
<1>9. j \notin Members /\ (infl[n] # None => infl[n].joiner # j)
  BY RingFacts DEF HandleJoinRequest, RequestInFlight, Members
<1>10. JoinerOnce'
  <2> SUFFICES ASSUME NEW h \in Node, infl[h] # None,
                      NEW i \in SlotsOf(js'[h], infl[h].joiner),
                      NEW k \in SlotsOf(js'[h], infl[h].joiner)
               PROVE  i = k
    BY <1>1 DEF JoinerOnce, Same
  <2>1. i \in SlotsOf(js[h], infl[h].joiner) /\ k \in SlotsOf(js[h], infl[h].joiner)
    BY <1>7, <1>8, <1>9 DEF SlotsOf
  <2> QED BY <2>1 DEF Facts, CInv, JoinerOnce
<1>11. TablesOld'
  <2> SUFFICES ASSUME NEW k \in Node, NEW i \in Used(js'[k]), js'[k].joins[i].name \in Members
               PROVE  topo[k] < Version
    BY <1>1, SameRing DEF TablesOld
  <2> QED BY <1>7, <1>8, <1>9 DEF Facts, CInv, TablesOld
<1>12. NewsGood
  BY <1>1 DEF Facts, CInv, AcksKnown, NewsGood
<1>13. TokenAt' = TokenAt /\ InTransit' = InTransit
  BY <1>1 DEF TokenAt, InTransit
<1> QED BY <1>1, <1>10, <1>11, <1>12, <1>13, SameVersion, SameRing, QuietRing

LEMMA PruneCycle ==
    ASSUME Facts, NEW n \in Node, Prune(n)
    PROVE  CInv' /\ AbstractStep
<1>1. Same /\ UNCHANGED <<have, token, topo, acks, commits, net>>
  BY DEF Prune, ringVars, netVars, Same
<1>2. PICK t \in Stamps(js[n]) : js' = [js EXCEPT ![n] = Ranked(PruneJoins(js[n], t, -1))]
  BY DEF Prune
<1>3. GoodTable(js[n])
  BY DEF Facts, TypeInv, JoinOK
<1>4. Fewer(js[n], Ranked(PruneJoins(js[n], t, -1)))
  BY <1>3, PruneJoinsGood, PruneFewer, RankedFewer
<1>5. JoinerOnce' /\ TablesOld'
  BY <1>1, <1>2, <1>4, FewerRequests, SameRing DEF Same
<1>6. NewsGood
  BY <1>1 DEF Facts, CInv, AcksKnown, NewsGood
<1>7. TokenAt' = TokenAt /\ InTransit' = InTransit
  BY <1>1 DEF TokenAt, InTransit
<1> QED BY <1>1, <1>5, <1>6, <1>7, SameVersion, SameRing, QuietRing

(* What the coordinator n sends of the join x.                             *)
LEMMA AcceptsSent ==
    ASSUME NEW n, NEW x, SendAccepts(n, x)
    PROVE  /\ \A m \in net' \ net :
                 /\ m.type = "accept" /\ m.from = n
                 /\ m.new = x.joiner /\ m.req = x.req /\ m.prev = prev[n]
                 /\ m.to = m.new \/ (m.to = m.prev /\ "prev" \notin x.got)
           /\ InTransit' \subseteq InTransit
<1> DEFINE try(g, to, left) ==
               IF g \in x.got THEN {Outcome(FALSE, 0, FALSE)} ELSE LimitedSend(IsDup(n, to), left)
           accept(to) == [type |-> "accept", from |-> n, to |-> to,
                          new |-> x.joiner, req |-> x.req, prev |-> prev[n]]
           sends(o1, o2) == {y \in {[msg |-> accept(x.joiner), out |-> o1, by |-> "joiner"],
                                    [msg |-> accept(prev[n]), out |-> o2, by |-> "prev"]} :
                                y.by \notin x.got}
<1>1. PICK o1, o2 : Transmit(sends(o1, o2), {})
  BY Zenon DEF SendAccepts
<1>2. \A m \in net' \ net : \E y \in sends(o1, o2) : m = y.msg
  BY <1>1 DEF Transmit
<1>3. \A y \in sends(o1, o2) :
         \/ y.msg = accept(x.joiner)
         \/ y.msg = accept(prev[n]) /\ "prev" \notin x.got
  OBVIOUS
<1>4. ASSUME NEW m \in net' \ net
      PROVE  m = accept(x.joiner) \/ (m = accept(prev[n]) /\ "prev" \notin x.got)
  <2> HIDE DEF sends, accept
  <2> QED BY <1>2, <1>3
<1> QED BY <1>4, AcceptsAreNoTokens

LEMMA InflightTickCycle ==
    ASSUME Facts, IInv', LInv', NEW n \in Node, InflightTick(n)
    PROVE  CInv' /\ AbstractStep
<1>1. Same /\ UNCHANGED <<have, token, topo, js, acks, commits>>
  BY DEF InflightTick, ringVars, joinVars, Same
<1>2. infl[n] # None /\ SendAccepts(n, infl[n])
  BY DEF InflightTick
<1>3. Phase(n, infl[n])
  BY <1>2 DEF Facts, CInv, JoinPhase
<1>4. \A m \in net' \ net : m.type = "accept" /\ Current(n, m)
  BY <1>2, <1>3, AcceptsSent DEF Current, Phase
<1>5. NewsGood
  BY <1>1, <1>2, <1>4 DEF Facts, CInv, AcksKnown, NewsGood
<1>6. JoinerOnce' /\ TablesOld'
  BY <1>1, SameRing DEF Facts, CInv, JoinerOnce, TablesOld, Same
<1>7. InTransit' \subseteq InTransit
  BY <1>2, AcceptsSent
<1>8. TokenAt' = TokenAt
  BY <1>1, <1>7, TokenStays DEF Facts
<1> QED BY <1>1, <1>5, <1>6, <1>7, <1>8, SameVersion, SameRing, QuietRing

LEMMA AckSenderTickCycle ==
    ASSUME Facts, IInv', LInv', NEW n \in Node, AckSenderTick(n)
    PROVE  CInv' /\ AbstractStep
<1>1. Same /\ UNCHANGED <<have, token, topo, js, commits>> /\ acks[n] # None
  BY DEF AckSenderTick, ringVars, Same
<1>2. PICK a : a = [type |-> "ack", from |-> n, to |-> acks[n].coord, req |-> acks[n].req]
  OBVIOUS
<1>3. GoodAck(n, acks[n].req)
  BY <1>1 DEF Facts, CInv, AcksKnown
<1>4. (\A m \in net' \ net : m = a) /\ InTransit' \subseteq InTransit
  <2>1. PICK o : UNCHANGED netVars \/ Transmit({[msg |-> a, out |-> o]}, {})
    BY <1>2, Zenon DEF AckSenderTick
  <2>2. CASE UNCHANGED netVars
    BY <2>2 DEF netVars, InTransit
  <2>3. CASE Transmit({[msg |-> a, out |-> o]}, {})
    BY <1>2, <2>3 DEF Transmit, InTransit
  <2> QED BY <2>1, <2>2, <2>3
<1>5. \A k \in Node : acks'[k] # None => acks[k] # None /\ acks'[k].req = acks[k].req
  BY DEF AckSenderTick, Facts, TypeInv, JoinOK, AcksType
<1>6. NewsGood
  BY <1>1, <1>2, <1>3, <1>4, <1>5 DEF Facts, CInv, AcksKnown, NewsGood
<1>7. JoinerOnce' /\ TablesOld'
  BY <1>1, SameRing DEF Facts, CInv, JoinerOnce, TablesOld, Same
<1>8. TokenAt' = TokenAt
  BY <1>1, <1>4, TokenStays DEF Facts
<1> QED BY <1>1, <1>4, <1>6, <1>7, <1>8, SameVersion, SameRing, QuietRing

LEMMA RecvAckAckCycle ==
    ASSUME Facts, IInv', LInv', NEW n \in Node, NEW m \in net, RecvAckAck(n, m)
    PROVE  CInv' /\ AbstractStep
<1>1. Same /\ UNCHANGED <<have, token, topo, js, commits>> /\ net' \subseteq net
  BY DEF RecvAckAck, ringVars, Same, Transmit
<1>2. \A k \in Node : acks'[k] # None => acks[k] # None /\ acks'[k] = acks[k]
  BY DEF RecvAckAck, Facts, TypeInv, JoinOK
<1>3. NewsGood
  BY <1>1, <1>2 DEF Facts, CInv, AcksKnown, NewsGood
<1>4. JoinerOnce' /\ TablesOld'
  BY <1>1, SameRing DEF Facts, CInv, JoinerOnce, TablesOld, Same
<1>5. InTransit' \subseteq InTransit
  BY <1>1 DEF InTransit
<1>6. TokenAt' = TokenAt
  BY <1>1, <1>5, TokenStays DEF Facts
<1> QED BY <1>1, <1>3, <1>4, <1>5, <1>6, SameVersion, SameRing, QuietRing

(* A JOIN_COMMIT is of a join that is through: it never ends the one in    *)
(* flight.                                                                 *)
LEMMA JoinCommitCycle ==
    ASSUME Facts, NEW n \in Node, NEW c \in commits, HandleJoinCommit(n, c)
    PROVE  CInv' /\ AbstractStep
<1> DEFINE newer  == c.topo > topo[n]
           marked == MarkCompletedAndPrunePending(js[n], c.name, c.req)
           kept   == IF newer THEN DropOldestPendingJoins(marked, marked.count) ELSE marked
           mine   == infl[n] # None /\ infl[n].req = c.req
<1>1. c.name \in Members /\ c.topo <= Version /\ c.req[1] = c.name
      /\ c.name \in Node /\ c.req \in Req /\ c.topo \in Nat
  BY DEF Facts, CInv, CommitsPast, LInv, CommitsJoined, TypeInv, JoinOK
<1>2. ~mine
  <2>1. infl[n] # None => infl[n].joiner \notin Members
    BY DEF Members, Joining
  <2> QED BY <1>1, <2>1 DEF Facts, LInv, JoinsGood, GoodJoin
<1>3. /\ js' = [js EXCEPT ![n] = Ranked(kept)]
      /\ topo' = [topo EXCEPT ![n] = IF newer THEN c.topo ELSE topo[n]]
      /\ token' = token
  BY <1>2 DEF HandleJoinCommit
<1>4. Same /\ UNCHANGED <<have, commits, net>>
  <2>1. infl' = infl
    BY <1>2 DEF HandleJoinCommit, Facts, TypeInv, JoinOK
  <2>2. prev' = prev
    BY <1>2 DEF HandleJoinCommit, Facts, TypeInv, RingOK
  <2> QED BY <2>1, <2>2 DEF HandleJoinCommit, netVars, Same
<1>5. GoodTable(js[n])
  BY DEF Facts, TypeInv, JoinOK
<1>6. GoodTable(marked) /\ Fewer(js[n], marked)
  BY <1>1, <1>5, FinishGood, FinishFewer
<1>7. CASE newer
  <2>1. GoodTable(kept) /\ Used(kept) = {}
    BY <1>6, <1>7, DropOldestGood
  <2>2. Used(Ranked(kept)) = {}
    BY <2>1, RankedGood DEF SameRequests
  <2> HIDE DEF kept
  <2>3. JoinerOnce' /\ TablesOld'
    BY <1>3, <1>4, <1>7, <2>2, FewerRequests, SameRing DEF Same
  <2>4. \A k \in have : k # n
    <3>1. n \in have => topo[n] = Version
      BY DEF Facts, CInv, TokenVersion
    <3>2. topo[n] \in Nat
      BY DEF Facts, TypeInv, TokenOK
    <3> QED BY <1>1, <1>7, <3>1, <3>2
  <2>5. TokenVersion'
    <3>1. InTransit' = InTransit
      BY <1>4 DEF InTransit
    <3>2. Version' = Version
      BY <1>4, SameRing
    <3>3. (\A k \in Node : topo'[k] <= Version) /\ (\A k \in have : topo'[k] = topo[k])
      BY <1>1, <1>3, <1>7, <2>4 DEF Facts, CInv, TokenVersion, TypeInv, TokenOK, RingOK
    <3> QED BY <1>3, <1>4, <3>1, <3>2, <3>3 DEF Facts, CInv, TokenVersion
  <2>6. NewsGood
    <3>1. \A k \in Node : acks'[k] # None => acks[k] # None /\ acks'[k] = acks[k]
      BY DEF HandleJoinCommit, Facts, TypeInv, JoinOK
    <3> QED BY <1>4, <3>1 DEF Facts, CInv, AcksKnown, NewsGood
  <2>7. TokenAt' = TokenAt
    BY <1>4 DEF TokenAt, InTransit
  <2> QED BY <1>4, <2>3, <2>5, <2>6, <2>7, QuietRing
<1>8. CASE ~newer
  <2>1. Fewer(js[n], Ranked(kept))
    BY <1>6, <1>8, RankedFewer
  <2>2. topo' = topo
    BY <1>3, <1>8 DEF Facts, TypeInv, TokenOK
  <2> HIDE DEF kept
  <2>3. JoinerOnce' /\ TablesOld'
    BY <1>3, <1>4, <2>1, <2>2, FewerRequests, SameRing DEF Same
  <2>4. NewsGood
    <3>1. \A k \in Node : acks'[k] # None => acks[k] # None /\ acks'[k] = acks[k]
      BY DEF HandleJoinCommit, Facts, TypeInv, JoinOK
    <3> QED BY <1>4, <3>1 DEF Facts, CInv, AcksKnown, NewsGood
  <2>5. TokenAt' = TokenAt /\ InTransit' = InTransit
    BY <1>4 DEF TokenAt, InTransit
  <2>6. TokenVersion'
    BY <1>3, <1>4, <2>2, <2>5, SameVersion, SameRing
  <2> QED BY <1>4, <2>3, <2>4, <2>5, <2>6, QuietRing
<1> QED BY <1>7, <1>8

LEMMA RecvTokenCycle ==
    ASSUME Facts, IInv', LInv', NEW n \in Node, NEW m \in net, RecvToken(n, m)
    PROVE  CInv' /\ AbstractStep
<1>1. n \in joined /\ m \in InTransit /\ m.to = n /\ m.topo = Version
  BY DEF RecvToken, Facts, LInv, NetInv, NetGood, GoodMsg, CInv, TokenVersion, InTransit
<1>2. Same /\ UNCHANGED <<acks, commits>> /\ net' \subseteq net /\ have' = have \cup {n}
  BY <1>1 DEF RecvToken, ringVars, Same, Transmit
<1>3. TokenAt' = TokenAt /\ have' = {n} /\ InTransit' = {}
  <2>1. TokenAt = n /\ n \in have'
    BY <1>1, <1>2, TokenHeld DEF Facts
  <2> QED BY <2>1, TokenHeldNext
<1>4. /\ token' = [token EXCEPT ![n] = [body |-> m.body, topo |-> m.topo]]
      /\ topo' = [topo EXCEPT ![n] = IF m.topo > topo[n] THEN m.topo ELSE @]
      /\ js' = [js EXCEPT ![n] = IF m.topo > topo[n] THEN DropOldestPendingJoins(@, @.count) ELSE @]
  BY <1>1 DEF RecvToken
<1>5. topo \in [Node -> Nat] /\ topo[n] <= Version /\ Version \in Nat
      /\ token \in [Node -> TokenType \cup {None}] /\ GoodTable(js[n])
  BY <1>1 DEF Facts, TypeInv, TokenOK, JoinOK, NetOK, UnicastMsg, InTransit, CInv, TokenVersion
<1>6. TokenVersion'
  <2>1. Version' = Version
    BY <1>2, SameRing
  <2>2. topo'[n] = Version /\ token'[n].topo = Version /\ \A k \in Node \ {n} : topo'[k] = topo[k]
    BY <1>1, <1>4, <1>5
  <2> QED BY <1>3, <1>5, <2>1, <2>2 DEF Facts, CInv, TokenVersion
<1>7. JoinerOnce' /\ TablesOld'
  <2>1. CASE m.topo > topo[n]
    <3>1. Used(DropOldestPendingJoins(js[n], js[n].count)) = {}
      BY <1>5, DropOldestGood
    <3>2. PICK t : Used(t) = {} /\ js' = [js EXCEPT ![n] = t]
      BY <1>4, <2>1, <3>1
    <3> QED BY <1>2, <1>4, <2>1, <3>2, FewerRequests, SameRing DEF Same
  <2>2. CASE ~(m.topo > topo[n])
    <3>1. topo' = topo /\ js' = [js EXCEPT ![n] = js[n]] /\ Fewer(js[n], js[n])
      BY <1>4, <1>5, <2>2 DEF Fewer, Facts, TypeInv, JoinOK
    <3> QED BY <1>2, <3>1, FewerRequests, SameRing DEF Same
  <2> QED BY <2>1, <2>2
<1>8. NewsGood
  BY <1>2 DEF Facts, CInv, AcksKnown, NewsGood
<1> QED BY <1>2, <1>3, <1>6, <1>7, <1>8, QuietRing

(* The token goes on to the successor.                                     *)
LEMMA PassTokenCycle ==
    ASSUME NoSwallowing, Facts, IInv', LInv', NEW n \in Node, PassToken(n)
    PROVE  CInv' /\ AbstractStep
<1>1. /\ n \in joined /\ n \in have /\ have = {n} /\ InTransit = {} /\ TokenAt = n
      /\ \A k \in Node : infl[k] = None
  BY TokenHeld DEF PassToken, TokenReady, Facts, IInv, CoordinatorHoldsToken
<1>2. Same /\ UNCHANGED <<topo, js, acks, commits>>
  BY DEF PassToken, ringVars, joinVars, Same
<1>3. Members = joined /\ Successor(n) = next[n] /\ n \in Members
  BY <1>1, NoJoin DEF NoJoinView
<1>4. next[n] \in joined /\ IsDup(n, next[n]) = FALSE
  <2>1. next[n] \in joined
    BY <1>3, RingFacts
  <2> QED BY <2>1, JoinedInStep DEF Facts
<1>5. token[n].topo = Version /\ topo[n] = Version
  BY <1>1 DEF Facts, CInv, TokenVersion
<1>6. PICK b, v : /\ v = Version
                  /\ \E o \in TokenSend(IsDup(n, next[n]), Budget) :
                       /\ Transmit({[msg |-> [type |-> "token", from |-> n, to |-> next[n], body |-> b, topo |-> v],
                                     out |-> o]}, {})
                       /\ AfterTokenSend(n, o.lost = 0)
  BY <1>5, Zenon DEF PassToken
<1>7. PICK a : a = [type |-> "token", from |-> n, to |-> next[n], body |-> b, topo |-> v]
  OBVIOUS
<1>8. PICK o \in TokenSend(FALSE, Budget) :
         Transmit({[msg |-> a, out |-> o]}, {}) /\ AfterTokenSend(n, o.lost = 0)
  BY <1>4, <1>6, <1>7
<1>9. \A m \in net' \ net : m = a
  BY <1>8 DEF Transmit
<1>10. NewsGood
  BY <1>2, <1>7, <1>9 DEF Facts, CInv, AcksKnown, NewsGood
<1>11. JoinerOnce' /\ TablesOld'
  BY <1>2, SameRing DEF Facts, CInv, JoinerOnce, TablesOld, Same
<1>12. TokenVersion'
  <2>1. Version' = Version
    BY <1>2, SameRing
  <2>2. \A m \in InTransit' : m = a
    BY <1>1, <1>9 DEF InTransit
  <2>3. \A k \in have' : k = n /\ token' = token
    BY <1>1, <1>8 DEF AfterTokenSend
  <2> QED BY <1>2, <1>5, <1>6, <1>7, <2>1, <2>2, <2>3 DEF Facts, CInv, TokenVersion
<1>13. CASE o.lost # 0
  <2>1. n \in have'
    BY <1>1, <1>8, <1>13 DEF AfterTokenSend
  <2>2. TokenAt' = TokenAt
    BY <1>1, <2>1, TokenHeldNext
  <2> QED BY <1>2, <1>10, <1>11, <1>12, <2>2, QuietRing
<1>14. CASE o.lost = 0
  <2>1. o.got = TRUE
    BY <1>8, <1>14, SendsInStep
  <2>2. a \in InTransit'
    BY <1>7, <1>8, <2>1 DEF Transmit, InTransit
  <2>3. TokenAt' = Successor(n)
    BY <1>3, <1>7, <2>2, TokenHeldNext
  <2>4. UNCHANGED <<Members, Succ>> /\ Succ[n] = Successor(n)
    BY <1>2, <1>3, SameRing DEF Succ
  <2>5. AbstractStep
    BY <1>1, <2>3, <2>4 DEF AbstractStep, Abstract!Next, Abstract!Pass, Succ
  <2> QED BY <1>2, <1>10, <1>11, <1>12, <2>5, QuietRing
<1> QED BY <1>13, <1>14

(* A node that restarts is not in the ring.                                *)
LEMMA RestartCycle ==
    ASSUME Facts, IInv', LInv', NEW j \in Node, Restart(j)
    PROVE  CInv' /\ AbstractStep
<1>1. /\ j \notin joined /\ Same /\ UNCHANGED <<have, acks, commits>> /\ net' \subseteq net
      /\ topo' = [topo EXCEPT ![j] = 0] /\ token' = [token EXCEPT ![j] = None]
      /\ js' = [js EXCEPT ![j] = EmptyJoinState]
  BY DEF Restart, ringVars, Same
<1>2. Used(EmptyJoinState) = {}
  BY DEF Used, EmptyJoinState
<1>3. JoinerOnce' /\ TablesOld'
  BY <1>1, <1>2, FewerRequests, SameRing DEF Same
<1>4. NewsGood
  BY <1>1 DEF Facts, CInv, AcksKnown, NewsGood
<1>5. InTransit' \subseteq InTransit
  BY <1>1 DEF InTransit
<1>6. TokenAt' = TokenAt
  BY <1>1, <1>5, TokenStays DEF Facts
<1>7. TokenVersion'
  <2>1. Version' = Version
    BY <1>1, SameRing
  <2>2. 0 <= Version
    <3>1. topo[j] \in Nat /\ topo[j] <= Version
      BY DEF Facts, TypeInv, TokenOK, CInv, TokenVersion
    <3>2. Version \in Int
      BY VersionInt
    <3> QED BY <3>1, <3>2
  <2>3. have \subseteq joined
    BY DEF Facts, TypeInv, RingOK
  <2> QED BY <1>1, <1>5, <2>1, <2>2, <2>3 DEF Facts, CInv, TokenVersion, TypeInv, TokenOK
<1> QED BY <1>1, <1>3, <1>4, <1>6, <1>7, QuietRing

LEMMA OneJoinNext == IInv' => OneJoin'
BY DEF IInv, AtMostOneToken, CoordinatorHoldsToken, OneJoin

(* A join that starts leaves the ring as it is: its joiner is not in it,   *)
(* by the version that the holder knows.                                   *)
LEMMA StartJoinCycle ==
    ASSUME NoThirdEntry, Facts, IInv', LInv', NEW n \in Node, StartJoin(n)
    PROVE  CInv' /\ AbstractStep
<1> DEFINE join == js[n].joins[Oldest(js[n])]
<1>0. PICK x : x = StartInflight(n, join)
  OBVIOUS
<1>1. /\ n \in joined /\ n \in have /\ Used(js[n]) # {} /\ GoodTable(js[n])
      /\ have = {n} /\ InTransit = {} /\ TokenAt = n
      /\ \A k \in Node : infl[k] = None
  BY TokenHeld DEF StartJoin, TokenReady, Facts, IInv, CoordinatorHoldsToken, TypeInv, JoinOK
<1>2. /\ infl' = [infl EXCEPT ![n] = x]
      /\ js' = [js EXCEPT ![n] = Ranked(PopOldestPendingJoin(js[n]))]
      /\ SendAccepts(n, x)
      /\ UNCHANGED <<joined, next, prev, have, token, topo, acks, commits>>
  BY <1>0 DEF StartJoin, ringVars
<1>3. Oldest(js[n]) \in Used(js[n]) /\ join \in PendingJoin /\ join.req[1] = join.name
  BY <1>1, ScanIndices, UsedEntries DEF Facts, LInv, TablesOwn, OwnIds
<1>4. Members = joined /\ \A k : Successor(k) = next[k]
  BY <1>1, NoJoin DEF NoJoinView
<1>5. x.joiner \notin Members
  <2>1. topo[n] = Version /\ Version \in Int
    BY <1>1, VersionInt DEF Facts, CInv, TokenVersion
  <2> QED BY <1>0, <1>3, <2>1 DEF Facts, CInv, TablesOld, StartInflight
<1>6. /\ x.joiner = join.name /\ x.req = join.req /\ x.prev = prev[n]
      /\ x.got = IF prev[n] = n THEN {"prev"} ELSE {}
  BY <1>0 DEF StartInflight
<1>7. prev[n] \in Members /\ next[prev[n]] = n
  BY <1>1, <1>4, RingFacts
<1>8. x # None /\ infl'[n] = x /\ \A k \in Node \ {n} : infl'[k] = None
  <2>1. x \in InflType
    BY <1>0, <1>1, <1>3 DEF StartInflight, InflType, PendingJoin, Facts, TypeInv, RingOK, Both
  <2> QED BY <1>1, <1>2, <2>1, RingAssumption DEF InflType, Both, Facts, TypeInv, JoinOK
<1>9. /\ Members' = Members
      /\ \A k \in Members : Successor(k)' = Successor(k)
  <2>1. OneJoin'
    BY OneJoinNext
  <2>2. /\ Members' = joined \ {x.joiner}
        /\ \A k : Successor(k)' = IF next[k] = x.joiner THEN n ELSE next[k]
    BY <1>2, <1>8, <2>1, JoinAtNext DEF JoinView
  <2>3. \A k \in Members : next[k] \in Members
    BY <1>4, RingFacts
  <2> QED BY <1>4, <1>5, <2>2, <2>3
<1>10. AbstractStep /\ TokenAt' = TokenAt
  <2>1. TokenAt' = TokenAt
    BY <1>1, <1>2, TokenHeldNext
  <2>2. Succ' = Succ
    BY <1>9 DEF Succ
  <2> QED BY <1>9, <2>1, <2>2 DEF AbstractStep, Abstract!vars, Succ
<1>11. RingIntact'
  <2>1. Abstract!OneRing'
    BY <1>10, OneRingNext DEF Facts, CInv, RingIntact
  <2> QED BY <1>2, <1>9, <2>1 DEF Facts, CInv, RingIntact
<1>12. Phase(n, x)' /\ JoinPhase'
  <2>1. n \in Members /\ Linked(n)' = (next[prev[n]] = x.joiner \/ prev[n] = n)
    BY <1>1, <1>2, <1>4, <1>6, <1>8 DEF Linked
  <2>2. x.prev = n => next[n] = n /\ "prev" \in x.got
    BY <1>6, <1>7
  <2>3. "prev" \in x.got => prev[n] = n
    BY <1>6
  <2>4. Phase(n, x)'
    BY <1>2, <1>4, <1>5, <1>6, <1>7, <1>9, <2>1, <2>2, <2>3 DEF Phase
  <2> QED BY <1>8, <2>4 DEF JoinPhase
<1>13. AcceptsKnown'
  <2>1. \A m \in net' \ net : m.type = "accept" => Current(n, m)'
    BY <1>2, <1>6, <1>8, AcceptsSent DEF Current
  <2>2. \A m \in net : m.type = "accept" => Past(m)'
    BY <1>1, <1>2, <1>9 DEF Facts, CInv, AcceptsKnown, Past
  <2> QED BY <1>8, <2>1, <2>2 DEF AcceptsKnown
<1>14. AcksKnown'
  <2>1. \A f, r : GoodAck(f, r) => GoodAck(f, r)'
    <3> SUFFICES ASSUME NEW f, NEW r, GoodAck(f, r) PROVE GoodAck(f, r)'
      OBVIOUS
    <3>1. r[1] \in joined
      BY <1>1 DEF GoodAck, Known
    <3>2. x.req # r
      BY <1>3, <1>4, <1>5, <1>6, <3>1
    <3> QED BY <1>2, <1>8, <3>1, <3>2 DEF GoodAck, Known
  <2>2. \A m \in net' : m.type = "ack" => m \in net
    BY <1>2, AcceptsSent
  <2> QED BY <1>2, <2>1, <2>2 DEF Facts, CInv, AcksKnown
<1>15. JoinerOnce' /\ TablesOld'
  <2> DEFINE t == PopOldestPendingJoin(js[n])
  <2>1. GoodTable(t) /\ Fewer(js[n], t) /\ Fewer(js[n], Ranked(t))
    BY <1>1, PopOldestGood, PopFewer, RankedFewer
  <2>2. TablesOld'
    BY <1>2, <1>9, <2>1, FewerRequests
  <2>3. \A h, i, k \in SlotsOf(js[n], join.name) : h = i \/ i = k \/ h = k
    BY <1>3 DEF NoThirdEntry, PendingJoin
  <2>4. \A i, k \in SlotsOf(t, join.name) : i = k
    BY <1>1, <2>3, PopLeavesOne
  <2> HIDE DEF t
  <2>5. \A i, k \in SlotsOf(Ranked(t), join.name) : i = k
    BY <2>1, <2>4, RankedGood DEF SameRequests, SlotsOf
  <2>6. js'[n] = Ranked(t)
    BY <1>2 DEF t, Facts, TypeInv, JoinOK
  <2>7. JoinerOnce'
    BY <1>6, <1>8, <2>5, <2>6 DEF JoinerOnce
  <2> QED BY <2>2, <2>7
<1>16. TokenVersion'
  <2>1. InTransit' \subseteq InTransit
    BY <1>2, AcceptsSent
  <2> QED BY <1>2, <1>9, <2>1, SameVersion
<1>17. CommitsPast' /\ IsFiniteSet(Members)'
  <2>1. Version' = Version
    BY <1>9 DEF Version
  <2> QED BY <1>2, <1>9, <2>1 DEF Facts, CInv, CommitsPast
<1> QED BY <1>10, <1>11, <1>12, <1>13, <1>14, <1>15, <1>16, <1>17 DEF CInv

(* An accept of an earlier join is ignored; one of the join in flight      *)
(* links in the joiner at itself or at the coordinator's predecessor,      *)
(* neither of which the ring without the joiner shows.                     *)
LEMMA RecvAcceptCycle ==
    ASSUME Facts, IInv', LInv', NEW n \in Node, NEW m \in net, RecvAccept(n, m)
    PROVE  CInv' /\ AbstractStep
<1>1. /\ m.type = "accept" /\ m.to = n /\ m \in UnicastMsg
      /\ m.new \in Node /\ m.req \in Req
      /\ UNCHANGED <<have, token, topo, infl, commits>>
  BY DEF RecvAccept, Facts, TypeInv, NetOK, UnicastMsg
<1>2. /\ js' = [js EXCEPT ![n] = Ranked(MarkCompletedAndPrunePending(js[n], m.new, m.req))]
      /\ Fewer(js[n], Ranked(MarkCompletedAndPrunePending(js[n], m.new, m.req)))
  <2>1. GoodTable(js[n])
    BY DEF Facts, TypeInv, JoinOK
  <2> QED BY <1>1, <2>1, FinishGood, FinishFewer, RankedFewer DEF RecvAccept
<1>3. PICK a, o : /\ a = [type |-> "ack", from |-> n, to |-> m.from, req |-> m.req]
                  /\ \/ Transmit({}, {m}) /\ UNCHANGED <<ringVars, acks>>
                     \/ /\ AsJoiner(n, m) \/ AsPrev(n, m)
                        /\ joined' = joined \cup {n}
                        /\ next' = [next EXCEPT ![n] = NextAfterAccept(n, m)]
                        /\ prev' = IF n = m.new THEN [prev EXCEPT ![n] = m.prev] ELSE prev
                        /\ Transmit({[msg |-> a, out |-> o]}, {m})
                        /\ acks' = [acks EXCEPT ![n] =
                               [req |-> m.req, coord |-> m.from, retries |-> 1 - o.lost]]
  BY Zenon DEF RecvAccept
<1>4. (\A k \in net' \ net : k = a) /\ InTransit' \subseteq InTransit /\ a.type = "ack"
      /\ a.from = n /\ a.req = m.req
  BY <1>3 DEF Transmit, InTransit
<1>5. TokenAt' = TokenAt
  BY <1>1, <1>4, TokenStays DEF Facts
<1>6. CASE Transmit({}, {m}) /\ UNCHANGED <<ringVars, acks>>
  <2>1. Same /\ Members' = Members /\ net' \subseteq net
    BY <1>1, <1>6, SameRing DEF Same, ringVars, Transmit
  <2>2. NewsGood
    BY <1>1, <1>6, <2>1 DEF Facts, CInv, AcksKnown, NewsGood
  <2>3. JoinerOnce' /\ TablesOld'
    BY <1>1, <1>2, <2>1, FewerRequests DEF Same
  <2> QED BY <1>1, <1>4, <1>5, <2>1, <2>2, <2>3, SameVersion, QuietRing
<1>7. CASE /\ AsJoiner(n, m) \/ AsPrev(n, m)
           /\ joined' = joined \cup {n}
           /\ next' = [next EXCEPT ![n] = NextAfterAccept(n, m)]
           /\ prev' = IF n = m.new THEN [prev EXCEPT ![n] = m.prev] ELSE prev
           /\ acks' = [acks EXCEPT ![n] = [req |-> m.req, coord |-> m.from, retries |-> 1 - o.lost]]
  <2>1. ~Past(m)
    BY <1>1, <1>7, RingFacts DEF Past, AsJoiner, AsPrev
  <2>2. PICK h \in Node : infl[h] # None /\ Current(h, m)
    BY <1>1, <2>1 DEF Facts, CInv, AcceptsKnown
  <2>3. PICK x : x = infl[h]
    OBVIOUS
  <2>4. PICK j : j = x.joiner
    OBVIOUS
  <2>5. /\ m.from = h /\ m.new = j /\ m.req = x.req /\ m.prev = x.prev
        /\ n = j \/ (n = x.prev /\ x.prev # h)
    BY <1>1, <2>2, <2>3, <2>4 DEF Current
  <2>6. Phase(h, x) /\ OneJoin /\ OneJoin'
    BY <2>2, <2>3, OneJoinHolds, OneJoinNext DEF Facts, CInv, JoinPhase
  <2>7. Members = joined \ {j} /\ \A k : Successor(k) = IF next[k] = j THEN h ELSE next[k]
    BY <2>2, <2>3, <2>4, <2>6, JoinAt DEF JoinView
  <2>8. Members' = joined' \ {j} /\ \A k : Successor(k)' = IF next'[k] = j THEN h ELSE next'[k]
    BY <1>1, <2>2, <2>3, <2>4, <2>6, JoinAtNext DEF JoinView
  <2>9. /\ h \in Members /\ x.prev \in Members /\ x.prev = prev[h] /\ h # j /\ x.prev # j
        /\ next[x.prev] \in {h, j}
    BY <2>4, <2>6, <2>7 DEF Phase
  <2>10. /\ n = j => n \notin joined /\ next'[n] = h /\ prev'[n] = x.prev
         /\ n # j => n = x.prev /\ n \in joined /\ next[n] = h /\ next'[n] = j /\ prev' = prev
         /\ \A k \in Node \ {n} : next'[k] = next[k] /\ prev'[k] = prev[k]
    BY <1>7, <2>5, <2>7, <2>9 DEF AsJoiner, AsPrev, NextAfterAccept, Facts, TypeInv, RingOK
  <2>11. Members' = Members /\ Members \subseteq Node
    BY <1>7, <2>7, <2>8, <2>10, RingFacts
  <2>12. \A k \in Members : Successor(k)' = Successor(k)
    BY <2>7, <2>8, <2>9, <2>10, <2>11
  <2>13. AbstractStep
    <3>1. Succ' = Succ
      BY <2>11, <2>12 DEF Succ
    <3> QED BY <1>5, <2>11, <3>1 DEF AbstractStep, Abstract!vars, Succ
  <2>14. RingIntact'
    <3>1. Abstract!OneRing'
      BY <2>13, OneRingNext DEF Facts, CInv, RingIntact
    <3>2. \A k \in Members : prev'[k] = prev[k]
      BY <2>7, <2>10, <2>11
    <3>3. \A k \in Members : Successor(k) \in Members /\ prev[Successor(k)] = k
      BY RingFacts
    <3> QED BY <2>11, <2>12, <3>1, <3>2, <3>3 DEF RingIntact
  <2>15. Linked(h) => Linked(h)'
    BY <1>1, <2>3, <2>4, <2>9, <2>10, <2>11 DEF Linked
  <2>16. n # j => Linked(h)'
    BY <1>1, <2>3, <2>4, <2>10 DEF Linked
  <2>17. Phase(h, x)'
    <3>1. x.prev = h => next'[h] = h /\ "prev" \in x.got
      BY <2>5, <2>6, <2>9, <2>10, <2>11 DEF Phase
    <3>2. next'[x.prev] \in {h, j} /\ x.prev = prev'[h]
      BY <2>9, <2>10, <2>11
    <3>3. j \in joined' => next'[j] = h /\ prev'[j] = x.prev
      <4>1. CASE n = j
        BY <2>10, <4>1
      <4>2. CASE n # j
        BY <1>1, <1>7, <2>4, <2>5, <2>6, <2>10, <4>2 DEF Phase
      <4> QED BY <4>1, <4>2
    <3>4. "prev" \in x.got => Linked(h)'
      BY <2>6, <2>15 DEF Phase
    <3> QED BY <2>4, <2>9, <2>11, <3>1, <3>2, <3>3, <3>4 DEF Phase
  <2>18. JoinPhase'
    BY <1>1, <2>2, <2>3, <2>6, <2>17 DEF JoinPhase, OneJoin
  <2>19. AcceptsKnown'
    <3>1. \A k \in net : Past(k) => Past(k)'
      BY <2>7, <2>9, <2>10, <2>11 DEF Past
    <3>2. \A k : Current(h, k)' = Current(h, k)
      BY <1>1 DEF Current
    <3>3. \A k \in net' : k.type = "accept" => k \in net
      BY <1>4
    <3>4. \A k \in net : k.type = "accept" => Past(k) \/ Current(h, k)
      BY <2>2, <2>6 DEF Facts, CInv, AcceptsKnown, OneJoin
    <3> QED BY <1>1, <2>2, <3>1, <3>2, <3>3, <3>4 DEF AcceptsKnown
  <2>20. \A f, r : GoodAck(f, r) => GoodAck(f, r)'
    BY <1>1, <1>7, <2>2, <2>6, <2>15 DEF GoodAck, Known, OneJoin
  <2>21. GoodAck(n, m.req)'
    <3>1. Known(m.req[1])'
      BY <1>1, <2>2, <2>3, <2>4, <2>5 DEF Known, Facts, LInv, JoinsGood, GoodJoin
    <3>2. n # x.prev \/ Linked(h)'
      BY <2>9, <2>16
    <3> QED BY <1>1, <2>2, <2>3, <2>6, <3>1, <3>2 DEF GoodAck, OneJoin
  <2>22. AcksKnown'
    <3>1. \A k \in Node \ {n} : acks'[k] = acks[k]
      BY <1>7
    <3>2. acks'[n].req = m.req
      BY <1>7 DEF Facts, TypeInv, JoinOK
    <3> QED BY <1>4, <2>20, <2>21, <3>1, <3>2 DEF Facts, CInv, AcksKnown
  <2>23. CommitsPast' /\ IsFiniteSet(Members)'
    <3>1. Version' = Version
      BY <2>11 DEF Version
    <3> QED BY <1>1, <2>11, <3>1 DEF Facts, CInv, CommitsPast
  <2>24. JoinerOnce' /\ TablesOld'
    BY <1>1, <1>2, <2>11, FewerRequests
  <2>25. TokenVersion'
    BY <1>1, <1>4, <2>11, SameVersion
  <2> QED BY <2>13, <2>14, <2>18, <2>19, <2>22, <2>23, <2>24, <2>25 DEF CInv
<1> QED BY <1>3, <1>6, <1>7

(* Confirmations of the join in flight: the predecessor's comes only when  *)
(* it has linked in the joiner.                                            *)
ConfirmedBy(n, m) ==
    infl[n].got
        \cup {g \in {"prev"} : m.from \in {infl[n].prev, prev[n]}}
        \cup {g \in {"joiner"} : m.from = infl[n].joiner}

LEMMA Confirmations ==
    ASSUME Facts, NEW n \in Node, NEW m \in net, m.type = "ack",
           infl[n] # None, infl[n].req = m.req
    PROVE  /\ "prev" \in ConfirmedBy(n, m) => Linked(n)
           /\ "joiner" \in ConfirmedBy(n, m) => infl[n].joiner \in joined
           /\ infl[n].got \subseteq ConfirmedBy(n, m) /\ ConfirmedBy(n, m) \subseteq Both
<1>1. Phase(n, infl[n])
  BY DEF Facts, CInv, JoinPhase
<1>2. "prev" \in ConfirmedBy(n, m) => Linked(n)
  <2>1. GoodAck(m.from, m.req)
    BY DEF Facts, CInv, AcksKnown
  <2>2. m.from = infl[n].prev => Linked(n)
    BY <2>1 DEF GoodAck
  <2> QED BY <1>1, <2>2 DEF Phase, ConfirmedBy
<1>3. "joiner" \in ConfirmedBy(n, m) => infl[n].joiner \in joined
  <2>1. m.from \in joined /\ ("joiner" \in infl[n].got => infl[n].joiner \in joined)
    BY DEF Facts, LInv, NetInv, NetGood, GoodMsg, JoinsGood, GoodJoin
  <2> QED BY <2>1 DEF ConfirmedBy
<1>4. infl[n] \in InflType
  BY DEF Facts, TypeInv, JoinOK
<1> QED BY <1>2, <1>3, <1>4 DEF InflType, ConfirmedBy, Both

(* A confirmation that is not the last one leaves the ring as it is.       *)
LEMMA PartlyConfirmed ==
    ASSUME Facts, IInv', LInv', NEW n \in Node, NEW m \in net, m.type = "ack",
           infl[n] # None, infl[n].req = m.req,
           infl' = [infl EXCEPT ![n].got = ConfirmedBy(n, m)],
           UNCHANGED <<joined, next, prev, have, token, topo, js, acks, commits>>,
           \A k \in net' : k.type \in {"accept", "ack"} => k \in net,
           InTransit' \subseteq InTransit
    PROVE  CInv' /\ AbstractStep
<1> DEFINE got == ConfirmedBy(n, m)
<1>1. PICK x : x = infl[n]
  OBVIOUS
<1>2. PICK y : y = infl'[n]
  OBVIOUS
<1>3. infl \in [Node -> InflType \cup {None}] /\ x \in InflType
  BY <1>1 DEF Facts, TypeInv, JoinOK
<1>4. got \subseteq Both /\ ("prev" \in got => Linked(n)) /\ x.got \subseteq got
  BY <1>1, Confirmations
<1> HIDE DEF got
<1>5. /\ y.joiner = x.joiner /\ y.req = x.req /\ y.prev = x.prev /\ y.got = got
      /\ y \in InflType /\ \A k \in Node \ {n} : infl'[k] = infl[k]
  BY <1>1, <1>2, <1>3, <1>4 DEF got, InflType
<1>6. y # None /\ OneJoin /\ OneJoin' /\ \A k \in Node \ {n} : infl[k] = None
  BY <1>5, RingAssumption, OneJoinHolds, OneJoinNext DEF InflType, Both, Facts, OneJoin
<1>7. /\ Members' = Members /\ \A k : Successor(k)' = Successor(k)
  <2>1. Members = joined \ {x.joiner} /\ \A k : Successor(k) = IF next[k] = x.joiner THEN n ELSE next[k]
    BY <1>1, <1>6, JoinAt DEF JoinView
  <2>2. Members' = joined \ {x.joiner} /\ \A k : Successor(k)' = IF next[k] = x.joiner THEN n ELSE next[k]
    BY <1>1, <1>2, <1>5, <1>6, JoinAtNext DEF JoinView
  <2> QED BY <2>1, <2>2
<1>8. AbstractStep
  <2>1. TokenAt' = TokenAt
    BY TokenStays DEF Facts
  <2>2. Succ' = Succ
    BY <1>7 DEF Succ
  <2> QED BY <1>7, <2>1, <2>2 DEF AbstractStep, Abstract!vars, Succ
<1>9. RingIntact'
  <2>1. Abstract!OneRing'
    BY <1>8, OneRingNext DEF Facts, CInv, RingIntact
  <2> QED BY <1>7, <2>1 DEF Facts, CInv, RingIntact
<1>10. Linked(n)' = Linked(n)
  BY <1>1, <1>2, <1>5 DEF Linked
<1>11. JoinPhase'
  <2>1. Phase(n, x)
    BY <1>1 DEF Facts, CInv, JoinPhase
  <2>2. Phase(n, y)'
    BY <1>4, <1>5, <1>7, <1>10, <2>1 DEF Phase
  <2> QED BY <1>2, <1>5, <1>6, <2>2 DEF JoinPhase
<1>12. AcceptsKnown'
  <2>1. \A k : Past(k)' = Past(k)
    BY <1>7 DEF Past
  <2>2. \A k : Current(n, k)' = Current(n, k)
    BY <1>1, <1>2, <1>5 DEF Current
  <2>3. \A k \in net : k.type = "accept" => Past(k) \/ Current(n, k)
    BY <1>6 DEF Facts, CInv, AcceptsKnown
  <2> QED BY <1>2, <1>6, <2>1, <2>2, <2>3 DEF AcceptsKnown
<1>13. AcksKnown'
  <2>1. \A f, r : GoodAck(f, r) => GoodAck(f, r)'
    BY <1>1, <1>2, <1>5, <1>6, <1>10 DEF GoodAck, Known
  <2> QED BY <2>1 DEF Facts, CInv, AcksKnown
<1>14. CommitsPast' /\ IsFiniteSet(Members)' /\ Version' = Version
  <2>1. Version' = Version
    BY <1>7 DEF Version
  <2> QED BY <1>7, <2>1 DEF Facts, CInv, CommitsPast
<1>15. JoinerOnce'
  BY <1>1, <1>2, <1>5 DEF Facts, CInv, JoinerOnce
<1>16. TablesOld'
  BY <1>7, <1>14 DEF Facts, CInv, TablesOld
<1>17. TokenVersion'
  BY <1>7, SameVersion
<1> QED BY <1>8, <1>9, <1>11, <1>12, <1>13, <1>14, <1>15, <1>16, <1>17 DEF CInv

(* With the last confirmation the joiner is inserted before the token.     *)
LEMMA JoinThrough ==
    ASSUME Facts, IInv', LInv', NEW n \in Node, NEW m \in net, m.type = "ack",
           infl[n] # None, infl[n].req = m.req,
           Confirmed(ConfirmedBy(n, m)), TryComplete(n),
           UNCHANGED <<joined, have, acks>>,
           \A k \in net' : k.type \in {"accept", "ack"} => k \in net
    PROVE  CInv' /\ AbstractStep
<1>1. PICK x : x = infl[n]
  OBVIOUS
<1>2. PICK j : j = x.joiner
  OBVIOUS
<1>3. /\ infl \in [Node -> InflType \cup {None}] /\ x \in InflType /\ j \in Node /\ x.req \in Req
      /\ n \in have /\ have = {n} /\ InTransit = {} /\ TokenAt = n
      /\ have' = {n} /\ InTransit' = {} /\ TokenAt' = n
  BY <1>1, <1>2, TokenHeld, TokenHeldNext DEF Facts, TypeInv, JoinOK, InflType
<1>4. Linked(n) /\ j \in joined
  BY <1>1, <1>2, Confirmations DEF Confirmed, Both
<1>5. Phase(n, x) /\ OneJoin
  BY <1>1, OneJoinHolds DEF Facts, CInv, JoinPhase
<1>6. PICK p : p = x.prev
  OBVIOUS
<1>7. /\ n \in Members /\ p \in Members /\ p = prev[n] /\ next[p] \in {n, j}
      /\ next[j] = n /\ prev[j] = p
      /\ next[p] = j \/ (p = n /\ next[n] = n)
  BY <1>1, <1>2, <1>4, <1>5, <1>6 DEF Phase, Linked
<1>8. /\ prev' = [prev EXCEPT ![n] = j]
      /\ next' = IF p = n THEN [next EXCEPT ![n] = j] ELSE next
      /\ topo' = [topo EXCEPT ![n] = @ + 1]
      /\ token' = [token EXCEPT ![n].topo = topo[n] + 1]
      /\ js' = [js EXCEPT ![n] = Ranked(Finish(js[n], j, x.req))]
      /\ infl' = [infl EXCEPT ![n] = None]
      /\ commits' = commits \cup {[name |-> j, req |-> x.req, topo |-> topo[n] + 1]}
  BY <1>1, <1>2, <1>6 DEF TryComplete
<1>9. \A k \in Node : infl'[k] = None
  BY <1>1, <1>3, <1>5, <1>8 DEF OneJoin
<1>10. /\ Members = joined \ {j} /\ j \notin Members
       /\ \A k : Successor(k) = IF next[k] = j THEN n ELSE next[k]
  BY <1>1, <1>2, <1>5, JoinAt DEF JoinView
<1>11. Members' = Members \cup {j} /\ \A k : Successor(k)' = next'[k]
  BY <1>4, <1>9, <1>10, NoJoinNext DEF NoJoinView
<1>12. Members \subseteq Node /\ next \in [Node -> Node \cup {None}]
       /\ prev \in [Node -> Node \cup {None}]
  BY RingFacts DEF Facts, TypeInv, RingOK
<1>13. Successor(p) = n
  BY <1>7, <1>10
<1>14. /\ Successor(p)' = j /\ Successor(j)' = n
       /\ \A k \in Members : k # p => /\ Successor(k)' = Successor(k) /\ Successor(k) # n
  <2>1. Successor(p)' = j
    BY <1>7, <1>8, <1>11, <1>12
  <2>2. Successor(j)' = n
    BY <1>3, <1>7, <1>8, <1>10, <1>11, <1>12
  <2>3. ASSUME NEW k \in Members, k # p PROVE Successor(k)' = Successor(k) /\ Successor(k) # n
    <3>1. Successor(k) # n
      BY <1>7, <1>13, <2>3, RingFacts
    <3>2. next[k] # j
      BY <1>10, <3>1
    <3>3. next'[k] = next[k]
      BY <1>8, <1>12, <2>3
    <3> QED BY <1>10, <1>11, <3>1, <3>2, <3>3
  <2> QED BY <2>1, <2>2, <2>3
<1>15. AbstractStep
  <2>1. Succ \in [Node -> Node \cup {None}]
    BY <1>12, RingFacts DEF Succ
  <2>2. Succ' = [Succ EXCEPT ![p] = j, ![j] = n]
    <3>1. \A k \in Node : Succ'[k] = IF k = j THEN n ELSE IF k = p THEN j ELSE Succ[k]
      BY <1>7, <1>10, <1>11, <1>14 DEF Succ
    <3>2. Succ' = [k \in Node |-> Succ'[k]]
      BY DEF Succ
    <3>3. j # p
      BY <1>7, <1>10
    <3> QED BY <2>1, <3>1, <3>2, <3>3
  <2>3. Succ[p] = n
    BY <1>7, <1>12, <1>13 DEF Succ
  <2>4. Abstract!Insert(j)
    BY <1>3, <1>7, <1>10, <1>11, <2>2, <2>3 DEF Abstract!Insert, Succ
  <2> QED BY <1>3, <2>4 DEF AbstractStep, Abstract!Next
<1>16. RingIntact'
  <2>1. Abstract!OneRing'
    BY <1>15, OneRingNext DEF Facts, CInv, RingIntact
  <2>2. ASSUME NEW k \in Members' PROVE prev'[Successor(k)'] = k
    <3>1. CASE k = p
      BY <1>7, <1>8, <1>10, <1>12, <1>14, <3>1
    <3>2. CASE k = j
      BY <1>7, <1>8, <1>12, <1>14, <3>2
    <3>3. CASE k # p /\ k # j
      <4>1. k \in Members /\ Successor(k)' = Successor(k) /\ Successor(k) # n
        BY <1>11, <1>14, <3>3
      <4>2. prev[Successor(k)] = k
        BY <4>1, RingFacts
      <4>3. prev'[Successor(k)] = prev[Successor(k)]
        BY <1>8, <1>12, <4>1
      <4> QED BY <4>1, <4>2, <4>3
    <3> QED BY <3>1, <3>2, <3>3
  <2> QED BY <2>1, <2>2 DEF RingIntact
<1>17. topo[n] = Version /\ Version \in Nat /\ Version' = Version + 1 /\ IsFiniteSet(Members)'
  <2>1. topo[n] = Version /\ topo[n] \in Nat
    BY <1>3 DEF Facts, CInv, TokenVersion, TypeInv, TokenOK
  <2>2. IsFiniteSet(Members)' /\ Cardinality(Members)' = Cardinality(Members) + 1
    BY <1>10, <1>11, FS_AddElement DEF Facts, CInv
  <2>3. Cardinality(Members) \in Nat /\ Cardinality(Member0) \in Nat
    BY Member0Finite, FS_CardinalityType DEF Facts, CInv
  <2> QED BY <2>1, <2>2, <2>3 DEF Version
<1>18. AcceptsKnown'
  <2> SUFFICES ASSUME NEW k \in net, k.type = "accept" PROVE Past(k)'
    BY DEF AcceptsKnown
  <2>1. CASE Past(k)
    <3>1. \A i \in Members : next'[i] = next[i] \/ next'[i] = j
      BY <1>8, <1>12
    <3> QED BY <1>10, <1>11, <2>1, <3>1 DEF Past
  <2>2. CASE Current(n, k)
    BY <1>1, <1>2, <1>6, <1>7, <1>8, <1>10, <1>11, <2>2 DEF Past, Current
  <2> QED BY <1>1, <1>5, <2>1, <2>2 DEF Facts, CInv, AcceptsKnown, OneJoin
<1>19. AcksKnown'
  <2>1. \A i : Known(i) => Known(i)'
    BY <1>1, <1>2, <1>4, <1>5 DEF Known, OneJoin
  <2>2. \A f, r : GoodAck(f, r) => GoodAck(f, r)'
    BY <1>9, <2>1 DEF GoodAck
  <2> QED BY <2>2 DEF Facts, CInv, AcksKnown
<1>20. CommitsPast'
  <2>1. \A c \in commits : c.topo \in Nat
    BY DEF Facts, TypeInv, JoinOK
  <2> QED BY <1>8, <1>11, <1>17, <2>1 DEF Facts, CInv, CommitsPast
<1>21. JoinPhase' /\ JoinerOnce'
  BY <1>9 DEF JoinPhase, JoinerOnce
<1>22. TokenVersion'
  <2>1. topo'[n] = Version' /\ token'[n].topo = Version'
    BY <1>3, <1>8, <1>17 DEF Facts, TypeInv, TokenOK, TokenType
  <2>2. \A k \in Node \ {n} : topo'[k] = topo[k] /\ topo[k] <= Version /\ topo[k] \in Nat
    BY <1>8 DEF Facts, CInv, TokenVersion, TypeInv, TokenOK
  <2> QED BY <1>3, <1>17, <2>1, <2>2 DEF TokenVersion
<1>23. TablesOld'
  <2> SUFFICES ASSUME NEW k \in Node, NEW i \in Used(js'[k]), js'[k].joins[i].name \in Members'
               PROVE  topo'[k] < Version'
    BY DEF TablesOld
  <2>1. CASE k # n
    BY <1>8, <1>17, <2>1 DEF Facts, CInv, TokenVersion, TypeInv, TokenOK
  <2>2. CASE k = n
    <3> DEFINE t == Finish(js[n], j, x.req)
    <3>1. GoodTable(js[n]) /\ js'[n] = Ranked(t)
      BY <1>8 DEF Facts, TypeInv, JoinOK
    <3>2. GoodTable(t) /\ Fewer(js[n], t) /\ Fewer(js[n], Ranked(t))
      BY <1>3, <3>1, FinishGood, FinishFewer, RankedFewer
    <3>3. SlotsOf(t, j) = {}
      <4>1. \A h, l \in SlotsOf(js[n], j) : h = l
        BY <1>1, <1>2 DEF Facts, CInv, JoinerOnce
      <4> QED BY <1>3, <3>1, <4>1, FinishLeavesNone
    <3> HIDE DEF t
    <3>4. js'[n].joins[i].name # j
      BY <2>2, <3>1, <3>2, <3>3, RankedGood DEF SameRequests, SlotsOf
    <3>5. i \in Used(js[n]) /\ js[n].joins[i].name \in Members
      BY <1>11, <2>2, <3>1, <3>2, <3>4 DEF Fewer
    <3> QED BY <1>17, <3>5 DEF Facts, CInv, TablesOld
  <2> QED BY <2>1, <2>2
<1> QED BY <1>15, <1>16, <1>17, <1>18, <1>19, <1>20, <1>21, <1>22, <1>23 DEF CInv

LEMMA RecvAckCycle ==
    ASSUME Facts, IInv', LInv', NEW n \in Node, NEW m \in net, RecvAck(n, m)
    PROVE  CInv' /\ AbstractStep
<1> DEFINE matched == infl[n] # None /\ infl[n].req = m.req
           through == matched /\ Confirmed(ConfirmedBy(n, m))
<1>1. m.type = "ack" /\ UNCHANGED <<joined, have, acks>>
  BY DEF RecvAck
<1>2. \/ through /\ TryComplete(n)
      \/ /\ ~through /\ infl' = IF matched THEN [infl EXCEPT ![n].got = ConfirmedBy(n, m)] ELSE infl
         /\ UNCHANGED <<prev, next, topo, token, js, commits>>
  BY Zenon DEF RecvAck, ConfirmedBy
<1>3. /\ \A k \in net' : k.type \in {"accept", "ack"} => k \in net
      /\ InTransit' \subseteq InTransit
  <2>1. PICK a, o : /\ a = [type |-> "ackack", from |-> n, to |-> m.from, req |-> m.req]
                    /\ Transmit({[msg |-> a, out |-> o]}, {m}) \/ Transmit({}, {m})
    BY Zenon DEF RecvAck
  <2> QED BY <2>1 DEF Transmit, InTransit
<1>4. CASE through /\ TryComplete(n)
  BY <1>1, <1>3, <1>4, JoinThrough
<1>5. CASE /\ matched /\ infl' = [infl EXCEPT ![n].got = ConfirmedBy(n, m)]
           /\ UNCHANGED <<prev, next, topo, token, js, commits>>
  BY <1>1, <1>3, <1>5, PartlyConfirmed
<1>6. CASE infl' = infl /\ UNCHANGED <<prev, next, topo, token, js, commits>>
  <2>1. Same /\ Members' = Members
    BY <1>1, <1>6, SameRing DEF Same
  <2>2. NewsGood
    BY <1>1, <1>3, <1>6 DEF Facts, CInv, AcksKnown, NewsGood
  <2>3. JoinerOnce' /\ TablesOld'
    BY <1>6, <2>1, SameRing DEF Facts, CInv, JoinerOnce, TablesOld
  <2>4. TokenAt' = TokenAt
    BY <1>1, <1>3, TokenStays DEF Facts
  <2>5. TokenVersion'
    BY <1>1, <1>3, <1>6, <2>1, SameVersion
  <2> QED BY <2>1, <2>2, <2>3, <2>4, <2>5, QuietRing
<1> QED BY <1>2, <1>4, <1>5, <1>6

(* In the configured ring everybody's next is the one configured after it, *)
(* and prev is the inverse of next.                                        *)
LEMMA InitLinks ==
    ASSUME Init
    PROVE  /\ \A i \in 1 .. Len(Ring0) : next[Ring0[i]] = Ring0[(i % Len(Ring0)) + 1]
           /\ \A n \in Member0 : next[n] \in Member0 => next[prev[next[n]]] = next[n]
           /\ \A n \in Member0 : prev[n] \in Member0
           /\ \A n \in Node \ Member0 : next[n] = None
<1> DEFINE L == Len(Ring0)
           after(n) == CHOOSE m \in Member0 : \E i, j \in 1 .. Len(Ring0) :
                          Ring0[i] = n /\ Ring0[j] = m /\ j = (i % Len(Ring0)) + 1
<1>1. /\ joined = Member0
      /\ next = [n \in Node |-> IF n \in Member0 THEN after(n) ELSE None]
      /\ prev = [n \in Node |-> IF n \in Member0 THEN CHOOSE m \in Member0 : after(m) = n ELSE None]
  BY DEF Init
<1>2. L \in Nat \ {0} /\ Member0 \subseteq Node
  BY RingAssumption DEF Member0
<1>3. ASSUME NEW i \in 1 .. L PROVE after(Ring0[i]) = Ring0[(i % L) + 1]
  <2>1. PICK k \in 1 .. L : k = (i % L) + 1
    BY <1>2
  <2>2. \A l \in 1 .. L : Ring0[l] = Ring0[i] => l = i
    BY RingAssumption
  <2>3. \A m : (\E l, j \in 1 .. L : Ring0[l] = Ring0[i] /\ Ring0[j] = m /\ j = (l % L) + 1)
               <=> m = Ring0[k]
    BY <1>2, <2>1, <2>2
  <2>4. Ring0[k] \in Member0
    BY DEF Member0
  <2> QED BY <2>1, <2>3, <2>4
<1> HIDE DEF after
<1>4. \A i \in 1 .. L : next[Ring0[i]] = Ring0[(i % L) + 1]
  BY <1>1, <1>2, <1>3 DEF Member0
<1>5. \A n \in Member0 : next[n] \in Member0 => next[prev[next[n]]] = next[n]
  <2> SUFFICES ASSUME NEW n \in Member0, next[n] \in Member0
               PROVE  next[prev[next[n]]] = next[n]
    OBVIOUS
  <2>1. next[n] = after(n)
    BY <1>1, <1>2
  <2>2. prev[next[n]] \in Member0 /\ after(prev[next[n]]) = next[n]
    BY <1>1, <1>2, <2>1
  <2> QED BY <1>1, <1>2, <2>2
<1>6. \A n \in Member0 : prev[n] \in Member0
  BY <1>1, InitTypeInv
<1>7. \A n \in Node \ Member0 : next[n] = None
  BY <1>1
<1> QED BY <1>4, <1>5, <1>6, <1>7

LEMMA InitAbstract ==
    ASSUME Init
    PROVE  Abstract!Init /\ Abstract!OneRing /\ Members = Member0 /\ \A n : Successor(n) = next[n]
<1>1. (\A k \in Node : infl[k] = None) /\ joined = Member0 /\ have = {Ring0[1]} /\ net = {}
  BY DEF Init
<1>2. Members = Member0 /\ \A n : Successor(n) = next[n]
  BY <1>1, NoJoin DEF NoJoinView
<1>3. TokenAt = Ring0[1]
  BY <1>1 DEF TokenAt
<1>4. Member0 \subseteq Node /\ next \in [Node -> Node \cup {None}]
  BY InitTypeInv, RingAssumption DEF TypeInv, RingOK, Member0
<1>5. Succ = next
  BY <1>2, <1>4, InitLinks DEF Succ
<1>6. Abstract!Init
  BY <1>2, <1>3, <1>4, <1>5, InitLinks DEF Abstract!Init, Succ, Member0
<1>7. Abstract!OneRing
  <2>1. TR!Init
    BY <1>6 DEF Abstract!Init, TR!Init
  <2>2. TR!OneRing
    BY <2>1, RingAssumption, TR!InitOneRing
  <2> QED BY <2>2 DEF TR!OneRing, Abstract!OneRing
<1> QED BY <1>2, <1>6, <1>7

LEMMA InitCInv == Init => CInv
<1> SUFFICES ASSUME Init PROVE CInv
  OBVIOUS
<1>1. /\ net = {} /\ commits = {} /\ have = {Ring0[1]}
      /\ infl = [n \in Node |-> None] /\ acks = [n \in Node |-> None]
      /\ topo = [n \in Node |-> 0] /\ js = [n \in Node |-> EmptyJoinState]
      /\ token = [n \in Node |-> IF n = Ring0[1] THEN EmptyToken ELSE None]
  BY DEF Init
<1>2. Abstract!OneRing /\ Members = Member0 /\ \A n : Successor(n) = next[n]
  BY InitAbstract
<1>3. Member0 \subseteq Node /\ Ring0[1] \in Node
  BY RingAssumption DEF Member0
<1>4. RingIntact
  <2>1. \A n \in Member0 : next[n] \in Member0
    BY <1>2, <1>3 DEF Abstract!OneRing
  <2>2. \A m, n \in Member0 : next[m] = next[n] => m = n
    BY <1>2, <1>3 DEF Abstract!OneRing
  <2>3. \A n \in Member0 : prev[next[n]] = n
    BY <2>1, <2>2, InitLinks
  <2> QED BY <1>2, <2>3 DEF RingIntact
<1>5. Version = 0 /\ IsFiniteSet(Members)
  <2>1. IsFiniteSet(Member0)
    BY Member0Finite
  <2> QED BY <1>2, <2>1, FS_CardinalityType DEF Version
<1>6. TablesOld
  <2>1. Used(EmptyJoinState) = {}
    BY DEF Used, EmptyJoinState
  <2> QED BY <1>1, <2>1 DEF TablesOld
<1>7. TokenVersion
  BY <1>1, <1>3, <1>5 DEF TokenVersion, InTransit, EmptyToken
<1>8. AcceptsKnown /\ AcksKnown /\ CommitsPast /\ JoinPhase /\ JoinerOnce
  BY <1>1 DEF AcceptsKnown, AcksKnown, CommitsPast, JoinPhase, JoinerOnce
<1> QED BY <1>4, <1>5, <1>6, <1>7, <1>8 DEF CInv

(* Every step keeps the invariant and is one of the abstract ring or none. *)
LEMMA NextCInv ==
    ASSUME NoSwallowing, "late" \notin Faults, NoThirdEntry, Facts, IInv', LInv', [Next]_vars
    PROVE  CInv' /\ AbstractStep
<1>1. ASSUME UNCHANGED vars PROVE CInv' /\ AbstractStep
  BY <1>1, NothingNew DEF vars, ringVars, joinVars, netVars, Same
<1>2. ASSUME NEW n \in Node, CliRead(n) PROVE CInv' /\ AbstractStep
  BY <1>2, NothingNew DEF CliRead, ringVars, joinVars, netVars, Same
<1>3. ASSUME NEW m \in Mail, Write(m) PROVE CInv' /\ AbstractStep
  BY <1>3, NothingNew DEF Write, ringVars, joinVars, netVars, Same
<1>4. CASE Next
  BY <1>2, <1>3, <1>4, RequestCycle, RecvTokenCycle, RecvAcceptCycle, RecvAckCycle,
     RecvAckAckCycle, JoinCommitCycle, PruneCycle, InflightTickCycle, StartJoinCycle,
     AckSenderTickCycle, RestartCycle, PassTokenCycle DEF Next
<1> QED BY <1>1, <1>4

(* The invariant and the mapping, for one step.                            *)
LEMMA FactsStep ==
    ASSUME NoSwallowing, "late" \notin Faults, Facts, NoThirdEntry, [Next]_vars
    PROVE  Facts' /\ AbstractStep
<1>1. "ackAckError" \notin Faults
  BY DEF NoSwallowing
<1>2. TypeInv' /\ IInv'
  BY <1>1, NextTypeInv, NextIInv DEF Facts
<1>3. LInv'
  BY <1>2, NextLInv DEF Facts
<1> QED BY <1>2, <1>3, NextCInv DEF Facts

LEMMA InitFacts == Init => Facts
BY InitTypeInv, InitIInv, InitLInv, InitCInv DEF Facts

(* The invariant holds for as long as no table has three requests of one   *)
(* node.                                                                   *)
LEMMA FactsAlways ==
    ASSUME NoSwallowing, "late" \notin Faults
    PROVE  Spec /\ []NoThirdEntry => []Facts
<1>1. Facts /\ NoThirdEntry /\ [Next]_vars => Facts'
  BY FactsStep
<1> QED BY <1>1, InitFacts, PTL DEF Spec

(* With no join in flight the cycle of the members is that of next.        *)
LEMMA ClosedWhenIntact == RingIntact /\ joined \subseteq Node => RingClosed
<1> SUFFICES ASSUME RingIntact, joined \subseteq Node, Joining = {},
                    NEW S \in SUBSET joined, S # {}, \A n \in S : next[n] \in S
             PROVE  S = joined
  BY DEF RingClosed
<1>1. \A k \in Node : infl[k] = None
  BY DEF Joining
<1>2. Members = joined /\ \A n : Successor(n) = next[n]
  BY <1>1, NoJoin DEF NoJoinView
<1> QED BY <1>2 DEF RingIntact, Abstract!OneRing

-----------------------------------------------------------------------------
(* The theorems.  NoSwallowing excludes "lostAck", the limited send that   *)
(* fails although it was delivered, which loses the token (run             *)
(* ring_lost_ack), "ackedLost", the acknowledged message that is thrown    *)
(* away (run rudp_two_senders), and "ackAckError", which doubles the       *)
(* token; "late" is the request handled after its sender has joined, which *)
(* closes the ring without some of its nodes (run ring_late).  A third     *)
(* request of one node in a table would outlive the join: one is popped    *)
(* when it starts and one removed when it ends, so the node would be taken *)
(* in again, as its own predecessor, and ignore the accept.                *)

(* docs/final.md:72: through every join, at whatever order JOIN_ACCEPT_U   *)
(* reaches the joiner and the predecessor, retransmitted, late or lost,    *)
(* with restarts of the joiner: the members form one cycle, and each knows *)
(* its predecessor (handle_join_accept_u, join_fsm_try_complete).          *)
THEOREM RingStaysIntact ==
    ASSUME NoSwallowing, "late" \notin Faults
    PROVE  Spec /\ []NoThirdEntry => []RingIntact
<1>1. Facts => RingIntact
  BY DEF Facts, CInv
<1> QED BY <1>1, FactsAlways, PTL

(* The token handed on from next to next comes by every joined node,       *)
(* whenever no join is in flight.                                          *)
THEOREM RingStaysClosed ==
    ASSUME NoSwallowing, "late" \notin Faults
    PROVE  Spec /\ []NoThirdEntry => []RingClosed
<1>1. Facts => RingClosed
  BY ClosedWhenIntact DEF Facts, CInv, TypeInv, RingOK
<1> QED BY <1>1, FactsAlways, PTL

(* join_fsm_try_complete, topo_version: the version on the token is the    *)
(* number of joins so far, and no node is ahead of it.                     *)
THEOREM VersionsCountJoins ==
    ASSUME NoSwallowing, "late" \notin Faults
    PROVE  Spec /\ []NoThirdEntry => []VersionCountsJoins
<1>1. Facts => VersionCountsJoins
  BY DEF Facts, CInv, TokenVersion, VersionCountsJoins, Version
<1> QED BY <1>1, FactsAlways, PTL

(* Every step of the protocol is a step of the abstract ring or none of    *)
(* its own: a join becomes one insertion before the token, at the moment   *)
(* its coordinator takes the second confirmation, and a hand-over one step *)
(* of the token to the successor (handle_join_ack_u, ring_on_token).       *)
THEOREM RingImplementsTokenRing ==
    ASSUME NoSwallowing, "late" \notin Faults
    PROVE  Spec /\ []NoThirdEntry => ImplementsTokenRing
<1>1. Init => Abstract!Init
  BY InitAbstract
<1>2. Facts /\ NoThirdEntry /\ [Next]_vars => [Abstract!Next]_(Abstract!vars)
  BY FactsStep DEF AbstractStep
<1> QED BY <1>1, <1>2, FactsAlways, PTL DEF Spec, ImplementsTokenRing, Abstract!Spec

=============================================================================
