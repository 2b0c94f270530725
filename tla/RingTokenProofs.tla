-------------------------- MODULE RingTokenProofs --------------------------
(***************************************************************************)
(* The token of Ring never disappears, for every set of nodes, every       *)
(* configured ring and any number of joins, restarts of joiners, losses,   *)
(* failed sends, late requests and expiries, as long as no send fails      *)
(* after its delivery and no acknowledged message is thrown away, two      *)
(* things that the transport does (runs ring_lost_ack, rudp_two_senders).  *)
(*                                                                         *)
(* Otherwise it is lost only if it is swallowed as a duplicate or reaches a*)
(* node that has not joined.  The second is excluded by what the nodes     *)
(* know of each other: whoever is some node's next, or is announced by a   *)
(* JOIN_ACCEPT_U, has joined or is the joiner in flight, and while a       *)
(* joiner is in flight the token does not move.  The first is excluded by  *)
(* the bits: a restart puts a node's bits out of step with its neighbours' *)
(* only if it has not joined, when nobody but its coordinator has sent it  *)
(* anything, and it does not join before the coordinator's bit is right.   *)
(*                                                                         *)
(* The second half is about the messages the token carries: none is        *)
(* reported twice, none is lost.                                           *)
(***************************************************************************)
EXTENDS RingProofs

Known(j) == j \in joined \/ \E k \in Node : infl[k] # None /\ infl[k].joiner = j

GoodMsg(m) ==
    /\ m.type = "ack" => m.from \in joined /\ m.to \in joined
    /\ m.type = "token" => m.to \in joined
    /\ m.type = "accept" => (m.from \in joined /\ m.prev \in joined /\ Known(m.new))

NetGood == \A m \in net : GoodMsg(m)

NextKnown == \A n \in joined : Known(next[n]) /\ prev[n] \in joined

AcksJoined == \A n \in Node : acks[n] # None => n \in joined /\ acks[n].coord \in joined

(* A request id begins with the name of the node that drew it.             *)
GoodJoin(x) ==
    /\ x.req[1] = x.joiner
    /\ "joiner" \in x.got => x.joiner \in joined

JoinsGood == \A n \in Node : infl[n] # None => GoodJoin(infl[n])

CommitsJoined == \A c \in commits : c.name \in joined /\ c.req[1] = c.name

OwnIds(s) == \A i \in Used(s) : s.joins[i].req[1] = s.joins[i].name

TablesOwn == \A n \in Node : OwnIds(js[n])

(* Whom a sends to: nodes that have joined, and its own joiner.            *)
Addressed(a, b) == b \in joined \/ (infl[a] # None /\ infl[a].joiner = b)

BitsAddressed == \A p \in sbit : p[1] \in joined /\ Addressed(p[1], p[2])

(* A bit is out of step only between a coordinator and a joiner that was   *)
(* restarted, and nothing has reached that joiner since.                   *)
DupJoining ==
    \A p \in dup :
        /\ p[2] \notin joined
        /\ infl[p[1]] # None /\ infl[p[1]].joiner = p[2]
        /\ \A m \in net : m.to # p[2]

NetInv == BitsAddressed /\ DupJoining /\ NetGood

LInv ==
    /\ NetInv
    /\ NextKnown /\ AcksJoined
    /\ JoinsGood /\ CommitsJoined /\ TablesOwn
    /\ TokenNotLost

-----------------------------------------------------------------------------
(* The transport.                                                          *)

(* No message is got by a receiver whose sender takes it for not got, or   *)
(* the other way round.                                                    *)
NoSwallowing == {"lostAck", "ackAckError", "ackedLost"} \cap Faults = {}

(* Without such messages a send ends with the bits in step, or leaves them *)
(* as they were.                                                           *)
LEMMA SendsInStep ==
    ASSUME NoSwallowing, NEW left, NEW d \in BOOLEAN
    PROVE  /\ \A o \in LimitedSend(d, left) : (o.dup => d) /\ (o.got => ~d)
           /\ \A o \in TokenSend(FALSE, left) :
                 o.dup = FALSE /\ (o.lost = 0 => o.got = TRUE)
<1>1. "lostAck" \notin Faults /\ "ackAckError" \notin Faults /\ "ackedLost" \notin Faults
  BY DEF NoSwallowing
<1>2. ASSUME NEW o \in LimitedSend(d, left) PROVE (o.dup => d) /\ (o.got => ~d)
  <2>1. \/ o = Outcome(~d, 0, FALSE) \/ o = Outcome(FALSE, 1, d)
    BY <1>1 DEF LimitedSend, Success, Outcome
  <2>2. CASE d
    <3>1. d = TRUE
      BY <2>2
    <3>2. o = Outcome(FALSE, 0, FALSE) \/ o = Outcome(FALSE, 1, TRUE)
      BY <2>1, <3>1, Zenon
    <3> QED BY <3>1, <3>2 DEF Outcome
  <2>3. CASE ~d
    <3>1. d = FALSE
      BY <2>3
    <3>2. o = Outcome(TRUE, 0, FALSE) \/ o = Outcome(FALSE, 1, FALSE)
      BY <2>1, <3>1, Zenon
    <3> QED BY <3>1, <3>2 DEF Outcome
  <2> QED BY <2>2, <2>3
<1>3. ASSUME NEW o \in TokenSend(FALSE, left)
      PROVE  o.dup = FALSE /\ (o.lost = 0 => o.got = TRUE)
  <2>1. \/ o = Outcome(~FALSE, 0, FALSE) \/ o = Outcome(FALSE, 1, FALSE)
    BY <1>1 DEF TokenSend, Success
  <2>2. ~FALSE = TRUE
    OBVIOUS
  <2>3. o = Outcome(TRUE, 0, FALSE) \/ o = Outcome(FALSE, 1, FALSE)
    BY <2>1, <2>2, Zenon
  <2> QED BY <2>3 DEF Outcome
<1> QED BY <1>2, <1>3

LEMMA ThreeSendsInStep ==
    ASSUME NoSwallowing, NEW left
    PROVE  \A o \in ThreeSends(FALSE, left) : ~o.dup
<1> SUFFICES ASSUME NEW o \in ThreeSends(FALSE, left) PROVE ~o.dup
  OBVIOUS
<1>a. ASSUME NEW l, NEW u \in LimitedSend(FALSE, l) PROVE u.dup = FALSE
  <2>1. \/ u = Outcome(~FALSE, 0, FALSE) \/ u = Outcome(FALSE, 1, FALSE)
    BY DEF LimitedSend, Success, NoSwallowing, Outcome
  <2> QED BY <2>1 DEF Outcome
<1>1. PICK o1 \in LimitedSend(FALSE, left) :
          o \in UNION {{Outcome(o1.got \/ o2.got \/ o3.got, o1.lost + o2.lost + o3.lost, o3.dup) :
                          o3 \in LimitedSend(o2.dup, left - o1.lost - o2.lost)} :
                      o2 \in LimitedSend(o1.dup, left - o1.lost)}
  BY DEF ThreeSends
<1>2. o1.dup = FALSE
  BY <1>a
<1>3. PICK o2 \in LimitedSend(FALSE, left - o1.lost) :
          o \in {Outcome(o1.got \/ o2.got \/ o3.got, o1.lost + o2.lost + o3.lost, o3.dup) :
                    o3 \in LimitedSend(o2.dup, left - o1.lost - o2.lost)}
  BY <1>1, <1>2
<1>4. o2.dup = FALSE
  BY <1>a
<1>5. PICK o3 \in LimitedSend(FALSE, left - o1.lost - o2.lost) :
          o = Outcome(o1.got \/ o2.got \/ o3.got, o1.lost + o2.lost + o3.lost, o3.dup)
  BY <1>3, <1>4
<1>6. o3.dup = FALSE
  BY <1>a
<1> QED BY <1>5, <1>6 DEF Outcome

(* A node that has joined has seen every bit.                              *)
LEMMA JoinedInStep ==
    ASSUME LInv, NEW a, NEW b \in joined
    PROVE  IsDup(a, b) = FALSE
<1>1. <<a, b>> \notin dup
  BY DEF LInv, NetInv, DupJoining
<1> QED BY <1>1 DEF IsDup

(* A join that ends has its joiner joined; one that goes on keeps its      *)
(* joiner.                                                                 *)
JoinsKept ==
    /\ joined \subseteq joined'
    /\ \A k \in Node : infl[k] # None =>
          \/ infl'[k] # None /\ infl'[k].joiner = infl[k].joiner
          \/ infl[k].joiner \in joined'

LEMMA KnownKept == JoinsKept => \A j : Known(j) => Known(j)'
BY DEF JoinsKept, Known

LEMMA JoinsSame == UNCHANGED <<joined, infl>> => JoinsKept
BY DEF JoinsKept

(* Two joins are never in flight.                                          *)
OneJoin == \A k, l \in Node : infl[k] # None /\ infl[l] # None => k = l

LEMMA OneJoinHolds == IInv => OneJoin
BY DEF IInv, AtMostOneToken, CoordinatorHoldsToken, OneJoin

(* A send between a and b says whether the bit was and is out of step.     *)
InStep(x) ==
    LET p == <<x.msg.from, x.msg.to>>
    IN  (x.out.dup => p \in dup) /\ (x.out.got => p \notin dup)

(* The effect of a step on the network: if what is sent is good and goes   *)
(* to nodes that may be written to, everything about the network stays.    *)
LEMMA TransmitGood ==
    ASSUME TypeInv, NetInv, NEW ms, NEW taken, Transmit(ms, taken), JoinsKept, OneJoin',
           \A x \in ms : /\ InStep(x) /\ GoodMsg(x.msg)' /\ x.msg.from \in joined'
                         /\ Addressed(x.msg.from, x.msg.to)',
           \A p \in dup : p[2] \notin joined', joined' \subseteq Node
    PROVE  NetInv'
<1>1. \A m \in net' : m \in net \/ \E x \in ms : m = x.msg /\ x.out.got
  BY DEF Transmit
<1>2. NetGood'
  <2>1. \A j : Known(j) => Known(j)'
    BY KnownKept
  <2>2. \A m \in net : GoodMsg(m)'
    BY <2>1 DEF NetInv, NetGood, GoodMsg, JoinsKept
  <2> QED BY <1>1, <2>2 DEF NetGood
<1>3. BitsAddressed'
  <2>1. \A p \in sbit' : p \in sbit \/ \E x \in ms : p = <<x.msg.from, x.msg.to>>
    BY DEF Transmit, Flipped
  <2>2. \A p \in sbit : p[1] \in joined' /\ Addressed(p[1], p[2])'
    BY DEF NetInv, BitsAddressed, Addressed, JoinsKept, TypeInv, NetOK
  <2> QED BY <2>1, <2>2 DEF BitsAddressed
<1>4. DupJoining'
  <2> SUFFICES ASSUME NEW p \in dup'
               PROVE  /\ p[2] \notin joined'
                      /\ infl'[p[1]] # None /\ infl'[p[1]].joiner = p[2]
                      /\ \A m \in net' : m.to # p[2]
    BY DEF DupJoining
  <2>1. p \in dup
    BY DEF Transmit, InStep
  <2>2. p = <<p[1], p[2]>> /\ p[1] \in Node
    BY <2>1 DEF TypeInv, NetOK
  <2>3. p[2] \notin joined' /\ infl'[p[1]] # None /\ infl'[p[1]].joiner = p[2]
    BY <2>1, <2>2 DEF NetInv, DupJoining, JoinsKept
  <2>4. ASSUME NEW x \in ms, x.out.got, x.msg.to = p[2] PROVE FALSE
    <3>1. infl'[x.msg.from] # None /\ x.msg.from \in Node
      BY <2>3, <2>4 DEF Addressed
    <3>2. x.msg.from = p[1]
      BY <2>2, <2>3, <3>1 DEF OneJoin
    <3> QED BY <2>1, <2>2, <2>4, <3>2 DEF InStep
  <2>5. \A m \in net : m.to # p[2]
    BY <2>1 DEF NetInv, DupJoining
  <2> QED BY <1>1, <2>3, <2>4, <2>5
<1> QED BY <1>2, <1>3, <1>4 DEF NetInv

LEMMA TransmitKeepsTokens ==
    ASSUME NEW ms, NEW taken, Transmit(ms, taken), \A m \in taken : m.type # "token",
           have \subseteq have', TokenNotLost
    PROVE  TokenNotLost'
BY DEF Transmit, TokenNotLost, InTransit

-----------------------------------------------------------------------------
(* The tables.                                                             *)

LEMMA FewerOwn ==
    ASSUME NEW s, NEW t, OwnIds(s), Fewer(s, t)
    PROVE  OwnIds(t)
BY DEF OwnIds, Fewer

LEMMA RankedOwn ==
    ASSUME NEW s, NEW t, OwnIds(s), GoodTable(t), Fewer(s, t)
    PROVE  OwnIds(Ranked(t))
BY RankedFewer, FewerOwn

LEMMA AddOwn ==
    ASSUME NEW s, GoodTable(s), OwnIds(s), NEW j \in Node, NEW r, <<j, r>> \in Req, NEW t \in Nat
    PROVE  OwnIds(Ranked(AddPendingJoin(s, j, <<j, r>>, t)))
<1> DEFINE u == AddPendingJoin(s, j, <<j, r>>, t)
<1>1. PICK q : q = <<j, r>> /\ q[1] = j
  OBVIOUS
<1>2. OwnIds(AddPendingJoin(s, j, q, t))
  BY <1>1, AddAdds DEF OwnIds
<1>3. GoodTable(u) /\ OwnIds(u)
  BY <1>1, <1>2, AddPendingJoinGood
<1> HIDE DEF u
<1>4. OwnIds(Ranked(u))
  BY <1>3, RankedGood DEF OwnIds, SameRequests
<1> QED BY <1>4 DEF u

LEMMA TableOwn ==
    ASSUME JoinOK, TablesOwn, NEW n \in Node, NEW t, OwnIds(t), js' = [js EXCEPT ![n] = t]
    PROVE  TablesOwn'
BY DEF JoinOK, TablesOwn

-----------------------------------------------------------------------------
(* The steps.                                                              *)

(* Steps that only change a table, a FIFO or cli_pending.                  *)
LEMMA TablesOnly ==
    ASSUME LInv, TablesOwn',
           UNCHANGED <<joined, next, prev, have, infl, acks, commits, net, dup, sbit>>
    PROVE  LInv'
BY DEF LInv, NetInv, BitsAddressed, Addressed, DupJoining, NetGood, GoodMsg, NextKnown, AcksJoined, JoinsGood, GoodJoin, CommitsJoined,
       TokenNotLost, InTransit, Known

LEMMA RequestStep ==
    ASSUME TypeInv, LInv, NEW n \in Node, NEW j \in Node, HandleJoinRequest(n, j)
    PROVE  LInv'
<1>1. PICK r \in 0 .. starts[j] : \E t \in Now(js[n]) :
          js' = [js EXCEPT ![n] = Ranked(AddPendingJoin(js[n], j, <<j, r>>, t))]
  BY DEF HandleJoinRequest
<1>2. PICK t \in Now(js[n]) :
          js' = [js EXCEPT ![n] = Ranked(AddPendingJoin(js[n], j, <<j, r>>, t))]
  BY <1>1
<1>3. GoodTable(js[n]) /\ t \in Nat /\ OwnIds(js[n])
  BY NowNat DEF TypeInv, JoinOK, LInv, TablesOwn
<1>4. <<j, r>> \in Req
  BY RingAssumption DEF TypeInv, JoinOK
<1>5. OwnIds(Ranked(AddPendingJoin(js[n], j, <<j, r>>, t)))
  BY <1>3, <1>4, AddOwn
<1>6. TablesOwn'
  BY <1>2, <1>5, TableOwn DEF TypeInv, LInv
<1> QED BY <1>6, TablesOnly DEF HandleJoinRequest, ringVars, netVars

LEMMA PruneStep ==
    ASSUME TypeInv, LInv, NEW n \in Node, Prune(n)
    PROVE  LInv'
<1>1. PICK t \in Stamps(js[n]) : js' = [js EXCEPT ![n] = Ranked(PruneJoins(js[n], t, -1))]
  BY DEF Prune
<1>2. GoodTable(js[n]) /\ OwnIds(js[n])
  BY DEF TypeInv, JoinOK, LInv, TablesOwn
<1>3. OwnIds(Ranked(PruneJoins(js[n], t, -1)))
  BY <1>2, PruneJoinsGood, PruneFewer, RankedOwn
<1>4. TablesOwn'
  BY <1>1, <1>3, TableOwn DEF TypeInv, LInv
<1> QED BY <1>4, TablesOnly DEF Prune, ringVars, netVars

(* The accepts of a join go to its joiner and to a node that has joined.   *)
LEMMA AcceptsGood ==
    ASSUME NoSwallowing, TypeInv, LInv, NEW n \in joined, NEW x, SendAccepts(n, x),
           UNCHANGED <<joined, have>>, JoinsKept, OneJoin',
           infl'[n] # None, infl'[n].joiner = x.joiner
    PROVE  NetInv' /\ TokenNotLost'
<1>0. PICK p : p = prev[n]
  OBVIOUS
<1> DEFINE try(g, to, left) ==
               IF g \in x.got THEN {Outcome(FALSE, 0, FALSE)} ELSE LimitedSend(IsDup(n, to), left)
           accept(to) == [type |-> "accept", from |-> n, to |-> to,
                          new |-> x.joiner, req |-> x.req, prev |-> p]
           sends(o1, o2) == {y \in {[msg |-> accept(x.joiner), out |-> o1, by |-> "joiner"],
                                    [msg |-> accept(p), out |-> o2, by |-> "prev"]} :
                                y.by \notin x.got}
<1>1. \A g, to, left : \A o \in try(g, to, left) :
          (o.dup => <<n, to>> \in dup) /\ (o.got => <<n, to>> \notin dup)
  <2> SUFFICES ASSUME NEW g, NEW to, NEW left, NEW o \in try(g, to, left)
               PROVE  (o.dup => <<n, to>> \in dup) /\ (o.got => <<n, to>> \notin dup)
    OBVIOUS
  <2>1. CASE o = Outcome(FALSE, 0, FALSE)
    BY <2>1 DEF Outcome
  <2>2. CASE o \in LimitedSend(IsDup(n, to), left)
    <3>1. IsDup(n, to) \in BOOLEAN
      BY DEF IsDup
    <3>2. (o.dup => IsDup(n, to)) /\ (o.got => ~IsDup(n, to))
      BY <2>2, <3>1, SendsInStep, Zenon
    <3> QED BY <3>2 DEF IsDup
  <2> QED BY <2>1, <2>2
<1>2. p \in joined /\ n \in Node
  BY <1>0 DEF LInv, NextKnown, TypeInv, RingOK
<1>3. /\ GoodMsg(accept(x.joiner))' /\ GoodMsg(accept(p))'
      /\ Addressed(n, x.joiner)' /\ Addressed(n, p)'
  BY <1>2 DEF GoodMsg, Known, Addressed
<1>4. PICK o1 \in try("joiner", x.joiner, Budget) :
      \E o2 \in try("prev", p, Budget - o1.lost) : Transmit(sends(o1, o2), {})
  BY <1>0, Zenon DEF SendAccepts
<1> HIDE DEF try
<1>5. PICK o2 \in try("prev", p, Budget - o1.lost) : Transmit(sends(o1, o2), {})
  BY <1>4, Zenon
<1>6. \A y \in sends(o1, o2) : /\ InStep(y) /\ GoodMsg(y.msg)' /\ y.msg.from \in joined'
                             /\ Addressed(y.msg.from, y.msg.to)'
  <2> SUFFICES ASSUME NEW y \in sends(o1, o2)
               PROVE  /\ InStep(y) /\ GoodMsg(y.msg)' /\ y.msg.from \in joined'
                      /\ Addressed(y.msg.from, y.msg.to)'
    OBVIOUS
  <2>1. CASE y.msg = accept(x.joiner) /\ y.out = o1
    <3>1. y.msg.from = n /\ y.msg.to = x.joiner
      BY <2>1
    <3>2. InStep(y)
      BY <1>1, <2>1, <3>1 DEF InStep
    <3> QED BY <1>3, <2>1, <3>1, <3>2
  <2>2. CASE y.msg = accept(p) /\ y.out = o2
    <3>1. y.msg.from = n /\ y.msg.to = p
      BY <2>2
    <3>2. InStep(y)
      BY <1>1, <2>2, <3>1 DEF InStep
    <3> QED BY <1>3, <2>2, <3>1, <3>2
  <2> QED BY <2>1, <2>2
<1> HIDE DEF sends
<1>7. (\A p1 \in dup : p1[2] \notin joined') /\ joined' \subseteq Node
  BY DEF LInv, NetInv, DupJoining, TypeInv, RingOK
<1>8. NetInv'
  BY <1>5, <1>6, <1>7, TransmitGood DEF LInv
<1>9. TokenNotLost'
  BY <1>5, TransmitKeepsTokens DEF LInv
<1> QED BY <1>8, <1>9

LEMMA InflightTickStep ==
    ASSUME NoSwallowing, TypeInv, LInv, OneJoin', NEW n \in Node, InflightTick(n)
    PROVE  LInv'
<1>1. n \in joined /\ SendAccepts(n, infl[n]) /\ infl[n] # None
  BY DEF TypeInv, JoinOK, RingOK, InflightTick
<1>2. UNCHANGED <<joined, next, prev, have, infl, acks, commits, js>>
  BY DEF InflightTick, ringVars, joinVars
<1>3. (\A j : Known(j) => Known(j)') /\ JoinsKept
  BY <1>2, JoinsSame, KnownKept
<1>4. NetInv' /\ TokenNotLost'
  BY <1>1, <1>2, <1>3, AcceptsGood
<1> QED BY <1>2, <1>3, <1>4
     DEF LInv, NextKnown, AcksJoined, JoinsGood, GoodJoin, CommitsJoined, TablesOwn

LEMMA StartJoinStep ==
    ASSUME NoSwallowing, TypeInv, LInv, OneJoin', NEW n \in Node, StartJoin(n)
    PROVE  LInv'
<1> DEFINE join == js[n].joins[Oldest(js[n])]
<1>0. PICK x : x = StartInflight(n, join)
  OBVIOUS
<1>1. /\ n \in joined /\ infl[n] = None /\ Used(js[n]) # {}
      /\ GoodTable(js[n]) /\ OwnIds(js[n])
  BY DEF StartJoin, TokenReady, TypeInv, JoinOK, LInv, TablesOwn
<1>2. Oldest(js[n]) \in Used(js[n]) /\ join.req[1] = join.name /\ join \in PendingJoin
  BY <1>1, ScanIndices, UsedEntries DEF OwnIds
<1>3. GoodJoin(x) /\ x \in InflType
  BY <1>0, <1>1, <1>2 DEF GoodJoin, StartInflight, InflType, PendingJoin, TypeInv, RingOK, Both
<1>4. /\ infl' = [infl EXCEPT ![n] = x]
      /\ js' = [js EXCEPT ![n] = Ranked(PopOldestPendingJoin(js[n]))]
      /\ SendAccepts(n, x)
      /\ UNCHANGED <<joined, next, prev, have, acks, commits>>
  BY <1>0 DEF StartJoin, ringVars
<1>5. TablesOwn'
  <2>1. OwnIds(Ranked(PopOldestPendingJoin(js[n])))
    BY <1>1, PopOldestGood, PopFewer, RankedOwn
  <2> QED BY <1>4, <2>1, TableOwn DEF TypeInv, LInv
<1>6. infl \in [Node -> InflType \cup {None}]
  BY DEF TypeInv, JoinOK
<1>7. infl'[n] # None => infl'[n] = x
  BY <1>4, <1>6
<1>8. JoinsKept
  BY <1>1, <1>4, <1>6 DEF JoinsKept
<1>9. x # None
  BY <1>3, RingAssumption DEF InflType, Both
<1>10. \A j : Known(j) => Known(j)'
  BY <1>8, KnownKept
<1>11. NetInv' /\ TokenNotLost'
  BY <1>1, <1>4, <1>6, <1>8, <1>9, AcceptsGood
<1>12. JoinsGood'
  BY <1>3, <1>4, <1>6 DEF LInv, JoinsGood, GoodJoin
<1> QED BY <1>4, <1>5, <1>10, <1>11, <1>12 DEF LInv, NextKnown, AcksJoined, CommitsJoined

(* At most one message, which is no token and goes to a node that has      *)
(* joined, in exchange for another.                                        *)
LEMMA AnswerGood ==
    ASSUME TypeInv, LInv, OneJoin', NEW m, m.type # "token", NEW a, NEW o, ~o.dup,
           Transmit({}, {m}) \/ Transmit({[msg |-> a, out |-> o]}, {m})
              \/ Transmit({[msg |-> a, out |-> o]}, {}),
           GoodMsg(a)', a.from \in joined', a.to \in joined,
           have' = have, JoinsKept,
           \A p \in dup : p[2] \notin joined', joined' \subseteq Node
    PROVE  NetInv' /\ TokenNotLost'
<1> DEFINE one == {[msg |-> a, out |-> o]}
<1>1. \A x \in one : /\ InStep(x) /\ GoodMsg(x.msg)' /\ x.msg.from \in joined'
                    /\ Addressed(x.msg.from, x.msg.to)'
  <2>1. <<a.from, a.to>> \notin dup
    BY DEF LInv, NetInv, DupJoining
  <2> QED BY <2>1 DEF InStep, Addressed, JoinsKept
<1>2. PICK ms, taken : /\ Transmit(ms, taken) /\ \A x \in ms : x \in one
                       /\ \A t \in taken : t.type # "token"
  <2>1. CASE Transmit({}, {m})
    BY <2>1
  <2>2. CASE Transmit(one, {m})
    BY <2>2
  <2>3. CASE Transmit(one, {})
    BY <2>3
  <2> QED BY <2>1, <2>2, <2>3
<1> HIDE DEF one
<1>3. NetInv'
  BY <1>1, <1>2, TransmitGood DEF LInv
<1>4. TokenNotLost'
  BY <1>2, TransmitKeepsTokens DEF LInv
<1> QED BY <1>3, <1>4

LEMMA NothingSent ==
    ASSUME TypeInv, LInv, OneJoin', NEW taken, Transmit({}, taken), JoinsKept, joined' = joined
    PROVE  NetInv'
BY TransmitGood DEF LInv, NetInv, DupJoining, TypeInv, RingOK

LEMMA AckSenderTickStep ==
    ASSUME NoSwallowing, TypeInv, LInv, OneJoin', NEW n \in Node, AckSenderTick(n)
    PROVE  LInv'
<1>1. /\ UNCHANGED <<joined, next, prev, have, infl, commits, js>>
      /\ n \in joined /\ acks[n].coord \in joined
  BY DEF AckSenderTick, ringVars, LInv, AcksJoined
<1>2. PICK a : a = [type |-> "ack", from |-> n, to |-> acks[n].coord, req |-> acks[n].req]
  OBVIOUS
<1>3. (\A j : Known(j) => Known(j)') /\ JoinsKept
  BY <1>1, JoinsSame, KnownKept
<1>4. AcksJoined'
  <2>1. \A k \in Node : acks'[k] # None => acks[k] # None /\ acks'[k].coord = acks[k].coord
    BY DEF AckSenderTick, TypeInv, JoinOK, AcksType
  <2> QED BY <1>1, <2>1 DEF LInv, AcksJoined
<1>5. NetInv' /\ TokenNotLost'
  <2>1. CASE UNCHANGED netVars
    BY <1>1, <2>1 DEF netVars, LInv, NetInv, BitsAddressed, Addressed, DupJoining, NetGood,
                      GoodMsg, Known, TokenNotLost, InTransit
  <2>2. CASE \E o \in LimitedSend(IsDup(n, acks[n].coord), Budget) : Transmit({[msg |-> a, out |-> o]}, {})
    <3>1. PICK o \in LimitedSend(IsDup(n, acks[n].coord), Budget) : Transmit({[msg |-> a, out |-> o]}, {})
      BY <2>2
    <3>2. IsDup(n, acks[n].coord) = FALSE
      BY <1>1, JoinedInStep
    <3>3. ~o.dup
      BY <3>1, <3>2, SendsInStep
    <3>4. /\ GoodMsg(a)' /\ a.from \in joined' /\ a.to \in joined /\ a.type # "token"
      BY <1>1, <1>2 DEF GoodMsg
    <3>5. (\A p \in dup : p[2] \notin joined') /\ joined' \subseteq Node
      BY <1>1 DEF LInv, NetInv, DupJoining, TypeInv, RingOK
    <3> QED BY <1>1, <1>3, <3>1, <3>3, <3>4, <3>5, AnswerGood
  <2> QED BY <1>2, <2>1, <2>2, Zenon DEF AckSenderTick
<1> QED BY <1>1, <1>3, <1>4, <1>5
     DEF LInv, NextKnown, JoinsGood, GoodJoin, CommitsJoined, TablesOwn

LEMMA RecvAckAckStep ==
    ASSUME TypeInv, LInv, OneJoin', NEW n \in Node, NEW m \in net, RecvAckAck(n, m)
    PROVE  LInv'
<1>1. /\ UNCHANGED <<joined, next, prev, have, infl, commits, js>>
      /\ m.type # "token" /\ Transmit({}, {m})
  BY DEF RecvAckAck, ringVars
<1>2. (\A j : Known(j) => Known(j)') /\ JoinsKept
  BY <1>1, JoinsSame, KnownKept
<1>3. AcksJoined'
  BY <1>1 DEF RecvAckAck, TypeInv, JoinOK, LInv, AcksJoined
<1>4. NetInv'
  BY <1>1, <1>2, NothingSent
<1>5. TokenNotLost'
  BY <1>1, TransmitKeepsTokens DEF LInv
<1> QED BY <1>1, <1>2, <1>3, <1>4, <1>5
     DEF LInv, NextKnown, JoinsGood, GoodJoin, CommitsJoined, TablesOwn

(* A token arrives only where it is taken.                                 *)
LEMMA RecvTokenStep ==
    ASSUME TypeInv, LInv, OneJoin', NEW n \in Node, NEW m \in net, RecvToken(n, m)
    PROVE  LInv'
<1>1. n \in joined
  BY DEF RecvToken, LInv, NetInv, NetGood, GoodMsg
<1>2. n \in have'
  BY <1>1 DEF RecvToken
<1>3. UNCHANGED <<joined, next, prev, infl, acks, commits>> /\ Transmit({}, {m})
  BY DEF RecvToken, ringVars
<1>4. (\A j : Known(j) => Known(j)') /\ JoinsKept
  BY <1>3, JoinsSame, KnownKept
<1>5. NetInv'
  BY <1>3, <1>4, NothingSent
<1>6. TablesOwn'
  <2>1. GoodTable(js[n]) /\ OwnIds(js[n])
    BY DEF TypeInv, JoinOK, LInv, TablesOwn
  <2>2. OwnIds(DropOldestPendingJoins(js[n], js[n].count))
    BY <2>1, DropFewer, FewerOwn
  <2>3. PICK t : OwnIds(t) /\ js' = [js EXCEPT ![n] = t]
    BY <2>1, <2>2 DEF RecvToken
  <2> QED BY <2>3, TableOwn DEF TypeInv, LInv
<1> QED BY <1>2, <1>3, <1>4, <1>5, <1>6
     DEF LInv, TokenNotLost, NextKnown, AcksJoined, JoinsGood, GoodJoin, CommitsJoined

LEMMA RecvAcceptStep ==
    ASSUME NoSwallowing, TypeInv, LInv, OneJoin', NEW n \in Node, NEW m \in net, RecvAccept(n, m)
    PROVE  LInv'
<1>1. /\ m.type = "accept" /\ m.from \in joined /\ m.prev \in joined /\ Known(m.new)
      /\ m.from \in Node /\ m.new \in Node /\ m.req \in Req /\ m.to = n
  BY DEF RecvAccept, LInv, NetInv, NetGood, GoodMsg, TypeInv, NetOK, UnicastMsg
<1>2. UNCHANGED <<have, infl, commits>> /\ joined \subseteq joined' /\ JoinsKept
  BY DEF RecvAccept, ringVars, JoinsKept
<1>3. \A j : Known(j) => Known(j)'
  BY <1>2, KnownKept
<1>4. TablesOwn'
  <2>1. GoodTable(js[n]) /\ OwnIds(js[n])
    BY DEF TypeInv, JoinOK, LInv, TablesOwn
  <2>2. OwnIds(Ranked(MarkCompletedAndPrunePending(js[n], m.new, m.req)))
    BY <1>1, <2>1, FinishGood, FinishFewer, RankedOwn
  <2>3. js' = [js EXCEPT ![n] = Ranked(MarkCompletedAndPrunePending(js[n], m.new, m.req))]
    BY DEF RecvAccept
  <2> QED BY <2>2, <2>3, TableOwn DEF TypeInv, LInv
<1>5. JoinsGood' /\ CommitsJoined'
  BY <1>2 DEF LInv, JoinsGood, GoodJoin, CommitsJoined
<1>6. CASE Transmit({}, {m}) /\ UNCHANGED <<ringVars, acks>>
  <2>1. NetInv'
    BY <1>2, <1>6, NothingSent DEF ringVars
  <2>2. TokenNotLost'
    BY <1>1, <1>2, <1>6, TransmitKeepsTokens DEF LInv
  <2> QED BY <1>3, <1>4, <1>5, <1>6, <2>1, <2>2 DEF LInv, NextKnown, AcksJoined, ringVars
<1>7. CASE
    /\ joined' = joined \cup {n}
    /\ next' = [next EXCEPT ![n] = NextAfterAccept(n, m)]
    /\ prev' = IF n = m.new THEN [prev EXCEPT ![n] = m.prev] ELSE prev
    /\ AsJoiner(n, m) \/ AsPrev(n, m)
    /\ \E o \in LimitedSend(IsDup(n, m.from), Budget) :
          /\ Transmit({[msg |-> [type |-> "ack", from |-> n, to |-> m.from, req |-> m.req],
                        out |-> o]}, {m})
          /\ acks' = [acks EXCEPT ![n] = [req |-> m.req, coord |-> m.from, retries |-> 1 - o.lost]]
  <2>1. PICK o \in LimitedSend(IsDup(n, m.from), Budget) :
          /\ Transmit({[msg |-> [type |-> "ack", from |-> n, to |-> m.from, req |-> m.req],
                        out |-> o]}, {m})
          /\ acks' = [acks EXCEPT ![n] = [req |-> m.req, coord |-> m.from, retries |-> 1 - o.lost]]
    BY <1>7
  <2>2. PICK a : a = [type |-> "ack", from |-> n, to |-> m.from, req |-> m.req]
    OBVIOUS
  <2>3. ~o.dup
    <3>1. IsDup(n, m.from) = FALSE
      BY <1>1, JoinedInStep
    <3> QED BY <2>1, <3>1, SendsInStep
  <2>4. GoodMsg(a)' /\ a.from \in joined' /\ a.to \in joined
    BY <1>1, <1>7, <2>2 DEF GoodMsg
  <2>4a. (\A p \in dup : p[2] \notin joined') /\ joined' \subseteq Node
    BY <1>1, <1>7 DEF LInv, NetInv, DupJoining, TypeInv, RingOK
  <2>5. NetInv' /\ TokenNotLost'
    BY <1>1, <1>2, <2>1, <2>2, <2>3, <2>4, <2>4a, AnswerGood
  <2>6. Known(NextAfterAccept(n, m))
    BY <1>1 DEF NextAfterAccept, Known
  <2>7. NextKnown'
    <3>1. PICK k : k = NextAfterAccept(n, m)
      OBVIOUS
    <3>2. Known(k)'
      BY <1>3, <2>6, <3>1
    <3>3. next' = [next EXCEPT ![n] = k] /\ next \in [Node -> Node \cup {None}]
      BY <1>7, <3>1 DEF TypeInv, RingOK
    <3>4. \A i \in joined' : next'[i] = k \/ (i \in joined /\ next'[i] = next[i])
      BY <1>7, <3>3 DEF TypeInv, RingOK
    <3>5. \A i \in joined' : prev'[i] = m.prev \/ (i \in joined /\ prev'[i] = prev[i])
      <4>1. n # m.new => n \in joined
        BY <1>1, <1>7 DEF AsJoiner, AsPrev
      <4>2. prev \in [Node -> Node \cup {None}] /\ joined \subseteq Node
        BY DEF TypeInv, RingOK
      <4> QED BY <1>7, <4>1, <4>2
    <3> QED BY <1>1, <1>2, <1>3, <3>2, <3>4, <3>5 DEF LInv, NextKnown
  <2>8. AcksJoined'
    BY <1>1, <1>7, <2>1 DEF LInv, AcksJoined, TypeInv, JoinOK
  <2> QED BY <1>4, <1>5, <2>5, <2>7, <2>8 DEF LInv
<1> QED BY <1>6, <1>7, Zenon DEF RecvAccept

LEMMA RecvAckStep ==
    ASSUME NoSwallowing, TypeInv, LInv, OneJoin', NEW n \in Node, NEW m \in net, RecvAck(n, m)
    PROVE  LInv'
<1> DEFINE got == infl[n].got
                  \cup {g \in {"prev"} : m.from \in {infl[n].prev, prev[n]}}
                  \cup {g \in {"joiner"} : m.from = infl[n].joiner}
           x == infl[n]
<1>1. m.type = "ack" /\ m.from \in joined /\ n \in joined
  BY DEF RecvAck, LInv, NetInv, NetGood, GoodMsg
<1>2. UNCHANGED <<joined, have, acks>> /\ infl \in [Node -> InflType \cup {None}]
  BY DEF RecvAck, TypeInv, JoinOK
<1>3. x # None => (x.req[1] = x.joiner /\ ("joiner" \in got => x.joiner \in joined))
  BY <1>1 DEF LInv, JoinsGood, GoodJoin
<1>4. /\ \A j : Known(j) => Known(j)'
      /\ JoinsKept /\ NextKnown' /\ JoinsGood' /\ CommitsJoined' /\ TablesOwn'
  <2>1. CASE UNCHANGED <<next, prev, js, commits>> /\ infl' = infl
    <3>1. (\A j : Known(j) => Known(j)') /\ JoinsKept
      BY <1>2, <2>1, JoinsSame, KnownKept
    <3> QED BY <1>2, <2>1, <3>1
         DEF LInv, NextKnown, JoinsGood, GoodJoin, CommitsJoined, TablesOwn
  <2>2. CASE UNCHANGED <<next, prev, js, commits>> /\ x # None /\ infl' = [infl EXCEPT ![n].got = got]
    <3> HIDE DEF got
    <3>1. /\ infl'[n].joiner = x.joiner /\ infl'[n].req = x.req /\ infl'[n].got = got
          /\ \A k \in Node \ {n} : infl'[k] = infl[k]
      BY <1>2, <2>2 DEF InflType
    <3>2. infl'[n] # None
      <4>1. infl'[n] \in InflType
        <5>1. infl[n] \in InflType
          BY <1>2, <2>2
        <5>2. got \subseteq Both
          BY <5>1 DEF got, InflType, Both
        <5> QED BY <1>2, <2>2, <5>1, <5>2 DEF InflType
      <4> QED BY <4>1, RingAssumption DEF InflType, Both
    <3>3. JoinsKept /\ \A j : Known(j) => Known(j)'
      <4>1. JoinsKept
        BY <1>2, <3>1, <3>2 DEF JoinsKept
      <4> QED BY <4>1, KnownKept
    <3>4. JoinsGood'
      BY <1>2, <1>3, <2>2, <3>1 DEF LInv, JoinsGood, GoodJoin
    <3> QED BY <1>2, <2>2, <3>3, <3>4 DEF LInv, NextKnown, CommitsJoined, TablesOwn
  <2>3. CASE x # None /\ Confirmed(got) /\ TryComplete(n)
    <3>1. x.joiner \in joined /\ x.req[1] = x.joiner /\ x.joiner \in Node /\ x.req \in Req
      <4>1. x \in InflType
        BY <1>2, <2>3
      <4>2. "joiner" \in got
        BY <2>3 DEF Confirmed, Both
      <4> QED BY <1>3, <2>3, <4>1, <4>2 DEF InflType
    <3> HIDE DEF got
    <3>2. infl' = [infl EXCEPT ![n] = None]
      BY <2>3 DEF TryComplete
    <3>3. JoinsKept /\ \A j : Known(j) => Known(j)'
      <4>1. JoinsKept
        BY <1>2, <3>1, <3>2 DEF JoinsKept
      <4> QED BY <4>1, KnownKept
    <3>4. PICK j : j = x.joiner /\ j \in joined
      BY <3>1
    <3>5. NextKnown'
      <4>1. next' = next \/ next' = [next EXCEPT ![n] = j]
        BY <2>3, <3>4 DEF TryComplete
      <4>2. \A i \in joined' : next'[i] = j \/ next'[i] = next[i]
        BY <1>2, <4>1 DEF TypeInv, RingOK
      <4>3. Known(j)'
        BY <1>2, <3>4 DEF Known
      <4>4. prev' = [prev EXCEPT ![n] = j]
        BY <2>3, <3>4 DEF TryComplete
      <4>5. \A i \in joined' : prev'[i] \in joined'
        BY <1>2, <3>4, <4>4 DEF LInv, NextKnown, TypeInv, RingOK
      <4> QED BY <1>2, <3>3, <4>2, <4>3, <4>5 DEF LInv, NextKnown
    <3>6. JoinsGood'
      BY <1>2, <3>2 DEF LInv, JoinsGood, GoodJoin
    <3>7. CommitsJoined'
      <4>1. commits' = commits \cup {[name |-> x.joiner, req |-> x.req, topo |-> topo[n] + 1]}
        BY <2>3 DEF TryComplete
      <4> QED BY <1>2, <3>1, <4>1 DEF LInv, CommitsJoined
    <3>8. TablesOwn'
      <4>1. GoodTable(js[n]) /\ OwnIds(js[n])
        BY DEF TypeInv, JoinOK, LInv, TablesOwn
      <4>2. OwnIds(Ranked(Finish(js[n], x.joiner, x.req)))
        BY <3>1, <4>1, FinishGood, FinishFewer, RankedOwn
      <4>3. js' = [js EXCEPT ![n] = Ranked(Finish(js[n], x.joiner, x.req))]
        BY <2>3 DEF TryComplete
      <4> QED BY <4>2, <4>3, TableOwn DEF TypeInv, LInv
    <3> QED BY <3>3, <3>5, <3>6, <3>7, <3>8
  <2> QED BY <2>1, <2>2, <2>3, Zenon DEF RecvAck
<1>5. NetInv' /\ TokenNotLost'
  <2>1. PICK a : a = [type |-> "ackack", from |-> n, to |-> m.from, req |-> m.req]
    OBVIOUS
  <2>2. (\A p \in dup : p[2] \notin joined') /\ joined' \subseteq Node
    BY <1>2 DEF LInv, NetInv, DupJoining, TypeInv, RingOK
  <2>3. CASE Transmit({}, {m})
    <3>1. NetInv'
      BY <1>2, <1>4, <2>3, NothingSent
    <3> QED BY <1>1, <1>2, <2>3, <3>1, TransmitKeepsTokens DEF LInv
  <2>4. CASE \E o \in ThreeSends(IsDup(n, m.from), Budget) : Transmit({[msg |-> a, out |-> o]}, {m})
    <3>1. PICK o \in ThreeSends(IsDup(n, m.from), Budget) : Transmit({[msg |-> a, out |-> o]}, {m})
      BY <2>4
    <3>2. IsDup(n, m.from) = FALSE
      BY <1>1, JoinedInStep
    <3>3. ~o.dup
      BY <3>1, <3>2, ThreeSendsInStep
    <3>4. GoodMsg(a)' /\ a.from \in joined' /\ a.to \in joined /\ a.type # "token"
      BY <1>1, <1>2, <2>1 DEF GoodMsg
    <3> QED BY <1>1, <1>2, <1>4, <2>2, <3>1, <3>3, <3>4, AnswerGood
  <2> QED BY <2>1, <2>3, <2>4, Zenon DEF RecvAck
<1> QED BY <1>2, <1>4, <1>5 DEF LInv, AcksJoined

(* A JOIN_COMMIT that ends a join in flight names its joiner by the id.    *)
LEMMA JoinCommitStep ==
    ASSUME TypeInv, LInv, OneJoin', NEW n \in Node, NEW c \in commits, HandleJoinCommit(n, c)
    PROVE  LInv'
<1> DEFINE newer  == c.topo > topo[n]
           marked == MarkCompletedAndPrunePending(js[n], c.name, c.req)
           kept   == IF newer THEN DropOldestPendingJoins(marked, marked.count) ELSE marked
           mine   == infl[n] # None /\ infl[n].req = c.req
           table  == Ranked(IF mine THEN Finish(kept, infl[n].joiner, infl[n].req) ELSE kept)
<1>1. /\ js' = [js EXCEPT ![n] = table]
      /\ infl' = [infl EXCEPT ![n] = IF mine THEN None ELSE @]
      /\ acks' = IF acks[n] # None /\ acks[n].req = c.req THEN [acks EXCEPT ![n] = None] ELSE acks
      /\ UNCHANGED <<joined, next, have, commits, net, dup>>
  BY DEF HandleJoinCommit, netVars
<1>2. c.name \in joined /\ c.req[1] = c.name /\ c.name \in Node /\ c.req \in Req
  BY DEF LInv, CommitsJoined, TypeInv, JoinOK
<1>3. infl \in [Node -> InflType \cup {None}]
  BY DEF TypeInv, JoinOK
<1>4. mine => infl[n].joiner \in joined /\ infl[n].joiner \in Node /\ infl[n].req \in Req
  BY <1>2, <1>3 DEF LInv, JoinsGood, GoodJoin, InflType
<1>5. TablesOwn'
  <2>1. GoodTable(js[n]) /\ OwnIds(js[n])
    BY DEF TypeInv, JoinOK, LInv, TablesOwn
  <2>2. GoodTable(marked) /\ OwnIds(marked)
    BY <1>2, <2>1, FinishGood, FinishFewer, FewerOwn
  <2>3. GoodTable(kept) /\ OwnIds(kept)
    BY <2>2, DropOldestGood, DropFewer, FewerOwn
  <2> HIDE DEF kept, mine
  <2>4. OwnIds(table)
    <3>1. CASE mine
      <4>1. /\ GoodTable(Finish(kept, infl[n].joiner, infl[n].req))
            /\ Fewer(kept, Finish(kept, infl[n].joiner, infl[n].req))
        BY <1>4, <2>3, <3>1, FinishGood, FinishFewer
      <4>2. Fewer(kept, table)
        BY <3>1, <4>1, RankedFewer
      <4> QED BY <2>3, <4>2, FewerOwn
    <3>2. CASE ~mine
      <4>1. Fewer(kept, table)
        BY <2>3, <3>2, RankedFewer DEF Fewer
      <4> QED BY <2>3, <4>1, FewerOwn
    <3> QED BY <3>1, <3>2
  <2> HIDE DEF table
  <2> QED BY <1>1, <2>4, TableOwn DEF TypeInv, LInv
<1> HIDE DEF table, mine
<1>6. JoinsKept /\ \A j : Known(j) => Known(j)'
  <2>1. JoinsKept
    BY <1>1, <1>3, <1>4 DEF JoinsKept
  <2> QED BY <2>1, KnownKept
<1>7. AcksJoined'
  BY <1>1 DEF LInv, AcksJoined, TypeInv, JoinOK
<1>8. JoinsGood'
  BY <1>1, <1>3 DEF LInv, JoinsGood, GoodJoin
<1>9. NextKnown'
  <2>1. prev' = prev \/ (mine /\ prev' = [prev EXCEPT ![n] = infl[n].joiner])
    BY DEF HandleJoinCommit, mine, TypeInv, RingOK
  <2>2. \A i \in joined : prev'[i] \in joined
    BY <1>4, <2>1 DEF LInv, NextKnown, TypeInv, RingOK
  <2> QED BY <1>1, <1>6, <2>2 DEF LInv, NextKnown
<1>10. NetInv'
  <2>1. \A a, b : Addressed(a, b) /\ a \in Node => Addressed(a, b)'
    BY <1>1, <1>6 DEF Addressed, JoinsKept
  <2>2. BitsAddressed'
    BY <1>1, <2>1 DEF HandleJoinCommit, netVars, LInv, NetInv, BitsAddressed, TypeInv, NetOK
  <2>3. DupJoining'
    BY <1>1, <1>6 DEF LInv, NetInv, DupJoining, JoinsKept, TypeInv, NetOK
  <2>4. NetGood'
    BY <1>1, <1>6 DEF LInv, NetInv, NetGood, GoodMsg
  <2> QED BY <2>2, <2>3, <2>4 DEF NetInv
<1> QED BY <1>1, <1>5, <1>7, <1>8, <1>9, <1>10
     DEF LInv, CommitsJoined, TokenNotLost, InTransit

(* A restart at a joiner puts the bits out of step that its coordinator    *)
(* has flipped, and takes from the network what the joiner had not read.   *)
LEMMA RestartStep ==
    ASSUME TypeInv, LInv, NEW j \in Node, Restart(j)
    PROVE  LInv'
<1>1. /\ j \notin joined
      /\ UNCHANGED <<joined, next, prev, have, infl, acks, commits>>
      /\ js' = [js EXCEPT ![j] = EmptyJoinState]
      /\ net' = {m \in net : m.to # j}
      /\ sbit' = {p \in sbit : p[1] # j}
      /\ dup' = {p \in Node \X Node :
                    IF p[1] = j THEN (p \in sbit) # (p \in dup)
                    ELSE IF p[2] = j THEN p \in sbit ELSE p \in dup}
  BY DEF Restart, ringVars
<1>2. TablesOwn'
  <2>1. Used(EmptyJoinState) = {}
    BY DEF Used, EmptyJoinState
  <2>2. OwnIds(EmptyJoinState)
    BY <2>1 DEF OwnIds
  <2> QED BY <1>1, <2>2, TableOwn DEF TypeInv, LInv
<1>3. NetGood' /\ TokenNotLost'
  <2>1. \A m \in net : m.type = "token" => m.to # j
    BY <1>1 DEF LInv, NetInv, NetGood, GoodMsg
  <2>2. \A i : Known(i) => Known(i)'
    BY <1>1 DEF Known
  <2> QED BY <1>1, <2>1, <2>2 DEF LInv, NetInv, NetGood, GoodMsg, TokenNotLost, InTransit
<1>4. BitsAddressed'
  BY <1>1 DEF LInv, NetInv, BitsAddressed, Addressed
<1>5. DupJoining'
  <2> SUFFICES ASSUME NEW p \in dup'
               PROVE  /\ p[2] \notin joined /\ infl[p[1]] # None /\ infl[p[1]].joiner = p[2]
                      /\ \A m \in net' : m.to # p[2]
    BY <1>1 DEF DupJoining
  <2>1. p \in Node \X Node /\ p[1] \in Node
    BY <1>1
  <2>2. CASE p[1] = j
    <3>1. p \notin sbit
      BY <1>1, <2>2 DEF LInv, NetInv, BitsAddressed
    <3>2. p \notin dup
      BY <1>1, <2>1, <2>2 DEF LInv, NetInv, DupJoining, TypeInv, JoinOK, RingOK
    <3> QED BY <1>1, <2>2, <3>1, <3>2
  <2>3. CASE p[1] # j /\ p[2] = j
    BY <1>1, <2>3 DEF LInv, NetInv, BitsAddressed, Addressed
  <2>4. CASE p[1] # j /\ p[2] # j
    BY <1>1, <2>4 DEF LInv, NetInv, DupJoining
  <2> QED BY <2>2, <2>3, <2>4
<1> QED BY <1>1, <1>2, <1>3, <1>4, <1>5
     DEF LInv, NetInv, NextKnown, Known, AcksJoined, JoinsGood, GoodJoin, CommitsJoined

(* The token goes to a node that has joined: no join is under way when it  *)
(* moves, and the successor is known.                                      *)
LEMMA PassTokenStep ==
    ASSUME NoSwallowing, TypeInv, IInv, LInv, OneJoin', NEW n \in Node, PassToken(n)
    PROVE  LInv'
<1>1. n \in joined /\ n \in have /\ infl[n] = None
  BY DEF PassToken, TokenReady
<1>2. next[n] \in joined
  BY <1>1 DEF LInv, NextKnown, Known, IInv, AtMostOneToken, CoordinatorHoldsToken
<1>3. UNCHANGED <<joined, next, prev, infl, acks, commits, js>>
  BY DEF PassToken, ringVars, joinVars
<1>4. (\A j : Known(j) => Known(j)') /\ JoinsKept
  BY <1>3, JoinsSame, KnownKept
<1>5. PICK b, v : \E o \in TokenSend(IsDup(n, next[n]), Budget) :
         /\ Transmit({[msg |-> [type |-> "token", from |-> n, to |-> next[n], body |-> b, topo |-> v],
                       out |-> o]}, {})
         /\ AfterTokenSend(n, o.lost = 0)
  BY Zenon DEF PassToken
<1>6. PICK a : /\ a = [type |-> "token", from |-> n, to |-> next[n], body |-> b, topo |-> v]
  OBVIOUS
<1>7. PICK o \in TokenSend(IsDup(n, next[n]), Budget) :
         Transmit({[msg |-> a, out |-> o]}, {}) /\ AfterTokenSend(n, o.lost = 0)
  BY <1>5, <1>6
<1>8. o.dup = FALSE /\ (o.lost = 0 => o.got = TRUE)
  <2>1. IsDup(n, next[n]) = FALSE
    BY <1>2, JoinedInStep
  <2> QED BY <1>7, <2>1, SendsInStep
<1>9. GoodMsg(a)'
  BY <1>2, <1>3, <1>6 DEF GoodMsg
<1>10. NetInv'
  <2> DEFINE one == {[msg |-> a, out |-> o]}
  <2>1. /\ a.from = n /\ a.to = next[n] /\ <<n, next[n]>> \notin dup
    BY <1>2, <1>6 DEF LInv, NetInv, DupJoining
  <2>2. \A x \in one : /\ InStep(x) /\ GoodMsg(x.msg)' /\ x.msg.from \in joined'
                      /\ Addressed(x.msg.from, x.msg.to)'
    BY <1>1, <1>2, <1>3, <1>8, <1>9, <2>1 DEF InStep, Addressed
  <2>3. Transmit(one, {})
    BY <1>7
  <2>4. (\A p \in dup : p[2] \notin joined') /\ joined' \subseteq Node
    BY <1>3 DEF LInv, NetInv, DupJoining, TypeInv, RingOK
  <2> HIDE DEF one
  <2> QED BY <1>4, <2>2, <2>3, <2>4, TransmitGood DEF LInv
<1>11. TokenNotLost'
  <2>1. CASE o.lost = 0
    <3>1. a \in net'
      BY <1>7, <1>8, <2>1 DEF Transmit
    <3> QED BY <1>6, <3>1 DEF TokenNotLost, InTransit
  <2>2. CASE o.lost # 0
    BY <1>1, <1>7, <2>2 DEF AfterTokenSend, TokenNotLost
  <2> QED BY <2>1, <2>2
<1> QED BY <1>3, <1>4, <1>10, <1>11
     DEF LInv, NextKnown, AcksJoined, JoinsGood, GoodJoin, CommitsJoined, TablesOwn

LEMMA InitLInv == Init => LInv
<1> SUFFICES ASSUME Init PROVE LInv
  OBVIOUS
<1>1. TypeInv
  BY InitTypeInv
<1>2. /\ net = {} /\ dup = {} /\ sbit = {} /\ commits = {} /\ have # {}
      /\ infl = [n \in Node |-> None] /\ acks = [n \in Node |-> None]
  BY DEF Init
<1>3. TablesOwn
  <2>1. js = [n \in Node |-> EmptyJoinState]
    BY DEF Init
  <2>2. Used(EmptyJoinState) = {}
    BY DEF Used, EmptyJoinState
  <2> QED BY <2>1, <2>2 DEF TablesOwn, OwnIds
<1>4. \A n \in joined : next[n] \in joined /\ prev[n] \in joined
  BY InitTypeInv
<1> QED BY <1>1, <1>2, <1>3, <1>4
     DEF LInv, NetInv, BitsAddressed, DupJoining, NetGood, NextKnown, Known, AcksJoined,
         JoinsGood, CommitsJoined, TokenNotLost,
         TypeInv, RingOK

(* Every step keeps the invariant.                                         *)
LEMMA NextLInv ==
    ASSUME NoSwallowing, TypeInv, IInv, LInv, IInv', [Next]_vars
    PROVE  LInv'
<1>1. OneJoin'
  BY OneJoinHolds DEF IInv, AtMostOneToken, CoordinatorHoldsToken, OneJoin
<1>2. CASE UNCHANGED vars
  BY <1>2, TablesOnly DEF vars, ringVars, joinVars, netVars, LInv, TablesOwn
<1>3. ASSUME NEW n \in Node, CliRead(n) PROVE LInv'
  BY <1>3, TablesOnly DEF CliRead, ringVars, joinVars, netVars, LInv, TablesOwn
<1>4. ASSUME NEW m \in Mail, Write(m) PROVE LInv'
  BY <1>4, TablesOnly DEF Write, ringVars, joinVars, netVars, LInv, TablesOwn
<1>5. CASE Next
  BY <1>1, <1>3, <1>4, <1>5, RequestStep, RecvTokenStep, RecvAcceptStep, RecvAckStep,
     RecvAckAckStep, JoinCommitStep, PruneStep, InflightTickStep, StartJoinStep,
     AckSenderTickStep, RestartStep, PassTokenStep DEF Next
<1> QED BY <1>2, <1>5

(* docs/final.md:72.  As long as no send fails after it was delivered      *)
(* (rudp.c:134) and none returns 0 with its message thrown away            *)
(* (rudp.c:239), the token is always at a node or on its way to one that   *)
(* will take it, however many nodes join at once, whichever of them are    *)
(* restarted on the way and whichever other sends fail.                    *)
THEOREM TokenNeverLost ==
    ASSUME NoSwallowing
    PROVE  Spec => []TokenNotLost
<1>1. "ackAckError" \notin Faults
  BY DEF NoSwallowing
<1>2. Init => TypeInv /\ IInv /\ LInv
  BY InitTypeInv, InitIInv, InitLInv
<1>3. TypeInv /\ IInv /\ LInv /\ [Next]_vars => (TypeInv /\ IInv /\ LInv)'
  BY <1>1, NextTypeInv, NextIInv, NextLInv
<1>4. LInv => TokenNotLost
  BY DEF LInv
<1> QED BY <1>2, <1>3, <1>4, PTL DEF Spec

-----------------------------------------------------------------------------
(* The messages the token carries.                                         *)

(* m is on the token, held or under way.                                   *)
Carried(m) ==
    \/ \E k \in have : token[k].body = m
    \/ \E t \in InTransit : t.body = m

Queued(n) == {fifo[n][i] : i \in 1 .. Len(fifo[n])}

(* A message waits at its sender only, in one place, ...                   *)
WaitsOnce ==
    /\ \A n \in Node : \A m \in Queued(n) : m.from = n /\ m \in written
    /\ \A n \in Node : \A i, j \in 1 .. Len(fifo[n]) : fifo[n][i] = fifo[n][j] => i = j
    /\ \A n \in Node :
          cli[n] # None => cli[n].from = n /\ cli[n] \in written /\ cli[n] \notin Queued(n)

(* ... and no longer when it has left.                                     *)
LeavesOnce ==
    \A m \in Mail :
        /\ Carried(m) \/ received[m] > 0 =>
              m \in written /\ cli[m.from] # m /\ m \notin Queued(m.from)
        /\ received[m] <= 1
        /\ Carried(m) => received[m] = 0

OnceInv == WaitsOnce /\ LeavesOnce

(* What a step may leave behind that sends no token and takes none.        *)
SameTokens ==
    /\ have' = have /\ InTransit' = InTransit
    /\ \A k \in have : token'[k].body = token[k].body

LEMMA SameCarried == SameTokens => \A m : Carried(m)' <=> Carried(m)
<1> SUFFICES ASSUME SameTokens, NEW m PROVE Carried(m)' <=> Carried(m)
  OBVIOUS
<1>1. (\E k \in have : token[k].body = m)' <=> (\E k \in have : token[k].body = m)
  BY DEF SameTokens
<1>2. (\E t \in InTransit : t.body = m)' <=> (\E t \in InTransit : t.body = m)
  BY DEF SameTokens
<1> QED BY <1>1, <1>2 DEF Carried

LEMMA OthersTransmitted ==
    ASSUME NEW ms, NEW taken, Transmit(ms, taken),
           \A x \in ms : x.msg.type # "token", \A m \in taken : m.type # "token"
    PROVE  InTransit' = InTransit
BY DEF Transmit, InTransit

LEMMA AcceptsTransmitted ==
    ASSUME NEW n, NEW x, SendAccepts(n, x)
    PROVE  InTransit' = InTransit
<1>1. PICK ms : Transmit(ms, {}) /\ \A y \in ms : y.msg.type = "accept"
  <2> DEFINE accept(to) == [type |-> "accept", from |-> n, to |-> to,
                            new |-> x.joiner, req |-> x.req, prev |-> prev[n]]
             both(o1, o2) == {y \in {[msg |-> accept(x.joiner), out |-> o1, by |-> "joiner"],
                                     [msg |-> accept(prev[n]), out |-> o2, by |-> "prev"]} :
                                 y.by \notin x.got}
  <2>1. PICK o1, o2 : Transmit(both(o1, o2), {})
    BY Zenon DEF SendAccepts
  <2>2. \A y \in both(o1, o2) : y.msg.type = "accept"
    OBVIOUS
  <2> HIDE DEF both
  <2> QED BY <2>1, <2>2
<1> QED BY <1>1, OthersTransmitted

(* The steps of the join protocol carry nothing.                           *)
LEMMA JoinStepsCarryNothing ==
    ASSUME TypeInv,
           \/ \E n, j \in Node : HandleJoinRequest(n, j)
           \/ \E n \in Node : \E m \in net : RecvAccept(n, m)
           \/ \E n \in Node : \E m \in net : RecvAck(n, m)
           \/ \E n \in Node : \E m \in net : RecvAckAck(n, m)
           \/ \E n \in Node : \E c \in commits : HandleJoinCommit(n, c)
           \/ \E n \in Node : Prune(n)
           \/ \E n \in Node : InflightTick(n)
           \/ \E n \in Node : AckSenderTick(n)
    PROVE  SameTokens /\ UNCHANGED mailVars /\ joined \subseteq joined'
<1>0. token \in [Node -> TokenType \cup {None}] /\ \A n \in have : token[n] \in TokenType
  BY DEF TypeInv, TokenOK
<1>i. \A n \in Node : infl[n] # None => n \in have
  BY DEF TypeInv, JoinOK
<1>t. ASSUME NEW n \in have, NEW v, token' = [token EXCEPT ![n].topo = v]
      PROVE  \A k \in have : token'[k].body = token[k].body
  BY <1>0, <1>t DEF TokenType, TypeInv, RingOK
<1>1. ASSUME NEW n \in Node, NEW j \in Node, HandleJoinRequest(n, j)
      PROVE  SameTokens /\ UNCHANGED mailVars /\ joined \subseteq joined'
  BY <1>1 DEF HandleJoinRequest, netVars, ringVars, InTransit, SameTokens
<1>2. ASSUME NEW n \in Node, NEW m \in net, RecvAccept(n, m)
      PROVE  SameTokens /\ UNCHANGED mailVars /\ joined \subseteq joined'
  <2>1. InTransit' = InTransit
    <3>1. PICK o : \/ Transmit({}, {m})
                   \/ Transmit({[msg |-> [type |-> "ack", from |-> n, to |-> m.from,
                                          req |-> m.req], out |-> o]}, {m})
      BY <1>2, Zenon DEF RecvAccept
    <3>2. m.type # "token"
      BY <1>2 DEF RecvAccept
    <3> QED BY <3>1, <3>2, OthersTransmitted
  <2> QED BY <1>2, <2>1 DEF RecvAccept, ringVars, SameTokens
<1>3. ASSUME NEW n \in Node, NEW m \in net, RecvAck(n, m)
      PROVE  SameTokens /\ UNCHANGED mailVars /\ joined \subseteq joined'
  <2>1. InTransit' = InTransit
    <3>1. PICK o : \/ Transmit({}, {m})
                   \/ Transmit({[msg |-> [type |-> "ackack", from |-> n, to |-> m.from,
                                          req |-> m.req], out |-> o]}, {m})
      BY <1>3, Zenon DEF RecvAck
    <3>2. m.type # "token"
      BY <1>3 DEF RecvAck
    <3> QED BY <3>1, <3>2, OthersTransmitted
  <2>2. token' = token \/ (infl[n] # None /\ \E v : token' = [token EXCEPT ![n].topo = v])
    BY <1>3 DEF RecvAck, TryComplete
  <2>3. have' = have /\ UNCHANGED mailVars /\ joined' = joined
    BY <1>3 DEF RecvAck
  <2> QED BY <1>i, <1>t, <2>1, <2>2, <2>3 DEF SameTokens
<1>4. ASSUME NEW n \in Node, NEW m \in net, RecvAckAck(n, m)
      PROVE  SameTokens /\ UNCHANGED mailVars /\ joined \subseteq joined'
  <2>1. m.type # "token" /\ Transmit({}, {m})
    BY <1>4 DEF RecvAckAck
  <2>2. InTransit' = InTransit
    BY <2>1, OthersTransmitted
  <2> QED BY <1>4, <2>2 DEF RecvAckAck, ringVars, SameTokens
<1>5. ASSUME NEW n \in Node, NEW c \in commits, HandleJoinCommit(n, c)
      PROVE  SameTokens /\ UNCHANGED mailVars /\ joined \subseteq joined'
  <2>1. token' = token \/ (infl[n] # None /\ \E v : token' = [token EXCEPT ![n].topo = v])
    BY <1>5 DEF HandleJoinCommit
  <2>2. have' = have /\ UNCHANGED mailVars /\ joined' = joined /\ net' = net
    BY <1>5 DEF HandleJoinCommit, netVars
  <2> QED BY <1>i, <1>t, <2>1, <2>2 DEF SameTokens, InTransit
<1>6. ASSUME NEW n \in Node, Prune(n)
      PROVE  SameTokens /\ UNCHANGED mailVars /\ joined \subseteq joined'
  BY <1>6 DEF Prune, netVars, ringVars, InTransit, SameTokens
<1>7. ASSUME NEW n \in Node, InflightTick(n)
      PROVE  SameTokens /\ UNCHANGED mailVars /\ joined \subseteq joined'
  BY <1>7, AcceptsTransmitted DEF InflightTick, ringVars, SameTokens
<1>8. ASSUME NEW n \in Node, AckSenderTick(n)
      PROVE  SameTokens /\ UNCHANGED mailVars /\ joined \subseteq joined'
  <2>1. PICK o : \/ UNCHANGED netVars
                 \/ Transmit({[msg |-> [type |-> "ack", from |-> n, to |-> acks[n].coord,
                                        req |-> acks[n].req], out |-> o]}, {})
    BY <1>8, Zenon DEF AckSenderTick
  <2>2. InTransit' = InTransit
    <3>1. CASE UNCHANGED netVars
      BY <3>1 DEF netVars, InTransit
    <3> QED BY <2>1, <3>1, OthersTransmitted
  <2> QED BY <1>8, <2>2 DEF AckSenderTick, ringVars, SameTokens
<1> QED BY <1>1, <1>2, <1>3, <1>4, <1>5, <1>6, <1>7, <1>8

(* handle_cli_if_ready moves the first message of the FIFO to cli_pending, *)
(* or nothing.                                                             *)
LEMMA CliMoves ==
    ASSUME TypeInv, WaitsOnce, NEW n \in Node
    PROVE  /\ FifoAfterRead(n) \in Seq(Mail)
           /\ \A i \in 1 .. Len(FifoAfterRead(n)) :
                 /\ FifoAfterRead(n)[i] \in Queued(n)
                 /\ FifoAfterRead(n)[i] # CliAfterRead(n)
           /\ \A i, j \in 1 .. Len(FifoAfterRead(n)) :
                 FifoAfterRead(n)[i] = FifoAfterRead(n)[j] => i = j
           /\ CliAfterRead(n) \in Queued(n) \cup {cli[n]}
<1> DEFINE f == fifo[n]
<1>1. f \in Seq(Mail)
  BY DEF TypeInv, MailOK
<1>2. CASE CliReady(n)
  <2>1. f # << >> /\ FifoAfterRead(n) = Tail(f) /\ CliAfterRead(n) = Head(f)
    BY <1>2 DEF CliReady, FifoAfterRead, CliAfterRead
  <2>2. \A i, j \in 1 .. Len(f) : f[i] = f[j] => i = j
    BY DEF WaitsOnce
  <2> HIDE DEF f
  <2>3. Tail(f) \in Seq(Mail) /\ Len(f) \in Nat \ {0} /\ Len(Tail(f)) = Len(f) - 1
    BY <1>1, <2>1
  <2>4. Head(f) = f[1] /\ \A i \in 1 .. Len(Tail(f)) : Tail(f)[i] = f[i + 1]
    BY <1>1, <2>1
  <2>5. \A i \in 1 .. Len(Tail(f)) : i + 1 \in 1 .. Len(f) /\ i + 1 # 1
    BY <2>3
  <2>6. 1 \in 1 .. Len(f)
    BY <2>3
  <2>7. \A i, j \in 1 .. Len(Tail(f)) : Tail(f)[i] = Tail(f)[j] => i = j
    <3> SUFFICES ASSUME NEW i \in 1 .. Len(Tail(f)), NEW j \in 1 .. Len(Tail(f)),
                        Tail(f)[i] = Tail(f)[j]
                 PROVE  i = j
      OBVIOUS
    <3>1. i + 1 = j + 1
      BY <2>2, <2>4, <2>5
    <3> QED BY <3>1
  <2>8. \A i \in 1 .. Len(Tail(f)) : Tail(f)[i] # Head(f)
    BY <2>2, <2>4, <2>5, <2>6
  <2>9. \A i \in 1 .. Len(f) : f[i] \in Queued(n)
    BY DEF Queued, f
  <2> QED BY <2>1, <2>3, <2>4, <2>5, <2>6, <2>7, <2>8, <2>9
<1>3. CASE ~CliReady(n)
  <2>1. FifoAfterRead(n) = fifo[n] /\ CliAfterRead(n) = cli[n]
    BY <1>3 DEF FifoAfterRead, CliAfterRead
  <2>2. cli[n] \notin Queued(n) \/ cli[n] = None
    BY DEF WaitsOnce
  <2>3. \A i \in 1 .. Len(fifo[n]) : fifo[n][i] \in Queued(n) /\ fifo[n][i] \in Mail
    BY <1>1 DEF Queued
  <2>4. None \notin Mail
    BY RingAssumption
  <2> QED BY <1>1, <2>1, <2>2, <2>3, <2>4 DEF WaitsOnce
<1> QED BY <1>2, <1>3

(* After a look at the CLI, with cli_pending perhaps emptied, what waits   *)
(* still waits once.                                                       *)
LEMMA ReadWaitsOnce ==
    ASSUME TypeInv, WaitsOnce, NEW n \in Node, written' = written,
           fifo' = [fifo EXCEPT ![n] = FifoAfterRead(n)],
           \E c \in {None, CliAfterRead(n)} : cli' = [cli EXCEPT ![n] = c]
    PROVE  /\ WaitsOnce'
           /\ \A k \in Node : /\ Queued(k)' \subseteq Queued(k)
                              /\ cli'[k] # None => cli'[k] \in Queued(k) \cup {cli[k]}
<1> DEFINE f == FifoAfterRead(n)
           c == CliAfterRead(n)
<1>1. /\ f \in Seq(Mail)
      /\ \A i \in 1 .. Len(f) : f[i] \in Queued(n) /\ f[i] # c
      /\ \A i, j \in 1 .. Len(f) : f[i] = f[j] => i = j
      /\ c \in Queued(n) \cup {cli[n]}
  BY CliMoves
<1> HIDE DEF f, c
<1>2. /\ fifo'[n] = f /\ cli'[n] \in {None, c}
      /\ \A k \in Node \ {n} : fifo'[k] = fifo[k] /\ cli'[k] = cli[k]
  BY DEF TypeInv, MailOK, f, c
<1>3. \A k \in Node : Queued(k)' \subseteq Queued(k)
  BY <1>1, <1>2 DEF Queued
<1>4. \A k \in Node : cli'[k] # None => cli'[k] \in Queued(k) \cup {cli[k]}
  BY <1>1, <1>2
<1>5. \A k \in Node : \A m \in Queued(k)' : m.from = k /\ m \in written'
  BY <1>3 DEF WaitsOnce
<1>6. \A k \in Node : \A i, j \in 1 .. Len(fifo'[k]) : fifo'[k][i] = fifo'[k][j] => i = j
  BY <1>1, <1>2 DEF WaitsOnce
<1>7. ASSUME NEW k \in Node, cli'[k] # None
      PROVE  cli'[k].from = k /\ cli'[k] \in written' /\ cli'[k] \notin Queued(k)'
  <2>1. cli'[k].from = k /\ cli'[k] \in written'
    BY <1>4, <1>7 DEF WaitsOnce
  <2>2. cli'[k] \notin Queued(k)'
    <3>1. CASE k = n
      <4>1. Queued(n)' = {f[i] : i \in 1 .. Len(f)}
        BY <1>2 DEF Queued
      <4> QED BY <1>1, <1>2, <1>7, <3>1, <4>1
    <3>2. CASE k # n
      <4>1. Queued(k)' = Queued(k) /\ cli'[k] = cli[k]
        BY <1>2, <3>2 DEF Queued
      <4> QED BY <1>7, <4>1 DEF WaitsOnce
    <3> QED BY <3>1, <3>2
  <2> QED BY <2>1, <2>2
<1> QED BY <1>3, <1>4, <1>5, <1>6, <1>7 DEF WaitsOnce

(* If nothing new waits, nothing new is on the token and nothing is        *)
(* reported, what has left has left.                                       *)
LEMMA NothingLeaves ==
    ASSUME LeavesOnce, written' = written, received' = received,
           \A m \in Mail : Carried(m)' => Carried(m),
           \A k \in Node : /\ Queued(k)' \subseteq Queued(k)
                           /\ cli'[k] # None => cli'[k] \in Queued(k) \cup {cli[k]}
    PROVE  LeavesOnce'
<1> SUFFICES ASSUME NEW m \in Mail
             PROVE  /\ Carried(m)' \/ received'[m] > 0 =>
                          m \in written' /\ cli'[m.from] # m /\ m \notin Queued(m.from)'
                    /\ received'[m] <= 1
                    /\ Carried(m)' => received'[m] = 0
  BY DEF LeavesOnce
<1>1. m.from \in Node /\ m # None
  BY RingAssumption
<1>2. /\ Carried(m) \/ received[m] > 0 =>
            m \in written /\ cli[m.from] # m /\ m \notin Queued(m.from)
      /\ received[m] <= 1
      /\ Carried(m) => received[m] = 0
  BY DEF LeavesOnce
<1>3. Carried(m)' => Carried(m)
  OBVIOUS
<1>4. Carried(m) \/ received[m] > 0 => cli'[m.from] # m /\ m \notin Queued(m.from)'
  BY <1>1, <1>2
<1> QED BY <1>2, <1>3, <1>4

LEMMA QuietMail ==
    ASSUME OnceInv, UNCHANGED mailVars, \A m \in Mail : Carried(m)' => Carried(m)
    PROVE  OnceInv'
<1>1. UNCHANGED <<fifo, cli, written, received>>
  BY DEF mailVars
<1>2. WaitsOnce'
  BY <1>1 DEF OnceInv, WaitsOnce, Queued
<1>3. \A k \in Node : Queued(k)' = Queued(k) /\ cli'[k] = cli[k]
  BY <1>1 DEF Queued
<1>4. LeavesOnce'
  BY <1>1, <1>3, NothingLeaves DEF OnceInv
<1> QED BY <1>2, <1>4 DEF OnceInv

LEMMA WriteOnce ==
    ASSUME TypeInv, OnceInv, NEW m \in Mail, Write(m)
    PROVE  OnceInv'
<1> DEFINE k == m.from
<1>1. /\ m \notin written /\ written' = written \cup {m}
      /\ fifo' = [fifo EXCEPT ![k] = Append(fifo[k], m)]
      /\ UNCHANGED <<cli, received, have, token, net>>
  BY DEF Write, netVars
<1>2. k \in Node /\ m # None
  BY RingAssumption
<1>3. fifo[k] \in Seq(Mail) /\ fifo'[k] = Append(fifo[k], m)
      /\ \A n \in Node \ {k} : fifo'[n] = fifo[n]
  BY <1>1, <1>2 DEF TypeInv, MailOK
<1>4. /\ Len(fifo[k]) \in Nat /\ Len(fifo'[k]) = Len(fifo[k]) + 1 /\ fifo'[k][Len(fifo[k]) + 1] = m
      /\ \A i \in 1 .. Len(fifo[k]) : fifo'[k][i] = fifo[k][i]
  BY <1>3
<1>5. Queued(k)' = Queued(k) \cup {m}
  <2>1. \A i \in 1 .. Len(fifo'[k]) : i \in 1 .. Len(fifo[k]) \/ i = Len(fifo[k]) + 1
    BY <1>4
  <2>2. \A i \in 1 .. Len(fifo[k]) : i \in 1 .. Len(fifo'[k])
    BY <1>4
  <2>3. Len(fifo[k]) + 1 \in 1 .. Len(fifo'[k])
    BY <1>4
  <2> QED BY <1>4, <2>1, <2>2, <2>3 DEF Queued
<1>6. \A n \in Node \ {k} : Queued(n)' = Queued(n)
  BY <1>3 DEF Queued
<1>7. m \notin Queued(k) /\ cli[k] # m /\ ~Carried(m) /\ ~(received[m] > 0)
  BY <1>1, <1>2 DEF OnceInv, WaitsOnce, LeavesOnce
<1> HIDE DEF k
<1>8. WaitsOnce'
  <2>1. \A n \in Node : \A x \in Queued(n)' : x.from = n /\ x \in written'
    BY <1>1, <1>5, <1>6 DEF OnceInv, WaitsOnce, k
  <2>2. ASSUME NEW i \in 1 .. Len(fifo'[k]), NEW j \in 1 .. Len(fifo'[k]),
               fifo'[k][i] = fifo'[k][j]
        PROVE  i = j
    <3>1. \A l \in 1 .. Len(fifo[k]) : fifo[k][l] # m
      BY <1>7 DEF Queued
    <3>2. \A l \in 1 .. Len(fifo'[k]) : l \in 1 .. Len(fifo[k]) \/ l = Len(fifo[k]) + 1
      BY <1>4
    <3>3. \A l, q \in 1 .. Len(fifo[k]) : fifo[k][l] = fifo[k][q] => l = q
      BY <1>2 DEF OnceInv, WaitsOnce, k
    <3> QED BY <1>4, <2>2, <3>1, <3>2, <3>3
  <2>3. \A n \in Node : \A i, j \in 1 .. Len(fifo'[n]) : fifo'[n][i] = fifo'[n][j] => i = j
    BY <1>3, <2>2 DEF OnceInv, WaitsOnce
  <2>4. \A n \in Node :
           cli'[n] # None => cli'[n].from = n /\ cli'[n] \in written' /\ cli'[n] \notin Queued(n)'
    BY <1>1, <1>5, <1>6, <1>7 DEF OnceInv, WaitsOnce
  <2> QED BY <2>1, <2>3, <2>4 DEF WaitsOnce
<1>9. LeavesOnce'
  <2> SUFFICES ASSUME NEW x \in Mail
               PROVE  /\ Carried(x)' \/ received'[x] > 0 =>
                            x \in written' /\ cli'[x.from] # x /\ x \notin Queued(x.from)'
                      /\ received'[x] <= 1
                      /\ Carried(x)' => received'[x] = 0
    BY DEF LeavesOnce
  <2>1. Carried(x)' <=> Carried(x)
    BY <1>1 DEF Carried, InTransit
  <2>2. x.from \in Node
    BY RingAssumption
  <2>3. x # m => (x \in Queued(x.from)' => x \in Queued(x.from))
    BY <1>5, <1>6, <2>2
  <2>4. received'[x] = received[x] /\ cli' = cli
    BY <1>1
  <2>5. /\ Carried(x) \/ received[x] > 0 =>
              x \in written /\ cli[x.from] # x /\ x \notin Queued(x.from)
        /\ received[x] <= 1
        /\ Carried(x) => received[x] = 0
    BY DEF OnceInv, LeavesOnce
  <2> QED BY <1>1, <1>7, <2>1, <2>3, <2>4, <2>5
<1> QED BY <1>8, <1>9 DEF OnceInv

LEMMA RestartOnce ==
    ASSUME TypeInv, OnceInv, NEW j \in Node, Restart(j)
    PROVE  OnceInv'
<1>1. /\ fifo' = [fifo EXCEPT ![j] = << >>] /\ cli' = [cli EXCEPT ![j] = None]
      /\ UNCHANGED <<written, received, have>> /\ j \notin joined
      /\ token' = [token EXCEPT ![j] = None] /\ net' \subseteq net
  BY DEF Restart
<1>2. \A m \in Mail : Carried(m)' => Carried(m)
  <2>1. \A k \in have : token'[k] = token[k]
    BY <1>1 DEF TypeInv, RingOK, TokenOK
  <2>2. InTransit' \subseteq InTransit
    BY <1>1 DEF InTransit
  <2> QED BY <1>1, <2>1, <2>2 DEF Carried
<1>3. /\ fifo'[j] = << >> /\ cli'[j] = None
      /\ \A k \in Node \ {j} : fifo'[k] = fifo[k] /\ cli'[k] = cli[k]
  BY <1>1 DEF TypeInv, MailOK
<1>4. Queued(j)' = {} /\ \A k \in Node \ {j} : Queued(k)' = Queued(k)
  BY <1>3 DEF Queued
<1>5. WaitsOnce'
  <2>1. \A n \in Node : \A m \in Queued(n)' : m.from = n /\ m \in written'
    BY <1>1, <1>4 DEF OnceInv, WaitsOnce
  <2>2. \A n \in Node : \A i, k \in 1 .. Len(fifo'[n]) : fifo'[n][i] = fifo'[n][k] => i = k
    BY <1>3 DEF OnceInv, WaitsOnce
  <2>3. \A n \in Node :
           cli'[n] # None => cli'[n].from = n /\ cli'[n] \in written' /\ cli'[n] \notin Queued(n)'
    BY <1>1, <1>3, <1>4 DEF OnceInv, WaitsOnce
  <2> QED BY <2>1, <2>2, <2>3 DEF WaitsOnce
<1>6. \A k \in Node : /\ Queued(k)' \subseteq Queued(k)
                      /\ cli'[k] # None => cli'[k] \in Queued(k) \cup {cli[k]}
  BY <1>3, <1>4
<1>7. LeavesOnce'
  BY <1>1, <1>2, <1>6, NothingLeaves DEF OnceInv
<1> QED BY <1>5, <1>7 DEF OnceInv

(* What a node holds after it took the token was on the token.             *)
LEMMA TokenTaken ==
    ASSUME TypeInv, IInv, NEW n \in Node, NEW t \in net, RecvToken(n, t)
    PROVE  \A m \in Mail : /\ Carried(m)' => Carried(m)
                           /\ n \in joined /\ Carried(m) => Carried(m)'
<1>1. /\ t \in InTransit /\ InTransit = {t} /\ have = {}
  BY DEF RecvToken, InTransit, IInv, AtMostOneToken
<1>2. /\ Transmit({}, {t}) /\ have' = IF n \in joined THEN have \cup {n} ELSE have
      /\ token' = [token EXCEPT ![n] = [body |-> t.body, topo |-> t.topo]]
  BY DEF RecvToken
<1>3. InTransit' = {}
  BY <1>1, <1>2 DEF Transmit, InTransit
<1>4. token'[n].body = t.body
  BY <1>2 DEF TypeInv, TokenOK
<1> QED BY <1>1, <1>2, <1>3, <1>4 DEF Carried

(* ring_on_token, when its send does not fail: the message for this node   *)
(* is reported, the one taken from the CLI replaces it, and what is on the *)
(* token is on its way.                                                    *)
TokenSendSafe == {"sendError", "ackAckError"} \cap Faults = {}

Load(n) ==
    IF CanAttach(n) /\ CliAfterRead(n) # None THEN CliAfterRead(n) ELSE BodyAfterReport(n)

LEMMA PassTokenCarries ==
    ASSUME TokenSendSafe, TypeInv, IInv, NEW n \in Node, PassToken(n)
    PROVE  /\ have = {n} /\ InTransit = {} /\ have' = {}
           /\ InTransit' \subseteq {[type |-> "token", from |-> n, to |-> next[n],
                                     body |-> Load(n),
                                     topo |-> IF CanAttach(n) /\ CliAfterRead(n) # None
                                              THEN topo[n] ELSE token[n].topo]}
           /\ NoSwallowing /\ ~IsDup(n, next[n]) => InTransit' # {}
<1> DEFINE attach == CanAttach(n) /\ CliAfterRead(n) # None
           msg == [type |-> "token", from |-> n, to |-> next[n], body |-> Load(n),
                   topo |-> IF attach THEN topo[n] ELSE token[n].topo]
<1>1. have = {n} /\ InTransit = {}
  BY DEF PassToken, TokenReady, IInv, AtMostOneToken
<1>2. PICK o \in TokenSend(IsDup(n, next[n]), Budget) :
         /\ Transmit({[msg |-> msg, out |-> o]}, {})
         /\ AfterTokenSend(n, o.lost = 0)
  <2>1. \E o \in TokenSend(IsDup(n, next[n]), Budget) :
         /\ Transmit({[msg |-> [type |-> "token", from |-> n, to |-> next[n],
                                body |-> IF CanAttach(n) /\ CliAfterRead(n) # None
                                         THEN CliAfterRead(n) ELSE BodyAfterReport(n),
                                topo |-> IF CanAttach(n) /\ CliAfterRead(n) # None
                                         THEN topo[n] ELSE token[n].topo], out |-> o]}, {})
         /\ AfterTokenSend(n, o.lost = 0)
    BY Zenon DEF PassToken
  <2> QED BY <2>1, Zenon DEF Load
<1>3. o.lost = 0 /\ (NoSwallowing /\ ~IsDup(n, next[n]) => o.got)
  <2>1. \/ o = Outcome(~IsDup(n, next[n]), 0, FALSE)
        \/ o = Outcome(FALSE, 0, TRUE) /\ "ackedLost" \in Faults
    BY <1>2 DEF TokenSend, Success, TokenSendSafe
  <2>2. CASE o = Outcome(~IsDup(n, next[n]), 0, FALSE)
    BY <2>2, Zenon DEF Outcome
  <2>3. CASE o = Outcome(FALSE, 0, TRUE) /\ "ackedLost" \in Faults
    <3>1. o.lost = 0
      BY <2>3, Zenon DEF Outcome
    <3>2. ~NoSwallowing
      BY <2>3 DEF NoSwallowing
    <3> QED BY <3>1, <3>2, Zenon
  <2> QED BY <2>1, <2>2, <2>3, Zenon
<1>4. msg.type = "token"
  OBVIOUS
<1> HIDE DEF msg
<1>5. have' = {}
  BY <1>1, <1>2, <1>3 DEF AfterTokenSend
<1>6. InTransit' \subseteq {msg}
  BY <1>1, <1>2 DEF Transmit, InTransit
<1>7. NoSwallowing /\ ~IsDup(n, next[n]) => msg \in InTransit'
  BY <1>2, <1>3, <1>4 DEF Transmit, InTransit
<1> QED BY <1>1, <1>5, <1>6, <1>7 DEF msg

LEMMA PassTokenOnce ==
    ASSUME TokenSendSafe, TypeInv, IInv, OnceInv, NEW n \in Node, PassToken(n)
    PROVE  OnceInv'
<1> DEFINE b == token[n].body
           c == CliAfterRead(n)
           attach == CanAttach(n) /\ c # None
<1>1. /\ have = {n} /\ InTransit = {} /\ have' = {}
      /\ \A t \in InTransit' : t.body = Load(n)
  BY PassTokenCarries
<1>2. /\ fifo' = [fifo EXCEPT ![n] = FifoAfterRead(n)]
      /\ cli' = [cli EXCEPT ![n] = IF attach THEN None ELSE c]
      /\ received' = IF MailForMe(n) THEN [received EXCEPT ![b] = @ + 1] ELSE received
      /\ written' = written
  BY DEF PassToken
<1>3. token[n] \in TokenType /\ b \in Mail \cup {None} /\ cli'[n] = IF attach THEN None ELSE c
  BY <1>1, <1>2 DEF TypeInv, TokenOK, TokenType, MailOK
<1>4. /\ WaitsOnce'
      /\ \A k \in Node : /\ Queued(k)' \subseteq Queued(k)
                         /\ cli'[k] # None => cli'[k] \in Queued(k) \cup {cli[k]}
  BY <1>2, ReadWaitsOnce DEF OnceInv
<1>5. \A m \in Mail : Carried(m) <=> m = b
  BY <1>1 DEF Carried
<1>6. \A m \in Mail : Carried(m)' => m = Load(n)
  BY <1>1 DEF Carried
<1>7. /\ CliAfterRead(n) \in Queued(n) \cup {cli[n]}
      /\ \A i \in 1 .. Len(FifoAfterRead(n)) : FifoAfterRead(n)[i] # CliAfterRead(n)
  BY CliMoves DEF OnceInv
<1>8. fifo'[n] = FifoAfterRead(n)
  BY <1>2 DEF TypeInv, MailOK
<1>9. received \in [Mail -> Nat] /\ None \notin Mail
  BY RingAssumption DEF TypeInv, MailOK
<1> HIDE DEF b, c
<1>10. ASSUME NEW m \in Mail
       PROVE  /\ Carried(m)' \/ received'[m] > 0 =>
                    m \in written' /\ cli'[m.from] # m /\ m \notin Queued(m.from)'
              /\ received'[m] <= 1
              /\ Carried(m)' => received'[m] = 0
  <2>1. m.from \in Node /\ m # None
    BY RingAssumption
  <2>2. /\ Carried(m) \/ received[m] > 0 =>
              m \in written /\ cli[m.from] # m /\ m \notin Queued(m.from)
        /\ received[m] <= 1 /\ received[m] \in Nat
        /\ Carried(m) => received[m] = 0
    BY <1>9 DEF OnceInv, LeavesOnce
  <2>3. Carried(m) \/ received[m] > 0 => cli'[m.from] # m /\ m \notin Queued(m.from)'
    BY <1>4, <2>1, <2>2
  <2>4. CASE MailForMe(n) /\ m = b
    <3>1. Carried(m) /\ received'[m] = 1
      BY <1>2, <1>5, <1>9, <2>2, <2>4
    <3>2. ~Carried(m)'
      <4>1. Load(n) \in {None, CliAfterRead(n)}
        BY <2>4 DEF Load, BodyAfterReport
      <4>2. m # CliAfterRead(n)
        <5>1. m.from = n => m \notin Queued(n) /\ m # cli[n]
          BY <2>2, <3>1
        <5>2. m \in Queued(n) \cup {cli[n]} => m.from = n
          BY <2>1 DEF OnceInv, WaitsOnce
        <5> QED BY <1>7, <5>1, <5>2
      <4> QED BY <1>6, <2>1, <4>1, <4>2
    <3> QED BY <1>2, <2>2, <2>3, <3>1, <3>2
  <2>5. CASE ~(MailForMe(n) /\ m = b)
    <3>1. received'[m] = received[m]
      BY <1>2, <1>9, <2>5
    <3>2. CASE ~Carried(m)'
      BY <1>2, <2>2, <2>3, <3>1, <3>2
    <3>3. CASE Carried(m)' /\ ~attach
      <4>1. m = BodyAfterReport(n)
        BY <1>6, <3>3 DEF Load, c
      <4>2. m = b
        BY <2>1, <4>1 DEF BodyAfterReport, b
      <4> QED BY <1>2, <1>5, <2>2, <2>3, <3>1, <4>2
    <3>4. CASE Carried(m)' /\ attach
      <4>1. m = c
        BY <1>6, <3>4 DEF Load, c
      <4>2. m \in Queued(n) \cup {cli[n]} /\ m.from = n /\ m \in written
        BY <1>7, <2>1, <4>1 DEF OnceInv, WaitsOnce, c
      <4>3. received[m] = 0
        BY <2>2, <4>2
      <4>4. cli'[n] = None
        BY <1>3, <3>4
      <4>5. m \notin Queued(n)'
        BY <1>7, <1>8, <4>1 DEF Queued, c
      <4> QED BY <1>2, <2>1, <3>1, <4>2, <4>3, <4>4, <4>5
    <3> QED BY <3>2, <3>3, <3>4
  <2> QED BY <2>4, <2>5
<1> QED BY <1>4, <1>10 DEF OnceInv, LeavesOnce

LEMMA CliReadOnce ==
    ASSUME TypeInv, OnceInv, NEW n \in Node, StartJoin(n) \/ CliRead(n)
    PROVE  OnceInv' /\ SameTokens
<1>1. /\ fifo' = [fifo EXCEPT ![n] = FifoAfterRead(n)]
      /\ cli' = [cli EXCEPT ![n] = CliAfterRead(n)]
      /\ UNCHANGED <<written, received, have, token>>
  BY DEF StartJoin, CliRead
<1>2. InTransit' = InTransit
  <2>1. CASE StartJoin(n)
    BY <2>1, AcceptsTransmitted DEF StartJoin
  <2>2. CASE CliRead(n)
    BY <2>2 DEF CliRead, netVars, InTransit
  <2> QED BY <2>1, <2>2
<1>3. SameTokens
  BY <1>1, <1>2 DEF SameTokens
<1>4. \A m \in Mail : Carried(m)' => Carried(m)
  BY <1>3, SameCarried
<1> QED BY <1>1, <1>3, <1>4, ReadWaitsOnce, NothingLeaves DEF OnceInv

LEMMA InitOnce == Init => OnceInv
<1> SUFFICES ASSUME Init PROVE OnceInv
  OBVIOUS
<1>1. /\ fifo = [n \in Node |-> << >>] /\ cli = [n \in Node |-> None] /\ net = {}
      /\ received = [m \in Mail |-> 0] /\ have = {Ring0[1]}
      /\ token = [n \in Node |-> IF n = Ring0[1] THEN EmptyToken ELSE None]
  BY DEF Init
<1>2. \A n \in Node : Queued(n) = {}
  BY <1>1 DEF Queued
<1>3. Ring0[1] \in Node /\ None \notin Mail
  BY RingAssumption
<1>4. \A m \in Mail : ~Carried(m)
  BY <1>1, <1>3 DEF Carried, InTransit, EmptyToken
<1>5. WaitsOnce
  BY <1>1, <1>2 DEF WaitsOnce
<1>6. LeavesOnce
  BY <1>1, <1>4 DEF LeavesOnce
<1> QED BY <1>5, <1>6 DEF OnceInv

LEMMA NextOnce ==
    ASSUME TokenSendSafe, TypeInv, IInv, OnceInv, [Next]_vars
    PROVE  OnceInv'
<1>q. ASSUME SameTokens, UNCHANGED mailVars PROVE OnceInv'
  BY <1>q, SameCarried, QuietMail
<1>1. CASE UNCHANGED vars
  BY <1>q, <1>1 DEF vars, netVars, SameTokens, InTransit
<1>2. ASSUME NEW n \in Node, NEW m \in net, RecvToken(n, m) PROVE OnceInv'
  <2>1. UNCHANGED mailVars
    BY <1>2 DEF RecvToken
  <2>2. \A x \in Mail : Carried(x)' => Carried(x)
    BY <1>2, TokenTaken
  <2> QED BY <2>1, <2>2, QuietMail
<1>3. CASE Next
  BY <1>q, <1>2, <1>3, JoinStepsCarryNothing, CliReadOnce, RestartOnce, PassTokenOnce, WriteOnce
     DEF Next
<1> QED BY <1>1, <1>3

(* handle_token_unicast, ring_on_token: whatever is retransmitted, lost or *)
(* restarted, and whoever joins while it is on its way, no message is      *)
(* reported twice, unless a send of the token fails: then the token in     *)
(* hand still carries what was reported (ring.c:143).                      *)
THEOREM MailReportedOnce ==
    ASSUME TokenSendSafe
    PROVE  Spec => []MailOnce
<1>1. "ackAckError" \notin Faults
  BY DEF TokenSendSafe
<1>2. Init => TypeInv /\ IInv /\ OnceInv
  BY InitTypeInv, InitIInv, InitOnce
<1>3. TypeInv /\ IInv /\ OnceInv /\ [Next]_vars => (TypeInv /\ IInv /\ OnceInv)'
  BY <1>1, NextTypeInv, NextIInv, NextOnce
<1>4. OnceInv => MailOnce
  BY DEF OnceInv, LeavesOnce, MailOnce
<1> QED BY <1>2, <1>3, <1>4, PTL DEF Spec

-----------------------------------------------------------------------------
(* No message is lost.  A second message of one sender may overwrite the   *)
(* first in cli_pending (run one_sender), and a node that has not joined   *)
(* forgets what it was given when it is restarted; apart from that a       *)
(* message written is somewhere until it is received.                      *)

(* The two settings in which the code does lose messages are left out.     *)
OnePerSender == \A l, m \in Mail : l.from = m.from => l = m

SendersStay == MaxRestarts = 0 \/ \A m \in Mail : m.from \in Member0

Kept(m) == m \in Queued(m.from) \/ cli[m.from] = m \/ Carried(m) \/ received[m] > 0

KeepInv ==
    /\ Member0 \subseteq joined
    /\ \A m \in written : Kept(m)

(* The one message of a sender goes from its FIFO to cli_pending, and      *)
(* nothing takes its place there.                                          *)
LEMMA CliKeeps ==
    ASSUME OnePerSender, TypeInv, WaitsOnce, NEW n \in Node, NEW m \in Mail,
           m \in Queued(n) \/ cli[n] = m
    PROVE  CliAfterRead(n) = m \/ (m \in Queued(n) /\ FifoAfterRead(n) = fifo[n])
<1>1. m # None /\ fifo[n] \in Seq(Mail)
  BY RingAssumption DEF TypeInv, MailOK
<1>2. CASE CliReady(n)
  <2>1. fifo[n] # << >> /\ CliAfterRead(n) = Head(fifo[n])
    BY <1>2 DEF CliReady, CliAfterRead
  <2>2. Head(fifo[n]) \in Queued(n) /\ Head(fifo[n]) \in Mail
    BY <1>1, <2>1 DEF Queued
  <2>3. m.from = n /\ Head(fifo[n]).from = n
    BY <1>1, <2>2 DEF WaitsOnce
  <2> QED BY <2>1, <2>2, <2>3 DEF OnePerSender
<1>3. CASE ~CliReady(n)
  BY <1>3 DEF CliAfterRead, FifoAfterRead
<1> QED BY <1>2, <1>3

LEMMA ReadKeeps ==
    ASSUME OnePerSender, TypeInv, OnceInv, KeepInv, NEW n \in Node, StartJoin(n) \/ CliRead(n)
    PROVE  KeepInv'
<1>1. /\ fifo' = [fifo EXCEPT ![n] = FifoAfterRead(n)]
      /\ cli' = [cli EXCEPT ![n] = CliAfterRead(n)]
      /\ UNCHANGED <<written, received, joined>>
  BY DEF StartJoin, CliRead, ringVars
<1>2. /\ fifo'[n] = FifoAfterRead(n) /\ cli'[n] = CliAfterRead(n)
      /\ \A k \in Node \ {n} : fifo'[k] = fifo[k] /\ cli'[k] = cli[k]
  BY <1>1 DEF TypeInv, MailOK
<1>3. ASSUME NEW m \in written PROVE Kept(m)'
  <2>1. m \in Mail /\ m.from \in Node /\ Kept(m)
    BY RingAssumption DEF TypeInv, MailOK, KeepInv
  <2>2. CASE Carried(m)
    <3>1. Carried(m)'
      BY <2>2, CliReadOnce, SameCarried
    <3> QED BY <3>1 DEF Kept
  <2>3. CASE received[m] > 0
    BY <1>1, <2>3 DEF Kept
  <2>4. CASE (m \in Queued(m.from) \/ cli[m.from] = m) /\ m.from = n
    <3>1. CliAfterRead(n) = m \/ (m \in Queued(n) /\ FifoAfterRead(n) = fifo[n])
      BY <2>1, <2>4, CliKeeps DEF OnceInv
    <3>2. cli'[n] = m \/ m \in Queued(n)'
      BY <1>2, <3>1 DEF Queued
    <3> QED BY <2>4, <3>2 DEF Kept
  <2>5. CASE (m \in Queued(m.from) \/ cli[m.from] = m) /\ m.from # n
    BY <1>2, <2>1, <2>5 DEF Queued, Kept
  <2> QED BY <2>1, <2>2, <2>3, <2>4, <2>5 DEF Kept
<1> QED BY <1>1, <1>3 DEF KeepInv

LEMMA PassTokenKeeps ==
    ASSUME OnePerSender, NoSwallowing, TokenSendSafe, TypeInv, IInv, LInv, OnceInv, KeepInv,
           NEW n \in Node, PassToken(n)
    PROVE  KeepInv'
<1> DEFINE b == token[n].body
           c == CliAfterRead(n)
           attach == CanAttach(n) /\ c # None
<1>1. /\ have = {n} /\ InTransit = {} /\ have' = {}
      /\ \A t \in InTransit' : t.body = Load(n)
      /\ ~IsDup(n, next[n]) => InTransit' # {}
  BY PassTokenCarries
<1>2. /\ fifo' = [fifo EXCEPT ![n] = FifoAfterRead(n)]
      /\ cli' = [cli EXCEPT ![n] = IF attach THEN None ELSE c]
      /\ received' = IF MailForMe(n) THEN [received EXCEPT ![b] = @ + 1] ELSE received
      /\ UNCHANGED <<written, joined>>
  BY DEF PassToken, ringVars
<1>3. /\ fifo'[n] = FifoAfterRead(n) /\ cli'[n] = IF attach THEN None ELSE c
      /\ \A k \in Node \ {n} : fifo'[k] = fifo[k] /\ cli'[k] = cli[k]
  BY <1>2 DEF TypeInv, MailOK
<1>4. ~IsDup(n, next[n])
  <2>1. n \in joined /\ infl[n] = None
    BY DEF PassToken, TokenReady
  <2>2. next[n] \in joined
    BY <1>1, <2>1 DEF LInv, NextKnown, Known, IInv, CoordinatorHoldsToken
  <2> QED BY <2>2, JoinedInStep
<1>5. \A m : m = Load(n) => Carried(m)'
  <2>1. \E t \in InTransit' : t.body = Load(n)
    BY <1>1, <1>4
  <2> QED BY <2>1 DEF Carried
<1>6. \A m \in Mail : Carried(m) => m = b
  BY <1>1 DEF Carried
<1>7. received \in [Mail -> Nat] /\ None \notin Mail
  BY RingAssumption DEF TypeInv, MailOK
<1> HIDE DEF b, c
<1>8. ASSUME NEW m \in written PROVE Kept(m)'
  <2>1. m \in Mail /\ m.from \in Node /\ Kept(m)
    BY RingAssumption DEF TypeInv, MailOK, KeepInv
  <2>2. CASE received[m] > 0
    BY <1>2, <1>7, <2>1, <2>2 DEF Kept
  <2>3. CASE m = b /\ MailForMe(n)
    BY <1>2, <1>7, <2>1, <2>3 DEF Kept
  <2>4. CASE m = b /\ ~MailForMe(n)
    <3>1. Load(n) = m
      BY <1>7, <2>1, <2>4 DEF Load, CanAttach, BodyAfterReport, b
    <3> QED BY <1>5, <3>1 DEF Kept
  <2>5. CASE (m \in Queued(m.from) \/ cli[m.from] = m) /\ m.from = n
    <3>1. c = m \/ (m \in Queued(n) /\ FifoAfterRead(n) = fifo[n])
      BY <2>1, <2>5, CliKeeps DEF OnceInv, c
    <3>2. CASE c = m /\ attach
      <4>1. Load(n) = m
        BY <3>2 DEF Load, c
      <4> QED BY <1>5, <4>1 DEF Kept
    <3>3. CASE c = m /\ ~attach
      BY <1>3, <2>5, <3>3 DEF Kept
    <3>4. CASE m \in Queued(n) /\ FifoAfterRead(n) = fifo[n]
      BY <1>3, <2>5, <3>4 DEF Kept, Queued
    <3> QED BY <3>1, <3>2, <3>3, <3>4
  <2>6. CASE (m \in Queued(m.from) \/ cli[m.from] = m) /\ m.from # n
    BY <1>3, <2>1, <2>6 DEF Queued, Kept
  <2> QED BY <1>6, <2>1, <2>2, <2>3, <2>4, <2>5, <2>6 DEF Kept
<1> QED BY <1>2, <1>8 DEF KeepInv

(* Every other step leaves a message where it is.                          *)
LEMMA QuietKeeps ==
    ASSUME KeepInv, UNCHANGED mailVars, joined \subseteq joined',
           \A m \in written : Carried(m) => Carried(m)'
    PROVE  KeepInv'
<1>1. UNCHANGED <<fifo, cli, written, received>>
  BY DEF mailVars
<1>2. \A m \in written : Kept(m)'
  BY <1>1 DEF KeepInv, Kept, Queued
<1> QED BY <1>1, <1>2 DEF KeepInv

LEMMA RestartKeeps ==
    ASSUME SendersStay, TypeInv, LInv, KeepInv, NEW j \in Node, Restart(j)
    PROVE  KeepInv'
<1>1. /\ fifo' = [fifo EXCEPT ![j] = << >>] /\ cli' = [cli EXCEPT ![j] = None]
      /\ UNCHANGED <<written, received, have, joined>> /\ j \notin joined
      /\ token' = [token EXCEPT ![j] = None] /\ net' = {m \in net : m.to # j}
      /\ starts[j] < MaxRestarts
  BY DEF Restart, ringVars
<1>2. \A m \in Mail : m.from # j
  <2>1. MaxRestarts # 0
    BY <1>1, RingAssumption DEF TypeInv, JoinOK
  <2> QED BY <1>1, <2>1 DEF SendersStay, KeepInv
<1>3. written \subseteq Mail /\ \A k \in Node \ {j} : fifo'[k] = fifo[k] /\ cli'[k] = cli[k]
  BY <1>1 DEF TypeInv, MailOK
<1>4. \A m : Carried(m) => Carried(m)'
  <2>1. InTransit' = InTransit
    BY <1>1 DEF InTransit, LInv, NetInv, NetGood, GoodMsg
  <2>2. \A k \in have : token'[k] = token[k]
    BY <1>1 DEF TypeInv, RingOK, TokenOK
  <2> QED BY <1>1, <2>1, <2>2 DEF Carried
<1>5. ASSUME NEW m \in written PROVE Kept(m)'
  <2>1. Kept(m) /\ m.from \in Node \ {j}
    BY <1>2, <1>3, RingAssumption DEF KeepInv
  <2> QED BY <1>1, <1>3, <1>4, <2>1 DEF Kept, Queued
<1> QED BY <1>1, <1>5 DEF KeepInv

LEMMA WriteKeeps ==
    ASSUME TypeInv, KeepInv, NEW m \in Mail, Write(m)
    PROVE  KeepInv'
<1>1. /\ written' = written \cup {m} /\ fifo' = [fifo EXCEPT ![m.from] = Append(fifo[m.from], m)]
      /\ UNCHANGED <<joined, cli, received, have, token, net>>
  BY DEF Write, netVars, ringVars
<1>2. m.from \in Node /\ fifo[m.from] \in Seq(Mail)
  BY RingAssumption DEF TypeInv, MailOK
<1>3. /\ fifo'[m.from] = Append(fifo[m.from], m)
      /\ \A k \in Node \ {m.from} : fifo'[k] = fifo[k]
  BY <1>1, <1>2 DEF TypeInv, MailOK
<1>4. m \in Queued(m.from)' /\ Queued(m.from) \subseteq Queued(m.from)'
  <2> DEFINE f == fifo[m.from]
  <2>1. /\ Len(f) \in Nat /\ Len(fifo'[m.from]) = Len(f) + 1 /\ fifo'[m.from][Len(f) + 1] = m
        /\ \A i \in 1 .. Len(f) : fifo'[m.from][i] = f[i]
    BY <1>2, <1>3
  <2>2. Len(f) + 1 \in 1 .. Len(fifo'[m.from]) /\ \A i \in 1 .. Len(f) : i \in 1 .. Len(fifo'[m.from])
    BY <2>1
  <2> QED BY <2>1, <2>2 DEF Queued
<1>5. \A k \in Node : Queued(k) \subseteq Queued(k)'
  BY <1>3, <1>4 DEF Queued
<1>6. ASSUME NEW x \in written' PROVE Kept(x)'
  <2>1. CASE x = m
    BY <1>4, <2>1 DEF Kept
  <2>2. CASE x \in written
    <3>1. Kept(x) /\ x.from \in Node
      BY <2>2, RingAssumption DEF KeepInv, TypeInv, MailOK
    <3>2. Carried(x) => Carried(x)'
      BY <1>1 DEF Carried, InTransit
    <3> QED BY <1>1, <1>5, <3>1, <3>2 DEF Kept
  <2> QED BY <1>1, <2>1, <2>2
<1> QED BY <1>1, <1>6 DEF KeepInv

LEMMA NextKeeps ==
    ASSUME OnePerSender, SendersStay, NoSwallowing, TokenSendSafe,
           TypeInv, IInv, LInv, OnceInv, KeepInv, [Next]_vars
    PROVE  KeepInv'
<1>w. written \subseteq Mail
  BY DEF TypeInv, MailOK
<1>q. ASSUME SameTokens, UNCHANGED mailVars, joined \subseteq joined' PROVE KeepInv'
  BY <1>q, SameCarried, QuietKeeps
<1>1. CASE UNCHANGED vars
  BY <1>q, <1>1 DEF vars, netVars, ringVars, SameTokens, InTransit
<1>2. ASSUME NEW n \in Node, NEW m \in net, RecvToken(n, m) PROVE KeepInv'
  <2>1. n \in joined
    BY <1>2 DEF RecvToken, LInv, NetInv, NetGood, GoodMsg
  <2>2. UNCHANGED mailVars /\ joined' = joined
    BY <1>2 DEF RecvToken, ringVars
  <2>3. \A x \in written : Carried(x) => Carried(x)'
    BY <1>2, <1>w, <2>1, TokenTaken
  <2> QED BY <2>2, <2>3, QuietKeeps
<1>3. CASE Next
  BY <1>q, <1>2, <1>3, JoinStepsCarryNothing, ReadKeeps, RestartKeeps, PassTokenKeeps, WriteKeeps
     DEF Next
<1> QED BY <1>1, <1>3

(* From the FIFO to the report, a message is not lost: not when its node   *)
(* coordinates a join, not with the token under way, not when nodes are    *)
(* linked in before its receiver (handle_cli_if_ready, ring_on_token).     *)
THEOREM MailNeverLost ==
    ASSUME OnePerSender, SendersStay, NoSwallowing, TokenSendSafe
    PROVE  Spec => []MailConserved
<1>1. "ackAckError" \notin Faults
  BY DEF TokenSendSafe
<1>2. Init => TypeInv /\ IInv /\ LInv /\ OnceInv /\ KeepInv
  <2>1. Init => KeepInv
    BY DEF Init, KeepInv
  <2> QED BY <2>1, InitTypeInv, InitIInv, InitLInv, InitOnce
<1>3. TypeInv /\ IInv /\ LInv /\ OnceInv /\ KeepInv /\ [Next]_vars
         => (TypeInv /\ IInv /\ LInv /\ OnceInv /\ KeepInv)'
  BY <1>1, NextTypeInv, NextIInv, NextLInv, NextOnce, NextKeeps
<1>4. TypeInv /\ KeepInv => MailConserved
  <2> SUFFICES ASSUME TypeInv, KeepInv, NEW m \in written
               PROVE  \/ \E n \in Node : (\E i \in 1 .. Len(fifo[n]) : fifo[n][i] = m) \/ cli[n] = m
                      \/ \E n \in have : token[n].body = m
                      \/ \E t \in InTransit : t.body = m
                      \/ received[m] > 0
    BY DEF MailConserved
  <2>1. m.from \in Node /\ Kept(m)
    BY RingAssumption DEF TypeInv, MailOK, KeepInv
  <2> QED BY <2>1 DEF Kept, Queued, Carried
<1> QED BY <1>2, <1>3, <1>4, PTL DEF Spec

=============================================================================
