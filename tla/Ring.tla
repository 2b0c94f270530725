-------------------------------- MODULE Ring --------------------------------
(***************************************************************************)
(* The token ring: every node's select loop (ring.c), the join protocol    *)
(* (join_fsm.c, broadcast.c, unicast_dispatch.c), the hand-over of the     *)
(* token and the messages it carries (ring.c, cli.c, writer.c), over the   *)
(* transport of rudp.c reduced to what a caller can see of it.             *)
(*                                                                         *)
(* A request id is drawn at random at each start of a node; here it is the *)
(* node's name and the number of its restarts.  The message handlers of a  *)
(* loop iteration are separate steps; what an iteration does with the token     *)
(* (read the CLI, then start a join or pass the token) is one step.  A     *)
(* message written after the iteration's select is read in a later one;    *)
(* that is the same as writing it after the step.                          *)
(***************************************************************************)
EXTENDS JoinState, Transport

CONSTANTS
    Ring0,            \* the configured ring, in token order; the first starts
    Mail,             \* messages users write: [from, to, id]
    MaxAckRetries,    \* JOIN_ACK_MAX_RETRIES
    MaxLosses,        \* bound: sends that fail
    MaxRestarts       \* bound: restarts of a node that has not joined yet

(* What else may go wrong, besides the faults of the transport:            *)
(* "late"    a JOIN_REQUEST may be handled after its sender has joined     *)
(* "expiry"  a pending request may outlive JOIN_PENDING_TTL_S              *)
FaultKinds == {"late", "expiry"} \cup TransportFaults

Member0 == {Ring0[i] : i \in 1 .. Len(Ring0)}

ASSUME RingAssumption ==
    /\ MaxRestarts \in Nat /\ Node \X (0 .. MaxRestarts) \subseteq Req
    /\ Ring0 \in Seq(Node) /\ Ring0 # << >>
    /\ \A i, j \in 1 .. Len(Ring0) : Ring0[i] = Ring0[j] => i = j
    /\ Mail \subseteq [from : Node, to : Node, id : Nat] /\ None \notin Mail
    /\ None \notin [joiner : Node, req : Req, prev : Node, got : SUBSET {"prev", "joiner"}]
    /\ MaxAckRetries \in Nat
    /\ MaxLosses \in Nat
    /\ Faults \subseteq FaultKinds

VARIABLES
    joined,    \* the nodes with joined = 1
    have,      \* the nodes with have_token = 1
    token,     \* token_in: [body, topo], body None when is_empty; None when zeroed
    next,      \* config.next
    prev,      \* config.prev
    topo,      \* last_seen_topo_version
    js,        \* join_state
    infl,      \* join_inflight: [joiner, req, prev, got], None when not active
    acks,      \* ack_sender: [req, coord, retries], None when not active
    net,       \* unicast messages delivered by rudp and not yet handled
    dup,       \* <<a, b>>: b has consumed the message a's send bit stands for
    sbit,      \* <<a, b>>: a's send_seq_bit for b is 1 (left {} if MaxRestarts = 0)
    losses,    \* sends that failed so far
    commits,   \* JOIN_COMMITs broadcast so far: [name, req, topo]
    starts,    \* restarts of a node so far
    fifo,      \* messages in a node's FIFO
    cli,       \* cli_pending, None when have_cli_pending = 0
    written,   \* messages users have written
    received   \* how often a message was reported as received

ringVars == <<joined, next, prev>>
joinVars == <<js, infl, acks, commits, starts>>
netVars  == <<net, dup, sbit, losses>>
mailVars == <<fifo, cli, written, received>>
vars     == <<ringVars, have, token, topo, joinVars, netVars, mailVars>>

EmptyToken == [body |-> None, topo |-> 0]

Init ==
    LET after(n)  == CHOOSE m \in Member0 : \E i, j \in 1 .. Len(Ring0) :
                        Ring0[i] = n /\ Ring0[j] = m /\ j = (i % Len(Ring0)) + 1
    IN  /\ joined = Member0
        /\ have = {Ring0[1]}
        /\ token = [n \in Node |-> IF n = Ring0[1] THEN EmptyToken ELSE None]
        /\ next = [n \in Node |-> IF n \in Member0 THEN after(n) ELSE None]
        /\ prev = [n \in Node |-> IF n \in Member0
                                  THEN CHOOSE m \in Member0 : after(m) = n
                                  ELSE None]
        /\ topo = [n \in Node |-> 0]
        /\ js = [n \in Node |-> EmptyJoinState]
        /\ infl = [n \in Node |-> None]
        /\ acks = [n \in Node |-> None]
        /\ net = {} /\ dup = {} /\ sbit = {} /\ losses = 0 /\ commits = {}
        /\ starts = [n \in Node |-> 0]
        /\ fifo = [n \in Node |-> << >>]
        /\ cli = [n \in Node |-> None]
        /\ written = {}
        /\ received = [m \in Mail |-> 0]

-----------------------------------------------------------------------------
(* Sending.                                                                *)

IsDup(a, b) == <<a, b>> \in dup

(* Every send that succeeds complements the bit: one of one, and an odd    *)
(* number of three if the number that failed is even.                      *)
Flipped(pairs) ==
    IF MaxRestarts = 0 THEN sbit ELSE (sbit \ pairs) \cup (pairs \ sbit)

(* The effect of sending the messages ms, each with its outcome, after     *)
(* taking the messages `taken' off the network.                            *)
Transmit(ms, taken) ==
    /\ net' = (net \ taken) \cup {x.msg : x \in {y \in ms : y.out.got}}
    /\ dup' = (dup \ {<<x.msg.from, x.msg.to>> : x \in ms})
              \cup {<<x.msg.from, x.msg.to>> : x \in {y \in ms : y.out.dup}}
    /\ sbit' = Flipped({<<x.msg.from, x.msg.to>> : x \in {y \in ms : y.out.lost % 2 = 0}})

Budget == MaxLosses - losses

-----------------------------------------------------------------------------
(* Joining: the requests.                                                  *)

(* join_fsm_request_tick: a node that has not joined repeats its request   *)
(* for as long as that lasts, so at any time a copy may arrive anywhere.   *)
RequestInFlight(j) ==
    /\ j \notin Member0
    /\ j \notin joined \/ "late" \in Faults

(* last_seen only orders the entries of one table, so a time stamp is its  *)
(* rank; a new one is the second of the newest entry or a later one.       *)
Stamps(s) == {s.joins[i].seen : i \in Used(s)}

Rank(s, t) == Cardinality({u \in Stamps(s) : u < t})

Ranked(s) ==
    [s EXCEPT !.joins = [i \in Slot |->
        IF i \in Used(s) THEN [s.joins[i] EXCEPT !.seen = Rank(s, @)] ELSE None]]

Now(s) ==
    IF Used(s) = {} THEN {0}
    ELSE UNION {{t, t + 1} : t \in {u \in Stamps(s) : \A v \in Stamps(s) : v <= u}}

ReqId(j) == <<j, starts[j]>>

(* The copy may be one from before the last restart of j.                  *)
HandleJoinRequest(n, j) ==
    /\ RequestInFlight(j)
    /\ j # n
    /\ ~(infl[n] # None /\ infl[n].joiner = j)
    /\ ~IsCompleted(js[n], j)
    /\ \E r \in 0 .. starts[j] : \E t \in Now(js[n]) :
          js' = [js EXCEPT ![n] = Ranked(AddPendingJoin(js[n], j, <<j, r>>, t))]
    /\ UNCHANGED <<ringVars, have, token, topo, infl, acks, commits, starts, netVars, mailVars>>

(* prune_joins runs at the top of every iteration; it has an effect only   *)
(* when a request is older than JOIN_PENDING_TTL_S.                        *)
Prune(n) ==
    /\ "expiry" \in Faults
    /\ \E t \in Stamps(js[n]) :
          js' = [js EXCEPT ![n] = Ranked(PruneJoins(js[n], t, -1))]
    /\ UNCHANGED <<ringVars, have, token, topo, infl, acks, commits, starts, netVars, mailVars>>

-----------------------------------------------------------------------------
(* Joining: the coordinator.                                               *)

Both == {"prev", "joiner"}

(* Variant: `||' for `&&'.                                                 *)
Confirmed_Either(got) == got # {}

Confirmed(got) == got = Both

(* join_fsm_inflight_tick: JOIN_ACCEPT_U to whoever has not confirmed.     *)
SendAccepts(n, x) ==
    LET try(g, to, left) ==
            IF g \in x.got THEN {Outcome(FALSE, 0, FALSE)} ELSE LimitedSend(IsDup(n, to), left)
        accept(to) == [type |-> "accept", from |-> n, to |-> to,
                       new |-> x.joiner, req |-> x.req, prev |-> prev[n]]
    IN  \E o1 \in try("joiner", x.joiner, Budget) :
        \E o2 \in try("prev", prev[n], Budget - o1.lost) :
            /\ Transmit({y \in {[msg |-> accept(x.joiner), out |-> o1, by |-> "joiner"],
                                [msg |-> accept(prev[n]), out |-> o2, by |-> "prev"]} :
                            y.by \notin x.got},
                        {})
            /\ losses' = losses + o1.lost + o2.lost

InflightTick(n) ==
    /\ infl[n] # None /\ ~Confirmed(infl[n].got)
    /\ SendAccepts(n, infl[n])
    /\ UNCHANGED <<ringVars, have, token, topo, joinVars, mailVars>>

(* handle_cli_if_ready: a waiting message replaces cli_pending whenever    *)
(* the token in hand is empty.                                             *)
CliReady(n) == fifo[n] # << >> /\ token[n] # None /\ token[n].body = None

CliAfterRead(n) == IF CliReady(n) THEN Head(fifo[n]) ELSE cli[n]

FifoAfterRead(n) == IF CliReady(n) THEN Tail(fifo[n]) ELSE fifo[n]

(* Variant: the join in flight is not looked at.                           *)
TokenReady_DuringJoin(n) == n \in joined /\ n \in have

TokenReady(n) == n \in joined /\ n \in have /\ infl[n] = None

(* join_fsm_start_inflight: a node alone in its ring needs no confirmation *)
(* of its predecessor.                                                     *)
StartInflight(n, join) ==
    [joiner |-> join.name, req |-> join.req, prev |-> prev[n],
     got |-> IF prev[n] = n THEN {"prev"} ELSE {}]

(* handle_token_if_ready with a request waiting.                           *)
StartJoin(n) ==
    /\ TokenReady(n)
    /\ js[n].count > 0 /\ Used(js[n]) # {}
    /\ LET x == StartInflight(n, js[n].joins[Oldest(js[n])])
       IN  /\ infl' = [infl EXCEPT ![n] = x]
           /\ js' = [js EXCEPT ![n] = Ranked(PopOldestPendingJoin(js[n]))]
           /\ SendAccepts(n, x)
    /\ cli' = [cli EXCEPT ![n] = CliAfterRead(n)]
    /\ fifo' = [fifo EXCEPT ![n] = FifoAfterRead(n)]
    /\ UNCHANGED <<ringVars, have, token, topo, acks, commits, starts, written, received>>

(* join_fsm_try_complete, once both confirmations are in.                  *)
TryComplete(n) ==
    LET x == infl[n]
    IN  /\ prev' = [prev EXCEPT ![n] = x.joiner]
        /\ next' = IF x.prev = n THEN [next EXCEPT ![n] = x.joiner] ELSE next
        /\ topo' = [topo EXCEPT ![n] = @ + 1]
        /\ token' = [token EXCEPT ![n].topo = topo[n] + 1]
        /\ js' = [js EXCEPT ![n] = Ranked(Finish(js[n], x.joiner, x.req))]
        /\ infl' = [infl EXCEPT ![n] = None]
        /\ commits' = commits \cup {[name |-> x.joiner, req |-> x.req, topo |-> topo[n] + 1]}

(* handle_join_ack_u.  The answer goes out only to the joiner in flight or *)
(* to the current predecessor.                                             *)
RecvAck(n, m) ==
    LET active  == infl[n] # None
        matched == active /\ infl[n].req = m.req
        got     == infl[n].got
                   \cup {g \in {"prev"} : m.from \in {infl[n].prev, prev[n]}}
                   \cup {g \in {"joiner"} : m.from = infl[n].joiner}
        through == matched /\ Confirmed(got)
        known   == \/ active /\ ~through /\ m.from = infl[n].joiner
                   \/ m.from = prev'[n]
        answer  == [type |-> "ackack", from |-> n, to |-> m.from, req |-> m.req]
    IN  /\ m.type = "ack" /\ m.to = n
        /\ \/ through /\ TryComplete(n)
           \/ /\ ~through
              /\ infl' = IF matched THEN [infl EXCEPT ![n].got = got] ELSE infl
              /\ UNCHANGED <<prev, next, topo, token, js, commits>>
        /\ \/ /\ known
              /\ \E o \in ThreeSends(IsDup(n, m.from), Budget) :
                    /\ Transmit({[msg |-> answer, out |-> o]}, {m})
                    /\ losses' = losses + o.lost
           \/ ~known /\ Transmit({}, {m}) /\ losses' = losses
        /\ UNCHANGED <<joined, have, acks, starts, mailVars>>

-----------------------------------------------------------------------------
(* Joining: the joiner and the coordinator's predecessor.                  *)

(* apply_accept_if_relevant: what the accept means to n.                   *)
AsJoiner(n, m) == n = m.new /\ n \notin joined /\ m.req = ReqId(n)

AsPrev(n, m) == n # m.new /\ n = m.prev /\ next[n] = m.from

(* Variant: prev_name and before_name mixed up.                            *)
NextAfterAccept_Swapped(n, m) == IF n = m.new THEN m.prev ELSE m.new

NextAfterAccept(n, m) == IF n = m.new THEN m.from ELSE m.new

(* handle_join_accept_u, with the first JOIN_ACK_U.                        *)
RecvAccept(n, m) ==
    /\ m.type = "accept" /\ m.to = n
    /\ js' = [js EXCEPT ![n] = Ranked(MarkCompletedAndPrunePending(js[n], m.new, m.req))]
    /\ \/ /\ AsJoiner(n, m) \/ AsPrev(n, m)
          /\ joined' = joined \cup {n}
          /\ next' = [next EXCEPT ![n] = NextAfterAccept(n, m)]
          /\ prev' = IF n = m.new THEN [prev EXCEPT ![n] = m.prev] ELSE prev
          /\ \E o \in LimitedSend(IsDup(n, m.from), Budget) :
                /\ Transmit({[msg |-> [type |-> "ack", from |-> n, to |-> m.from, req |-> m.req],
                              out |-> o]}, {m})
                /\ losses' = losses + o.lost
                /\ acks' = [acks EXCEPT ![n] =
                               [req |-> m.req, coord |-> m.from, retries |-> 1 - o.lost]]
       \/ /\ ~AsJoiner(n, m) /\ ~AsPrev(n, m)
          /\ Transmit({}, {m})
          /\ UNCHANGED <<ringVars, acks, losses>>
    /\ UNCHANGED <<have, token, topo, infl, commits, starts, mailVars>>

(* Variant: the answer is sent once only.                                  *)
RetriesLeft_None(n) == FALSE

RetriesLeft(n) == acks[n].retries < MaxAckRetries

(* join_ack_sender_tick.                                                   *)
AckSenderTick(n) ==
    /\ acks[n] # None
    /\ \/ /\ ~RetriesLeft(n)
          /\ acks' = [acks EXCEPT ![n] = None]
          /\ UNCHANGED netVars
       \/ /\ RetriesLeft(n)
          /\ acks' = [acks EXCEPT ![n].retries = @ + 1]
          /\ \E o \in LimitedSend(IsDup(n, acks[n].coord), Budget) :
                /\ Transmit({[msg |-> [type |-> "ack", from |-> n, to |-> acks[n].coord,
                                       req |-> acks[n].req],
                              out |-> o]}, {})
                /\ losses' = losses + o.lost
    /\ UNCHANGED <<ringVars, have, token, topo, js, infl, commits, starts, mailVars>>

(* handle_join_ack_ack_u.  A sender with got_ack_ack set does nothing more *)
(* until its next tick clears it, so it counts as inactive at once.        *)
RecvAckAck(n, m) ==
    /\ m.type = "ackack" /\ m.to = n
    /\ acks' = IF acks[n] # None /\ acks[n].req = m.req
               THEN [acks EXCEPT ![n] = None] ELSE acks
    /\ Transmit({}, {m})
    /\ UNCHANGED <<ringVars, have, token, topo, js, infl, commits, starts, losses, mailVars>>

(* JOIN_COMMIT, at every node that happens to receive it, the sender and   *)
(* the joiner included.                                                    *)
HandleJoinCommit(n, c) ==
    LET newer  == c.topo > topo[n]
        v      == IF newer THEN c.topo ELSE topo[n]
        marked == MarkCompletedAndPrunePending(js[n], c.name, c.req)
        kept   == IF newer THEN DropOldestPendingJoins(marked, marked.count) ELSE marked
        mine   == infl[n] # None /\ infl[n].req = c.req
    IN  /\ topo' = [topo EXCEPT ![n] = v]
        /\ js' = [js EXCEPT ![n] = Ranked(IF mine THEN Finish(kept, infl[n].joiner, infl[n].req)
                                    ELSE kept)]
        /\ infl' = [infl EXCEPT ![n] = IF mine THEN None ELSE @]
        /\ prev' = [prev EXCEPT ![n] = IF mine THEN infl[n].joiner ELSE @]
        /\ token' = IF mine THEN [token EXCEPT ![n].topo = v] ELSE token
        /\ acks' = IF acks[n] # None /\ acks[n].req = c.req
                   THEN [acks EXCEPT ![n] = None] ELSE acks
        /\ UNCHANGED <<joined, next, have, commits, starts, netVars, mailVars>>

(* A node that has not joined ends and is started again: new request id,   *)
(* empty tables, and the bits of the transport back to 0 at this end only. *)
(* What its transport had taken and its loop not handled is gone.          *)
Restart(j) ==
    /\ j \notin joined /\ starts[j] < MaxRestarts
    /\ starts' = [starts EXCEPT ![j] = @ + 1]
    /\ token' = [token EXCEPT ![j] = None]
    /\ topo' = [topo EXCEPT ![j] = 0]
    /\ js' = [js EXCEPT ![j] = EmptyJoinState]
    /\ cli' = [cli EXCEPT ![j] = None]
    /\ fifo' = [fifo EXCEPT ![j] = << >>]
    /\ net' = {m \in net : m.to # j}
    /\ sbit' = {p \in sbit : p[1] # j}
    /\ dup' = {p \in Node \X Node :
                  IF p[1] = j THEN (p \in sbit) # (p \in dup)
                  ELSE IF p[2] = j THEN p \in sbit
                  ELSE p \in dup}
    /\ UNCHANGED <<ringVars, have, infl, acks, commits, losses, written, received>>

-----------------------------------------------------------------------------
(* The token and the messages it carries.                                  *)

(* handle_token_unicast: a node that has not joined does not take it.      *)
RecvToken(n, m) ==
    LET newer == n \in joined /\ m.topo > topo[n]
    IN  /\ m.type = "token" /\ m.to = n
        /\ token' = [token EXCEPT ![n] = [body |-> m.body, topo |-> m.topo]]
        /\ have' = IF n \in joined THEN have \cup {n} ELSE have
        /\ topo' = [topo EXCEPT ![n] = IF newer THEN m.topo ELSE @]
        /\ js' = [js EXCEPT ![n] = IF newer THEN DropOldestPendingJoins(@, @.count) ELSE @]
        /\ Transmit({}, {m})
        /\ UNCHANGED <<ringVars, infl, acks, commits, starts, losses, mailVars>>

(* The message on the token is for n: it is reported and the token emptied.*)
MailForMe(n) == token[n].body # None /\ token[n].body.to = n

(* Variant: is_empty is not set after the report.                          *)
BodyAfterReport_Kept(n) == token[n].body

(* Variant: the token is emptied whoever the receiver is.                  *)
BodyAfterReport_Dropped(n) == None

BodyAfterReport(n) == IF MailForMe(n) THEN None ELSE token[n].body

CanAttach(n) == BodyAfterReport(n) = None

(* Variant: have_token stays set.                                          *)
AfterTokenSend_Kept(n, ok) ==
    /\ have' = have
    /\ token' = IF ok THEN [token EXCEPT ![n] = None] ELSE token

AfterTokenSend(n, ok) ==
    /\ have' = IF ok THEN have \ {n} ELSE have
    /\ token' = IF ok THEN [token EXCEPT ![n] = None] ELSE token

(* ring_on_token.  When the send fails the token stays, but the message    *)
(* taken from the CLI is already cleared.                                  *)
PassToken(n) ==
    LET load   == CliAfterRead(n)
        attach == CanAttach(n) /\ load # None
        msg    == [type |-> "token", from |-> n, to |-> next[n],
                   body |-> IF attach THEN load ELSE BodyAfterReport(n),
                   topo |-> IF attach THEN topo[n] ELSE token[n].topo]
    IN  /\ TokenReady(n)
        /\ js[n].count = 0
        /\ fifo' = [fifo EXCEPT ![n] = FifoAfterRead(n)]
        /\ cli' = [cli EXCEPT ![n] = IF attach THEN None ELSE load]
        /\ received' = IF MailForMe(n) THEN [received EXCEPT ![token[n].body] = @ + 1]
                       ELSE received
        /\ \E o \in TokenSend(IsDup(n, next[n]), Budget) :
              /\ Transmit({[msg |-> msg, out |-> o]}, {})
              /\ losses' = losses + o.lost
              /\ AfterTokenSend(n, o.lost = 0)
        /\ UNCHANGED <<ringVars, topo, joinVars, written>>

(* An iteration that has no turn with the token still reads the CLI.       *)
CliRead(n) ==
    /\ CliReady(n) /\ ~TokenReady(n)
    /\ cli' = [cli EXCEPT ![n] = CliAfterRead(n)]
    /\ fifo' = [fifo EXCEPT ![n] = FifoAfterRead(n)]
    /\ UNCHANGED <<ringVars, have, token, topo, joinVars, netVars, written, received>>

(* writer.c: a user writes a message into the node's FIFO.                 *)
Write(m) ==
    /\ m \notin written
    /\ written' = written \cup {m}
    /\ fifo' = [fifo EXCEPT ![m.from] = Append(@, m)]
    /\ UNCHANGED <<ringVars, have, token, topo, joinVars, netVars, cli, received>>

-----------------------------------------------------------------------------

Next ==
    \/ \E n, j \in Node : HandleJoinRequest(n, j)
    \/ \E n \in Node : \E m \in net : RecvToken(n, m)
    \/ \E n \in Node : \E m \in net : RecvAccept(n, m)
    \/ \E n \in Node : \E m \in net : RecvAck(n, m)
    \/ \E n \in Node : \E m \in net : RecvAckAck(n, m)
    \/ \E n \in Node : \E c \in commits : HandleJoinCommit(n, c)
    \/ \E n \in Node : Prune(n)
    \/ \E n \in Node : InflightTick(n)
    \/ \E n \in Node : StartJoin(n)
    \/ \E n \in Node : AckSenderTick(n)
    \/ \E n \in Node : Restart(n)
    \/ \E n \in Node : PassToken(n)
    \/ \E n \in Node : CliRead(n)
    \/ \E m \in Mail : Write(m)

Spec == Init /\ [][Next]_vars

(* Every loop keeps running: what is in the sockets is handled, timers     *)
(* fire, and the token in hand gets its turn.  A request is broadcast over *)
(* and over, so each node eventually hears it.                             *)
Fairness ==
    \A n \in Node :
        /\ WF_vars(\E m \in net : RecvToken(n, m))
        /\ WF_vars(\E m \in net : RecvAccept(n, m))
        /\ WF_vars(\E m \in net : RecvAck(n, m))
        /\ WF_vars(\E m \in net : RecvAckAck(n, m))
        /\ WF_vars(InflightTick(n))
        /\ WF_vars(AckSenderTick(n))
        /\ WF_vars(StartJoin(n))
        /\ WF_vars(PassToken(n))
        /\ WF_vars(CliRead(n))
        /\ \A j \in Node : SF_vars(HandleJoinRequest(n, j))

FairSpec == Spec /\ Fairness

-----------------------------------------------------------------------------

UnicastMsg ==
    [type : {"token"}, from : Node, to : Node, body : Mail \cup {None}, topo : Nat]
    \cup [type : {"accept"}, from : Node, to : Node, new : Node, req : Req, prev : Node]
    \cup [type : {"ack", "ackack"}, from : Node, to : Node, req : Req]

(* Every field has its type, and so has everything under way.              *)
TypeOK ==
    /\ joined \subseteq Node /\ have \subseteq Node
    /\ token \in [Node -> [body : Mail \cup {None}, topo : Nat] \cup {None}]
    /\ next \in [Node -> Node \cup {None}] /\ prev \in [Node -> Node \cup {None}]
    /\ topo \in [Node -> Nat]
    /\ js \in [Node -> JoinStateType]
    /\ infl \in [Node -> [joiner : Node, req : Req, prev : Node, got : SUBSET Both] \cup {None}]
    /\ acks \in [Node -> [req : Req, coord : Node, retries : Nat] \cup {None}]
    /\ net \subseteq UnicastMsg /\ losses \in Nat
    /\ dup \subseteq Node \X Node /\ sbit \subseteq Node \X Node
    /\ commits \subseteq [name : Node, req : Req, topo : Nat]
    /\ starts \in [Node -> 0 .. MaxRestarts]
    /\ fifo \in [Node -> Seq(Mail)] /\ cli \in [Node -> Mail \cup {None}]
    /\ written \subseteq Mail /\ received \in [Mail -> Nat]

InTransit == {m \in net : m.type = "token"}

(* docs/final.md:25: "there must always be one and only one token".  Two   *)
(* loops never both believe they hold it, and none is under way while one  *)
(* is held: not through retransmission, not through a join.                *)
AtMostOneToken ==
    /\ \A m, n \in have : m = n
    /\ \A s, t \in InTransit : s = t
    /\ have = {} \/ InTransit = {}

(* The other half: no hand-over loses the token, neither as a duplicate in *)
(* the transport nor in a node that has not joined yet.  It is lost where  *)
(* a limited send fails after delivery ("lostAck") and where a message is  *)
(* thrown away after its acknowledgement ("ackedLost").                    *)
TokenNotLost == have # {} \/ InTransit # {}

(* Only the token holder coordinates a join, until the join is through:    *)
(* the token does not move while neighbours are being rewired.             *)
CoordinatorHoldsToken == \A n \in Node : infl[n] # None => n \in have

(* The nodes of the ring are the joined ones, except a joiner still in     *)
(* flight; their successors skip it.                                       *)
Joining == {infl[n].joiner : n \in {k \in Node : infl[k] # None}}

Members == joined \ Joining

Successor(n) ==
    IF next[n] \in Joining
    THEN CHOOSE k \in Node : infl[k] # None /\ infl[k].joiner = next[n]
    ELSE next[n]

(* Where the token is, or where it is going.                               *)
TokenAt ==
    IF have # {} THEN CHOOSE n \in have : TRUE
    ELSE IF InTransit # {} THEN (CHOOSE m \in InTransit : TRUE).to
    ELSE None

Abstract == INSTANCE TokenRing WITH
    members <- Members,
    succ    <- [n \in Node |-> IF n \in Members THEN Successor(n) ELSE None],
    at      <- TokenAt

(* At every moment, joins in progress included, the members form one       *)
(* cycle, and each knows its predecessor.                                  *)
RingIntact ==
    /\ Abstract!OneRing
    /\ \A n \in Members : prev[Successor(n)] = n

(* docs/final.md:72: joining links "a new node into the ring without       *)
(* losing or duplicating the token".  With no join under way, the token    *)
(* handed from next to next visits every joined node.                      *)
RingClosed ==
    Joining = {} =>
        \A S \in SUBSET joined :
            S # {} /\ (\A n \in S : next[n] \in S) => S = joined

(* The token is never behind a node's knowledge of the ring, and its       *)
(* version is the number of nodes that have joined: each join is counted   *)
(* once, whoever coordinated it.                                           *)
VersionCountsJoins ==
    \A v \in {token[n].topo : n \in have} \cup {m.topo : m \in InTransit} :
        /\ v = Cardinality(Members) - Cardinality(Member0)
        /\ \A n \in Node : topo[n] <= v

(* The protocol implements the abstract ring: whatever messages it takes,  *)
(* a join is one insertion before the token and a hand-over one step of    *)
(* the token to the successor.                                             *)
ImplementsTokenRing == Abstract!Spec

(* A message, once written, is in the FIFO, taken from it, on the token or *)
(* received: it does not get lost on the way.                              *)
MailConserved ==
    \A m \in written :
        \/ \E n \in Node : (\E i \in 1 .. Len(fifo[n]) : fifo[n][i] = m) \/ cli[n] = m
        \/ \E n \in have : token[n].body = m
        \/ \E t \in InTransit : t.body = m
        \/ received[m] > 0

(* No message is reported to its receiver twice.                           *)
MailOnce == \A m \in Mail : received[m] <= 1

(* Every node, the ones that still have to join included, holds the token  *)
(* again and again.                                                        *)
EveryoneServed == \A n \in Node : []<>(n \in have)

(* A message a user writes reaches its receiver.                           *)
MailArrives == \A m \in Mail : (m \in written) ~> (received[m] > 0)

=============================================================================
