-------------------------------- MODULE Rudp --------------------------------
(***************************************************************************)
(* The reliable transport (rudp.c), frame by frame: an alternating bit per *)
(* peer and direction, MESSAGE / ACK / ACK_ACK, and the array of pending   *)
(* frames in which a node keeps what arrives while it waits for something  *)
(* else.  A node is single-threaded: while rudp_sendto or rudp_recvfrom    *)
(* waits for a frame, wait_for_frame is the only reader of the socket.     *)
(*                                                                         *)
(* UDP loses frames; the frames of one node to another stay in order.  A   *)
(* frame under way and a frame in the socket's buffer are not told apart,  *)
(* so a read that does not wait may find nothing (EAGAIN) at any time.     *)
(***************************************************************************)
EXTENDS Integers, Sequences, FiniteSets, FiniteSetsExt, Functions

CONSTANTS
    Node,
    None,       \* an unused slot
    Work,       \* Work[n]: the sends n performs, in order: [to, limit]
    Attempts,   \* MAX_TRANSMISION_ATTEMPTS
    MaxPending, \* MAX_RUDP_PENDING
    MaxLoss,    \* bound: frames lost
    MaxErrors,  \* bound: errors of sendto while a message is sent
    MaxFlight,  \* bound: a message is not repeated while so many are under way
    Timely      \* TRUE: a timer runs out only when the peer is silent

Msg == UNION {{<<n, i>> : i \in 1 .. Len(Work[n])} : n \in Node}

Frame ==
    [type : {"MESSAGE"}, bit : 0 .. 1, msg : Msg]
    \cup [type : {"ACK", "ACK_ACK"}, bit : 0 .. 1]

Slot == 0 .. MaxPending - 1

ASSUME RudpAssumption ==
    /\ Attempts \in Nat \ {0}
    /\ MaxPending \in Nat \ {0}
    /\ MaxLoss \in Nat /\ MaxErrors \in Nat /\ MaxFlight \in Nat
    /\ Timely \in BOOLEAN
    /\ DOMAIN Work = Node
    /\ \A n \in Node : Work[n] \in Seq([to : Node \ {n}, limit : Nat])
    /\ None \notin [from : Node, frame : Frame]

VARIABLES
    chan,      \* chan[<<a, b>>]: frames from a that b has not read yet
    pend,      \* pending_frames
    sbit,      \* sbit[<<a, b>>]: send_seq_bit of a for b
    ebit,      \* ebit[<<a, b>>]: expected_seq_bit of b for a
    op,        \* the call a node is in
    sent,      \* sends a node has started
    outcome,   \* what they returned: "ok" or "failed"
    got,       \* messages rudp_recvfrom has returned
    losses,    \* frames lost so far
    errors     \* errors of sendto so far

vars == <<chan, pend, sbit, ebit, op, sent, outcome, got, losses, errors>>

Idle == [at |-> "idle"]   \* in the select loop
Recv == [at |-> "recv"]   \* at the top of the loop in rudp_recvfrom
Skip == [at |-> "skip"]   \* at the read after a duplicate

Init ==
    /\ chan = [p \in Node \X Node |-> << >>]
    /\ pend = [n \in Node |-> [i \in Slot |-> None]]
    /\ sbit = [p \in Node \X Node |-> 0]
    /\ ebit = [p \in Node \X Node |-> 0]
    /\ op = [n \in Node |-> Idle]
    /\ sent = [n \in Node |-> 0]
    /\ outcome = [n \in Node |-> << >>]
    /\ got = [n \in Node |-> << >>]
    /\ losses = 0 /\ errors = 0

-----------------------------------------------------------------------------
(* pending_frames                                                          *)

Message(bit, msg) == [type |-> "MESSAGE", bit |-> bit, msg |-> msg]
Control(type, bit) == [type |-> type, bit |-> bit]

Full(p) == \A i \in Slot : p[i] # None

(* Variant: only control frames are kept.                                  *)
PendingStore_NoMessages(p, a, f) ==
    IF f.type = "MESSAGE" \/ Full(p) THEN p
    ELSE [p EXCEPT ![Min({i \in Slot : p[i] = None})] = [from |-> a, frame |-> f]]

(* Variant: repetitions of a control frame are stored like messages.       *)
PendingStore_Repeated(p, a, f) ==
    IF Full(p) THEN p
    ELSE [p EXCEPT ![Min({i \in Slot : p[i] = None})] = [from |-> a, frame |-> f]]

(* A control frame that is there already is not stored twice; otherwise    *)
(* the first free slot is taken, and a full array drops the frame.         *)
PendingStore(p, a, f) ==
    LET entry == [from |-> a, frame |-> f]
        known == f.type # "MESSAGE" /\ \E i \in Slot : p[i] = entry
    IN  IF known \/ Full(p) THEN p
        ELSE [p EXCEPT ![Min({i \in Slot : p[i] = None})] = entry]

(* Variant: every frame of the peer is dropped.                            *)
PendingDrop_AllTypes(p, a, types) ==
    [i \in Slot |-> IF p[i] # None /\ p[i].from = a THEN None ELSE p[i]]

(* Variant: nothing is dropped.                                            *)
PendingDrop_Nothing(p, a, types) == p

PendingDrop(p, a, types) ==
    [i \in Slot |-> IF p[i] # None /\ p[i].from = a /\ p[i].frame.type \in types
                    THEN None ELSE p[i]]

(* The slots pending_take_message_any and pending_take_frame look for.     *)
MessageSlots(p) == {i \in Slot : p[i] # None /\ p[i].frame.type = "MESSAGE"}

ControlSlots(p, a, f) == {i \in Slot : p[i] = [from |-> a, frame |-> f]}

-----------------------------------------------------------------------------
(* The socket                                                              *)

(* n sends `copies' times the frame f to b; some are lost.  The channels   *)
(* before the step's sends are c.                                          *)
Transmit(n, b, f, copies, c) ==
    \E k \in 0 .. copies :
        /\ losses + (copies - k) <= MaxLoss
        /\ losses' = losses + (copies - k)
        /\ chan' = [c EXCEPT ![<<n, b>>] = @ \o [i \in 1 .. k |-> f]]

Readable(a, n) == chan[<<a, n>>] # << >>

ReadFrom(a, n) == [chan EXCEPT ![<<a, n>>] = Tail(@)]

-----------------------------------------------------------------------------
(* rudp_sendto_with_limits                                                 *)

(* sendto fails: -1, and the bit stays as it was.                          *)
SendError(n) ==
    /\ errors < MaxErrors /\ errors' = errors + 1
    /\ op' = [op EXCEPT ![n] = Idle]
    /\ outcome' = [outcome EXCEPT ![n] = Append(@, "failed")]

StartSend(n) ==
    LET w   == Work[n][sent[n] + 1]
        msg == <<n, sent[n] + 1>>
        bit == sbit[<<n, w.to>>]
    IN  /\ op[n] = Idle /\ sent[n] < Len(Work[n])
        /\ sent' = [sent EXCEPT ![n] = @ + 1]
        /\ pend' = [pend EXCEPT ![n] = PendingDrop(@, w.to, {"ACK", "ACK_ACK"})]
        /\ \/ /\ Transmit(n, w.to, Message(bit, msg), 1, chan)
              /\ op' = [op EXCEPT ![n] = [at |-> "waitAck", peer |-> w.to, bit |-> bit,
                                          msg |-> msg, limit |-> w.limit, tries |-> 0]]
              /\ UNCHANGED <<outcome, errors>>
           \/ SendError(n) /\ UNCHANGED <<chan, losses>>
        /\ UNCHANGED <<sbit, ebit, got>>

(* Variant: the bit is complemented before the ACK_ACKs are sent.          *)
BitAfterError_Complemented(bit) == 1 - bit

BitAfterError(bit) == bit

(* The acknowledgement is there: the ACK_ACKs go out, with a pause and no  *)
(* look at the socket between them.  An error in between makes the send    *)
(* fail, although the receiver has the message.                            *)
FinishSend(n, c) ==
    LET x      == op[n]
        ackAck == Control("ACK_ACK", x.bit)
    IN  /\ \/ /\ Transmit(n, x.peer, ackAck, Attempts, c)
              /\ sbit' = [sbit EXCEPT ![<<n, x.peer>>] = 1 - @]
              /\ outcome' = [outcome EXCEPT ![n] = Append(@, "ok")]
              /\ op' = [op EXCEPT ![n] = Idle]
              /\ UNCHANGED errors
           \/ /\ \E k \in 0 .. Attempts - 1 : Transmit(n, x.peer, ackAck, k, c)
              /\ sbit' = [sbit EXCEPT ![<<n, x.peer>>] = BitAfterError(@)]
              /\ SendError(n)
        /\ UNCHANGED <<pend, ebit, got>>

(* No acknowledgement in time: again, or -1 with the bit as it was.  The   *)
(* attempts are counted only where they are limited.                       *)
SendTimeout(n) ==
    LET x     == op[n]
        again == x.limit = 0 \/ x.tries + 1 < x.limit
    IN  /\ \/ /\ again
              /\ Len(chan[<<n, x.peer>>]) < MaxFlight
              /\ op' = [op EXCEPT ![n].tries = IF x.limit = 0 THEN 0 ELSE @ + 1]
              /\ Transmit(n, x.peer, Message(x.bit, x.msg), 1, chan)
              /\ UNCHANGED <<outcome, errors>>
           \/ again /\ SendError(n) /\ UNCHANGED <<chan, losses>>
           \/ /\ ~again
              /\ op' = [op EXCEPT ![n] = Idle]
              /\ outcome' = [outcome EXCEPT ![n] = Append(@, "failed")]
              /\ UNCHANGED <<chan, losses, errors>>
        /\ UNCHANGED <<pend, sbit, ebit, sent, got>>

-----------------------------------------------------------------------------
(* rudp_recvfrom                                                           *)

(* Variant: the bit is not compared.                                       *)
IsNew_Always(n, a, f) == TRUE

IsNew(n, a, f) == f.bit = ebit[<<a, n>>]

(* Variant: expected_seq_bit is left alone.                                *)
NextExpected_Same(bit) == bit

NextExpected(bit) == 1 - bit

(* The exchange is over, acknowledged or given up: a new message is        *)
(* returned; after a duplicate the code reads on.                          *)
FinishRecv(n, x) ==
    IF x.new
    THEN /\ ebit' = [ebit EXCEPT ![<<x.peer, n>>] = NextExpected(@)]
         /\ got' = [got EXCEPT ![n] = Append(@, x.msg)]
         /\ op' = [op EXCEPT ![n] = Idle]
    ELSE /\ op' = [op EXCEPT ![n] = Skip]
         /\ UNCHANGED <<ebit, got>>

(* A MESSAGE from a is in hand, with the pending frames p and the channels *)
(* c left: acknowledge it and wait, unless its ACK_ACK is already here.    *)
BeginRecv(n, a, f, p, c) ==
    LET x    == [at |-> "waitAckAck", peer |-> a, bit |-> f.bit, msg |-> f.msg,
                 new |-> IsNew(n, a, f), tries |-> 0]
        here == ControlSlots(p, a, Control("ACK_ACK", f.bit))
    IN  /\ Transmit(n, a, Control("ACK", f.bit), 1, c)
        /\ IF here # {}
           THEN /\ pend' = [pend EXCEPT ![n] = [p EXCEPT ![Min(here)] = None]]
                /\ FinishRecv(n, x)
           ELSE /\ pend' = [pend EXCEPT ![n] = p]
                /\ op' = [op EXCEPT ![n] = x]
                /\ UNCHANGED <<ebit, got>>
        /\ UNCHANGED <<sbit, sent, outcome, errors>>

(* receive_message_frame: pending messages come before the socket.         *)
RecvPending(n) ==
    LET i == Min(MessageSlots(pend[n]))
    IN  /\ op[n] \in {Idle, Recv}
        /\ MessageSlots(pend[n]) # {}
        /\ BeginRecv(n, pend[n][i].from, pend[n][i].frame,
                     [pend[n] EXCEPT ![i] = None], chan)

RecvMessage(n, a) ==
    LET f == Head(chan[<<a, n>>])
    IN  /\ op[n] \in {Idle, Recv}
        /\ MessageSlots(pend[n]) = {}
        /\ Readable(a, n) /\ f.type = "MESSAGE"
        /\ BeginRecv(n, a, f, pend[n], ReadFrom(a, n))

RecvControl(n, a) ==
    LET f == Head(chan[<<a, n>>])
    IN  /\ op[n] \in {Idle, Recv, Skip}
        /\ MessageSlots(pend[n]) = {}
        /\ Readable(a, n) /\ f.type # "MESSAGE"
        /\ pend' = [pend EXCEPT ![n] = PendingStore(@, a, f)]
        /\ chan' = ReadFrom(a, n)
        /\ UNCHANGED <<sbit, ebit, op, sent, outcome, got, losses, errors>>

(* The read after a duplicate: the message it finds is overwritten by the  *)
(* read at the top of the loop.                                            *)
SkipMessage(n) ==
    /\ op[n] = Skip
    /\ \/ /\ MessageSlots(pend[n]) # {}
          /\ pend' = [pend EXCEPT ![n][Min(MessageSlots(pend[n]))] = None]
          /\ chan' = chan
       \/ /\ MessageSlots(pend[n]) = {}
          /\ \E a \in Node :
                /\ Readable(a, n) /\ Head(chan[<<a, n>>]).type = "MESSAGE"
                /\ chan' = ReadFrom(a, n)
          /\ pend' = pend
    /\ op' = [op EXCEPT ![n] = Recv]
    /\ UNCHANGED <<sbit, ebit, sent, outcome, got, losses, errors>>

(* EAGAIN: rudp_recvfrom returns 1.                                        *)
NothingToRead(n) ==
    /\ op[n] \in {Recv, Skip}
    /\ MessageSlots(pend[n]) = {}
    /\ op' = [op EXCEPT ![n] = Idle]
    /\ UNCHANGED <<chan, pend, sbit, ebit, sent, outcome, got, losses, errors>>

(* Variant: `<=' for `<'.                                                  *)
AttemptsLeft_OneMore(x) == x.tries + 1 <= Attempts

AttemptsLeft(x) == x.tries + 1 < Attempts

RecvTimeout(n) ==
    LET x == op[n]
    IN  /\ IF AttemptsLeft(x)
           THEN /\ op' = [op EXCEPT ![n].tries = @ + 1]
                /\ Transmit(n, x.peer, Control("ACK", x.bit), 1, chan)
                /\ UNCHANGED <<ebit, got>>
           ELSE FinishRecv(n, x) /\ UNCHANGED <<chan, losses>>
        /\ UNCHANGED <<pend, sbit, sent, outcome, errors>>

-----------------------------------------------------------------------------
(* wait_for_frame                                                          *)

Waiting(n) == op[n].at \in {"waitAck", "waitAckAck"}

Expected(n, a, f) ==
    /\ a = op[n].peer
    /\ f = Control(IF op[n].at = "waitAck" THEN "ACK" ELSE "ACK_ACK", op[n].bit)

WaitMatch(n, a) ==
    /\ Waiting(n) /\ Readable(a, n)
    /\ Expected(n, a, Head(chan[<<a, n>>]))
    /\ \/ /\ op[n].at = "waitAck"
          /\ FinishSend(n, ReadFrom(a, n))
          /\ UNCHANGED sent
       \/ /\ op[n].at = "waitAckAck"
          /\ FinishRecv(n, op[n])
          /\ chan' = ReadFrom(a, n)
          /\ UNCHANGED <<pend, sbit, sent, outcome, losses, errors>>

(* Variant: a message has to wait for rudp_recvfrom.                       *)
EarlyAck_Never(n, f) == FALSE

(* A stored message is acknowledged at once, so that nodes sending to each *)
(* other do not wait for ever.                                             *)
EarlyAck(n, f) == f.type = "MESSAGE" /\ ~Full(pend[n])

(* Anything but the expected frame is kept for later.                      *)
WaitStore(n, a) ==
    LET f == Head(chan[<<a, n>>])
    IN  /\ Waiting(n) /\ Readable(a, n)
        /\ ~Expected(n, a, f)
        /\ pend' = [pend EXCEPT ![n] = PendingStore(@, a, f)]
        /\ IF EarlyAck(n, f)
           THEN Transmit(n, a, Control("ACK", f.bit), 1, ReadFrom(a, n))
           ELSE chan' = ReadFrom(a, n) /\ UNCHANGED losses
        /\ UNCHANGED <<sbit, ebit, op, sent, outcome, got, errors>>

(* When Timely, nothing between the two is under way or unread; and since  *)
(* Attempts * TIMEOUT_USEC is less than any ack_timeout_us in use, a peer  *)
(* in its exchange with n repeats its ACK before n repeats the message.    *)
(* That is an assumption on delays: the code also leaves a frame unread    *)
(* while it sends its ACK_ACKs (rudp.c:148) or sleeps (ring.c:166).        *)
PeerSilent(n) ==
    LET b == op[n].peer
    IN  /\ ~Readable(n, b) /\ ~Readable(b, n)
        /\ op[n].at = "waitAck" => ~(op[b].at = "waitAckAck" /\ op[b].peer = n)

(* select returns 0.                                                       *)
Timeout(n) ==
    /\ Waiting(n)
    /\ Timely => PeerSilent(n)
    /\ \/ op[n].at = "waitAck" /\ SendTimeout(n)
       \/ op[n].at = "waitAckAck" /\ RecvTimeout(n)

-----------------------------------------------------------------------------

Receive(n) ==
    \/ RecvPending(n)
    \/ \E a \in Node : RecvMessage(n, a)
    \/ \E a \in Node : RecvControl(n, a)
    \/ SkipMessage(n)
    \/ NothingToRead(n)

Wait(n) == \E a \in Node : WaitMatch(n, a) \/ WaitStore(n, a)

Next == \E n \in Node : StartSend(n) \/ Receive(n) \/ Wait(n) \/ Timeout(n)

Spec == Init /\ [][Next]_vars

(* A loop keeps running and a timer fires; a node in its loop both reads   *)
(* its socket and gets on with its own sends.                              *)
Fairness ==
    \A n \in Node :
        /\ SF_vars(StartSend(n))
        /\ WF_vars(Receive(n))
        /\ WF_vars(Wait(n))
        /\ WF_vars(Timeout(n))

FairSpec == Spec /\ Fairness

-----------------------------------------------------------------------------

(* Every field has its type; an ACK is repeated less than Attempts times.  *)
TypeOK ==
    /\ chan \in [Node \X Node -> Seq(Frame)]
    /\ pend \in [Node -> [Slot -> [from : Node, frame : Frame] \cup {None}]]
    /\ sbit \in [Node \X Node -> 0 .. 1] /\ ebit \in [Node \X Node -> 0 .. 1]
    /\ op \in [Node ->
          {Idle, Recv, Skip}
          \cup [at : {"waitAck"}, peer : Node, bit : 0 .. 1, msg : Msg, limit : Nat, tries : Nat]
          \cup [at : {"waitAckAck"}, peer : Node, bit : 0 .. 1, msg : Msg, new : BOOLEAN,
                tries : 0 .. Attempts - 1]]
    /\ sent \in [Node -> Nat] /\ outcome \in [Node -> Seq({"ok", "failed"})]
    /\ got \in [Node -> Seq(Msg)] /\ losses \in Nat /\ errors \in Nat

GotSet(n) == {got[n][i] : i \in 1 .. Len(got[n])}

(* The bit of n's i-th send was not left behind by a failed send before.   *)
InStep(n, i) ==
    LET before == {k \in 1 .. i - 1 : Work[n][k].to = Work[n][i].to}
    IN  before # {} => outcome[n][Max(before)] = "ok"

(* However often the ACK and ACK_ACK of an exchange are repeated, they     *)
(* take one slot each of pending_frames, so the control frames of a peer   *)
(* never take more than four from its messages.                            *)
ControlKeptOnce ==
    \A n \in Node : \A i, k \in Slot :
        /\ pend[n][i] # None /\ pend[n][i].frame.type # "MESSAGE"
        /\ pend[n][i] = pend[n][k]
        => i = k

(* wait_for_frame looks through pending_frames whenever it is called: only *)
(* the first call of an exchange can find something there.  In particular  *)
(* an ACK kept from before never answers the message that is being sent.   *)
AwaitedNotPending ==
    \A n \in Node : Waiting(n) =>
        \A i \in Slot : pend[n][i] # None => ~Expected(n, pend[n][i].from, pend[n][i].frame)

(* docs/final.md:75: the layer detects "the loss of a packet" and repeats  *)
(* it.  A send that returned 0 means that the receiver has the message:    *)
(* returned to its loop, in the exchange under way, or pending.  The first *)
(* send after a failed one is excepted: it may be taken for the failed one.*)
AckedNotLost ==
    \A n \in Node : \A i \in 1 .. Len(outcome[n]) :
        LET b == Work[n][i].to
            m == <<n, i>>
        IN  outcome[n][i] = "ok" /\ InStep(n, i) =>
                \/ m \in GotSet(b)
                \/ op[b].at = "waitAckAck" /\ op[b].msg = m /\ op[b].new
                \/ \E s \in MessageSlots(pend[b]) : pend[b][s].frame.msg = m

(* Of one sender, a message comes after those sent before it, and once.    *)
InSendOrder(msgs) ==
    \A i, j \in 1 .. Len(msgs) :
        i < j /\ msgs[i][1] = msgs[j][1] => msgs[i][2] < msgs[j][2]

(* rudp_recvfrom returns one sender's messages in the order of the sends   *)
(* and none of them twice, whatever was lost, repeated or pending.         *)
InOrder == \A n \in Node : InSendOrder(got[n])

(* With nothing between the two under way, sender and receiver agree on    *)
(* the bit, unless the last send failed.                                   *)
BitsAgree ==
    \A a \in Node : \A b \in Node \ {a} :
        LET mine == {i \in 1 .. sent[a] : Work[a][i].to = b}
        IN  (/\ Len(outcome[a]) = sent[a]
             /\ mine # {} => outcome[a][Max(mine)] = "ok"
             /\ ~(op[b].at = "waitAckAck" /\ op[b].peer = a)
             /\ \A s \in MessageSlots(pend[b]) : pend[b][s].from # a)
            => sbit[<<a, b>>] = ebit[<<a, b>>]

(* Every send returns, although all nodes may be sending at once and a     *)
(* node that sends does not handle what it receives.                       *)
SendsReturn == \A n \in Node : <>(Len(outcome[n]) = Len(Work[n]))

(* A send that returned 0 makes the receiver's loop get the message.       *)
AckedArrives ==
    \A n \in Node : \A i \in 1 .. Len(Work[n]) :
        (Len(outcome[n]) >= i /\ outcome[n][i] = "ok" /\ InStep(n, i))
            ~> (<<n, i>> \in GotSet(Work[n][i].to))

-----------------------------------------------------------------------------
(* The transport as the ring sees it.                                      *)

(* A node at the pending frame m, with r.msgs returned so far: where it    *)
(* is to skip a message, it skips this one; a duplicate makes it skip one. *)
Look(r, m) ==
    IF m = None \/ m.frame.type # "MESSAGE" THEN r
    ELSE IF r.skip THEN [r EXCEPT !.skip = FALSE]
    ELSE IF m.frame.bit # r.bit[m.from] THEN [r EXCEPT !.skip = TRUE]
    ELSE [r EXCEPT !.bit[m.from] = 1 - @, !.msgs = Append(@, m.frame.msg)]

(* What b has returned, followed by what it will return of the messages it *)
(* has if no other comes.  (With EXCEPT, TLC looks at each slot once.)     *)
Returns(b) ==
    LET x == op[b]
        mine == [a \in Node |-> ebit[<<a, b>>]]
        first == IF x.at = "waitAckAck" /\ x.new
                 THEN [bit |-> [mine EXCEPT ![x.peer] = 1 - @],
                       msgs |-> Append(got[b], x.msg), skip |-> FALSE]
                 ELSE [bit |-> mine, msgs |-> got[b], skip |-> x.at \in {"waitAckAck", "skip"}]
        upto[i \in 0 .. MaxPending] ==
            IF i = 0 THEN [n \in {b} |-> first]
            ELSE [upto[i - 1] EXCEPT ![b] = Look(@, pend[b][i - 1])]
    IN  upto[MaxPending][b].msgs

(* An old message, or a second copy of one, is returned after a younger    *)
(* one, or will be.  Run rudp_late_copy shows that this happens.           *)
OutOfOrder == \E b \in Node : ~InSendOrder(Returns(b))

(* The i-th send of n.                                                     *)
SendOf(n, i) ==
    [from |-> n, nr |-> i, to |-> Work[n][i].to, limited |-> Work[n][i].limit > 0]

Sends == UNION {{SendOf(n, i) : i \in 1 .. sent[n]} : n \in Node}

Returned(result) ==
    {s \in Sends : s.nr <= Len(outcome[s.from]) /\ outcome[s.from][s.nr] = result}

Taken == UNION {{SendOf(m[1], m[2]) : m \in Range(Returns(b))} : b \in Node}

Abstract == INSTANCE Channel WITH
    Faults <- {"lostAck", "sendError", "ackAckError", "ackedLost"},
    sent   <- Sends,
    acked  <- Returned("ok"),
    failed <- Returned("failed"),
    taken  <- Taken,
    handed <- [n \in Node |-> [i \in 1 .. Len(got[n]) |-> SendOf(got[n][i][1], got[n][i][2])]]

(* The transport has the outcomes that module Ring gives a send, and no    *)
(* others: what a send returned fits what the receiver took and how the    *)
(* two bits stand, a message is taken in its turn or not at all, and       *)
(* returned to the loop at most once.  Steps into, out of and between      *)
(* states in which a message is OutOfOrder are excepted: module Ring has   *)
(* no fault for them.                                                      *)
ImplementsChannel ==
    /\ Abstract!Init
    /\ [][UNCHANGED Abstract!vars \/ OutOfOrder \/ OutOfOrder' \/ Abstract!Next]_vars

=============================================================================
